---------------------------------- MODULE Eth ----------------------------------
(***************************************************************************)
(* The Ethernet driver (device/eth): the rings of receive and transmit      *)
(* descriptors, shared with the DMA engine, the interrupt handler, the      *)
(* reader, the writers and the list of multicast addresses.                 *)
(*                                                                          *)
(* A descriptor belongs to the DMA or to the driver (the OWN bit).  read(),  *)
(* write() and control() keep interrupts off, so that a call is one step up *)
(* to its wait() and one from there on.  The device does not wait for       *)
(* either: it raises the interrupt as long as one of its two status bits is *)
(* set, and goes on while the handler runs.                                 *)
(***************************************************************************)
EXTENDS Semaphores, FiniteSets

CONSTANTS
    Reader,          \* netin
    Writer,          \* ipout, and whoever else sends
    RxRing, TxRing,  \* sizes of the rings
    Mine,            \* destinations that are always accepted: devAddress, ethbcast
    Mcast,           \* multicast addresses
    ETH_NUM_MCAST

\* The rings have a descriptor each at least; netin does not write.
ASSUME EthAssumption ==
    /\ RxRing \in Nat \ {0} /\ TxRing \in Nat \ {0}
    /\ IsFiniteSet(Writer)
    /\ Reader \notin Writer

VARIABLES
    rx, tx,      \* rings: cells, head, tail, next cell of the DMA, semaphore
    sr,          \* status bits that are set, among "TI" and "RI"
    handler,     \* "TI" or "RI": acknowledged, descriptors not looked at yet
    call,        \* where the reader and the writers are
    mca,         \* ed_mca, the first ed_mcc entries
    unread,      \* history: frames in the ring that ethread() has not looked at
    unsent,      \* history: whose frames are to be sent, in the order of their descriptors
    halted       \* what has gone out of step, "no" as long as nothing has

evars == <<rx, tx, sr, handler, call, mca, unread, unsent, halted>>

NoFrame == "none"
Cell(own) == [own |-> own, frame |-> NoFrame]

ethinit ==
    /\ rx = [cell |-> [i \in 0..(RxRing - 1) |-> Cell(TRUE)], head |-> 0, tail |-> 0, dma |-> 0,
             sem |-> Semaphore(0)]
    /\ tx = [cell |-> [i \in 0..(TxRing - 1) |-> Cell(FALSE)], head |-> 0, tail |-> 0, dma |-> 0,
             sem |-> Semaphore(TxRing)]
    /\ sr = {}
    /\ handler = "no"
    /\ call = [p \in {Reader} \cup Writer |-> "run"]
    /\ mca = <<>>
    /\ unread = <<>> /\ unsent = <<>>
    /\ halted = "no"

\* Processes run while the interrupt handler does not.
Runs(p, at) ==
    /\ halted = "no" /\ handler = "no"
    /\ call[p] = at /\ ~Waits(rx.sem, p) /\ ~Waits(tx.sem, p)

Goes(p, at) == call' = [call EXCEPT ![p] = at]

(* ---- The device ---- *)

\* A frame arrives.  Without a descriptor of its own the DMA drops it.
receive(frame) ==
    /\ halted = "no"
    /\ rx.cell[rx.dma].own
    /\ rx' = [rx EXCEPT !.cell[rx.dma] = [own |-> FALSE, frame |-> frame], !.dma = (@ + 1) % RxRing]
    /\ unread' = Append(unread, frame)
    /\ sr' = sr \cup {"RI"}
    /\ UNCHANGED <<tx, handler, call, mca, unsent, halted>>

\* The frame of the next descriptor has been sent.
transmit ==
    /\ halted = "no"
    /\ tx.cell[tx.dma].own
    /\ tx' = [tx EXCEPT !.cell[tx.dma].own = FALSE, !.dma = (@ + 1) % TxRing]
    /\ sr' = sr \cup {"TI"}
    /\ unsent' = Tail(unsent)
    /\ UNCHANGED <<rx, handler, call, mca, unread, halted>>

(* ---- Interrupts ---- *)

\* ethhandler() up to the acknowledgement: one cause at a time, transmission first.
ethhandler ==
    /\ halted = "no" /\ handler = "no" /\ sr # {}
    /\ handler' = IF "TI" \in sr THEN "TI" ELSE "RI"
    /\ sr' = sr \ {handler'}
    /\ UNCHANGED <<rx, tx, call, mca, unread, unsent, halted>>

Least(S) == CHOOSE n \in S : \A m \in S : n <= m

\* Descriptors from txHead on that are not the DMA's any more, up to txTail: none if the
\* ring is full.
TxCount ==
    Least({n \in 0..TxRing : LET i == (tx.head + n) % TxRing IN i = tx.tail \/ tx.cell[i].own})

ethhandlerTx ==
    /\ halted = "no" /\ handler = "TI"
    /\ tx' = [tx EXCEPT !.head = (@ + TxCount) % TxRing, !.sem = SignalN(@, TxCount)]
    /\ handler' = "no"
    /\ UNCHANGED <<rx, sr, call, mca, unread, unsent, halted>>

\* Descriptors from rxTail on that are not the DMA's, one more than there are at most.
RxCount ==
    Least({n \in 0..(RxRing + 1) : n = RxRing + 1 \/ rx.cell[(rx.tail + n) % RxRing].own})

\* Mutation: the tail stays where it was.
ethhandlerRxTail ==
    /\ halted = "no" /\ handler = "RI"
    /\ rx' = [rx EXCEPT !.sem = SignalN(@, RxCount)]
    /\ handler' = "no"
    /\ halted' = IF RxCount > RxRing THEN "counted twice" ELSE "no"
    /\ UNCHANGED <<tx, sr, call, mca, unread, unsent>>

\* In a ring full of frames that have not been read, those counted before count again.
ethhandlerRx ==
    /\ halted = "no" /\ handler = "RI"
    /\ rx' = [rx EXCEPT !.tail = (@ + RxCount) % RxRing, !.sem = SignalN(@, RxCount)]
    /\ handler' = "no"
    /\ halted' = IF RxCount > RxRing THEN "counted twice" ELSE "no"
    /\ UNCHANGED <<tx, sr, call, mca, unread, unsent>>

(* ---- Reading ---- *)

ethreadWait ==
    /\ Runs(Reader, "run")
    /\ rx' = [rx EXCEPT !.sem = Wait(@, Reader)]
    /\ Goes(Reader, "read")
    /\ UNCHANGED <<tx, sr, handler, mca, unread, unsent, halted>>

\* The frame at the head is copied if it is for this machine, and its descriptor goes
\* back to the DMA; then the call returns, or waits for the next frame.
ethread ==
    /\ Runs(Reader, "read")
    /\ unread' = Tail(unread)
    /\ LET frame == rx.cell[rx.head].frame
           valid == frame \in Mine \/ \E i \in 1..Len(mca) : mca[i] = frame
       IN  /\ rx' = [rx EXCEPT !.cell[rx.head] = Cell(TRUE), !.head = (@ + 1) % RxRing,
                               !.sem = IF valid THEN @ ELSE Wait(@, Reader)]
           /\ Goes(Reader, IF valid THEN "run" ELSE "read")
    /\ UNCHANGED <<tx, sr, handler, mca, unsent, halted>>

(* ---- Writing ---- *)

ethwriteWait(p) ==
    /\ Runs(p, "run")
    /\ tx' = [tx EXCEPT !.sem = Wait(@, p)]
    /\ Goes(p, "write")
    /\ UNCHANGED <<rx, sr, handler, mca, unread, unsent, halted>>

\* ethwrite() from the return of wait() on: the descriptor at the tail is filled and given
\* to the DMA.
ethwrite(p) ==
    /\ Runs(p, "write")
    /\ tx' = [tx EXCEPT !.tail = (@ + 1) % TxRing, !.cell[tx.tail] = [own |-> TRUE, frame |-> p]]
    /\ unsent' = Append(unsent, p)
    /\ Goes(p, "run")
    /\ UNCHANGED <<rx, sr, handler, mca, unread, halted>>

(* ---- ethcontrol ---- *)

ethmcast_add(a) ==
    /\ halted = "no" /\ handler = "no"
    /\ Len(mca) < ETH_NUM_MCAST
    /\ mca' = Append(mca, a)
    /\ UNCHANGED <<rx, tx, sr, handler, call, unread, unsent, halted>>

\* The shift reads and clears the entry after the last: of a full list, one outside.
ethmcast_remove(a) ==
    /\ halted = "no" /\ handler = "no"
    /\ \E i \in {n \in 1..Len(mca) : mca[n] = a /\ \A m \in 1..(n - 1) : mca[m] # a} :
            mca' = SubSeq(mca, 1, i - 1) \o SubSeq(mca, i + 1, Len(mca))
    /\ halted' = IF Len(mca) = ETH_NUM_MCAST THEN "outside" ELSE "no"
    /\ UNCHANGED <<rx, tx, sr, handler, call, unread, unsent>>

\* The address of the machine can be asked for too.
ethcontrol(a) == ethmcast_add(a) \/ ethmcast_remove(a)

EthNext ==
    \/ \E frame \in Mine \cup Mcast : receive(frame)
    \/ transmit \/ ethhandler \/ ethhandlerTx \/ ethhandlerRx
    \/ ethreadWait \/ ethread
    \/ \E p \in Writer : ethwriteWait(p) \/ ethwrite(p)
    \/ \E a \in Mcast : ethcontrol(a)

EthSpec == ethinit /\ [][EthNext]_evars

Granted(P, at, sem) == Cardinality({p \in P : call[p] = at /\ ~Waits(sem, p)})

\* Frames that the semaphore lets the reader have, and the one it has let it in for.
Frames == rx.sem.count + Len(rx.sem.queue) + Granted({Reader}, "read", rx.sem)

\* Descriptors that the semaphore lets writers take, and those of writers it has let in.
Slots == tx.sem.count + Len(tx.sem.queue) + Granted(Writer, "write", tx.sem)

\* The driver, the DMA and the semaphores agree although each moves its own index of the
\* ring: frames are read in the order of arrival and sent in the order of their
\* descriptors; whoever is let in to read finds a frame that was counted, and when no
\* interrupt is outstanding every frame has been, those that came between the
\* acknowledgement of an interrupt and the count included; a writer that is let in gets a
\* descriptor that is free.  It ends where the handler counts the frames of a full ring
\* twice, and at the end of a full multicast list.
RingsExact ==
    halted = "no" =>
        /\ CountIsQueue(rx.sem) /\ CountIsQueue(tx.sem)
        /\ \A i \in 1..Len(unread) : rx.cell[(rx.head + i - 1) % RxRing] = [own |-> FALSE, frame |-> unread[i]]
        /\ Frames <= Len(unread) /\ Frames % RxRing = (rx.tail - rx.head) % RxRing
        /\ (handler # "RI" /\ "RI" \notin sr) => Frames = Len(unread)
        /\ \A i \in 1..Len(unsent) : tx.cell[(tx.dma + i - 1) % TxRing] = [own |-> TRUE, frame |-> unsent[i]]
        /\ Slots + Len(unsent) <= TxRing
        /\ (Slots + tx.tail - tx.head) % TxRing = 0

\* The comment in the handler: "'count' packets were processed by DMA, and slots are now
\* free; signal the semaphore accordingly".  When it has done so and every frame has been
\* sent, the writers may have all descriptors.
SlotsSignalled ==
    (halted = "no" /\ handler = "no" /\ "TI" \notin sr /\ unsent = <<>>) => Slots = TxRing
===============================================================================
