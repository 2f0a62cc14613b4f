--------------------------------- MODULE Ports ---------------------------------
(***************************************************************************)
(* Ports (system/pt*.c): bounded queues of one-word messages.  A port is a  *)
(* list of nodes from one common free list, with a semaphore for the places *)
(* that are left and one for the messages that are there.                   *)
(*                                                                          *)
(* The calls disable interrupts, so each runs on until wait() blocks or     *)
(* until semreset() or semdelete() reschedule in the middle of _ptclear().  *)
(* signal() is the last thing ptsend() and ptrecv() do.                     *)
(***************************************************************************)
EXTENDS Semaphores, FiniteSets

CONSTANTS
    PortUser,    \* processes that use ports
    NPORTS,
    Node,        \* message nodes, PT_MSGS of them
    Sizes,       \* arguments of ptcreate()
    Created,     \* how many of its two semcreate() may succeed
    MaxLives     \* bound: times that a port is created or cleared

Port == 0..(NPORTS - 1)

ASSUME PortsAssumption ==
    /\ IsFiniteSet(PortUser) /\ IsFiniteSet(Node)
    /\ NPORTS \in Nat \ {0} /\ MaxLives \in Nat
    /\ Sizes \subseteq Nat /\ Created \subseteq Nat

VARIABLES
    porttab,     \* state, seq, maxcnt, the two semaphores and the list of each port
    ptnextid,
    ptfree,      \* list of free nodes
    ptmsg,       \* what a node holds: here, the accession number its sender read
    ptcall,      \* the call each process is in, with the port and its local copy of seq
    pthalted     \* panic()

ptvars == <<porttab, ptnextid, ptfree, ptmsg, ptcall, pthalted>>

NoPtCall == [at |-> "run", port |-> 0, seq |-> 0]

\* ptinit()
ptinit ==
    /\ porttab = [t \in Port |-> [state |-> "FREE", seq |-> 0, maxcnt |-> 0,
                                  ssem |-> NoSemaphore, rsem |-> NoSemaphore, list |-> <<>>]]
    /\ ptnextid = 0
    /\ ptfree \in {s \in [1..Cardinality(Node) -> Node] : {s[i] : i \in DOMAIN s} = Node}
    /\ ptmsg = [n \in Node |-> 0]
    /\ ptcall = [p \in PortUser |-> NoPtCall]
    /\ pthalted = FALSE

Blocked(p) == \E t \in Port : Waits(porttab[t].ssem, p) \/ Waits(porttab[t].rsem, p)

Runs(p, at) == ~pthalted /\ ptcall[p].at = at /\ ~Blocked(p)

\* The first free entry at or after ptnextid, counting round.
Candidates ==
    {t \in Port : /\ porttab[t].state = "FREE"
                  /\ \A u \in Port : porttab[u].state = "FREE" =>
                        (t - ptnextid) % NPORTS <= (u - ptnextid) % NPORTS}

\* The result of semcreate() is stored without a test.
ptcreate(p, count, created) ==
    /\ Runs(p, "run")
    /\ \E t \in Candidates :
        /\ porttab[t].seq < MaxLives
        /\ porttab' = [porttab EXCEPT ![t] =
                [state |-> "ALLOC", seq |-> @.seq + 1, maxcnt |-> count, list |-> <<>>,
                 ssem |-> IF created >= 1 THEN Semaphore(count) ELSE NoSemaphore,
                 rsem |-> IF created >= 2 THEN Semaphore(0) ELSE NoSemaphore]]
        /\ ptnextid' = (t + 1) % NPORTS
    /\ UNCHANGED <<ptfree, ptmsg, ptcall, pthalted>>

\* ptsend() and ptrecv() up to the return of wait(); on SYSERR the call is over.
begin(p, t, at, sem) ==
    /\ Runs(p, "run")
    /\ porttab[t].state = "ALLOC"
    /\ porttab[t][sem].used
    /\ porttab' = [porttab EXCEPT ![t][sem] = Wait(@, p)]
    /\ ptcall' = [ptcall EXCEPT ![p] = [at |-> at, port |-> t, seq |-> porttab[t].seq]]
    /\ UNCHANGED <<ptnextid, ptfree, ptmsg, pthalted>>

ptsend(p, t) == begin(p, t, "send", "ssem")
ptrecv(p, t) == begin(p, t, "recv", "rsem")

\* Still the port, in the same life, as before wait()?
SamePort(p) ==
    /\ porttab[ptcall[p].port].state = "ALLOC"
    /\ porttab[ptcall[p].port].seq = ptcall[p].seq

\* The port was cleared while the process waited: SYSERR.
gone(p) ==
    /\ Runs(p, "send") \/ Runs(p, "recv")
    /\ ~SamePort(p)
    /\ ptcall' = [ptcall EXCEPT ![p] = NoPtCall]
    /\ UNCHANGED <<porttab, ptnextid, ptfree, ptmsg, pthalted>>

ptsendLink(p) ==
    /\ Runs(p, "send") /\ SamePort(p)
    /\ IF ptfree = <<>>
       THEN pthalted' = TRUE /\ UNCHANGED <<porttab, ptfree, ptmsg, ptcall>>
       ELSE /\ ptcall' = [ptcall EXCEPT ![p] = NoPtCall]
            /\ ptfree' = Tail(ptfree)
            /\ ptmsg' = [ptmsg EXCEPT ![Head(ptfree)] = ptcall[p].seq]
            /\ porttab' = [porttab EXCEPT ![ptcall[p].port].list = Append(@, Head(ptfree)),
                                          ![ptcall[p].port].rsem = Signal(@)]
            /\ UNCHANGED pthalted
    /\ UNCHANGED ptnextid

\* Mutation: the place of the message is not given back.
ptrecvUnlinkKeepsPlace(p) ==
    /\ Runs(p, "recv") /\ SamePort(p)
    /\ ptcall' = [ptcall EXCEPT ![p] = NoPtCall]
    /\ LET list == porttab[ptcall[p].port].list
       IN  /\ ptfree' = <<Head(list)>> \o ptfree
           /\ porttab' = [porttab EXCEPT ![ptcall[p].port].list = Tail(@)]
    /\ UNCHANGED <<ptnextid, ptmsg, pthalted>>

ptrecvUnlink(p) ==
    /\ Runs(p, "recv") /\ SamePort(p)
    /\ ptcall' = [ptcall EXCEPT ![p] = NoPtCall]
    /\ LET list == porttab[ptcall[p].port].list
       IN  /\ ptfree' = <<Head(list)>> \o ptfree
           /\ porttab' = [porttab EXCEPT ![ptcall[p].port].list = Tail(@),
                                         ![ptcall[p].port].ssem = Signal(@)]
    /\ UNCHANGED <<ptnextid, ptmsg, pthalted>>

\* _ptclear() up to the first semaphore.  The whole list goes back in front of the free
\* list; a port that is deleted keeps its pointers to it.
clear(p, t, at) ==
    /\ Runs(p, "run")
    /\ porttab[t].state = "ALLOC" /\ porttab[t].seq < MaxLives
    /\ ptfree' = porttab[t].list \o ptfree
    /\ porttab' = [porttab EXCEPT ![t].state = "LIMBO",
                                  ![t].seq = @ + 1,
                                  ![t].list = IF at = "reset" THEN <<>> ELSE @,
                                  ![t].ssem = IF ~@.used \/ at = "delete" THEN NoSemaphore
                                              ELSE Semaphore(porttab[t].maxcnt)]
    /\ ptcall' = [ptcall EXCEPT ![p] = [at |-> at, port |-> t, seq |-> 0]]
    /\ UNCHANGED <<ptnextid, ptmsg, pthalted>>

ptreset(p, t)  == clear(p, t, "reset")
ptdelete(p, t) == clear(p, t, "delete")

\* The second semaphore.
clearSecond(p) ==
    /\ Runs(p, "reset") \/ Runs(p, "delete")
    /\ porttab' = [porttab EXCEPT ![ptcall[p].port].rsem =
            IF ~@.used \/ ptcall[p].at = "delete" THEN NoSemaphore ELSE Semaphore(0)]
    /\ ptcall' = [ptcall EXCEPT ![p].at = IF @ = "reset" THEN "resetEnd" ELSE "deleteEnd"]
    /\ UNCHANGED <<ptnextid, ptfree, ptmsg, pthalted>>

clearEnd(p) ==
    /\ Runs(p, "resetEnd") \/ Runs(p, "deleteEnd")
    /\ porttab' = [porttab EXCEPT ![ptcall[p].port].state =
            IF ptcall[p].at = "resetEnd" THEN "ALLOC" ELSE "FREE"]
    /\ ptnextid' = IF ptcall[p].at = "resetEnd" THEN ptnextid ELSE ptcall[p].port
    /\ ptcall' = [ptcall EXCEPT ![p] = NoPtCall]
    /\ UNCHANGED <<ptfree, ptmsg, pthalted>>

PtNext ==
    \E p \in PortUser :
        \/ \E count \in Sizes, created \in Created : ptcreate(p, count, created)
        \/ \E t \in Port : ptsend(p, t) \/ ptrecv(p, t) \/ ptreset(p, t) \/ ptdelete(p, t)
        \/ gone(p) \/ ptsendLink(p) \/ ptrecvUnlink(p) \/ clearSecond(p) \/ clearEnd(p)

PtSpec == ptinit /\ [][PtNext]_ptvars

\* What ptcount() returns for an allocated port.
ptcount(t) ==
    LET received == IF porttab[t].rsem.used THEN porttab[t].rsem.count ELSE -1
        sending  == IF porttab[t].ssem.used THEN porttab[t].ssem.count ELSE -1
    IN  IF received >= 0 /\ sending < 0 THEN received - sending ELSE received

PtTypeOK ==
    /\ porttab \in [Port -> [state : {"FREE", "LIMBO", "ALLOC"}, seq : 0..MaxLives, maxcnt : Sizes \cup {0},
                             ssem : [used : BOOLEAN, count : Int, queue : Seq(PortUser)],
                             rsem : [used : BOOLEAN, count : Int, queue : Seq(PortUser)],
                             list : Seq(Node)]]
    /\ ptnextid \in Port /\ ptfree \in Seq(Node)
    /\ ptmsg \in [Node -> 0..MaxLives]
    /\ ptcall \in [PortUser -> [at : {"run", "send", "recv", "reset", "delete", "resetEnd", "deleteEnd"},
                             port : Port, seq : 0..MaxLives]]
    /\ pthalted \in BOOLEAN

\* Processes that have been let in by one of the semaphores of t, in its present life,
\* and have not run since.
Granted(t, at) ==
    {p \in PortUser : ptcall[p].at = at /\ ptcall[p].port = t /\ ptcall[p].seq = porttab[t].seq /\ ~Blocked(p)}

\* Through resets, deletions and new lives of a port, with processes let in by a
\* semaphore that have not run yet: the two semaphores of a port agree with its list, so
\* that a receiver that is let in finds a message and a sender finds a place; whoever
\* waits on a port waits in its present life; and ptcount() is the messages there and
\* in the hands of blocked senders, or the receivers that wait, but for those let in.
SlotsExact ==
    \A t \in Port :
        LET e == porttab[t]
            in == Cardinality(Granted(t, "send"))
            out == Cardinality(Granted(t, "recv"))
        IN  e.state = "ALLOC" =>
                /\ e.ssem.used => e.ssem.count = e.maxcnt - Len(e.list) - in - Len(e.ssem.queue)
                /\ e.rsem.used => e.rsem.count = Len(e.list) - out - Len(e.rsem.queue)
                /\ \A p \in PortUser : Waits(e.ssem, p) \/ Waits(e.rsem, p) =>
                        ptcall[p].port = t /\ ptcall[p].seq = e.seq
                /\ e.ssem.used /\ e.rsem.used /\ out = 0 =>
                        ptcount(t) = Len(e.list) + (IF e.rsem.queue = <<>> THEN Len(e.ssem.queue)
                                                                           ELSE 0 - Len(e.rsem.queue))

\* Every node is on the free list or on the list of one allocated port, once, although
\* _ptclear() moves whole lists and leaves the old pointers behind; and what a port holds
\* was sent by a call made in its present life, so that nothing sent before a reset or to
\* an earlier port of the same number is ever received.
MessagesOfThisLife ==
    LET lists == [t \in 0..NPORTS |-> IF t = NPORTS THEN ptfree
                                      ELSE IF porttab[t].state = "ALLOC" THEN porttab[t].list
                                      ELSE <<>>]
        places(n) == {x \in (0..NPORTS) \X (1..Cardinality(Node)) :
                        x[2] <= Len(lists[x[1]]) /\ lists[x[1]][x[2]] = n}
    IN  /\ \A n \in Node : Cardinality(places(n)) = 1
        /\ \A t \in Port : porttab[t].state = "ALLOC" =>
                \A i \in 1..Len(porttab[t].list) : ptmsg[porttab[t].list[i]] = porttab[t].seq

\* Semaphores, lists and messages of the ports, together.
PortsExact == SlotsExact /\ MessagesOfThisLife
===============================================================================
