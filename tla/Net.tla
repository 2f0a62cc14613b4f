---------------------------------- MODULE Net ----------------------------------
(***************************************************************************)
(* The protocol stack above Ethernet and ARP (net/net.c, ip.c, icmp.c,      *)
(* udp.c): the pool of packet buffers, the input process netin, the output  *)
(* process ipout with its queue, the tables of UDP and ICMP endpoints, and  *)
(* processes that register, receive, send and release.                      *)
(*                                                                          *)
(* The calls disable interrupts; a process gives up the processor where it  *)
(* waits for a buffer, for a packet (recvtime), for ipout's semaphore or    *)
(* for ARP and the Ethernet, and where a semaphore is signalled.  A packet  *)
(* is its addresses and ports.  arp_resolve() and write() are the stage     *)
(* "resolve", whose outcome does not matter here: the buffer is freed.      *)
(***************************************************************************)
EXTENDS Semaphores, Tables, FiniteSets

LOCAL INSTANCE FiniteSetsExt

CONSTANTS
    App,
    Netin, Ipout,
    Me,              \* NetData.ipucast, and 127.0.0.0/8
    UDP_SLOTS, UDP_QSIZ,
    ICMP_SLOTS, ICMP_QSIZ,
    IP_OQSIZ,
    Arrivals,        \* packets that the Ethernet delivers
    Endpoints,       \* arguments of udp_register()
    Destinations,    \* of udp_sendto(), with the port
    Pinged           \* arguments of icmp_register() and icmp_send()

DontCare == 0        \* in udp_register(); hosts and ports are positive numbers

Caller == App \cup {Netin, Ipout}

USlot == 0..(UDP_SLOTS - 1)
ISlot == 0..(ICMP_SLOTS - 1)

\* Mutation: one buffer less.
NBUFSQueues == UDP_SLOTS * UDP_QSIZ + ICMP_SLOTS * ICMP_QSIZ

\* net_init()
NBUFS == UDP_SLOTS * UDP_QSIZ + ICMP_SLOTS * ICMP_QSIZ + 1

VARIABLES
    netbuf,      \* semaphore of netbufpool
    udptab, icmptab,
    ipo,         \* ipoqueue
    call,        \* where each process is, the slot it uses and the packet it holds
    msg,         \* message of a process in recvtime(): "none", "OK" or "other"
    ipvalid,
    queued,      \* history: packets put in an endpoint and not yet taken, in order
    halted       \* what corrupted the tables, "no" as long as nothing has

nvars == <<netbuf, udptab, icmptab, ipo, call, msg, ipvalid, queued, halted>>

NoPkt == [proto |-> "none", src |-> Me, sport |-> 0, dport |-> 0]
Udp(src, sport, dport) == [proto |-> "udp", src |-> src, sport |-> sport, dport |-> dport]
\* Echo request and reply: the identifier is in dport.  src is the other end.
Icmp(type, src, ident) == [proto |-> type, src |-> src, sport |-> 0, dport |-> ident]

Ring(cells) == [head |-> 0, tail |-> 0, count |-> 0, cell |-> [i \in 0..(cells - 1) |-> NoPkt]]

Idle == [at |-> "run", slot |-> 0, pkt |-> NoPkt]

\* udp_init(), icmp_init() and the rest of net_init(); the two processes start.
Init ==
    /\ netbuf = Semaphore(NBUFS)
    /\ udptab = [s \in USlot |-> [state |-> "FREE", remip |-> DontCare, remport |-> DontCare, locport |-> DontCare,
                                  pid |-> Netin, ring |-> Ring(UDP_QSIZ)]]
    /\ icmptab = [s \in ISlot |-> [state |-> "FREE", remip |-> DontCare, pid |-> Netin,
                                   ring |-> Ring(ICMP_QSIZ)]]
    /\ ipo = [sem |-> Semaphore(0), head |-> 0, tail |-> 0, cell |-> [i \in 0..(IP_OQSIZ - 1) |-> NoPkt]]
    /\ call = [p \in Caller |-> Idle]
    /\ msg = [p \in App |-> "none"]
    /\ ipvalid = FALSE
    /\ queued = [udp |-> [s \in USlot |-> <<>>], icmp |-> [s \in ISlot |-> <<>>]]
    /\ halted = "no"

tables == <<udptab, icmptab, queued, msg>>

Runs(p, at) ==
    halted = "no" /\ call[p].at = at /\ ~Waits(netbuf, p) /\ ~Waits(ipo.sem, p)

Go(p, at, slot, pkt) == call' = [call EXCEPT ![p] = [at |-> at, slot |-> slot, pkt |-> pkt]]
Done(p) == call' = [call EXCEPT ![p] = Idle]

getbuf(p) == netbuf' = Wait(netbuf, p)
freebuf == netbuf' = Signal(netbuf)

Put(ring, pkt, cells) ==
    [ring EXCEPT !.count = @ + 1, !.cell[ring.tail] = pkt,
                 !.tail = IF @ + 1 >= cells THEN 0 ELSE @ + 1]

Take(ring, wrap) == [ring EXCEPT !.count = @ - 1, !.head = IF @ + 1 >= wrap THEN 0 ELSE @ + 1]

Sent(p) == [msg EXCEPT ![p] = IF @ = "none" THEN "OK" ELSE @]

(* ---- Delivery ---- *)

Matches(e, pkt) ==
    /\ e.state # "FREE"
    /\ pkt.dport = e.locport
    /\ e.remport = DontCare \/ pkt.sport = e.remport
    /\ e.remip = DontCare \/ pkt.src = e.remip

\* Mutation: the entry keeps saying that a process waits.
udp_inStillWaiting(c, pkt) ==
    LET room == First({s \in USlot : Matches(udptab[s], pkt) /\ udptab[s].ring.count < UDP_QSIZ})
    IN  /\ pkt.proto = "udp"
        /\ Done(c)
        /\ IF room = {} THEN freebuf /\ UNCHANGED tables
           ELSE \E s \in room :
                    /\ udptab' = [udptab EXCEPT ![s].ring = Put(@, pkt, UDP_QSIZ)]
                    /\ queued' = [queued EXCEPT !.udp[s] = Append(@, pkt)]
                    /\ msg' = IF udptab[s].state = "RECV" THEN Sent(udptab[s].pid) ELSE msg
                    /\ UNCHANGED <<netbuf, icmptab>>
        /\ UNCHANGED <<ipo, halted>>

\* The first entry that matches and has room.
udp_in(c, pkt) ==
    LET room == First({s \in USlot : Matches(udptab[s], pkt) /\ udptab[s].ring.count < UDP_QSIZ})
    IN  /\ pkt.proto = "udp"
        /\ Done(c)
        /\ IF room = {} THEN freebuf /\ UNCHANGED tables
           ELSE \E s \in room :
                    /\ udptab' = [udptab EXCEPT ![s].ring = Put(@, pkt, UDP_QSIZ), ![s].state = "USED"]
                    /\ queued' = [queued EXCEPT !.udp[s] = Append(@, pkt)]
                    /\ msg' = IF udptab[s].state = "RECV" THEN Sent(udptab[s].pid) ELSE msg
                    /\ UNCHANGED <<netbuf, icmptab>>
        /\ UNCHANGED <<ipo, halted>>

\* An echo request: icmp_mkpkt() waits for a second buffer.
icmp_inRequest(c, pkt) ==
    /\ pkt.proto = "request"
    /\ getbuf(c)
    /\ Go(c, "mkpkt", 0, pkt)
    /\ UNCHANGED <<tables, ipo, halted>>

\* An echo reply.  Nothing tests that the queue has room.
icmp_inReply(c, pkt) ==
    /\ pkt.proto = "reply"
    /\ Done(c)
    /\ LET s == pkt.dport
       IN  IF s \notin ISlot THEN freebuf /\ UNCHANGED <<tables, halted>>
           ELSE IF icmptab[s].state = "FREE" \/ icmptab[s].remip # pkt.src
           THEN freebuf /\ UNCHANGED <<tables, halted>>
           ELSE /\ icmptab' = [icmptab EXCEPT ![s].ring = Put(@, pkt, ICMP_QSIZ), ![s].state = "USED"]
                /\ queued' = [queued EXCEPT !.icmp[s] = Append(@, pkt)]
                /\ msg' = IF icmptab[s].state = "RECV" THEN Sent(icmptab[s].pid) ELSE msg
                /\ halted' = IF icmptab[s].ring.count >= ICMP_QSIZ THEN "overrun" ELSE halted
                /\ UNCHANGED <<netbuf, udptab>>
    /\ UNCHANGED ipo

\* Frees the packet in the hands of c and ends its call.
drop(c) == Done(c) /\ freebuf /\ UNCHANGED <<tables, ipo, halted>>

\* ip_local(), run by netin, by ipout or by a process that sends to this machine.
ip_local(c, pkt) ==
    udp_in(c, pkt) \/ icmp_inRequest(c, pkt) \/ icmp_inReply(c, pkt) \/ (pkt.proto = "other" /\ drop(c))

\* Mutation: the packet that does not fit in the output queue is not freed.
ip_enqueueKeeps(c) ==
    /\ Runs(c, "mkpkt")
    /\ Go(c, "echoed", 0, call[c].pkt)
    /\ IF ipo.sem.count >= IP_OQSIZ THEN UNCHANGED <<netbuf, ipo, halted>>
       ELSE /\ ipo' = [sem |-> Signal(ipo.sem), head |-> ipo.head,
                       tail |-> IF ipo.tail + 1 >= IP_OQSIZ THEN 0 ELSE ipo.tail + 1,
                       cell |-> [ipo.cell EXCEPT ![ipo.tail] = Icmp("reply", call[c].pkt.src, call[c].pkt.dport)]]
            /\ halted' = IF ipo.cell[ipo.tail] = NoPkt THEN halted ELSE "unsent"
            /\ UNCHANGED netbuf
    /\ UNCHANGED <<tables, ipvalid>>

\* icmp_in() with the reply in its second buffer: ip_enqueue().  semcount() does not
\* count a packet that ipout has been let in for and has not taken.
ip_enqueue(c) ==
    /\ Runs(c, "mkpkt")
    /\ Go(c, "echoed", 0, call[c].pkt)
    /\ IF ipo.sem.count >= IP_OQSIZ THEN freebuf /\ UNCHANGED <<ipo, halted>>
       ELSE /\ ipo' = [sem |-> Signal(ipo.sem), head |-> ipo.head,
                       tail |-> IF ipo.tail + 1 >= IP_OQSIZ THEN 0 ELSE ipo.tail + 1,
                       cell |-> [ipo.cell EXCEPT ![ipo.tail] = Icmp("reply", call[c].pkt.src, call[c].pkt.dport)]]
            /\ halted' = IF ipo.cell[ipo.tail] = NoPkt THEN halted ELSE "unsent"
            /\ UNCHANGED netbuf
    /\ UNCHANGED <<tables, ipvalid>>

\* icmp_in() frees the request.
echoed(c) == Runs(c, "echoed") /\ drop(c) /\ UNCHANGED ipvalid

(* ---- netin and ipout ---- *)

netin ==
    /\ Runs(Netin, "run")
    /\ getbuf(Netin)
    /\ Go(Netin, "read", 0, NoPkt)
    /\ UNCHANGED <<tables, ipo, ipvalid, halted>>

\* read() returns.  A packet that is no IP packet, whose checksum is wrong or that has an
\* unknown protocol is "other".  Without a valid address only UDP is let through, to any
\* address.
ip_in(a) ==
    /\ Runs(Netin, "read")
    /\ IF a.bcast \/ (IF ipvalid THEN a.us ELSE a.pkt.proto = "udp")
       THEN ip_local(Netin, a.pkt) ELSE drop(Netin)
    /\ UNCHANGED ipvalid

ipoutWait ==
    /\ Runs(Ipout, "run")
    /\ ipo' = [ipo EXCEPT !.sem = Wait(@, Ipout)]
    /\ Go(Ipout, "take", 0, NoPkt)
    /\ UNCHANGED <<netbuf, tables, ipvalid, halted>>

ipoutTake ==
    /\ Runs(Ipout, "take")
    /\ Go(Ipout, "send", 0, ipo.cell[ipo.head])
    /\ ipo' = [ipo EXCEPT !.head = IF @ + 1 >= IP_OQSIZ THEN 0 ELSE @ + 1, !.cell[ipo.head] = NoPkt]
    /\ UNCHANGED <<netbuf, tables, ipvalid, halted>>

\* To this machine, to a broadcast address or without a next hop, or to a host.
ip_send(c) ==
    /\ Runs(c, "send")
    /\ IF call[c].pkt.src = Me THEN ip_local(c, call[c].pkt)
       ELSE \/ drop(c)
            \/ /\ Go(c, "resolve", 0, NoPkt)
               /\ UNCHANGED <<netbuf, tables, ipo, halted>>
    /\ UNCHANGED ipvalid

\* ipout() does the same with what it has taken.
ipout == ip_send(Ipout)

\* arp_resolve() and ip_out() return.
resolved(c) == Runs(c, "resolve") /\ drop(c) /\ UNCHANGED ipvalid

\* getlocalip(): the address is known.
getlocalip ==
    /\ halted = "no" /\ ~ipvalid
    /\ ipvalid' = TRUE
    /\ UNCHANGED <<netbuf, tables, ipo, call, halted>>

(* ---- Calls ---- *)

Registered == {s \in USlot : udptab[s].state # "FREE"}

udp_register(p, e) ==
    /\ Runs(p, "run")
    /\ \A s \in Registered :
        <<udptab[s].remip, udptab[s].remport, udptab[s].locport>> # <<e.remip, e.remport, e.locport>>
    /\ \E s \in First(USlot \ Registered) :
        udptab' = [udptab EXCEPT ![s] = [state |-> "USED", remip |-> e.remip, remport |-> e.remport,
                                         locport |-> e.locport, pid |-> Netin,
                                         ring |-> [@.ring EXCEPT !.head = 0, !.tail = 0, !.count = 0]]]
    /\ UNCHANGED <<netbuf, icmptab, ipo, call, msg, ipvalid, queued, halted>>

\* udp_recv() and udp_recvaddr() from "packet has arrived" on.
udpDequeue(p, s) ==
    /\ udptab' = [udptab EXCEPT ![s].ring = Take(@, UDP_QSIZ), ![s].state = "USED"]
    /\ queued' = [queued EXCEPT !.udp[s] = IF @ = <<>> THEN @ ELSE Tail(@)]
    /\ halted' = IF udptab[s].ring.count = 0 THEN "empty" ELSE halted
    /\ Done(p)
    /\ freebuf

udp_recv(p, s) ==
    /\ Runs(p, "run") /\ udptab[s].state = "USED"
    /\ IF udptab[s].ring.count > 0 THEN udpDequeue(p, s) /\ UNCHANGED msg
       ELSE /\ udptab' = [udptab EXCEPT ![s].state = "RECV", ![s].pid = p]
            /\ msg' = [msg EXCEPT ![p] = "none"]
            /\ Go(p, "udp_recv", s, NoPkt)
            /\ UNCHANGED <<netbuf, queued, halted>>
    /\ UNCHANGED <<icmptab, ipo, ipvalid>>

\* recvtime() returns OK, another message or TIMEOUT.  A process whose endpoint was
\* released meanwhile marks it used all the same.
udp_recvEnd(p) ==
    /\ Runs(p, "udp_recv")
    /\ LET s == call[p].slot
       IN  IF udptab[s].pid # p \/ udptab[s].state = "FREE"
           THEN halted' = "changed" /\ UNCHANGED <<netbuf, udptab, queued, call>>
           ELSE IF msg[p] = "OK" THEN udpDequeue(p, s)
           ELSE /\ udptab' = [udptab EXCEPT ![s].state = "USED"]
                /\ Done(p)
                /\ UNCHANGED <<netbuf, queued, halted>>
    /\ msg' = [msg EXCEPT ![p] = "none"]
    /\ UNCHANGED <<icmptab, ipo, ipvalid>>

\* udp_send() reads the endpoint before it waits for a buffer.
udp_send(p, s) ==
    /\ Runs(p, "run") /\ udptab[s].state # "FREE" /\ udptab[s].remip # DontCare
    /\ getbuf(p)
    /\ Go(p, "send", s, Udp(udptab[s].remip, udptab[s].locport, udptab[s].remport))
    /\ UNCHANGED <<tables, ipo, ipvalid, halted>>

\* udp_sendto() reads it after that.
udp_sendto(p, s, dest) ==
    /\ Runs(p, "run") /\ udptab[s].state # "FREE"
    /\ getbuf(p)
    /\ Go(p, "sendto", s, Udp(dest.ip, 0, dest.port))
    /\ UNCHANGED <<tables, ipo, ipvalid, halted>>

udp_sendtoFill(p) ==
    /\ Runs(p, "sendto")
    /\ Go(p, "send", 0, [call[p].pkt EXCEPT !.sport = udptab[call[p].slot].locport])
    /\ UNCHANGED <<netbuf, tables, ipo, ipvalid, halted>>

\* A process that waits on the endpoint is not told.
udp_release(p, s) ==
    /\ Runs(p, "run") /\ udptab[s].state # "FREE"
    /\ netbuf' = SignalN(netbuf, udptab[s].ring.count)
    /\ udptab' = [udptab EXCEPT ![s].state = "FREE", ![s].ring.count = 0,
                                ![s].ring.head = (@ + udptab[s].ring.count) % UDP_QSIZ]
    /\ queued' = [queued EXCEPT !.udp[s] = <<>>]
    /\ UNCHANGED <<icmptab, ipo, call, msg, ipvalid, halted>>

icmp_register(p, remip) ==
    /\ Runs(p, "run")
    /\ \A s \in ISlot : icmptab[s].state # "FREE" => icmptab[s].remip # remip
    /\ \E s \in First({t \in ISlot : icmptab[t].state = "FREE"}) :
        icmptab' = [icmptab EXCEPT ![s] = [state |-> "USED", remip |-> remip, pid |-> Netin,
                                           ring |-> [@.ring EXCEPT !.head = 0, !.tail = 0, !.count = 0]]]
    /\ UNCHANGED <<netbuf, udptab, ipo, call, msg, ipvalid, queued, halted>>

\* The head wraps at the number of slots, not at the size of the queue.
icmpDequeue(p, s) ==
    /\ icmptab' = [icmptab EXCEPT ![s].ring = Take(@, ICMP_SLOTS), ![s].state = "USED"]
    /\ queued' = [queued EXCEPT !.icmp[s] = IF @ = <<>> THEN @ ELSE Tail(@)]
    /\ halted' = IF icmptab[s].ring.count = 0 THEN "empty"
                 ELSE IF icmptab[s].ring.head >= ICMP_QSIZ THEN "outside" ELSE halted
    /\ Done(p)
    /\ freebuf

icmp_recv(p, s) ==
    /\ Runs(p, "run") /\ icmptab[s].state = "USED"
    /\ IF icmptab[s].ring.count > 0 THEN icmpDequeue(p, s) /\ UNCHANGED msg
       ELSE /\ icmptab' = [icmptab EXCEPT ![s].state = "RECV", ![s].pid = p]
            /\ msg' = [msg EXCEPT ![p] = "none"]
            /\ Go(p, "icmp_recv", s, NoPkt)
            /\ UNCHANGED <<netbuf, queued, halted>>
    /\ UNCHANGED <<udptab, ipo, ipvalid>>

icmp_recvEnd(p) ==
    /\ Runs(p, "icmp_recv")
    /\ LET s == call[p].slot
       IN  IF icmptab[s].pid # p \/ icmptab[s].state = "FREE"
           THEN halted' = "changed" /\ UNCHANGED <<netbuf, icmptab, queued, call>>
           ELSE IF msg[p] = "OK" THEN icmpDequeue(p, s)
           ELSE /\ icmptab' = [icmptab EXCEPT ![s].state = "USED"]
                /\ Done(p)
                /\ UNCHANGED <<netbuf, queued, halted>>
    /\ msg' = [msg EXCEPT ![p] = "none"]
    /\ UNCHANGED <<udptab, ipo, ipvalid>>

icmp_send(p, remip, ident) ==
    /\ Runs(p, "run")
    /\ getbuf(p)
    /\ Go(p, "send", 0, Icmp("request", remip, ident))
    /\ UNCHANGED <<tables, ipo, ipvalid, halted>>

\* Refused while a process waits, unlike udp_release().
icmp_release(p, s) ==
    /\ Runs(p, "run") /\ icmptab[s].state = "USED"
    /\ LET last == icmptab[s].ring.head + icmptab[s].ring.count
       IN  /\ halted' = IF icmptab[s].ring.count > 0 /\ last > ICMP_QSIZ THEN "outside" ELSE halted
           /\ icmptab' = [icmptab EXCEPT ![s].state = "FREE", ![s].ring.count = 0,
                                         ![s].ring.head = last % ICMP_SLOTS]
    /\ netbuf' = SignalN(netbuf, icmptab[s].ring.count)
    /\ queued' = [queued EXCEPT !.icmp[s] = <<>>]
    /\ UNCHANGED <<udptab, ipo, call, msg, ipvalid>>

\* Another message for a process in recvtime(), such as the end of a child.
send(p) ==
    /\ halted = "no" /\ call[p].at \in {"udp_recv", "icmp_recv"} /\ msg[p] = "none"
    /\ msg' = [msg EXCEPT ![p] = "other"]
    /\ UNCHANGED <<netbuf, udptab, icmptab, ipo, call, ipvalid, queued, halted>>

Next ==
    \/ netin \/ ipoutWait \/ ipoutTake \/ ipout \/ getlocalip
    \/ \E a \in Arrivals : ip_in(a)
    \/ \E c \in Caller : ip_enqueue(c) \/ echoed(c) \/ resolved(c)
    \/ \E p \in App :
        \/ \E e \in Endpoints : udp_register(p, e)
        \/ \E s \in USlot : udp_recv(p, s) \/ udp_send(p, s) \/ udp_release(p, s)
                            \/ \E dest \in Destinations : udp_sendto(p, s, dest)
        \/ ip_send(p) \/ udp_recvEnd(p) \/ udp_sendtoFill(p) \/ icmp_recvEnd(p) \/ send(p)
        \/ \E remip \in Pinged : icmp_register(p, remip)
        \/ \E s \in ISlot : icmp_recv(p, s) \/ icmp_release(p, s)
                            \/ \E remip \in Pinged : icmp_send(p, remip, s)

Spec == Init /\ [][Next]_nvars

\* Buffers in the hands of p that is not in the queue of the pool.
Holds(p) ==
    CASE call[p].at = "mkpkt" -> IF Waits(netbuf, p) THEN 1 ELSE 2
      [] call[p].at \in {"read", "send", "sendto"} -> IF Waits(netbuf, p) THEN 0 ELSE 1
      [] call[p].at \in {"echoed", "resolve"} -> 1
      [] OTHER -> 0

Output == Cardinality({i \in DOMAIN ipo.cell : ipo.cell[i] # NoPkt})

\* Through packets that are delivered, dropped, answered, sent to this machine and sent to
\* others, endpoints released with packets in them and calls that fail: the buffers of
\* the pool are those free, those in the queues and those in the hands of a process.
BuffersConserved ==
    halted = "no" =>
        /\ CountIsQueue(netbuf)
        /\ netbuf.count + Len(netbuf.queue) + MapThenSumSet(Holds, Caller) + Output
           + MapThenSumSet(LAMBDA s : udptab[s].ring.count, USlot)
           + MapThenSumSet(LAMBDA s : icmptab[s].ring.count, ISlot) = NBUFS

\* An endpoint with its queue as accepted, and the processes at the call that receives.
Exact(e, accepted, s, cells, at) ==
    /\ e.ring.count = Len(accepted)
    /\ e.ring.head < cells =>
        /\ e.ring.tail = (e.ring.head + e.ring.count) % cells
        /\ \A i \in 1..Len(accepted) : e.ring.cell[(e.ring.head + i - 1) % cells] = accepted[i]
    /\ e.state = "RECV" => call[e.pid].at = at /\ call[e.pid].slot = s /\ msg[e.pid] # "OK"
    /\ \A p \in App : call[p].at = at /\ call[p].slot = s /\ e.pid = p /\ e.state # "FREE" /\ msg[p] = "none" =>
        e.state = "RECV" /\ e.ring.count = 0

\* Whatever arrives while processes wait, give up, are woken by other messages or return
\* to find packets there: an endpoint holds the packets it accepted and has not handed
\* over, in the order of arrival; it says that a process waits exactly when one does; and
\* a process that waits without a message has an empty queue, so that no packet is left
\* without its wakeup.  Two readers of one endpoint, an endpoint released under its reader
\* and the two limits that ICMP does not test are where this ends.
QueuesExact ==
    halted = "no" =>
        /\ \A s \in USlot : Exact(udptab[s], queued.udp[s], s, UDP_QSIZ, "udp_recv")
        /\ \A s \in ISlot : Exact(icmptab[s], queued.icmp[s], s, ICMP_QSIZ, "icmp_recv")

\* The pool has one buffer more than the queues hold.  So the processes cannot all be
\* waiting for a buffer, unless one of them has an echo request in its hands and waits for
\* the buffer of the reply.
StuckOnlyByEcho ==
    /\ halted = "no"
    /\ \A p \in App \cup {Netin} : Waits(netbuf, p)
    /\ Waits(ipo.sem, Ipout) \/ Waits(netbuf, Ipout)
    => \E c \in Caller : call[c].at = "mkpkt"
===============================================================================
