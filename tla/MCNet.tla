--------------------------------- MODULE MCNet ---------------------------------
(***************************************************************************)
(* Arp, Net, Eth and Rfs for TLC, in one run, as in MCDevices.  Net is      *)
(* taken in three instances, two with UDP alone and one with ICMP alone.    *)
(* Eth either receives, or sends.                                           *)
(***************************************************************************)
EXTENDS Arp, Rfs, Eth, TLC

VARIABLES
    part,
    netbuf, udptab, icmptab, ipo, netcall, msg, ipvalid, queued, nethalted

netvars == <<netbuf, udptab, icmptab, ipo, netcall, msg, ipvalid, queued, nethalted>>
vars == <<part, avars, netvars, evars, rfvars>>

Packet(proto, src, sport, dport) == [proto |-> proto, src |-> src, sport |-> sport, dport |-> dport]
For(us, pkt) == [us |-> us, bcast |-> FALSE, pkt |-> pkt]

Datagrams == {For(TRUE, Packet("udp", 1, 2, 1)), For(TRUE, Packet("udp", 2, 2, 1)), For(FALSE, Packet("udp", 1, 2, 1))}
Echos == {For(TRUE, Packet("request", 1, 0, 0)), For(TRUE, Packet("reply", 1, 0, 0)), For(TRUE, Packet("reply", 1, 0, 7))}
Other == [us |-> FALSE, bcast |-> TRUE, pkt |-> Packet("other", 1, 0, 0)]

\* An endpoint that takes any datagram for the port, and one that takes those of a host.
Ports == {[remip |-> 0, remport |-> 0, locport |-> 1], [remip |-> 1, remport |-> 2, locport |-> 1]}

U == INSTANCE Net WITH App <- Process, Netin <- "netin", Ipout <- "ipout", Me <- 9,
                       UDP_SLOTS <- 2, UDP_QSIZ <- 1, ICMP_SLOTS <- 0, ICMP_QSIZ <- 1, IP_OQSIZ <- 2,
                       Arrivals <- Datagrams, Endpoints <- Ports, Destinations <- {[ip |-> 9, port |-> 1]}, Pinged <- {},
                       call <- netcall, halted <- nethalted

\* The same with one endpoint that holds two packets.
D == INSTANCE Net WITH App <- Process, Netin <- "netin", Ipout <- "ipout", Me <- 9,
                       UDP_SLOTS <- 1, UDP_QSIZ <- 2, ICMP_SLOTS <- 0, ICMP_QSIZ <- 1, IP_OQSIZ <- 2,
                       Arrivals <- Datagrams, Endpoints <- Ports, Destinations <- {[ip |-> 9, port |-> 1]}, Pinged <- {},
                       call <- netcall, halted <- nethalted

I == INSTANCE Net WITH App <- Process, Netin <- "netin", Ipout <- "ipout", Me <- 9,
                       UDP_SLOTS <- 0, UDP_QSIZ <- 1, ICMP_SLOTS <- 2, ICMP_QSIZ <- 1, IP_OQSIZ <- 1,
                       Arrivals <- Echos \cup {Other}, Endpoints <- {}, Destinations <- {}, Pinged <- {9},
                       call <- netcall, halted <- nethalted

\* More frames than descriptors, and more addresses than fit; or frames to send, and one to
\* read now and then.
Receives == EthNext /\ tx' = tx /\ unsent' = unsent
Sends == EthNext /\ unread' \in {<<>>, <<"mine">>} /\ mca' = mca

\* Rfs: one position is enough for a write, a seek back and a read.
MCModes == {<<"n">>, <<"r">>, <<"o", "n">>}
MCTexts == {<<"a">>}

Init ==
    /\ part \in {"arp", "udp", "deep", "icmp", "receive", "transmit", "files"}
    /\ arp_init /\ rfsinit /\ ethinit
    /\ part = "deep" => D!Init
    /\ part = "icmp" => I!Init
    /\ part \notin {"deep", "icmp"} => U!Init

Next ==
    \/ part = "arp" /\ ArpNext /\ UNCHANGED <<part, netvars, evars, rfvars>>
    \/ part = "udp" /\ U!Next /\ UNCHANGED <<part, avars, evars, rfvars>>
    \/ part = "deep" /\ D!Next /\ UNCHANGED <<part, avars, evars, rfvars>>
    \/ part = "icmp" /\ I!Next /\ UNCHANGED <<part, avars, evars, rfvars>>
    \/ part = "receive" /\ Receives /\ UNCHANGED <<part, avars, netvars, rfvars>>
    \/ part = "transmit" /\ Sends /\ UNCHANGED <<part, avars, netvars, rfvars>>
    \/ part = "files" /\ RfsNext /\ UNCHANGED <<part, avars, netvars, evars>>

Spec == Init /\ [][Next]_vars

Symmetry == Permutations(Process)

\* What an endpoint holds; a free one, or a cell that has been read, is not looked at.
Live(e, cells) ==
    IF e.state = "FREE" THEN <<>>
    ELSE <<e.remip, e.state, e.pid, e.ring.head, e.ring.tail, e.ring.count,
           [i \in 1..e.ring.count |-> e.ring.cell[(e.ring.head + i - 1) % cells]]>>

\* Of a message that cannot be taken for the current exchange only its effect matters.
Stale(m) == m.seq < rf_seq - 1 \/ (m.seq = rf_seq - 1 /\ \A p \in Process : rcall[p].at # "recv")
SeenRequest(m) == IF ~Stale(m) THEN m ELSE IF m.req.type = "RREQ" THEN <<>> ELSE m.req
SeenReply(m) == IF Stale(m) THEN <<>> ELSE IF m.old THEN <<m.seq, m.type>> ELSE m

\* Nothing follows once a part has stopped.
Seen ==
    CASE part = "arp" -> <<part, avars>>
      [] part \in {"udp", "deep", "icmp"} ->
            IF nethalted # "no" THEN <<part, nethalted>>
            ELSE <<part, netbuf, [s \in DOMAIN udptab |-> Live(udptab[s], IF part = "deep" THEN 2 ELSE 1)],
                   [s \in DOMAIN icmptab |-> Live(icmptab[s], 1)], ipo, netcall, msg, ipvalid, queued>>
      [] part \in {"receive", "transmit"} -> IF halted # "no" THEN <<part, halted>> ELSE <<part, evars>>
      [] part = "files" ->
            IF rhalted # "no" THEN <<part, rhalted>>
            ELSE <<part, rfltab, rf_seq, rf_registered, rf_mutex, rcall, [i \in DOMAIN requests |-> SeenRequest(requests[i])],
                   [i \in DOMAIN replies |-> SeenReply(replies[i])], file, possible, gotOld>>

\* Net: no buffer is lost or freed twice; endpoints hold what they accepted and wake their
\* readers; and processes that all wait for a buffer do so because of an echo request.
BuffersConserved ==
    /\ part = "udp" => U!BuffersConserved
    /\ part = "deep" => D!BuffersConserved
    /\ part = "icmp" => I!BuffersConserved
QueuesExact ==
    /\ part = "udp" => U!QueuesExact
    /\ part = "deep" => D!QueuesExact
    /\ part = "icmp" => I!QueuesExact
StuckOnlyByEcho ==
    /\ part = "udp" => U!StuckOnlyByEcho
    /\ part = "deep" => D!StuckOnlyByEcho
    /\ part = "icmp" => I!StuckOnlyByEcho
===============================================================================
