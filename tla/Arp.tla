---------------------------------- MODULE Arp ----------------------------------
(***************************************************************************)
(* The ARP cache (net/arp.c): processes that resolve an address and wait    *)
(* for the answer with recvtime(), the network input process that handles   *)
(* requests and replies, and the reuse of entries.                          *)
(*                                                                          *)
(* Both run with interrupts disabled and give up the processor only in      *)
(* recvtime().  A host is its own protocol address and its own hardware     *)
(* address; hosts send ARP packets whenever they like, so that replies come *)
(* late, twice, unasked or never.                                           *)
(***************************************************************************)
EXTENDS Tables, FiniteSets

CONSTANTS
    Process,
    NoProcess,
    Host,
    Bcast,       \* IP_BCAST and NetData.ipbcast, and NetData.ethbcast
    Zero,        \* a hardware address that memset() cleared
    ARP_SIZ,
    ARP_RETRY

\* A message that names a host is no other message.
ASSUME ArpAssumption ==
    /\ ARP_SIZ \in Nat /\ ARP_RETRY \in Nat
    /\ NoProcess \notin Process
    /\ {"none", "SYSERR", "other"} \cap Host = {}

Slot == 0..(ARP_SIZ - 1)

VARIABLES
    arpcache,
    acall,        \* local variables of arp_resolve() in each process
    amsg,         \* message of a process that waits: "none", "SYSERR", "other" or the host found
    mac,         \* last address asked for and the result, and whether it may be wrong
    left         \* entries left pending by a process that does not wait any more

avars == <<arpcache, acall, amsg, mac, left>>

FreeEntry == [state |-> "FREE", paddr |-> Zero, pid |-> NoProcess, haddr |-> Zero]
NoCall == [at |-> "run", hop |-> Zero, slot |-> 0, tries |-> 0, evicted |-> FALSE]
NoMac == [hop |-> Zero, haddr |-> Zero, excused |-> FALSE]

\* arp_init()
arp_init ==
    /\ arpcache = [s \in Slot |-> FreeEntry]
    /\ acall = [p \in Process |-> NoCall]
    /\ amsg = [p \in Process |-> "none"]
    /\ mac = [p \in Process |-> NoMac]
    /\ left = {}

\* The search for an address, in arp_resolve() and in arp_in().
Found(addr) == First({s \in Slot : arpcache[s].state # "FREE" /\ arpcache[s].paddr = addr})

\* Mutation: any entry may be kicked out, pending ones too.
arp_allocAny(cache) ==
    LET in(state) == First({s \in Slot : cache[s].state = state})
    IN  IF in("FREE") # {} THEN in("FREE") ELSE {0}

\* The slot that arp_alloc() clears and returns, none for SYSERR.
arp_alloc(cache) ==
    LET in(state) == First({s \in Slot : cache[s].state = state})
    IN  IF in("FREE") # {} THEN in("FREE") ELSE in("RESOLVED")

\* Calls that lose the entry they were to read.
Evicted(slots) ==
    [p \in Process |-> [acall[p] EXCEPT !.evicted = @ \/ (acall[p].at = "wait" /\ acall[p].slot \in slots)]]

Return(p, hop, haddr, excused) ==
    mac' = [mac EXCEPT ![p] = [hop |-> hop, haddr |-> haddr, excused |-> excused]]

\* arp_resolve() for a broadcast, for an address in the cache and for one that is being
\* resolved.
arp_resolve(p, hop) ==
    /\ acall[p].at = "run"
    /\ \/ hop = Bcast /\ Return(p, hop, Bcast, FALSE)
       \/ \E s \in Found(hop) :
            IF arpcache[s].state = "RESOLVED" THEN Return(p, hop, arpcache[s].haddr, FALSE)
            ELSE mac' = [mac EXCEPT ![p] = NoMac]
    /\ UNCHANGED <<arpcache, acall, amsg, left>>

\* arp_resolve() for an unknown address, up to recvtime(); SYSERR if the cache is full of
\* pending entries.
arp_resolveAsk(p, hop) ==
    /\ acall[p].at = "run" /\ hop # Bcast /\ Found(hop) = {}
    /\ mac' = [mac EXCEPT ![p] = NoMac]
    /\ IF arp_alloc(arpcache) = {} THEN UNCHANGED <<arpcache, acall, amsg, left>>
       ELSE \E s \in arp_alloc(arpcache) :
                /\ arpcache' = [arpcache EXCEPT ![s] =
                                    [state |-> "PENDING", paddr |-> hop, pid |-> p, haddr |-> Zero]]
                /\ acall' = [Evicted({s}) EXCEPT ![p] =
                                [at |-> "wait", hop |-> hop, slot |-> s, tries |-> 1, evicted |-> FALSE]]
                /\ amsg' = [amsg EXCEPT ![p] = "none"]
                /\ left' = left \ {s}

\* recvtime() returns TIMEOUT: ask again, or give the entry up.
arp_resolveTimeout(p) ==
    /\ acall[p].at = "wait" /\ amsg[p] = "none"
    /\ IF acall[p].tries < ARP_RETRY
       THEN /\ acall' = [acall EXCEPT ![p].tries = @ + 1]
            /\ UNCHANGED <<arpcache, left>>
       ELSE /\ acall' = [acall EXCEPT ![p] = NoCall]
            /\ arpcache' = [arpcache EXCEPT ![acall[p].slot].state = "FREE"]
            /\ left' = left \ {acall[p].slot}
    /\ UNCHANGED <<amsg, mac>>

\* recvtime() returns a message: SYSERR, or anything else for "resolved".
arp_resolveWake(p) ==
    /\ acall[p].at = "wait" /\ amsg[p] # "none"
    /\ IF amsg[p] = "SYSERR" THEN UNCHANGED mac
       ELSE Return(p, acall[p].hop, arpcache[acall[p].slot].haddr,
                   acall[p].evicted \/ amsg[p] # acall[p].hop)
    /\ left' = IF arpcache[acall[p].slot].state = "PENDING" /\ ~acall[p].evicted
               THEN left \cup {acall[p].slot} ELSE left
    /\ acall' = [acall EXCEPT ![p] = NoCall]
    /\ amsg' = [amsg EXCEPT ![p] = "none"]
    /\ UNCHANGED arpcache

\* send() to processes in recvtime(), unless they have a message already.  A message for a
\* process that does not wait is cleared by its next recvclr().
Told(to, m) ==
    [p \in Process |-> IF p \in to /\ acall[p].at = "wait" /\ amsg[p] = "none" THEN m ELSE amsg[p]]

\* The part of arp_in() for every packet: what is known of the sender is brought up to
\* date, and a process that waits for it is told.
Learnt(src) ==
    [s \in Slot |->
        IF s \notin Found(src) THEN arpcache[s]
        ELSE [arpcache[s] EXCEPT !.haddr = src, !.state = "RESOLVED"]]

\* op is ARP_OP_REQ or ARP_OP_RPLY; forUs: the address is valid and the target's.
arp_in(op, src, forUs) ==
    /\ \E cache \in {Learnt(src)} :
        IF op = "RPLY" \/ ~forUs \/ Found(src) # {} \/ arp_alloc(cache) = {}
        THEN arpcache' = cache /\ UNCHANGED acall
        ELSE \E s \in arp_alloc(cache) :
                /\ arpcache' = [cache EXCEPT ![s] =
                        [state |-> "RESOLVED", paddr |-> src, pid |-> NoProcess, haddr |-> src]]
                /\ acall' = Evicted({s})
    /\ left' = left \ Found(src)
    /\ amsg' = Told({arpcache[s].pid : s \in {t \in Found(src) : arpcache[t].state = "PENDING"}}, src)
    /\ UNCHANGED mac

\* Any other message for a process that waits, such as the end of a child.
arp_other(p, m) ==
    /\ acall[p].at = "wait" /\ amsg[p] = "none"
    /\ amsg' = Told({p}, m)
    /\ UNCHANGED <<arpcache, acall, mac, left>>

ArpNext ==
    \/ \E p \in Process :
        \/ \E hop \in Host \cup {Bcast} : arp_resolve(p, hop) \/ arp_resolveAsk(p, hop)
        \/ arp_resolveTimeout(p) \/ arp_resolveWake(p)
        \/ \E m \in {"SYSERR", "other"} : arp_other(p, m)
    \/ \E op \in {"REQ", "RPLY"}, src \in Host, forUs \in BOOLEAN : arp_in(op, src, forUs)

ArpSpec == arp_init /\ [][ArpNext]_avars

\* With requests that time out, replies that come late and entries that are reused: no
\* address has two entries; what the cache says of a host is right; a process that waits
\* and has no message has its own pending entry, so that the answer finds it; a pending
\* entry has such a process, unless that was woken by something else; and the address
\* that arp_resolve() returns is that of the next hop, unless the entry was reused before
\* the process ran or the message was not about it.
ArpExact ==
    /\ \A s, t \in Slot :
        s # t /\ arpcache[s].state # "FREE" /\ arpcache[t].state # "FREE" =>
            arpcache[s].paddr # arpcache[t].paddr
    /\ \A s \in Slot :
        /\ arpcache[s].state = "RESOLVED" => arpcache[s].haddr = arpcache[s].paddr
        /\ arpcache[s].state = "PENDING" /\ s \notin left =>
                LET p == arpcache[s].pid
                IN  acall[p].at = "wait" /\ acall[p].slot = s /\ amsg[p] # arpcache[s].paddr
    /\ \A p \in Process :
        /\ acall[p].at = "wait" /\ amsg[p] = "none" =>
                LET e == arpcache[acall[p].slot]
                IN  e.state = "PENDING" /\ e.paddr = acall[p].hop /\ e.pid = p
        /\ mac[p].haddr = mac[p].hop \/ mac[p].excused
===============================================================================
