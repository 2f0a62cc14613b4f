---------------------------- MODULE ServiceProofs -----------------------------
(***************************************************************************)
(* What processes that share a table, a server, a queue of messages or the  *)
(* free memory may rely on: Arp, for any number of processes, hosts and     *)
(* entries; Rfs, for any number of processes, requests and copies of them   *)
(* on their way; Ports, for any number of processes, ports and nodes;       *)
(* Memory, for heaps, requests and a pool of any size; and Tty, for any     *)
(* number of processes and buffers of any size.                             *)
(***************************************************************************)
EXTENDS Memory, Arp, Rfs, Ports, Tty, QueueProofs, FiniteSetTheorems

Entry == [state : {"FREE", "PENDING", "RESOLVED"}, paddr : Host \cup {Zero},
          pid : Process \cup {NoProcess}, haddr : Host \cup {Zero}]

ArpCall == [at : {"run", "wait"}, hop : Host \cup {Zero}, slot : Nat, tries : Nat, evicted : BOOLEAN]

\* A cache: an address has one entry at most, what is known of a host is right, and a
\* pending entry is some process's.
CacheSound(cache) ==
    /\ cache \in [Slot -> Entry]
    /\ \A s \in Slot : cache[s].state # "FREE" => cache[s].paddr \in Host
    /\ \A s \in Slot : cache[s].state = "RESOLVED" => cache[s].haddr = cache[s].paddr
    /\ \A s \in Slot : cache[s].state = "PENDING" => cache[s].pid \in Process
    /\ \A s, t \in Slot : cache[s].state # "FREE" /\ cache[t].state # "FREE" /\ cache[s].paddr = cache[t].paddr => s = t

\* The calls that wait: one that has lost its entry is not named there, and one that has
\* not is; with the message that its address is known, it is.
CallSound(c, m, cache, p) ==
    c.at = "wait" =>
        /\ c.slot \in Slot /\ c.hop \in Host
        /\ c.evicted => cache[c.slot].pid # p
        /\ ~c.evicted => cache[c.slot].pid = p /\ cache[c.slot].paddr = c.hop /\ cache[c.slot].state # "FREE"
        /\ ~c.evicted /\ m = c.hop => cache[c.slot].state = "RESOLVED"
        /\ m = "none" => ~c.evicted /\ cache[c.slot].state = "PENDING"

\* A pending entry that was not left behind has a call that waits for its answer.
EntrySound(e, s) ==
    e.state = "PENDING" =>
        acall[e.pid].at = "wait" /\ acall[e.pid].slot = s /\ amsg[e.pid] # e.paddr

ArpTypes ==
    /\ acall \in [Process -> ArpCall]
    /\ amsg \in [Process -> Host \cup {"none", "SYSERR", "other"}]
    /\ mac \in [Process -> [hop : Host \cup {Zero, Bcast}, haddr : Host \cup {Zero, Bcast}, excused : BOOLEAN]]
    /\ left \subseteq Slot

Calls == \A p \in Process : CallSound(acall[p], amsg[p], arpcache, p)
Entries == \A s \in Slot \ left : EntrySound(arpcache[s], s)
Results == \A p \in Process : mac[p].haddr = mac[p].hop \/ mac[p].excused

ArpInv == ArpTypes /\ CacheSound(arpcache) /\ Calls /\ Entries /\ Results

----
\* The cache.

LEMMA OtherMessages == \A h \in Host : h # "none" /\ h # "SYSERR" /\ h # "other"
BY ArpAssumption

LEMMA SlotIsInt == Slot \subseteq Nat
BY ArpAssumption DEF Slot

\* The search finds the entry of the address, which is one at most.
LEMMA FoundIs ==
    ASSUME NEW addr, NEW s \in Found(addr)
    PROVE  s \in Slot /\ arpcache[s].state # "FREE" /\ arpcache[s].paddr = addr
BY DEF Found, First

LEMMA FoundExactly ==
    ASSUME CacheSound(arpcache), NEW s \in Slot, arpcache[s].state # "FREE"
    PROVE  Found(arpcache[s].paddr) = {s}
<1> DEFINE S == {t \in Slot : arpcache[t].state # "FREE" /\ arpcache[t].paddr = arpcache[s].paddr}
<1>1. S = {s}
  BY DEF CacheSound
<1>2. s <= s
  BY SlotIsInt
<1>3. First(S) = {s}
  BY <1>1, <1>2 DEF First
<1> QED
  BY <1>3 DEF Found

LEMMA FoundNone ==
    ASSUME CacheSound(arpcache), NEW addr, Found(addr) = {}, NEW s \in Slot
    PROVE  arpcache[s].state = "FREE" \/ arpcache[s].paddr # addr
BY FoundExactly

\* An entry that is pending is not reused.
LEMMA AllocIs ==
    ASSUME NEW cache, NEW s \in arp_alloc(cache)
    PROVE  s \in Slot /\ cache[s].state \in {"FREE", "RESOLVED"}
BY DEF arp_alloc, First

\* A new entry for an address that has none keeps the cache sound.
LEMMA Placed ==
    ASSUME NEW cache, CacheSound(cache), NEW s \in Slot, NEW e \in Entry,
           e.state # "FREE", e.paddr \in Host,
           e.state = "RESOLVED" => e.haddr = e.paddr,
           e.state = "PENDING" => e.pid \in Process,
           \A t \in Slot : cache[t].state = "FREE" \/ cache[t].paddr # e.paddr
    PROVE  CacheSound([cache EXCEPT ![s] = e])
<1> DEFINE c == [cache EXCEPT ![s] = e]
<1>1. c \in [Slot -> Entry] /\ c[s] = e /\ \A t \in Slot \ {s} : c[t] = cache[t]
  BY DEF CacheSound
<1> HIDE DEF c
<1>2. \A t, u \in Slot : c[t].state # "FREE" /\ c[u].state # "FREE" /\ c[t].paddr = c[u].paddr => t = u
  BY <1>1 DEF CacheSound
<1>3. /\ \A t \in Slot : c[t].state # "FREE" => c[t].paddr \in Host
      /\ \A t \in Slot : c[t].state = "RESOLVED" => c[t].haddr = c[t].paddr
      /\ \A t \in Slot : c[t].state = "PENDING" => c[t].pid \in Process
  BY <1>1 DEF CacheSound
<1>4. CacheSound(c)
  BY <1>1, <1>2, <1>3 DEF CacheSound
<1> QED
  BY <1>4 DEF c

\* So does giving one up.
LEMMA Freed ==
    ASSUME NEW cache, CacheSound(cache), NEW s \in Slot
    PROVE  /\ CacheSound([cache EXCEPT ![s].state = "FREE"])
           /\ [cache EXCEPT ![s].state = "FREE"][s].state = "FREE"
           /\ \A t \in Slot \ {s} : [cache EXCEPT ![s].state = "FREE"][t] = cache[t]
<1> DEFINE e == [cache[s] EXCEPT !.state = "FREE"]
           c == [cache EXCEPT ![s].state = "FREE"]
<1>0. cache[s] \in Entry
  BY DEF CacheSound
<1>a. e \in Entry /\ e.state = "FREE"
  BY <1>0 DEF Entry
<1>b. c = [cache EXCEPT ![s] = e]
  BY DEF CacheSound
<1> HIDE DEF e, c
<1>1. c \in [Slot -> Entry] /\ c[s] = e /\ \A t \in Slot \ {s} : c[t] = cache[t]
  BY <1>a, <1>b DEF CacheSound
<1>2. \A t, u \in Slot : c[t].state # "FREE" /\ c[u].state # "FREE" /\ c[t].paddr = c[u].paddr => t = u
  BY <1>1, <1>a DEF CacheSound
<1>3. /\ \A t \in Slot : c[t].state # "FREE" => c[t].paddr \in Host
      /\ \A t \in Slot : c[t].state = "RESOLVED" => c[t].haddr = c[t].paddr
      /\ \A t \in Slot : c[t].state = "PENDING" => c[t].pid \in Process
  BY <1>1, <1>a DEF CacheSound
<1>4. CacheSound(c)
  BY <1>1, <1>2, <1>3 DEF CacheSound
<1> QED
  BY <1>1, <1>4, <1>a DEF c

\* What arp_in() does to the entry of the sender, and to no other.
LEMMA LearntIs ==
    ASSUME CacheSound(arpcache), NEW src \in Host
    PROVE  /\ CacheSound(Learnt(src))
           /\ \A s \in Slot : /\ Learnt(src)[s].paddr = arpcache[s].paddr
                              /\ Learnt(src)[s].pid = arpcache[s].pid
                              /\ arpcache[s].state = "FREE" => Learnt(src)[s].state = "FREE"
                              /\ arpcache[s].state # "FREE" => Learnt(src)[s].state =
                                    IF arpcache[s].paddr = src THEN "RESOLVED" ELSE arpcache[s].state
<1> DEFINE c == Learnt(src)
<1>1. \A s \in Slot : s \in Found(src) <=> arpcache[s].state # "FREE" /\ arpcache[s].paddr = src
  BY FoundIs, FoundExactly
<1>2. ASSUME NEW s \in Slot, s \notin Found(src) PROVE c[s] = arpcache[s]
  BY <1>2 DEF Learnt
<1>3. ASSUME NEW s \in Slot, s \in Found(src)
      PROVE  c[s] \in Entry /\ c[s].paddr = src /\ c[s].haddr = src /\ c[s].state = "RESOLVED"
             /\ c[s].pid = arpcache[s].pid
  <2>1. arpcache[s] \in Entry
    BY DEF CacheSound
  <2>2. c[s] = [arpcache[s] EXCEPT !.haddr = src, !.state = "RESOLVED"]
    BY <1>3 DEF Learnt
  <2>3. arpcache[s].paddr = src
    BY <1>1, <1>3
  <2> HIDE DEF c
  <2> QED
    BY <2>1, <2>2, <2>3 DEF Entry
<1>4. c = [s \in Slot |-> c[s]]
  BY DEF Learnt
<1> HIDE DEF c
<1>5. c \in [Slot -> Entry]
  <2>1. \A s \in Slot : c[s] \in Entry
    BY <1>2, <1>3 DEF CacheSound
  <2> QED
    BY <2>1, <1>4
<1>6. \A s \in Slot : /\ c[s].paddr = arpcache[s].paddr
                      /\ c[s].pid = arpcache[s].pid
                      /\ arpcache[s].state = "FREE" => c[s].state = "FREE"
                      /\ arpcache[s].state # "FREE" => c[s].state =
                            IF arpcache[s].paddr = src THEN "RESOLVED" ELSE arpcache[s].state
  BY <1>1, <1>2, <1>3
<1>7. \A t, u \in Slot : c[t].state # "FREE" /\ c[u].state # "FREE" /\ c[t].paddr = c[u].paddr => t = u
  BY <1>6 DEF CacheSound
<1>8. /\ \A t \in Slot : c[t].state # "FREE" => c[t].paddr \in Host
      /\ \A t \in Slot : c[t].state = "PENDING" => c[t].pid \in Process
  BY <1>6 DEF CacheSound
<1>9. \A t \in Slot : c[t].state = "RESOLVED" => c[t].haddr = c[t].paddr
  BY <1>1, <1>2, <1>3 DEF CacheSound
<1>10. CacheSound(c)
  BY <1>5, <1>7, <1>8, <1>9 DEF CacheSound
<1> QED
  BY <1>6, <1>10 DEF c

----
\* The calls.

LEMMA ArpStart ==
    ASSUME arp_init
    PROVE  ArpInv
<1>1. FreeEntry \in Entry /\ FreeEntry.state = "FREE"
  BY DEF FreeEntry, Entry
<1>2. NoCall \in ArpCall /\ NoCall.at = "run"
  BY DEF NoCall, ArpCall
<1>3. NoMac \in [hop : Host \cup {Zero, Bcast}, haddr : Host \cup {Zero, Bcast}, excused : BOOLEAN]
      /\ NoMac.haddr = NoMac.hop
  BY DEF NoMac
<1>4. ArpTypes
  BY <1>2, <1>3 DEF arp_init, ArpTypes
<1>5. \A s \in Slot : arpcache[s] = FreeEntry
  BY DEF arp_init
<1>6. CacheSound(arpcache)
  BY <1>1, <1>5 DEF arp_init, CacheSound
<1>7. Calls
  BY <1>2 DEF arp_init, Calls, CallSound
<1>8. Entries
  BY <1>1, <1>5 DEF Entries, EntrySound
<1>9. Results
  BY <1>3 DEF arp_init, Results
<1> QED
  BY <1>4, <1>6, <1>7, <1>8, <1>9 DEF ArpInv

\* An address that is returned, or none.
LEMMA ReturnIs ==
    ASSUME ArpInv, NEW p \in Process, NEW hop \in Host \cup {Zero, Bcast}, NEW haddr \in Host \cup {Zero, Bcast},
           NEW excused \in BOOLEAN, haddr = hop \/ excused,
           mac' = [mac EXCEPT ![p] = [hop |-> hop, haddr |-> haddr, excused |-> excused]]
    PROVE  /\ mac' \in [Process -> [hop : Host \cup {Zero, Bcast}, haddr : Host \cup {Zero, Bcast}, excused : BOOLEAN]]
           /\ Results'
BY DEF ArpInv, ArpTypes, Results

LEMMA NoMacReturned ==
    ASSUME ArpInv, NEW p \in Process, mac' = [mac EXCEPT ![p] = NoMac]
    PROVE  /\ mac' \in [Process -> [hop : Host \cup {Zero, Bcast}, haddr : Host \cup {Zero, Bcast}, excused : BOOLEAN]]
           /\ Results'
BY ReturnIs DEF NoMac

LEMMA Same ==
    ASSUME ArpInv, UNCHANGED <<arpcache, acall, amsg, left>>
    PROVE  /\ CacheSound(arpcache)' /\ Calls' /\ Entries'
           /\ acall' \in [Process -> ArpCall]
           /\ amsg' \in [Process -> Host \cup {"none", "SYSERR", "other"}]
           /\ left' \subseteq Slot
BY DEF ArpInv, ArpTypes, CacheSound, Calls, CallSound, Entries, EntrySound

\* Reusing an entry marks the calls that wait for it, and changes nothing else of a call.
LEMMA EvictedIs ==
    ASSUME ArpInv, NEW S
    PROVE  /\ Evicted(S) \in [Process -> ArpCall]
           /\ \A p \in Process :
                /\ Evicted(S)[p].at = acall[p].at /\ Evicted(S)[p].hop = acall[p].hop
                /\ Evicted(S)[p].slot = acall[p].slot
                /\ Evicted(S)[p].evicted = (acall[p].evicted \/ (acall[p].at = "wait" /\ acall[p].slot \in S))
<1> SUFFICES ASSUME NEW p \in Process
             PROVE  /\ Evicted(S)[p] \in ArpCall
                    /\ Evicted(S)[p].at = acall[p].at /\ Evicted(S)[p].hop = acall[p].hop
                    /\ Evicted(S)[p].slot = acall[p].slot
                    /\ Evicted(S)[p].evicted = (acall[p].evicted \/ (acall[p].at = "wait" /\ acall[p].slot \in S))
  BY DEF Evicted
<1> DEFINE v == acall[p].evicted \/ (acall[p].at = "wait" /\ acall[p].slot \in S)
<1>1. acall[p] \in ArpCall
  BY DEF ArpInv, ArpTypes
<1>2. Evicted(S)[p] = [acall[p] EXCEPT !.evicted = v]
  BY DEF Evicted
<1>3. v \in BOOLEAN
  OBVIOUS
<1>4. v = (acall[p].evicted \/ (acall[p].at = "wait" /\ acall[p].slot \in S))
  OBVIOUS
<1> HIDE DEF v
<1>5. /\ Evicted(S)[p] \in ArpCall
      /\ Evicted(S)[p].at = acall[p].at /\ Evicted(S)[p].hop = acall[p].hop
      /\ Evicted(S)[p].slot = acall[p].slot
      /\ Evicted(S)[p].evicted = v
  BY <1>1, <1>2, <1>3 DEF ArpCall
<1> QED
  BY <1>4, <1>5

LEMMA ResolveKeeps ==
    ASSUME ArpInv, NEW p \in Process, NEW hop \in Host \cup {Bcast}, arp_resolve(p, hop)
    PROVE  ArpInv'
<1>1. /\ mac' \in [Process -> [hop : Host \cup {Zero, Bcast}, haddr : Host \cup {Zero, Bcast}, excused : BOOLEAN]]
      /\ Results'
  <2>1. CASE hop = Bcast /\ Return(p, hop, Bcast, FALSE)
    BY <2>1, ReturnIs DEF Return
  <2>2. CASE mac' = [mac EXCEPT ![p] = NoMac]
    BY <2>2, NoMacReturned
  <2>3. ASSUME NEW s \in Found(hop), arpcache[s].state = "RESOLVED", Return(p, hop, arpcache[s].haddr, FALSE)
        PROVE  /\ mac' \in [Process -> [hop : Host \cup {Zero, Bcast}, haddr : Host \cup {Zero, Bcast}, excused : BOOLEAN]]
               /\ Results'
    <3>1. s \in Slot /\ arpcache[s].paddr = hop
      BY FoundIs
    <3>2. arpcache[s].haddr = hop
      BY <2>3, <3>1 DEF ArpInv, CacheSound
    <3> QED
      BY <2>3, <3>2, ReturnIs DEF Return
  <2> QED
    BY <2>1, <2>2, <2>3 DEF arp_resolve
<1>2. UNCHANGED <<arpcache, acall, amsg, left>>
  BY DEF arp_resolve
<1>3. ArpTypes'
  BY <1>1, <1>2, Same DEF ArpTypes
<1> QED
  BY <1>1, <1>2, <1>3, Same DEF ArpInv

LEMMA AskKeeps ==
    ASSUME ArpInv, NEW p \in Process, NEW hop \in Host \cup {Bcast}, arp_resolveAsk(p, hop)
    PROVE  ArpInv'
<1>1. hop \in Host /\ acall[p].at = "run"
  BY DEF arp_resolveAsk
<1>2. /\ mac' \in [Process -> [hop : Host \cup {Zero, Bcast}, haddr : Host \cup {Zero, Bcast}, excused : BOOLEAN]]
      /\ Results'
  BY NoMacReturned DEF arp_resolveAsk
<1>3. CASE UNCHANGED <<arpcache, acall, amsg, left>>
  <2>1. ArpTypes'
    BY <1>2, <1>3, Same DEF ArpTypes
  <2> QED
    BY <1>2, <1>3, <2>1, Same DEF ArpInv
<1>4. ASSUME NEW s \in arp_alloc(arpcache),
             arpcache' = [arpcache EXCEPT ![s] = [state |-> "PENDING", paddr |-> hop, pid |-> p, haddr |-> Zero]],
             acall' = [Evicted({s}) EXCEPT ![p] =
                          [at |-> "wait", hop |-> hop, slot |-> s, tries |-> 1, evicted |-> FALSE]],
             amsg' = [amsg EXCEPT ![p] = "none"],
             left' = left \ {s}
      PROVE  ArpInv'
  <2> DEFINE e == [state |-> "PENDING", paddr |-> hop, pid |-> p, haddr |-> Zero]
             n == [at |-> "wait", hop |-> hop, slot |-> s, tries |-> 1, evicted |-> FALSE]
  <2>1. s \in Slot /\ arpcache[s].state \in {"FREE", "RESOLVED"}
    BY AllocIs
  <2>2. e \in Entry /\ e.state = "PENDING" /\ e.paddr = hop /\ e.pid = p
    BY <1>1 DEF Entry
  <2>3. n \in ArpCall /\ n.at = "wait" /\ n.hop = hop /\ n.slot = s /\ n.evicted = FALSE
    BY <1>1, <2>1, SlotIsInt DEF ArpCall
  <2>4. \A t \in Slot : arpcache[t].state = "FREE" \/ arpcache[t].paddr # hop
    BY FoundNone DEF arp_resolveAsk, ArpInv
  <2>5. arpcache' = [arpcache EXCEPT ![s] = e] /\ acall' = [Evicted({s}) EXCEPT ![p] = n]
    BY <1>4
  <2> HIDE DEF e, n
  <2>6. CacheSound(arpcache)'
    <3>1. CacheSound([arpcache EXCEPT ![s] = e])
      BY <1>1, <2>1, <2>2, <2>4, Placed DEF ArpInv
    <3> QED
      BY <2>5, <3>1 DEF CacheSound
  <2>7. arpcache'[s] = e /\ \A t \in Slot \ {s} : arpcache'[t] = arpcache[t]
    BY <2>1, <2>5 DEF ArpInv, CacheSound
  <2>8. acall' \in [Process -> ArpCall] /\ acall'[p] = n /\ \A q \in Process \ {p} : acall'[q] = Evicted({s})[q]
    BY <2>3, <2>5, EvictedIs
  <2>9. amsg' \in [Process -> Host \cup {"none", "SYSERR", "other"}] /\ amsg'[p] = "none"
        /\ \A q \in Process \ {p} : amsg'[q] = amsg[q]
    BY <1>4 DEF ArpInv, ArpTypes
  <2>10. ArpTypes'
    BY <1>2, <1>4, <2>8, <2>9 DEF ArpInv, ArpTypes
  <2>11. Calls'
    <3>1. CallSound(acall'[p], amsg'[p], arpcache', p)
      BY <1>1, <2>1, <2>2, <2>3, <2>7, <2>8, <2>9, OtherMessages DEF CallSound
    <3>2. ASSUME NEW q \in Process \ {p} PROVE CallSound(acall'[q], amsg'[q], arpcache', q)
      <4>1. CallSound(acall[q], amsg[q], arpcache, q)
        BY DEF ArpInv, Calls
      <4>2. /\ acall'[q].at = acall[q].at /\ acall'[q].hop = acall[q].hop /\ acall'[q].slot = acall[q].slot
            /\ acall'[q].evicted = (acall[q].evicted \/ (acall[q].at = "wait" /\ acall[q].slot \in {s}))
            /\ amsg'[q] = amsg[q]
        BY <2>8, <2>9, EvictedIs
      <4>3. CASE acall[q].slot = s
        <5>1. acall'[q].at = "wait" => acall'[q].evicted
          BY <4>2, <4>3
        <5>2. acall[q].at = "wait" => amsg[q] # "none"
          BY <2>1, <4>1, <4>3 DEF CallSound
        <5>3. arpcache'[acall'[q].slot].pid # q
          BY <2>2, <2>7, <4>2, <4>3
        <5> QED
          BY <2>1, <4>1, <4>2, <5>1, <5>2, <5>3 DEF CallSound
      <4>4. CASE acall[q].slot # s
        <5>1. acall[q].at = "wait" => arpcache'[acall[q].slot] = arpcache[acall[q].slot]
          BY <2>7, <4>1, <4>4 DEF CallSound
        <5>2. acall[q].evicted \in BOOLEAN
          BY DEF ArpInv, ArpTypes, ArpCall
        <5>3. acall'[q].evicted = acall[q].evicted
          BY <4>2, <4>4, <5>2
        <5> QED
          BY <4>1, <4>2, <5>1, <5>3 DEF CallSound
      <4> QED
        BY <4>3, <4>4
    <3> QED
      BY <3>1, <3>2 DEF Calls
  <2>12. Entries'
    <3> SUFFICES ASSUME NEW t \in Slot \ left' PROVE EntrySound(arpcache[t], t)'
      BY DEF Entries
    <3>1. CASE t = s
      <4>1. arpcache'[t] = e /\ e.pid = p /\ e.paddr # "none"
        BY <1>1, <2>2, <2>7, <3>1, OtherMessages
      <4>2. acall'[p].at = "wait" /\ acall'[p].slot = t /\ amsg'[p] = "none"
        BY <2>3, <2>8, <2>9, <3>1
      <4> QED
        BY <4>1, <4>2 DEF EntrySound
    <3>2. CASE t # s
      <4>1. EntrySound(arpcache[t], t)
        BY <1>4, <3>2 DEF ArpInv, Entries
      <4>2. arpcache[t].state = "PENDING" => arpcache[t].pid \in Process
        BY DEF ArpInv, CacheSound
      <4> QED
        BY <1>1, <2>7, <2>8, <2>9, <3>2, <4>1, <4>2, EvictedIs DEF EntrySound
    <3> QED
      BY <3>1, <3>2
  <2> QED
    BY <1>2, <2>6, <2>10, <2>11, <2>12 DEF ArpInv
<1> QED
  BY <1>3, <1>4 DEF arp_resolveAsk

LEMMA TimeoutKeeps ==
    ASSUME ArpInv, NEW p \in Process, arp_resolveTimeout(p)
    PROVE  ArpInv'
<1>1. acall[p].at = "wait" /\ amsg[p] = "none" /\ UNCHANGED <<amsg, mac>>
  BY DEF arp_resolveTimeout
<1>2. Results'
  BY <1>1 DEF ArpInv, Results
<1>3. /\ acall[p] \in ArpCall /\ acall[p].slot \in Slot /\ ~acall[p].evicted
      /\ arpcache[acall[p].slot].state = "PENDING" /\ arpcache[acall[p].slot].pid = p
  BY <1>1 DEF ArpInv, ArpTypes, Calls, CallSound
<1>4. CASE acall' = [acall EXCEPT ![p].tries = @ + 1] /\ UNCHANGED <<arpcache, left>>
  <2>1. acall' \in [Process -> ArpCall]
        /\ \A q \in Process : /\ acall'[q].at = acall[q].at /\ acall'[q].hop = acall[q].hop
                              /\ acall'[q].slot = acall[q].slot /\ acall'[q].evicted = acall[q].evicted
    <3> DEFINE n == [acall[p] EXCEPT !.tries = @ + 1]
    <3>1. n \in ArpCall /\ n.at = acall[p].at /\ n.hop = acall[p].hop /\ n.slot = acall[p].slot
          /\ n.evicted = acall[p].evicted
      BY <1>3 DEF ArpCall
    <3>2. acall' = [acall EXCEPT ![p] = n] /\ acall \in [Process -> ArpCall]
      BY <1>4 DEF ArpInv, ArpTypes
    <3> HIDE DEF n
    <3> QED
      BY <3>1, <3>2
  <2>2. ArpTypes'
    BY <1>1, <1>4, <2>1 DEF ArpInv, ArpTypes
  <2>3. CacheSound(arpcache)'
    BY <1>4 DEF ArpInv, CacheSound
  <2>4. Calls'
    BY <1>1, <1>4, <2>1 DEF ArpInv, Calls, CallSound
  <2>5. Entries'
    <3> SUFFICES ASSUME NEW s \in Slot \ left PROVE EntrySound(arpcache[s], s)'
      BY <1>4 DEF Entries
    <3>1. EntrySound(arpcache[s], s) /\ (arpcache[s].state = "PENDING" => arpcache[s].pid \in Process)
      BY DEF ArpInv, Entries, CacheSound
    <3> QED
      BY <1>1, <1>4, <2>1, <3>1 DEF EntrySound
  <2> QED
    BY <1>2, <2>2, <2>3, <2>4, <2>5 DEF ArpInv
<1>5. CASE /\ acall' = [acall EXCEPT ![p] = NoCall]
           /\ arpcache' = [arpcache EXCEPT ![acall[p].slot].state = "FREE"]
           /\ left' = left \ {acall[p].slot}
  <2>1. NoCall \in ArpCall /\ NoCall.at = "run"
    BY DEF NoCall, ArpCall
  <2>2. acall' \in [Process -> ArpCall] /\ acall'[p].at = "run" /\ \A q \in Process \ {p} : acall'[q] = acall[q]
    BY <1>5, <2>1 DEF ArpInv, ArpTypes
  <2>3. CacheSound(arpcache')
    BY <1>3, <1>5, Freed DEF ArpInv
  <2>4. arpcache'[acall[p].slot].state = "FREE" /\ \A t \in Slot \ {acall[p].slot} : arpcache'[t] = arpcache[t]
    BY <1>3, <1>5, Freed DEF ArpInv
  <2>5. ArpTypes'
    BY <1>1, <1>5, <2>2 DEF ArpInv, ArpTypes
  <2>6. Calls'
    <3> SUFFICES ASSUME NEW q \in Process PROVE CallSound(acall[q], amsg[q], arpcache, q)'
      BY DEF Calls
    <3>1. CASE q = p
      BY <2>2, <3>1 DEF CallSound
    <3>2. CASE q # p
      <4>1. CallSound(acall[q], amsg[q], arpcache, q) /\ acall'[q] = acall[q] /\ amsg'[q] = amsg[q]
        BY <1>1, <2>2, <3>2 DEF ArpInv, Calls
      <4>2. CASE acall[q].slot = acall[p].slot
        \* It has lost the entry, which is p's: it has been told something.
        <5>1. arpcache'[acall[p].slot].pid = p
          BY <1>3, <1>5 DEF ArpInv, CacheSound, Entry
        <5> QED
          BY <1>3, <3>2, <4>1, <4>2, <5>1 DEF CallSound
      <4>3. CASE acall[q].slot # acall[p].slot
        BY <2>4, <4>1, <4>3 DEF CallSound
      <4> QED
        BY <4>2, <4>3
    <3> QED
      BY <3>1, <3>2
  <2>7. Entries'
    <3> SUFFICES ASSUME NEW s \in Slot \ left' PROVE EntrySound(arpcache[s], s)'
      BY DEF Entries
    <3>1. CASE s = acall[p].slot
      BY <2>4, <3>1 DEF EntrySound
    <3>2. CASE s # acall[p].slot
      <4>1. EntrySound(arpcache[s], s) /\ (arpcache[s].state = "PENDING" => arpcache[s].pid \in Process)
        BY <1>5, <3>2 DEF ArpInv, Entries, CacheSound
      <4>2. arpcache[s].state = "PENDING" => arpcache[s].pid \in Process \ {p}
        BY <3>2, <4>1 DEF EntrySound
      <4> QED
        BY <1>1, <2>2, <2>4, <3>2, <4>1, <4>2 DEF EntrySound
    <3> QED
      BY <3>1, <3>2
  <2> QED
    BY <1>2, <2>3, <2>5, <2>6, <2>7 DEF ArpInv, CacheSound
<1> QED
  BY <1>4, <1>5 DEF arp_resolveTimeout

LEMMA WakeKeeps ==
    ASSUME ArpInv, NEW p \in Process, arp_resolveWake(p)
    PROVE  ArpInv'
<1>1. acall[p].at = "wait" /\ amsg[p] # "none" /\ UNCHANGED arpcache
      /\ acall' = [acall EXCEPT ![p] = NoCall] /\ amsg' = [amsg EXCEPT ![p] = "none"]
  BY DEF arp_resolveWake
<1>2. acall[p] \in ArpCall /\ acall[p].slot \in Slot /\ CallSound(acall[p], amsg[p], arpcache, p)
  BY <1>1 DEF ArpInv, ArpTypes, Calls, CallSound
<1>3. /\ mac' \in [Process -> [hop : Host \cup {Zero, Bcast}, haddr : Host \cup {Zero, Bcast}, excused : BOOLEAN]]
      /\ Results'
  <2>1. CASE UNCHANGED mac
    BY <2>1 DEF ArpInv, ArpTypes, Results
  <2>2. CASE Return(p, acall[p].hop, arpcache[acall[p].slot].haddr, acall[p].evicted \/ amsg[p] # acall[p].hop)
    <3> DEFINE x == acall[p].evicted \/ amsg[p] # acall[p].hop
    <3>1. x \in BOOLEAN
      BY <1>2 DEF ArpCall
    <3>2. arpcache[acall[p].slot].haddr = acall[p].hop \/ x
      BY <1>1, <1>2 DEF ArpInv, CacheSound, CallSound
    <3>3. acall[p].hop \in Host \cup {Zero, Bcast} /\ arpcache[acall[p].slot].haddr \in Host \cup {Zero, Bcast}
      BY <1>2 DEF ArpCall, ArpInv, CacheSound, Entry
    <3>4. mac' = [mac EXCEPT ![p] = [hop |-> acall[p].hop, haddr |-> arpcache[acall[p].slot].haddr, excused |-> x]]
      BY <2>2 DEF Return
    <3> HIDE DEF x
    <3> QED
      BY <3>1, <3>2, <3>3, <3>4, ReturnIs
  <2> QED
    BY <2>1, <2>2 DEF arp_resolveWake
<1>4. NoCall \in ArpCall /\ NoCall.at = "run"
  BY DEF NoCall, ArpCall
<1>5. acall' \in [Process -> ArpCall] /\ acall'[p].at = "run" /\ \A q \in Process \ {p} : acall'[q] = acall[q]
  BY <1>1, <1>4 DEF ArpInv, ArpTypes
<1>6. amsg' \in [Process -> Host \cup {"none", "SYSERR", "other"}] /\ \A q \in Process \ {p} : amsg'[q] = amsg[q]
  BY <1>1 DEF ArpInv, ArpTypes
<1>7. left' = IF arpcache[acall[p].slot].state = "PENDING" /\ ~acall[p].evicted
              THEN left \cup {acall[p].slot} ELSE left
  BY DEF arp_resolveWake
<1>8. ArpTypes'
  BY <1>2, <1>3, <1>5, <1>6, <1>7 DEF ArpInv, ArpTypes
<1>9. Calls'
  <2> SUFFICES ASSUME NEW q \in Process PROVE CallSound(acall[q], amsg[q], arpcache, q)'
    BY DEF Calls
  <2>1. CASE q = p
    BY <1>5, <2>1 DEF CallSound
  <2>2. CASE q # p
    BY <1>1, <1>5, <1>6, <2>2 DEF ArpInv, Calls, CallSound
  <2> QED
    BY <2>1, <2>2
<1>10. Entries'
  <2> SUFFICES ASSUME NEW s \in Slot \ left', arpcache[s].state = "PENDING"
               PROVE  EntrySound(arpcache[s], s)'
    BY <1>1 DEF Entries, EntrySound
  <2>1. EntrySound(arpcache[s], s) /\ arpcache[s].pid \in Process
    BY <1>7 DEF ArpInv, Entries, CacheSound
  <2>2. arpcache[s].pid # p
    BY <1>2, <1>7, <2>1 DEF EntrySound, CallSound
  <2> QED
    BY <1>1, <1>5, <1>6, <2>1, <2>2 DEF EntrySound
<1>11. CacheSound(arpcache)'
  BY <1>1 DEF ArpInv, CacheSound
<1> QED
  BY <1>3, <1>8, <1>9, <1>10, <1>11 DEF ArpInv

\* A message reaches the processes that it is for and that wait without one.
LEMMA ToldIs ==
    ASSUME ArpInv, NEW to, NEW m \in Host \cup {"SYSERR", "other"}
    PROVE  /\ Told(to, m) \in [Process -> Host \cup {"none", "SYSERR", "other"}]
           /\ \A p \in Process : Told(to, m)[p] =
                IF p \in to /\ acall[p].at = "wait" /\ amsg[p] = "none" THEN m ELSE amsg[p]
BY DEF ArpInv, ArpTypes, Told

LEMMA OtherKeeps ==
    ASSUME ArpInv, NEW p \in Process, NEW m \in {"SYSERR", "other"}, arp_other(p, m)
    PROVE  ArpInv'
<1>1. amsg' = Told({p}, m) /\ UNCHANGED <<arpcache, acall, mac, left>> /\ m # "none"
  BY DEF arp_other
<1>2. amsg' \in [Process -> Host \cup {"none", "SYSERR", "other"}]
      /\ \A q \in Process : amsg'[q] = m \/ amsg'[q] = amsg[q]
  BY <1>1, ToldIs
<1>3. ArpTypes'
  BY <1>1, <1>2 DEF ArpInv, ArpTypes
<1>4. Calls'
  <2> SUFFICES ASSUME NEW q \in Process PROVE CallSound(acall[q], amsg[q], arpcache, q)'
    BY DEF Calls
  <2>1. CallSound(acall[q], amsg[q], arpcache, q)
    BY DEF ArpInv, Calls
  <2> QED
    BY <1>1, <1>2, <2>1, OtherMessages DEF CallSound
<1>5. Entries'
  <2> SUFFICES ASSUME NEW s \in Slot \ left, arpcache[s].state = "PENDING"
               PROVE  EntrySound(arpcache[s], s)'
    BY <1>1 DEF Entries, EntrySound
  <2>1. EntrySound(arpcache[s], s) /\ arpcache[s].pid \in Process /\ arpcache[s].paddr \in Host
    BY DEF ArpInv, Entries, CacheSound
  <2> QED
    BY <1>1, <1>2, <2>1, OtherMessages DEF EntrySound
<1>6. CacheSound(arpcache)' /\ Results'
  BY <1>1 DEF ArpInv, CacheSound, Results
<1> QED
  BY <1>3, <1>4, <1>5, <1>6 DEF ArpInv

\* A packet of a host: who waits for its address is told, and finds it.
LEMMA InKeeps ==
    ASSUME ArpInv, NEW op, NEW src \in Host, NEW forUs \in BOOLEAN, arp_in(op, src, forUs)
    PROVE  ArpInv'
<1> DEFINE to == {arpcache[s].pid : s \in {t \in Found(src) : arpcache[t].state = "PENDING"}}
           c == Learnt(src)
<1>1. left' = left \ Found(src) /\ amsg' = Told(to, src) /\ UNCHANGED mac
  BY DEF arp_in
<1>2. CacheSound(c)
  BY LearntIs DEF ArpInv
<1>3. \A s \in Slot : /\ c[s].paddr = arpcache[s].paddr
                      /\ c[s].pid = arpcache[s].pid
                      /\ arpcache[s].state = "FREE" => c[s].state = "FREE"
                      /\ arpcache[s].state # "FREE" => c[s].state =
                            IF arpcache[s].paddr = src THEN "RESOLVED" ELSE arpcache[s].state
  BY LearntIs DEF ArpInv
<1>4. \A s \in Slot : s \in Found(src) <=> arpcache[s].state # "FREE" /\ arpcache[s].paddr = src
  BY FoundIs, FoundExactly DEF ArpInv
<1>5. amsg' \in [Process -> Host \cup {"none", "SYSERR", "other"}]
      /\ \A p \in Process : amsg'[p] =
            IF p \in to /\ acall[p].at = "wait" /\ amsg[p] = "none" THEN src ELSE amsg[p]
  BY <1>1, ToldIs
<1>6. \A p \in Process : acall[p].at = "wait" /\ amsg[p] = "none" /\ acall[p].hop = src => p \in to
  <2> SUFFICES ASSUME NEW p \in Process, acall[p].at = "wait", amsg[p] = "none", acall[p].hop = src
               PROVE  p \in to
    OBVIOUS
  <2>1. acall[p].slot \in Slot /\ arpcache[acall[p].slot].state = "PENDING"
        /\ arpcache[acall[p].slot].pid = p /\ arpcache[acall[p].slot].paddr = src
    BY DEF ArpInv, Calls, CallSound
  <2>2. acall[p].slot \in Found(src)
    BY <1>4, <2>1
  <2> QED
    BY <2>1, <2>2
<1>7. Results'
  BY <1>1 DEF ArpInv, Results
<1> HIDE DEF c, to
\* The calls and the entries, with the cache as it is after the first part.
<1>8. \A p \in Process : CallSound(acall[p], amsg'[p], c, p)
  <2> SUFFICES ASSUME NEW p \in Process PROVE CallSound(acall[p], amsg'[p], c, p)
    OBVIOUS
  <2>1. CallSound(acall[p], amsg[p], arpcache, p)
    BY DEF ArpInv, Calls
  <2>2. CASE acall[p].hop = src
    BY <1>3, <1>5, <1>6, <2>1, <2>2, OtherMessages DEF CallSound
  <2>3. CASE acall[p].hop # src
    BY <1>3, <1>5, <2>1, <2>3, OtherMessages DEF CallSound
  <2> QED
    BY <2>2, <2>3
<1>9. \A s \in Slot \ left' : c[s].state = "PENDING" =>
            acall[c[s].pid].at = "wait" /\ acall[c[s].pid].slot = s /\ amsg'[c[s].pid] # c[s].paddr
  <2> SUFFICES ASSUME NEW s \in Slot \ left', c[s].state = "PENDING"
               PROVE  acall[c[s].pid].at = "wait" /\ acall[c[s].pid].slot = s /\ amsg'[c[s].pid] # c[s].paddr
    OBVIOUS
  <2>1. arpcache[s].state = "PENDING" /\ arpcache[s].paddr # src
    BY <1>3
  <2>2. s \notin left
    BY <1>1, <1>4, <2>1
  <2>3. EntrySound(arpcache[s], s) /\ arpcache[s].pid \in Process
    BY <2>1, <2>2 DEF ArpInv, Entries, CacheSound
  <2> QED
    BY <1>3, <1>5, <2>1, <2>3 DEF EntrySound
<1>10. CASE arpcache' = c /\ UNCHANGED acall
  <2>1. ArpTypes'
    BY <1>1, <1>5, <1>10 DEF ArpInv, ArpTypes
  <2>2. CacheSound(arpcache)'
    BY <1>2, <1>10 DEF CacheSound
  <2>3. Calls'
    BY <1>8, <1>10 DEF Calls, CallSound
  <2>4. Entries'
    BY <1>9, <1>10 DEF Entries, EntrySound
  <2> QED
    BY <1>7, <2>1, <2>2, <2>3, <2>4 DEF ArpInv
<1>11. ASSUME Found(src) = {}, NEW s \in arp_alloc(c),
              arpcache' = [c EXCEPT ![s] =
                  [state |-> "RESOLVED", paddr |-> src, pid |-> NoProcess, haddr |-> src]],
              acall' = Evicted({s})
       PROVE  ArpInv'
  <2> DEFINE e == [state |-> "RESOLVED", paddr |-> src, pid |-> NoProcess, haddr |-> src]
  <2>1. s \in Slot /\ c[s].state \in {"FREE", "RESOLVED"}
    BY <1>11, AllocIs
  <2>2. e \in Entry /\ e.state = "RESOLVED" /\ e.paddr = src /\ e.haddr = src /\ e.pid = NoProcess
    BY DEF Entry
  <2>3. arpcache' = [c EXCEPT ![s] = e]
    BY <1>11
  <2> HIDE DEF e
  <2>4. \A t \in Slot : c[t].state = "FREE" \/ c[t].paddr # src
    BY <1>3, <1>4, <1>11
  <2>5. CacheSound(arpcache')
    BY <1>2, <2>1, <2>2, <2>3, <2>4, Placed
  <2>6. arpcache'[s] = e /\ \A t \in Slot \ {s} : arpcache'[t] = c[t]
    BY <1>2, <2>1, <2>3 DEF CacheSound
  <2>7. acall' \in [Process -> ArpCall]
        /\ \A p \in Process :
              /\ acall'[p].at = acall[p].at /\ acall'[p].hop = acall[p].hop /\ acall'[p].slot = acall[p].slot
              /\ acall'[p].evicted = (acall[p].evicted \/ (acall[p].at = "wait" /\ acall[p].slot \in {s}))
    BY <1>11, EvictedIs
  <2>8. ArpTypes'
    BY <1>1, <1>5, <2>7 DEF ArpInv, ArpTypes
  <2>9. Calls'
    <3> SUFFICES ASSUME NEW p \in Process PROVE CallSound(acall'[p], amsg'[p], arpcache', p)
      BY DEF Calls
    <3>1. CallSound(acall[p], amsg'[p], c, p)
      BY <1>8
    <3>2. CASE acall[p].slot = s
      <4>1. acall'[p].at = "wait" => acall'[p].evicted
        BY <2>7, <3>2
      <4>2. acall[p].at = "wait" => amsg'[p] # "none"
        BY <2>1, <3>1, <3>2 DEF CallSound
      <4>3. arpcache'[acall'[p].slot].pid # p
        BY <2>2, <2>6, <2>7, <3>2, ArpAssumption
      <4> QED
        BY <2>1, <2>7, <3>1, <4>1, <4>2, <4>3 DEF CallSound
    <3>3. CASE acall[p].slot # s
      <4>1. acall[p].at = "wait" => arpcache'[acall[p].slot] = c[acall[p].slot]
        BY <2>6, <3>1, <3>3 DEF CallSound
      <4>2. acall[p].evicted \in BOOLEAN
        BY DEF ArpInv, ArpTypes, ArpCall
      <4>3. acall'[p].evicted = acall[p].evicted
        BY <2>7, <3>3, <4>2
      <4> QED
        BY <2>7, <3>1, <4>1, <4>3 DEF CallSound
    <3> QED
      BY <3>2, <3>3
  <2>10. Entries'
    <3> SUFFICES ASSUME NEW t \in Slot \ left', arpcache'[t].state = "PENDING"
                 PROVE  EntrySound(arpcache[t], t)'
      BY DEF Entries, EntrySound
    <3>1. t # s
      BY <2>2, <2>6
    <3>2. arpcache'[t] = c[t] /\ c[t].pid \in Process
      BY <1>2, <2>6, <3>1 DEF CacheSound
    <3> QED
      BY <1>9, <2>7, <3>2 DEF EntrySound
  <2> QED
    BY <1>7, <2>5, <2>8, <2>9, <2>10 DEF ArpInv, CacheSound
<1>12. \/ arpcache' = c /\ UNCHANGED acall
       \/ /\ Found(src) = {}
          /\ \E s \in arp_alloc(c) :
                /\ arpcache' = [c EXCEPT ![s] =
                       [state |-> "RESOLVED", paddr |-> src, pid |-> NoProcess, haddr |-> src]]
                /\ acall' = Evicted({s})
  BY DEF arp_in, c
<1> QED
  BY <1>10, <1>11, <1>12

----
\* The specification.

LEMMA ArpStep ==
    ASSUME ArpInv, [ArpNext]_avars
    PROVE  ArpInv'
<1>1. CASE UNCHANGED avars
  BY <1>1 DEF avars, ArpInv, ArpTypes, CacheSound, Calls, CallSound, Entries, EntrySound, Results
<1>2. ASSUME NEW p \in Process, NEW hop \in Host \cup {Bcast}, arp_resolve(p, hop) PROVE ArpInv'
  BY <1>2, ResolveKeeps
<1>3. ASSUME NEW p \in Process, NEW hop \in Host \cup {Bcast}, arp_resolveAsk(p, hop) PROVE ArpInv'
  BY <1>3, AskKeeps
<1>4. ASSUME NEW p \in Process, arp_resolveTimeout(p) PROVE ArpInv'
  BY <1>4, TimeoutKeeps
<1>5. ASSUME NEW p \in Process, arp_resolveWake(p) PROVE ArpInv'
  BY <1>5, WakeKeeps
<1>6. ASSUME NEW p \in Process, NEW m \in {"SYSERR", "other"}, arp_other(p, m) PROVE ArpInv'
  BY <1>6, OtherKeeps
<1>7. ASSUME NEW op \in {"REQ", "RPLY"}, NEW src \in Host, NEW forUs \in BOOLEAN, arp_in(op, src, forUs)
      PROVE  ArpInv'
  BY <1>7, InKeeps
<1> QED
  BY <1>1, <1>2, <1>3, <1>4, <1>5, <1>6, <1>7 DEF ArpNext

LEMMA ArpInvExact ==
    ASSUME ArpInv
    PROVE  ArpExact
<1>1. \A s, t \in Slot :
        s # t /\ arpcache[s].state # "FREE" /\ arpcache[t].state # "FREE" =>
            arpcache[s].paddr # arpcache[t].paddr
  BY DEF ArpInv, CacheSound
<1>2. \A s \in Slot :
        /\ arpcache[s].state = "RESOLVED" => arpcache[s].haddr = arpcache[s].paddr
        /\ arpcache[s].state = "PENDING" /\ s \notin left =>
                LET p == arpcache[s].pid
                IN  acall[p].at = "wait" /\ acall[p].slot = s /\ amsg[p] # arpcache[s].paddr
  BY DEF ArpInv, CacheSound, Entries, EntrySound
<1>3. \A p \in Process :
        /\ acall[p].at = "wait" /\ amsg[p] = "none" =>
                LET e == arpcache[acall[p].slot]
                IN  e.state = "PENDING" /\ e.paddr = acall[p].hop /\ e.pid = p
        /\ mac[p].haddr = mac[p].hop \/ mac[p].excused
  BY DEF ArpInv, Calls, CallSound, Results
<1> QED
  BY <1>1, <1>2, <1>3 DEF ArpExact

\* ARP, for any number of processes, hosts, entries and retries: whatever times out, comes
\* late or is reused, an address has one entry, the answer finds the process that waits
\* for it, and an address that arp_resolve() returns is right unless its entry was taken
\* from the call or the call was woken by something else.
THEOREM ArpIsExact == ArpSpec => []ArpExact
<1>1. arp_init => ArpInv
  BY ArpStart
<1>2. ArpInv /\ [ArpNext]_avars => ArpInv'
  BY ArpStep
<1>3. ArpInv => ArpExact
  BY ArpInvExact
<1> QED
  BY <1>1, <1>2, <1>3, PTL DEF ArpSpec

----
\* Rfs: the state that the invariant speaks of.

Request == {NoRequest}
    \cup [type : {"OREQ"}, mode : {rfsgetmode(chars) : chars \in Modes}]
    \cup [type : {"RREQ"}, pos : Positions, len : Counts]
    \cup [type : {"WREQ"}, pos : Positions, text : Texts]
    \cup [type : Controls]

Byte == {"none", "zero"} \cup UNION {{text[i] : i \in DOMAIN text} : text \in Texts}
Content == Seq(Byte)

RfsCall == [at : {"run", "locked", "recv"}, dev : Nat, req : Request, seq : Nat, tries : Nat]
OnWay   == [seq : Nat, old : BOOLEAN, req : Request]
Reply   == [type : {req.type : req \in Request}, seq : Nat, old : BOOLEAN, ok : BOOLEAN, data : Content]

RfsTypes ==
    /\ rf_seq \in Nat
    /\ rcall \in [Client -> RfsCall]
    /\ requests \in Seq(OnWay) /\ replies \in Seq(Reply)
    /\ file \in Content /\ possible \subseteq Content

\* One process holds the mutex, from wait() to signal(), and only it may be in an exchange.
Holds(c, s, p) == c[p].at # "run" /\ ~Waits(s, p)

LockSound(c, s) ==
    /\ SemSound(s, Client) /\ s.count <= 1
    /\ \A p \in Client : Waits(s, p) => c[p].at = "locked"
    /\ \A p, q \in Client : Holds(c, s, p) /\ Holds(c, s, q) => p = q
    /\ s.count <= 0 <=> \E p \in Client : Holds(c, s, p)

\* The j requests at the head of q may be lost or served in any way: F[i] holds what the
\* file may be after i of them, and all of it is in S.
Chain(F, q, f, j, S) ==
    /\ f \in F[0]
    /\ \A i \in 0..j : F[i] \subseteq S
    /\ \A i \in 1..j : \A x \in F[i - 1] : x \in F[i] /\ Changed(q[i].req, x) \in F[i]

ChainTo(q, f, j, S) == \E F : Chain(F, q, f, j, S)

\* Neither m nor a reply to it.
Other(m, e) == e.old \/ e.seq # m.seq

\* No copy of m was served: those that are on their way are behind all other requests.
Pending(q, r, m, f, S) ==
    /\ \A i \in 1..Len(r) : Other(m, r[i])
    /\ \E j \in 0..Len(q) : /\ \A i \in 1..j : Other(m, q[i])
                            /\ \A i \in (j + 1)..Len(q) : q[i] = m
                            /\ ChainTo(q, f, j, S)

\* A copy of m was served, nothing but copies is left, and a reply to it tells the truth.
Done(q, r, m, f, S) ==
    /\ \A i \in 1..Len(r) : ~Other(m, r[i]) => \E x \in S : r[i].data = Data(m.req, x)
    /\ \A i \in 1..Len(q) : q[i] = m
    /\ f \in {Changed(m.req, x) : x \in S}

Progress(q, r, m, f, S) == Pending(q, r, m, f, S) \/ Done(q, r, m, f, S)

Asked(c, p) == Message(c[p].seq, c[p].req)

\* Nothing on its way is younger than the last request.
Numbered(q, n) == \A i \in 1..Len(q) : q[i].old \/ q[i].seq < n

RfsExchange ==
    /\ Numbered(requests, rf_seq) /\ Numbered(replies, rf_seq)
    /\ \A p \in Client : IF rcall[p].at = "recv" THEN rcall[p].seq = rf_seq - 1 ELSE rcall[p].req = NoRequest
    /\ (\A p \in Client : rcall[p].at # "recv") => ChainTo(requests, file, Len(requests), possible)
    /\ \A p \in Client : rcall[p].at = "recv" => Progress(requests, replies, Asked(rcall, p), file, possible)
    /\ ~gotOld

RfsSound == RfsTypes /\ LockSound(rcall, rf_mutex) /\ RfsExchange

RfsInv == rhalted = "no" => RfsSound

----
\* What requests make of the file.

LEMMA TextIsContent ==
    ASSUME NEW text \in Texts
    PROVE  text \in Content
<1> DEFINE S == {text[i] : i \in DOMAIN text}
<1>1. text \in Seq(S)
  BY RfsAssumption
<1>2. S \subseteq Byte
  BY DEF Byte
<1> HIDE DEF S
<1> QED
  BY <1>1, <1>2, SeqMonotonic DEF Content

\* Four kinds of requests: of a write, the place and the text are known.
LEMMA RequestKinds ==
    ASSUME NEW req \in Request
    PROVE  req.type = "WREQ" => req.pos \in Nat /\ req.text \in Content
<1>1. CASE req = NoRequest
  BY <1>1 DEF NoRequest
<1>2. CASE req \in [type : {"OREQ"}, mode : {rfsgetmode(chars) : chars \in Modes}]
  BY <1>2
<1>3. CASE req \in [type : {"RREQ"}, pos : Positions, len : Counts]
  BY <1>3
<1>4. CASE req \in [type : {"WREQ"}, pos : Positions, text : Texts]
  BY <1>4, TextIsContent, RfsAssumption
<1>5. CASE req \in [type : Controls]
  BY <1>5, RfsAssumption
<1> QED
  BY <1>1, <1>2, <1>3, <1>4, <1>5 DEF Request

LEMMA ReadKind ==
    ASSUME NEW req \in Request
    PROVE  req.type = "RREQ" => req.pos \in Nat /\ req.len \in Nat
<1>1. CASE req = NoRequest
  BY <1>1 DEF NoRequest
<1>2. CASE req \in [type : {"OREQ"}, mode : {rfsgetmode(chars) : chars \in Modes}]
  BY <1>2
<1>3. CASE req \in [type : {"RREQ"}, pos : Positions, len : Counts]
  BY <1>3, RfsAssumption
<1>4. CASE req \in [type : {"WREQ"}, pos : Positions, text : Texts]
  BY <1>4
<1>5. CASE req \in [type : Controls]
  BY <1>5, RfsAssumption
<1> QED
  BY <1>1, <1>2, <1>3, <1>4, <1>5 DEF Request

LEMMA NoFileIsContent == NoFile \in Content /\ <<>> \in Content /\ NoFile # <<>>
<1>1. "none" \in Byte
  BY DEF Byte
<1>2. NoFile \in Seq(Byte) /\ Len(NoFile) = 1
  BY <1>1 DEF NoFile
<1>3. <<>> \in Seq(Byte) /\ Len(<<>>) = 0
  BY EmptySeq
<1> QED
  BY <1>2, <1>3 DEF Content

\* Bytes from pos on are the text, those before and behind it are kept, a gap is filled.
LEMMA WrittenIs ==
    ASSUME NEW c \in Content, NEW pos \in Nat, NEW text \in Content
    PROVE  /\ Written(c, pos, text) \in Content
           /\ Len(Written(c, pos, text)) = IF Len(c) > pos + Len(text) THEN Len(c) ELSE pos + Len(text)
           /\ \A i \in 1..Len(Written(c, pos, text)) : Written(c, pos, text)[i] =
                 IF i > pos /\ i <= pos + Len(text) THEN text[i - pos]
                 ELSE IF i <= Len(c) THEN c[i] ELSE "zero"
<1> DEFINE n == IF Len(c) > pos + Len(text) THEN Len(c) ELSE pos + Len(text)
           at(i) == IF i > pos /\ i <= pos + Len(text) THEN text[i - pos]
                    ELSE IF i <= Len(c) THEN c[i] ELSE "zero"
           w == [i \in 1..n |-> at(i)]
<1>1. Len(c) \in Nat /\ Len(text) \in Nat
  BY LenProperties DEF Content
<1>2. n \in Nat
  BY <1>1
<1>3. ASSUME NEW i \in 1..n PROVE at(i) \in Byte
  <2>1. "zero" \in Byte
    BY DEF Byte
  <2>2. i > pos /\ i <= pos + Len(text) => i - pos \in 1..Len(text)
    BY <1>1
  <2>3. ~(i > pos /\ i <= pos + Len(text)) /\ i <= Len(c) => i \in 1..Len(c)
    BY <1>1
  <2>4. \A j \in 1..Len(text) : text[j] \in Byte
    BY ElementOfSeq DEF Content
  <2>5. \A j \in 1..Len(c) : c[j] \in Byte
    BY ElementOfSeq DEF Content
  <2> QED
    BY <2>1, <2>2, <2>3, <2>4, <2>5
<1>4. Written(c, pos, text) = w
  BY DEF Written
<1> HIDE DEF n, at
<1>5. w \in [1..n -> Byte]
  BY <1>3
<1>6. w \in Seq(Byte)
  BY <1>2, <1>5, SeqDef
<1>7. Len(w) = n /\ \A i \in 1..n : w[i] = at(i)
  BY <1>2, <1>5, <1>6, LenProperties
<1> HIDE DEF w
<1>8. Written(c, pos, text) \in Content /\ Len(Written(c, pos, text)) = n
      /\ \A i \in 1..Len(Written(c, pos, text)) : Written(c, pos, text)[i] = at(i)
  BY <1>4, <1>6, <1>7 DEF Content
<1> QED
  BY <1>8 DEF n, at

LEMMA WrittenTwice ==
    ASSUME NEW c \in Content, NEW pos \in Nat, NEW text \in Content
    PROVE  Written(Written(c, pos, text), pos, text) = Written(c, pos, text)
<1> DEFINE w == Written(c, pos, text)
           v == Written(w, pos, text)
           in(i) == i > pos /\ i <= pos + Len(text)
<1>1. Len(c) \in Nat /\ Len(text) \in Nat
  BY LenProperties DEF Content
<1>2. /\ w \in Content
      /\ Len(w) = IF Len(c) > pos + Len(text) THEN Len(c) ELSE pos + Len(text)
      /\ \A i \in 1..Len(w) : in(i) => w[i] = text[i - pos]
  BY WrittenIs
<1> HIDE DEF w
<1>3. /\ v \in Content
      /\ Len(v) = IF Len(w) > pos + Len(text) THEN Len(w) ELSE pos + Len(text)
      /\ \A i \in 1..Len(v) : in(i) => v[i] = text[i - pos]
      /\ \A i \in 1..Len(v) : ~in(i) /\ i <= Len(w) => v[i] = w[i]
  BY <1>2, WrittenIs
<1> HIDE DEF v, in
<1>4. Len(v) = Len(w)
  BY <1>1, <1>2, <1>3
<1>5. Len(w) \in Nat
  BY <1>2, LenProperties DEF Content
<1>6. \A i \in 1..Len(v) : i <= Len(w)
  BY <1>4, <1>5
<1>7. \A i \in 1..Len(v) : v[i] = w[i]
  BY <1>2, <1>3, <1>4, <1>6
<1>8. v = w
  BY <1>2, <1>3, <1>4, <1>7, SeqEqual DEF Content
<1> QED
  BY <1>8 DEF v, w

\* What a request makes of the file is a content, and a copy of the request does not
\* change it again.
LEMMA ChangedTwice ==
    ASSUME NEW req \in Request, NEW c \in Content
    PROVE  /\ Changed(req, c) \in Content
           /\ Changed(req, Changed(req, c)) = Changed(req, c)
<1>1. CASE req.type = "OREQ"
  <2>1. \A x : Changed(req, x) = IF x = NoFile /\ "o" \notin req.mode THEN <<>> ELSE x
    BY <1>1 DEF Changed
  <2> QED
    BY <2>1, NoFileIsContent
<1>2. CASE req.type = "WREQ"
  <2>1. \A x : Changed(req, x) = IF x # NoFile THEN Written(x, req.pos, req.text) ELSE x
    BY <1>2 DEF Changed
  <2>2. req.pos \in Nat /\ req.text \in Content
    BY <1>2, RequestKinds
  <2>3. Written(c, req.pos, req.text) \in Content
        /\ Written(Written(c, req.pos, req.text), req.pos, req.text) = Written(c, req.pos, req.text)
    BY <2>2, WrittenIs, WrittenTwice
  <2> QED
    BY <2>1, <2>3
<1>3. CASE req.type = "TREQ"
  <2>1. \A x : Changed(req, x) = IF x # NoFile THEN <<>> ELSE x
    BY <1>3 DEF Changed
  <2> QED
    BY <2>1, NoFileIsContent
<1>4. CASE req.type = "DREQ"
  <2>1. \A x : Changed(req, x) = NoFile
    BY <1>4 DEF Changed
  <2> QED
    BY <2>1, NoFileIsContent
<1>5. CASE req.type \notin {"OREQ", "WREQ", "TREQ", "DREQ"}
  <2>1. \A x : Changed(req, x) = x
    BY <1>5 DEF Changed
  <2> QED
    BY <2>1
<1> QED
  BY <1>1, <1>2, <1>3, <1>4, <1>5

\* A read changes nothing, and no other request asks for data.
LEMMA DataOfChanged ==
    ASSUME NEW req, NEW c
    PROVE  Data(req, Changed(req, c)) = Data(req, c)
<1>1. CASE req.type = "RREQ"
  BY <1>1 DEF Changed
<1>2. CASE req.type # "RREQ"
  BY <1>2 DEF Data
<1> QED
  BY <1>1, <1>2

LEMMA DataIsContent ==
    ASSUME NEW req \in Request, NEW c \in Content
    PROVE  Data(req, c) \in Content
<1>1. CASE req.type # "RREQ" \/ c = NoFile
  BY <1>1, NoFileIsContent DEF Data
<1>2. CASE req.type = "RREQ" /\ c # NoFile
  <2> DEFINE a == req.pos + 1
             b == IF Len(c) < req.pos + req.len THEN Len(c) ELSE req.pos + req.len
  <2>1. req.pos \in Nat /\ req.len \in Nat /\ Len(c) \in Nat
    BY <1>2, ReadKind, LenProperties DEF Content
  <2>2. a \in Int /\ b \in Int /\ \A i \in a..b : i \in 1..Len(c)
    BY <2>1
  <2>3. \A i \in 1..Len(c) : c[i] \in Byte
    BY ElementOfSeq DEF Content
  <2>4. Data(req, c) = SubSeq(c, a, b)
    BY <1>2 DEF Data
  <2> HIDE DEF a, b
  <2>5. \A i \in a..b : c[i] \in Byte
    BY <2>2, <2>3
  <2> QED
    BY <2>2, <2>4, <2>5, SubSeqProperties DEF Content
<1> QED
  BY <1>1, <1>2

----
\* Requests on their way.

\* The head is lost, or served.
LEMMA ChainTail ==
    ASSUME NEW T, NEW q \in Seq(T), q # <<>>, NEW f, NEW j \in 1..Len(q), NEW S, ChainTo(q, f, j, S)
    PROVE  ChainTo(Tail(q), f, j - 1, S) /\ ChainTo(Tail(q), Changed(Head(q).req, f), j - 1, S)
<1>1. PICK F : Chain(F, q, f, j, S)
  BY DEF ChainTo
<1> DEFINE G == [i \in 0..(j - 1) |-> F[i + 1]]
           t == Tail(q)
<1>2. Len(q) \in Nat /\ Len(t) = Len(q) - 1 /\ \A i \in 1..Len(t) : t[i] = q[i + 1]
  BY LenProperties, HeadTailProperties
<1>3. Head(q) = q[1]
  OBVIOUS
<1>4. f \in G[0] /\ Changed(Head(q).req, f) \in G[0]
  <2>1. 1 \in 1..j /\ 1 - 1 = 0 /\ 0 \in 0..(j - 1) /\ 0 + 1 = 1
    BY <1>2
  <2>2. f \in F[1] /\ Changed(q[1].req, f) \in F[1]
    BY <1>1, <2>1 DEF Chain
  <2>3. G[0] = F[1]
    BY <2>1
  <2> QED
    BY <1>3, <2>2, <2>3
<1>5. \A i \in 0..(j - 1) : G[i] \subseteq S
  <2>1. \A i \in 0..(j - 1) : i + 1 \in 0..j
    BY <1>2
  <2> QED
    BY <1>1, <2>1 DEF Chain
<1>6. ASSUME NEW i \in 1..(j - 1), NEW x \in G[i - 1]
      PROVE  x \in G[i] /\ Changed(t[i].req, x) \in G[i]
  <2>1. i + 1 \in 1..j /\ (i + 1) - 1 = i /\ i - 1 \in 0..(j - 1) /\ i \in 0..(j - 1) /\ (i - 1) + 1 = i
        /\ i \in 1..Len(t)
    BY <1>2
  <2>2. G[i - 1] = F[i] /\ G[i] = F[i + 1] /\ t[i] = q[i + 1]
    BY <1>2, <2>1
  <2>3. x \in F[i + 1] /\ Changed(q[i + 1].req, x) \in F[i + 1]
    BY <1>1, <1>6, <2>1, <2>2 DEF Chain
  <2> QED
    BY <2>2, <2>3
<1> HIDE DEF G, t
<1>7. Chain(G, t, f, j - 1, S) /\ Chain(G, t, Changed(Head(q).req, f), j - 1, S)
  BY <1>4, <1>5, <1>6 DEF Chain
<1> QED
  BY <1>7 DEF ChainTo, t

\* Behind a chain to S, requests under which R, with S in it, is closed.
LEMMA ChainExtends ==
    ASSUME NEW q, NEW f, NEW j \in Nat, NEW n \in Nat, j <= n, NEW S, NEW R,
           ChainTo(q, f, j, S), S \subseteq R,
           \A i \in (j + 1)..n : (\A x \in R : Changed(q[i].req, x) \in R)
    PROVE  ChainTo(q, f, n, R)
<1>1. PICK F : Chain(F, q, f, j, S)
  BY DEF ChainTo
<1> DEFINE G == [i \in 0..n |-> IF i <= j THEN F[i] ELSE R]
<1>2. f \in G[0]
  BY <1>1 DEF Chain
<1>3. ASSUME NEW i \in 0..n PROVE G[i] \subseteq R
  <2>1. CASE i <= j
    <3>1. i \in 0..j
      BY <2>1
    <3> QED
      BY <1>1, <2>1, <3>1 DEF Chain
  <2>2. CASE ~(i <= j)
    BY <2>2
  <2> QED
    BY <2>1, <2>2
<1>4. ASSUME NEW i \in 1..n, NEW x \in G[i - 1]
      PROVE  x \in G[i] /\ Changed(q[i].req, x) \in G[i]
  <2>0. i - 1 \in 0..n /\ i \in 0..n
    OBVIOUS
  <2>1. CASE i <= j
    <3>1. i \in 1..j /\ i - 1 <= j
      BY <2>1
    <3>2. G[i - 1] = F[i - 1] /\ G[i] = F[i]
      BY <2>0, <2>1, <3>1
    <3> QED
      BY <1>1, <1>4, <3>1, <3>2 DEF Chain
  <2>2. CASE ~(i <= j)
    <3>1. i \in (j + 1)..n
      BY <2>2
    <3>2. G[i] = R /\ x \in R
      BY <1>3, <1>4, <2>0, <2>2
    <3> QED
      BY <3>1, <3>2
  <2> QED
    BY <2>1, <2>2
<1> HIDE DEF G
<1>5. Chain(G, q, f, n, R)
  BY <1>2, <1>3, <1>4 DEF Chain
<1> QED
  BY <1>5 DEF ChainTo

\* Only the requests themselves count.
LEMMA ChainSame ==
    ASSUME NEW q, NEW f, NEW j \in Nat, NEW S, ChainTo(q, f, j, S),
           NEW t, \A i \in 1..j : t[i].req = q[i].req
    PROVE  ChainTo(t, f, j, S)
<1>1. PICK F : Chain(F, q, f, j, S)
  BY DEF ChainTo
<1>2. Chain(F, t, f, j, S)
  BY <1>1 DEF Chain
<1> QED
  BY <1>2 DEF ChainTo

LEMMA ChainHere ==
    ASSUME NEW q, NEW f, NEW S, f \in S
    PROVE  ChainTo(q, f, 0, S)
<1> DEFINE F == [i \in 0..0 |-> S]
<1>1. \A i \in 0..0 : i = 0 /\ F[i] = S
  OBVIOUS
<1>2. 0 \in 0..0 /\ \A i \in 1..0 : FALSE
  OBVIOUS
<1> HIDE DEF F
<1>3. Chain(F, q, f, 0, S)
  BY <1>1, <1>2 DEF Chain
<1> QED
  BY <1>3 DEF ChainTo

LEMMA ChainIn ==
    ASSUME NEW q, NEW f, NEW j \in Nat, NEW S, ChainTo(q, f, j, S)
    PROVE  f \in S
<1>1. 0 \in 0..j
  OBVIOUS
<1> QED
  BY <1>1 DEF ChainTo, Chain

\* t is q, or q with m behind it.
Grown(q, t, m) ==
    /\ Len(t) \in Nat /\ Len(q) \in Nat /\ Len(q) <= Len(t)
    /\ \A i \in 1..Len(q) : t[i] = q[i]
    /\ \A i \in 1..Len(t) : i \in 1..Len(q) \/ t[i] = m

LEMMA InFlightIs ==
    ASSUME NEW T, NEW q \in Seq(T), NEW m \in T
    PROVE  InFlight(q, m) \in Seq(T) /\ Grown(q, InFlight(q, m), m)
<1>1. Len(q) \in Nat
  BY LenProperties
<1>2. CASE Len(q) < MaxFlight
  <2> DEFINE t == Append(q, m)
  <2>1. /\ t \in Seq(T) /\ Len(t) = Len(q) + 1
        /\ \A i \in 1..Len(q) : t[i] = q[i]
        /\ t[Len(q) + 1] = m
    BY AppendProperties
  <2>2. InFlight(q, m) = t
    BY <1>2 DEF InFlight
  <2> HIDE DEF t
  <2>3. \A i \in 1..Len(t) : i \in 1..Len(q) \/ i = Len(q) + 1
    BY <1>1, <2>1
  <2> QED
    BY <1>1, <2>1, <2>2, <2>3 DEF Grown
<1>3. CASE ~(Len(q) < MaxFlight)
  BY <1>1, <1>3 DEF InFlight, Grown
<1> QED
  BY <1>2, <1>3

LEMMA InFlightReply ==
    ASSUME NEW r \in Seq(Reply), NEW e \in Reply
    PROVE  /\ InFlight(r, e) \in Seq(Reply)
           /\ \A i \in 1..Len(InFlight(r, e)) :
                 (i \in 1..Len(r) /\ InFlight(r, e)[i] = r[i]) \/ InFlight(r, e)[i] = e
<1>1. InFlight(r, e) \in Seq(Reply) /\ Grown(r, InFlight(r, e), e)
  BY InFlightIs
<1> QED
  BY <1>1 DEF Grown

\* The elements of a tail are elements.
LEMMA TailIs ==
    ASSUME NEW T, NEW q \in Seq(T), q # <<>>
    PROVE  /\ Tail(q) \in Seq(T) /\ Head(q) \in T /\ Head(q) = q[1]
           /\ Len(q) \in Nat /\ Len(q) >= 1 /\ Len(Tail(q)) = Len(q) - 1
           /\ \A i \in 1..Len(Tail(q)) : i + 1 \in 1..Len(q) /\ Tail(q)[i] = q[i + 1]
<1>1. Len(q) \in Nat /\ Len(q) # 0
  BY LenProperties, EmptySeq
<1>2. /\ Tail(q) \in Seq(T) /\ Head(q) \in T /\ Len(Tail(q)) = Len(q) - 1
      /\ \A i \in 1..Len(Tail(q)) : Tail(q)[i] = q[i + 1]
  BY HeadTailProperties
<1>3. Head(q) = q[1]
  OBVIOUS
<1>4. \A i \in 1..(Len(q) - 1) : i + 1 \in 1..Len(q)
  BY <1>1
<1> QED
  BY <1>1, <1>2, <1>3, <1>4

\* The server does the request at the head.
LEMMA ServeProgress ==
    ASSUME NEW q \in Seq(OnWay), q # <<>>, NEW r \in Seq(Reply), NEW m \in OnWay, ~m.old,
           NEW f, NEW S \in SUBSET Content, Progress(q, r, m, f, S),
           NEW e \in Reply, e.old = Head(q).old, e.seq = Head(q).seq, e.data = Data(Head(q).req, f)
    PROVE  Progress(Tail(q), InFlight(r, e), m, Changed(Head(q).req, f), S)
<1> DEFINE t == Tail(q)
           g == Changed(Head(q).req, f)
           r1 == InFlight(r, e)
<1>1. /\ t \in Seq(OnWay) /\ Head(q) \in OnWay /\ Head(q) = q[1]
      /\ Len(q) \in Nat /\ Len(q) >= 1 /\ Len(t) = Len(q) - 1
      /\ \A i \in 1..Len(t) : i + 1 \in 1..Len(q) /\ t[i] = q[i + 1]
  BY TailIs
<1>2. \A i \in 1..Len(r1) : (i \in 1..Len(r) /\ r1[i] = r[i]) \/ r1[i] = e
  BY InFlightReply
<1> HIDE DEF r1
<1>3. 1 \in 1..Len(q)
  BY <1>1
<1>4. e.old = Head(q).old /\ e.seq = Head(q).seq /\ e.data = Data(Head(q).req, f)
  OBVIOUS
<1>5. CASE Done(q, r, m, f, S)
  <2>1. PICK x \in S : f = Changed(m.req, x)
    BY <1>5 DEF Done
  <2>2. Head(q) = m /\ x \in Content /\ m.req \in Request
    BY <1>1, <1>3, <1>5 DEF Done, OnWay
  <2>3. g = f
    BY <2>1, <2>2, ChangedTwice
  <2>4. e.data = Data(m.req, x)
    BY <1>4, <2>1, <2>2, DataOfChanged
  <2>5. \A i \in 1..Len(t) : t[i] = m
    BY <1>1, <1>5 DEF Done
  <2>6. \A i \in 1..Len(r1) : ~Other(m, r1[i]) => \E y \in S : r1[i].data = Data(m.req, y)
    BY <1>2, <1>5, <2>4 DEF Done
  <2> HIDE DEF g, t
  <2>7. Done(t, r1, m, g, S)
    BY <2>1, <2>3, <2>5, <2>6 DEF Done
  <2> QED
    BY <2>7 DEF Progress, g, t, r1
<1>6. CASE Pending(q, r, m, f, S)
  <2>1. PICK j \in 0..Len(q) : /\ \A i \in 1..j : Other(m, q[i])
                               /\ \A i \in (j + 1)..Len(q) : q[i] = m
                               /\ ChainTo(q, f, j, S)
    BY <1>6 DEF Pending
  <2>2. CASE j = 0
    <3>1. f \in S
      BY <2>1, <2>2, ChainIn
    <3>2. Head(q) = m /\ m.req \in Request
      BY <1>1, <1>3, <2>1, <2>2 DEF OnWay
    <3>3. \A i \in 1..Len(t) : t[i] = m
      BY <1>1, <2>1, <2>2
    <3>4. \A i \in 1..Len(r1) : ~Other(m, r1[i]) => \E y \in S : r1[i].data = Data(m.req, y)
      BY <1>2, <1>4, <1>6, <3>1, <3>2 DEF Pending
    <3>5. g = Changed(m.req, f)
      BY <3>2
    <3> HIDE DEF g, t
    <3>6. Done(t, r1, m, g, S)
      BY <3>1, <3>3, <3>4, <3>5 DEF Done
    <3> QED
      BY <3>6 DEF Progress, g, t, r1
  <2>3. CASE j # 0
    <3>1. j \in 1..Len(q) /\ j - 1 \in 0..Len(t) /\ 1 \in 1..j
      BY <1>1, <2>3
    <3>2. ChainTo(t, g, j - 1, S)
      BY <2>1, <3>1, ChainTail
    <3>3. \A i \in 1..(j - 1) : Other(m, t[i])
      <4>1. \A i \in 1..(j - 1) : i \in 1..Len(t) /\ i + 1 \in 1..j
        BY <1>1, <3>1
      <4> QED
        BY <1>1, <2>1, <4>1
    <3>4. \A i \in ((j - 1) + 1)..Len(t) : t[i] = m
      <4>1. \A i \in ((j - 1) + 1)..Len(t) : i \in 1..Len(t) /\ i + 1 \in (j + 1)..Len(q)
        BY <1>1, <3>1
      <4> QED
        BY <1>1, <2>1, <4>1
    <3>5. Other(m, Head(q))
      BY <1>1, <2>1, <3>1
    <3>6. \A i \in 1..Len(r1) : Other(m, r1[i])
      BY <1>2, <1>4, <1>6, <3>5 DEF Pending, Other
    <3> HIDE DEF g, t
    <3>7. Pending(t, r1, m, g, S)
      BY <3>1, <3>2, <3>3, <3>4, <3>6 DEF Pending
    <3> QED
      BY <3>7 DEF Progress, g, t, r1
  <2> QED
    BY <2>2, <2>3
<1> QED
  BY <1>5, <1>6 DEF Progress

\* The request at the head is lost.
LEMMA LoseProgress ==
    ASSUME NEW q \in Seq(OnWay), q # <<>>, NEW r, NEW m,
           NEW f, NEW S, Progress(q, r, m, f, S)
    PROVE  Progress(Tail(q), r, m, f, S)
<1> DEFINE t == Tail(q)
<1>1. /\ t \in Seq(OnWay) /\ Len(q) \in Nat /\ Len(q) >= 1 /\ Len(t) = Len(q) - 1
      /\ \A i \in 1..Len(t) : i + 1 \in 1..Len(q) /\ t[i] = q[i + 1]
  BY TailIs
<1>2. CASE Done(q, r, m, f, S)
  <2>1. \A i \in 1..Len(t) : t[i] = m
    BY <1>1, <1>2 DEF Done
  <2> HIDE DEF t
  <2>2. Done(t, r, m, f, S)
    BY <1>2, <2>1 DEF Done
  <2> QED
    BY <2>2 DEF Progress, t
<1>3. CASE Pending(q, r, m, f, S)
  <2>1. PICK j \in 0..Len(q) : /\ \A i \in 1..j : Other(m, q[i])
                               /\ \A i \in (j + 1)..Len(q) : q[i] = m
                               /\ ChainTo(q, f, j, S)
    BY <1>3 DEF Pending
  <2>2. CASE j = 0
    <3>1. ChainTo(t, f, 0, S)
      BY <2>1, <2>2, ChainIn, ChainHere
    <3>2. \A i \in (0 + 1)..Len(t) : t[i] = m
      BY <1>1, <2>1, <2>2
    <3>3. 0 \in 0..Len(t) /\ \A i \in 1..0 : FALSE
      BY <1>1
    <3> HIDE DEF t
    <3>4. Pending(t, r, m, f, S)
      BY <1>3, <3>1, <3>2, <3>3 DEF Pending
    <3> QED
      BY <3>4 DEF Progress, t
  <2>3. CASE j # 0
    <3>1. j \in 1..Len(q) /\ j - 1 \in 0..Len(t)
      BY <1>1, <2>3
    <3>2. ChainTo(t, f, j - 1, S)
      BY <2>1, <3>1, ChainTail
    <3>3. \A i \in 1..(j - 1) : Other(m, t[i])
      <4>1. \A i \in 1..(j - 1) : i \in 1..Len(t) /\ i + 1 \in 1..j
        BY <1>1, <3>1
      <4> QED
        BY <1>1, <2>1, <4>1
    <3>4. \A i \in ((j - 1) + 1)..Len(t) : t[i] = m
      <4>1. \A i \in ((j - 1) + 1)..Len(t) : i \in 1..Len(t) /\ i + 1 \in (j + 1)..Len(q)
        BY <1>1, <3>1
      <4> QED
        BY <1>1, <2>1, <4>1
    <3> HIDE DEF t
    <3>5. Pending(t, r, m, f, S)
      BY <1>3, <3>1, <3>2, <3>3, <3>4 DEF Pending
    <3> QED
      BY <3>5 DEF Progress, t
  <2> QED
    BY <2>2, <2>3
<1> QED
  BY <1>2, <1>3 DEF Progress

\* The reply at the head is lost, or not the one that is expected.
LEMMA ReplyGone ==
    ASSUME NEW q, NEW r \in Seq(Reply), r # <<>>, NEW m, NEW f, NEW S, Progress(q, r, m, f, S)
    PROVE  Progress(q, Tail(r), m, f, S)
<1>1. \A i \in 1..Len(Tail(r)) : i + 1 \in 1..Len(r) /\ Tail(r)[i] = r[i + 1]
  BY TailIs
<1>2. CASE Done(q, r, m, f, S)
  <2>1. Done(q, Tail(r), m, f, S)
    BY <1>1, <1>2 DEF Done
  <2> QED
    BY <2>1 DEF Progress
<1>3. CASE Pending(q, r, m, f, S)
  <2>1. \A i \in 1..Len(Tail(r)) : Other(m, Tail(r)[i])
    BY <1>1, <1>3 DEF Pending
  <2>2. Pending(q, Tail(r), m, f, S)
    BY <1>3, <2>1 DEF Pending
  <2> QED
    BY <2>2 DEF Progress
<1> QED
  BY <1>2, <1>3 DEF Progress

\* One more copy is sent.
LEMMA RetryProgress ==
    ASSUME NEW q \in Seq(OnWay), NEW r, NEW m \in OnWay, NEW f, NEW S, Progress(q, r, m, f, S)
    PROVE  Progress(InFlight(q, m), r, m, f, S)
<1> DEFINE t == InFlight(q, m)
<1>0. t \in Seq(OnWay) /\ Grown(q, t, m)
  BY InFlightIs
<1>1. /\ Len(t) \in Nat /\ Len(q) \in Nat /\ Len(q) <= Len(t)
      /\ \A i \in 1..Len(q) : t[i] = q[i]
      /\ \A i \in 1..Len(t) : i \in 1..Len(q) \/ t[i] = m
  BY <1>0 DEF Grown
<1> HIDE DEF t
<1>2. CASE Done(q, r, m, f, S)
  <2>1. \A i \in 1..Len(t) : t[i] = m
    BY <1>1, <1>2 DEF Done
  <2>2. Done(t, r, m, f, S)
    BY <1>2, <2>1 DEF Done
  <2> QED
    BY <2>2 DEF Progress, t
<1>3. CASE Pending(q, r, m, f, S)
  <2>1. PICK j \in 0..Len(q) : /\ \A i \in 1..j : Other(m, q[i])
                               /\ \A i \in (j + 1)..Len(q) : q[i] = m
                               /\ ChainTo(q, f, j, S)
    BY <1>3 DEF Pending
  <2>2. j \in Nat /\ j \in 0..Len(t) /\ \A i \in 1..j : i \in 1..Len(q)
    BY <1>1
  <2>3. \A i \in 1..j : t[i].req = q[i].req /\ Other(m, t[i])
    BY <1>1, <2>1, <2>2
  <2>4. \A i \in (j + 1)..Len(t) : t[i] = m
    <3>1. \A i \in (j + 1)..Len(t) : i \in 1..Len(t) /\ (i \in 1..Len(q) => i \in (j + 1)..Len(q))
      BY <1>1, <2>2
    <3> QED
      BY <1>1, <2>1, <3>1
  <2>5. ChainTo(t, f, j, S)
    BY <2>1, <2>2, <2>3, ChainSame
  <2>6. Pending(t, r, m, f, S)
    BY <1>3, <2>2, <2>3, <2>4, <2>5 DEF Pending
  <2> QED
    BY <2>6 DEF Progress, t
<1> QED
  BY <1>2, <1>3 DEF Progress

\* The first copy is sent, with a number that nothing on its way has.
LEMMA StartProgress ==
    ASSUME NEW q \in Seq(OnWay), NEW r \in Seq(Reply), NEW m \in OnWay, NEW f, NEW S,
           Numbered(q, m.seq), Numbered(r, m.seq), ChainTo(q, f, Len(q), S)
    PROVE  Progress(InFlight(q, m), r, m, f, S)
<1> DEFINE t == InFlight(q, m)
           j == Len(q)
<1>0. t \in Seq(OnWay) /\ Grown(q, t, m)
  BY InFlightIs
<1>1. /\ Len(t) \in Nat /\ j \in Nat /\ j <= Len(t)
      /\ \A i \in 1..j : t[i] = q[i]
      /\ \A i \in 1..Len(t) : i \in 1..j \/ t[i] = m
  BY <1>0 DEF Grown
<1>2. \A i \in 1..Len(q) : q[i].seq \in Nat
  <2>1. \A i \in 1..Len(q) : q[i] \in OnWay
    BY ElementOfSeq
  <2> QED
    BY <2>1 DEF OnWay
<1>3. \A i \in 1..Len(r) : r[i].seq \in Nat
  <2>1. \A i \in 1..Len(r) : r[i] \in Reply
    BY ElementOfSeq
  <2> QED
    BY <2>1 DEF Reply
<1>4. \A n \in Nat : n < m.seq => n # m.seq
  BY DEF OnWay
<1>5. \A i \in 1..Len(q) : Other(m, q[i])
  BY <1>2, <1>4 DEF Numbered, Other
<1>6. \A i \in 1..Len(r) : Other(m, r[i])
  BY <1>3, <1>4 DEF Numbered, Other
<1> HIDE DEF t, j
<1>7. j \in 0..Len(t) /\ \A i \in (j + 1)..Len(t) : i \in 1..Len(t) /\ i \notin 1..j
  BY <1>1
<1>8. /\ \A i \in 1..j : Other(m, t[i]) /\ t[i].req = q[i].req
      /\ \A i \in (j + 1)..Len(t) : t[i] = m
  BY <1>1, <1>5, <1>7 DEF j
<1>9. ChainTo(t, f, j, S)
  BY <1>1, <1>8, ChainSame DEF j
<1>10. Pending(t, r, m, f, S)
  BY <1>6, <1>7, <1>8, <1>9 DEF Pending
<1> QED
  BY <1>10 DEF Progress, t

\* The call ends without an answer: m was done, or will be, or not.
LEMMA FailProgress ==
    ASSUME NEW q \in Seq(OnWay), NEW r, NEW m \in OnWay, NEW f, NEW S \in SUBSET Content,
           Progress(q, r, m, f, S)
    PROVE  ChainTo(q, f, Len(q), S \cup {Changed(m.req, x) : x \in S})
<1> DEFINE R == S \cup {Changed(m.req, x) : x \in S}
<1>1. \A x \in R : Changed(m.req, x) \in R
  <2>1. m.req \in Request
    BY DEF OnWay
  <2>2. \A x \in S : Changed(m.req, Changed(m.req, x)) = Changed(m.req, x)
    BY <2>1, ChangedTwice
  <2> QED
    BY <2>2
<1>2. S \subseteq R /\ Len(q) \in Nat
  BY LenProperties
<1>3. CASE Done(q, r, m, f, S)
  <2>1. f \in R
    BY <1>3 DEF Done
  <2>2. \A i \in (0 + 1)..Len(q) : q[i] = m
    BY <1>3 DEF Done
  <2> HIDE DEF R
  <2>3. ChainTo(q, f, 0, R)
    BY <2>1, ChainHere
  <2>4. 0 \in Nat /\ 0 <= Len(q)
    BY <1>2
  <2> QED
    BY <1>1, <1>2, <2>2, <2>3, <2>4, ChainExtends DEF R
<1>4. CASE Pending(q, r, m, f, S)
  <2>1. PICK j \in 0..Len(q) : /\ \A i \in (j + 1)..Len(q) : q[i] = m
                               /\ ChainTo(q, f, j, S)
    BY <1>4 DEF Pending
  <2>2. j \in Nat /\ j <= Len(q)
    BY <1>2
  <2> HIDE DEF R
  <2> QED
    BY <1>1, <1>2, <2>1, <2>2, ChainExtends DEF R
<1> QED
  BY <1>3, <1>4 DEF Progress

\* The call has its answer: m was done.
LEMMA AnsweredProgress ==
    ASSUME NEW q \in Seq(OnWay), NEW r \in Seq(Reply), r # <<>>, NEW m \in OnWay, NEW f,
           NEW S \in SUBSET Content, Progress(q, r, m, f, S), ~Other(m, Head(r))
    PROVE  /\ ChainTo(q, f, Len(q), {Changed(m.req, x) : x \in S})
           /\ \E x \in S : Head(r).data = Data(m.req, x)
<1> DEFINE R == {Changed(m.req, x) : x \in S}
<1>1. 1 \in 1..Len(r) /\ Head(r) = r[1]
  <2>1. Len(r) \in Nat /\ Len(r) >= 1 /\ Head(r) = r[1]
    BY TailIs
  <2> QED
    BY <2>1
<1>2. Done(q, r, m, f, S)
  BY <1>1 DEF Progress, Pending
<1>3. \A x \in R : Changed(m.req, x) \in R
  <2>1. m.req \in Request
    BY DEF OnWay
  <2>2. \A x \in S : Changed(m.req, Changed(m.req, x)) = Changed(m.req, x)
    BY <2>1, ChangedTwice
  <2> QED
    BY <2>2
<1>4. Len(q) \in Nat /\ 0 \in Nat /\ 0 <= Len(q)
  BY LenProperties
<1>5. f \in R /\ \A i \in (0 + 1)..Len(q) : q[i] = m
  BY <1>2 DEF Done
<1> HIDE DEF R
<1>6. ChainTo(q, f, Len(q), R)
  BY <1>3, <1>4, <1>5, ChainHere, ChainExtends
<1> QED
  BY <1>1, <1>2, <1>6 DEF Done, R

----
\* The mutex.

LEMMA CallType ==
    ASSUME NEW c \in [Client -> RfsCall], NEW p \in Client
    PROVE  c[p].at \in {"run", "locked", "recv"} /\ c[p].req \in Request /\ c[p].seq \in Nat /\ c[p].tries \in Nat
BY DEF RfsCall

\* The mutex is taken or waited for.
LEMMA LockEnter ==
    ASSUME NEW c, NEW s, LockSound(c, s), NEW p \in Client, c[p].at = "run",
           NEW c1, c1[p].at = "locked", \A q \in Client \ {p} : c1[q].at = c[q].at
    PROVE  LockSound(c1, Wait(s, p))
<1> DEFINE w == Wait(s, p)
<1>1. SemSound(s, Client) /\ s.count <= 1 /\ ~Waits(s, p) /\ s.count \in Int
  BY DEF LockSound, SemSound
<1>2. /\ SemSound(w, Client) /\ w.count = s.count - 1
      /\ \A q \in Client : Waits(w, q) <=> Waits(s, q) \/ (q = p /\ s.count <= 0)
  BY <1>1, WaitSound
<1> HIDE DEF w
<1>3. w.count <= 1 /\ w.count <= 0 /\ (s.count <= 0 \/ s.count = 1)
  BY <1>1, <1>2
<1>4. \A q \in Client : Waits(w, q) => c1[q].at = "locked"
  BY <1>2 DEF LockSound
<1>5. \A q \in Client \ {p} : Holds(c1, w, q) <=> Holds(c, s, q)
  BY <1>2 DEF Holds
<1>6. ~Holds(c, s, p)
  BY DEF Holds
<1>7. Holds(c1, w, p) <=> ~(s.count <= 0)
  BY <1>1, <1>2 DEF Holds
<1>8. s.count <= 0 <=> \E q \in Client : Holds(c, s, q)
  BY DEF LockSound
<1>9. \A q, t \in Client : Holds(c, s, q) /\ Holds(c, s, t) => q = t
  BY DEF LockSound
<1>10. \E q \in Client : Holds(c1, w, q)
  BY <1>5, <1>6, <1>7, <1>8
<1>11. \A q, t \in Client : Holds(c1, w, q) /\ Holds(c1, w, t) => q = t
  BY <1>5, <1>6, <1>7, <1>8, <1>9
<1>12. LockSound(c1, w)
  BY <1>2, <1>3, <1>4, <1>10, <1>11 DEF LockSound
<1> QED
  BY <1>12 DEF w

\* The mutex is released, or handed over to the head of the queue.
LEMMA LockLeave ==
    ASSUME NEW c, NEW s, LockSound(c, s), NEW p \in Client, Holds(c, s, p),
           NEW c1, c1[p].at = "run", \A q \in Client \ {p} : c1[q].at = c[q].at
    PROVE  LockSound(c1, Signal(s))
<1> DEFINE w == Signal(s)
           h == Head(s.queue)
<1>1. SemSound(s, Client) /\ s.count <= 0 /\ ~Waits(s, p) /\ s.count \in Int
  BY DEF LockSound, SemSound, Holds
<1>2. /\ SemSound(w, Client) /\ w.count = s.count + 1
      /\ s.count < 0 => h \in Client /\ Waits(s, h)
      /\ \A q \in Client : Waits(w, q) <=> Waits(s, q) /\ ~(s.count < 0 /\ q = h)
  BY <1>1, SignalSound
<1> HIDE DEF w, h
<1>3. w.count <= 1 /\ (w.count <= 0 <=> s.count < 0)
  BY <1>1, <1>2
<1>4. \A q \in Client : Waits(s, q) => c[q].at = "locked" /\ q # p
  BY <1>1 DEF LockSound
<1>5. \A q \in Client : Waits(w, q) => c1[q].at = "locked"
  BY <1>2, <1>4
<1>6. \A q, t \in Client : Holds(c, s, q) /\ Holds(c, s, t) => q = t
  BY DEF LockSound
<1>7. \A q \in Client : Holds(c1, w, q) => s.count < 0 /\ q = h
  <2> SUFFICES ASSUME NEW q \in Client, Holds(c1, w, q), ~(s.count < 0 /\ q = h)
               PROVE  FALSE
    OBVIOUS
  <2>1. q # p /\ c[q].at # "run" /\ ~Waits(s, q)
    BY <1>2 DEF Holds
  <2> QED
    BY <1>6, <2>1 DEF Holds
<1>8. s.count < 0 => Holds(c1, w, h)
  BY <1>2, <1>4 DEF Holds
<1>9. w.count <= 0 <=> \E q \in Client : Holds(c1, w, q)
  BY <1>2, <1>3, <1>7, <1>8
<1>10. \A q, t \in Client : Holds(c1, w, q) /\ Holds(c1, w, t) => q = t
  BY <1>7
<1>11. LockSound(c1, w)
  BY <1>2, <1>3, <1>5, <1>9, <1>10 DEF LockSound
<1> QED
  BY <1>11 DEF w

\* The holder goes on.
LEMMA LockSame ==
    ASSUME NEW c, NEW s, LockSound(c, s), NEW p \in Client, Holds(c, s, p),
           NEW c1, c1[p].at # "run", \A q \in Client \ {p} : c1[q].at = c[q].at
    PROVE  LockSound(c1, s)
<1>1. \A q \in Client : Holds(c1, s, q) <=> Holds(c, s, q)
  BY DEF Holds
<1>2. \A q \in Client : Waits(s, q) => c1[q].at = "locked"
  BY DEF LockSound, Holds
<1> QED
  BY <1>1, <1>2 DEF LockSound

\* No other process is in an exchange while one holds the mutex.
LEMMA Alone ==
    ASSUME RfsSound, NEW p \in Client, Holds(rcall, rf_mutex, p)
    PROVE  \A q \in Client \ {p} : rcall[q].at # "recv"
<1> SUFFICES ASSUME NEW q \in Client \ {p}, rcall[q].at = "recv" PROVE FALSE
  OBVIOUS
<1>1. Holds(rcall, rf_mutex, q)
  BY DEF RfsSound, LockSound, Holds
<1> QED
  BY <1>1 DEF RfsSound, LockSound

----
\* The steps.

\* A call ends, with what is then possible.
LEMMA LeaveKeeps ==
    ASSUME RfsSound, NEW p \in Client, Holds(rcall, rf_mutex, p), Leave(p),
           UNCHANGED <<rf_seq, requests, file>>, replies' \in Seq(Reply), Numbered(replies', rf_seq),
           possible' \subseteq Content, ~gotOld',
           ChainTo(requests, file, Len(requests), possible')
    PROVE  RfsSound'
<1>1. NoExchange \in RfsCall /\ NoExchange.at = "run" /\ NoExchange.req = NoRequest
  BY DEF NoExchange, RfsCall, Request
<1>2. rcall \in [Client -> RfsCall]
  BY DEF RfsSound, RfsTypes
<1>3. rcall' = [rcall EXCEPT ![p] = NoExchange] /\ rf_mutex' = Signal(rf_mutex)
  BY DEF Leave
<1>4. /\ rcall' \in [Client -> RfsCall]
      /\ rcall'[p].at = "run" /\ rcall'[p].req = NoRequest
      /\ \A q \in Client \ {p} : rcall'[q] = rcall[q]
  BY <1>1, <1>2, <1>3
<1>5. LockSound(rcall', rf_mutex')
  BY <1>3, <1>4, LockLeave DEF RfsSound
<1>6. \A q \in Client : rcall'[q].at # "recv" /\ rcall'[q].req = NoRequest
  BY <1>4, Alone DEF RfsSound, RfsExchange
<1>7. RfsTypes'
  BY <1>4 DEF RfsSound, RfsTypes
<1>8. RfsExchange'
  BY <1>6 DEF RfsSound, RfsExchange
<1> QED
  BY <1>5, <1>7, <1>8 DEF RfsSound

LEMMA InsideHolds ==
    ASSUME NEW p \in Client, NEW at \in {"locked", "recv"}, Inside(p, at)
    PROVE  Holds(rcall, rf_mutex, p) /\ rcall[p].at = at /\ rhalted = "no"
BY DEF Inside, Holds

LEMMA QuietKeeps ==
    ASSUME RfsSound, NEW p \in Client, Inside(p, "locked"), LeaveQuietly(p)
    PROVE  RfsSound'
<1>1. Holds(rcall, rf_mutex, p) /\ rcall[p].at = "locked"
  BY InsideHolds
<1>2. \A q \in Client : rcall[q].at # "recv"
  BY <1>1, Alone
<1>3. Leave(p) /\ UNCHANGED <<rf_seq, requests, replies, file, possible, gotOld>>
  BY DEF LeaveQuietly
<1>4. /\ replies' \in Seq(Reply) /\ Numbered(replies', rf_seq) /\ possible' \subseteq Content /\ ~gotOld'
      /\ ChainTo(requests, file, Len(requests), possible')
  BY <1>2, <1>3 DEF RfsSound, RfsTypes, RfsExchange
<1> QED
  BY <1>1, <1>3, <1>4, LeaveKeeps

LEMMA enterKeeps ==
    ASSUME RfsSound, NEW p \in Client, enter(p)
    PROVE  RfsSound'
<1>1. /\ rcall[p].at = "run" /\ rf_mutex' = Wait(rf_mutex, p)
      /\ rcall' = [rcall EXCEPT ![p].at = "locked"]
      /\ UNCHANGED <<rf_seq, requests, replies, file, possible, gotOld>>
  BY DEF enter, Inside
<1>2. rcall \in [Client -> RfsCall]
  BY DEF RfsSound, RfsTypes
<1>3. /\ rcall' \in [Client -> RfsCall]
      /\ rcall'[p].at = "locked" /\ rcall'[p].req = rcall[p].req
      /\ \A q \in Client \ {p} : rcall'[q] = rcall[q]
  BY <1>1, <1>2 DEF RfsCall
<1>4. LockSound(rcall', rf_mutex')
  BY <1>1, <1>3, LockEnter DEF RfsSound
<1>5. RfsTypes'
  BY <1>1, <1>3 DEF RfsSound, RfsTypes
<1>6. \A q \in Client : /\ rcall'[q].at = "recv" <=> rcall[q].at = "recv"
                        /\ rcall'[q].at = "recv" => rcall'[q] = rcall[q]
                        /\ rcall'[q].req = rcall[q].req
  BY <1>1, <1>3
<1>7. \A q \in Client : rcall'[q].at = "recv" => Asked(rcall', q) = Asked(rcall, q)
  BY <1>6 DEF Asked
<1>8. RfsExchange'
  <2>1. Numbered(requests', rf_seq') /\ Numbered(replies', rf_seq') /\ ~gotOld'
    BY <1>1 DEF RfsSound, RfsExchange
  <2>2. \A q \in Client : IF rcall'[q].at = "recv" THEN rcall'[q].seq = rf_seq' - 1 ELSE rcall'[q].req = NoRequest
    BY <1>1, <1>6 DEF RfsSound, RfsExchange
  <2>3. (\A q \in Client : rcall'[q].at # "recv") => ChainTo(requests', file', Len(requests'), possible')
    BY <1>1, <1>6 DEF RfsSound, RfsExchange
  <2>4. \A q \in Client : rcall'[q].at = "recv" => Progress(requests', replies', Asked(rcall', q), file', possible')
    BY <1>1, <1>6, <1>7 DEF RfsSound, RfsExchange
  <2> QED
    BY <2>1, <2>2, <2>3, <2>4 DEF RfsExchange
<1> QED
  BY <1>4, <1>5, <1>8 DEF RfsSound

\* A message of this life, with the last number given out.
LEMMA MessageSent ==
    ASSUME NEW q \in Seq(OnWay), NEW n \in Nat, Numbered(q, n + 1), NEW req \in Request
    PROVE  /\ Message(n, req) \in OnWay /\ ~Message(n, req).old
           /\ Message(n, req).seq = n /\ Message(n, req).req = req
           /\ InFlight(q, Message(n, req)) \in Seq(OnWay)
           /\ Numbered(InFlight(q, Message(n, req)), n + 1)
<1> DEFINE m == Message(n, req)
           t == InFlight(q, m)
<1>1. m \in OnWay /\ m.old = FALSE /\ m.seq = n /\ m.req = req
  BY DEF Message, OnWay
<1> HIDE DEF m
<1>2. t \in Seq(OnWay) /\ Grown(q, t, m)
  BY <1>1, InFlightIs
<1> HIDE DEF t
<1>3. n < n + 1
  OBVIOUS
<1>4. Numbered(t, n + 1)
  BY <1>1, <1>2, <1>3 DEF Numbered, Grown
<1> QED
  BY <1>1, <1>2, <1>4 DEF t, m

LEMMA NumberedMore ==
    ASSUME NEW T, NEW q \in Seq(T), \A e \in T : e.seq \in Nat, NEW n \in Nat, Numbered(q, n)
    PROVE  Numbered(q, n + 1)
<1>1. \A i \in 1..Len(q) : q[i] \in T
  BY ElementOfSeq
<1>2. \A k \in Nat : k < n => k < n + 1
  OBVIOUS
<1> QED
  BY <1>1, <1>2 DEF Numbered

LEMMA CommKeeps ==
    ASSUME RfsSound, NEW p \in Client, Inside(p, "locked"), NEW d \in Nat, NEW req \in Request,
           rfscomm(p, d, req)
    PROVE  RfsSound'
<1>0. Holds(rcall, rf_mutex, p) /\ rcall[p].at = "locked"
  BY InsideHolds
<1>1. CASE LeaveQuietly(p)
  BY <1>1, QuietKeeps
<1>2. CASE ~LeaveQuietly(p)
  <2> DEFINE m == Message(rf_seq, req)
             c == [at |-> "recv", dev |-> d, req |-> req, seq |-> rf_seq, tries |-> 1]
  <2>1. /\ rf_seq' = rf_seq + 1
        /\ requests' = InFlight(requests, m)
        /\ rcall' = [rcall EXCEPT ![p] = c]
        /\ UNCHANGED <<rf_mutex, replies, file, possible, gotOld>>
    BY <1>2 DEF rfscomm
  <2>2. /\ rf_seq \in Nat /\ rcall \in [Client -> RfsCall] /\ requests \in Seq(OnWay) /\ replies \in Seq(Reply)
        /\ Numbered(requests, rf_seq) /\ Numbered(replies, rf_seq)
    BY DEF RfsSound, RfsTypes, RfsExchange
  <2>3. Numbered(requests, rf_seq + 1) /\ Numbered(replies, rf_seq + 1)
    <3>1. \A e \in OnWay : e.seq \in Nat
      BY DEF OnWay
    <3>2. \A e \in Reply : e.seq \in Nat
      BY DEF Reply
    <3>3. Numbered(requests, rf_seq + 1)
      BY <2>2, <3>1, NumberedMore
    <3>4. Numbered(replies, rf_seq + 1)
      BY <2>2, <3>2, NumberedMore
    <3> QED
      BY <3>3, <3>4
  <2>4. /\ m \in OnWay /\ m.seq = rf_seq
        /\ InFlight(requests, m) \in Seq(OnWay) /\ Numbered(InFlight(requests, m), rf_seq + 1)
    BY <2>2, <2>3, MessageSent
  <2>5. c \in RfsCall /\ c.at = "recv" /\ c.seq = rf_seq /\ c.req = req
    BY <2>2 DEF RfsCall
  <2> HIDE DEF m, c
  <2>6. /\ rcall' \in [Client -> RfsCall] /\ rcall'[p] = c
        /\ \A q \in Client \ {p} : rcall'[q] = rcall[q]
    BY <2>1, <2>2, <2>5
  <2>7. \A q \in Client : rcall[q].at # "recv"
    BY <1>0, Alone
  <2>8. ChainTo(requests, file, Len(requests), possible)
    BY <2>7 DEF RfsSound, RfsExchange
  <2>9. Progress(InFlight(requests, m), replies, m, file, possible)
    BY <2>2, <2>4, <2>8, StartProgress
  <2>10. Asked(rcall', p) = m
    BY <2>5, <2>6 DEF Asked, m
  <2>11. LockSound(rcall', rf_mutex')
    <3>1. rcall'[p].at # "run" /\ \A q \in Client \ {p} : rcall'[q].at = rcall[q].at
      BY <2>5, <2>6
    <3>2. LockSound(rcall', rf_mutex)
      BY <1>0, <3>1, LockSame DEF RfsSound
    <3> QED
      BY <2>1, <3>2
  <2>12. RfsTypes'
    BY <2>1, <2>2, <2>4, <2>6 DEF RfsSound, RfsTypes
  <2>13. \A q \in Client : IF rcall'[q].at = "recv" THEN rcall'[q].seq = rf_seq' - 1 ELSE rcall'[q].req = NoRequest
    <3>1. rf_seq' - 1 = rf_seq
      BY <2>1, <2>2
    <3>2. \A q \in Client : rcall[q].req = NoRequest
      BY <2>7 DEF RfsSound, RfsExchange
    <3> QED
      BY <2>5, <2>6, <2>7, <3>1, <3>2
  <2>14. \A q \in Client : rcall'[q].at = "recv" => q = p
    BY <2>6, <2>7
  <2>15. RfsExchange'
    <3>1. Numbered(requests', rf_seq') /\ Numbered(replies', rf_seq') /\ ~gotOld'
      BY <2>1, <2>3, <2>4 DEF RfsSound, RfsExchange
    <3>2. rcall'[p].at = "recv"
      BY <2>5, <2>6
    <3>3. \A q \in Client : rcall'[q].at = "recv" => Progress(requests', replies', Asked(rcall', q), file', possible')
      BY <2>1, <2>9, <2>10, <2>14
    <3> QED
      BY <2>13, <3>1, <3>2, <3>3 DEF RfsExchange
  <2> QED
    BY <2>11, <2>12, <2>15 DEF RfsSound
<1> QED
  BY <1>1, <1>2

\* Another try, or the end of the call, with the replies that are left.
LEMMA RetryKeeps ==
    ASSUME RfsSound, NEW p \in Client, Inside(p, "recv"), Retry(p) \/ Fail(p),
           UNCHANGED <<rf_seq, file>>, replies' \in Seq(Reply), Numbered(replies', rf_seq),
           Progress(requests, replies', Asked(rcall, p), file, possible)
    PROVE  RfsSound'
<1> DEFINE m == Asked(rcall, p)
<1>0. Holds(rcall, rf_mutex, p) /\ rcall[p].at = "recv"
  BY InsideHolds
<1>1. /\ rf_seq \in Nat /\ rcall \in [Client -> RfsCall] /\ requests \in Seq(OnWay)
      /\ Numbered(requests, rf_seq) /\ rcall[p].seq = rf_seq - 1
      /\ possible \subseteq Content /\ ~gotOld
  BY <1>0 DEF RfsSound, RfsTypes, RfsExchange
<1>2. rcall[p].req \in Request /\ rcall[p].seq \in Nat /\ rcall[p].tries \in Nat
  BY <1>1, CallType
<1>3. rf_seq = rcall[p].seq + 1
  BY <1>1, <1>2
<1>4. /\ m \in OnWay /\ m.req = rcall[p].req
      /\ InFlight(requests, m) \in Seq(OnWay) /\ Numbered(InFlight(requests, m), rf_seq)
  BY <1>1, <1>2, <1>3, MessageSent DEF Asked
<1>5. CASE Fail(p)
  <2>1. /\ Leave(p) /\ requests' = requests /\ gotOld' = gotOld
        /\ possible' = possible \cup {Changed(m.req, x) : x \in possible}
    BY <1>4, <1>5 DEF Fail
  <2>2. possible' \subseteq Content
    BY <1>1, <1>2, <1>4, <2>1, ChangedTwice
  <2>3. ChainTo(requests, file, Len(requests), possible')
    BY <1>1, <1>4, <2>1, FailProgress
  <2> QED
    BY <1>0, <1>1, <2>1, <2>2, <2>3, LeaveKeeps
<1>6. CASE ~Fail(p)
  <2>1. /\ requests' = InFlight(requests, m)
        /\ rcall' = [rcall EXCEPT ![p].tries = @ + 1]
        /\ UNCHANGED <<rf_mutex, possible, gotOld>>
    BY <1>6 DEF Retry, Asked
  <2>2. /\ rcall' \in [Client -> RfsCall]
        /\ rcall'[p].at = rcall[p].at /\ rcall'[p].req = rcall[p].req /\ rcall'[p].seq = rcall[p].seq
        /\ \A q \in Client \ {p} : rcall'[q] = rcall[q]
    <3> DEFINE c == [rcall[p] EXCEPT !.tries = @ + 1]
    <3>1. rcall[p] \in RfsCall /\ rcall[p].tries + 1 \in Nat
      BY <1>1, <1>2
    <3>2. c \in RfsCall /\ c.at = rcall[p].at /\ c.req = rcall[p].req /\ c.seq = rcall[p].seq
      BY <3>1 DEF RfsCall
    <3>3. rcall' = [rcall EXCEPT ![p] = c]
      BY <2>1
    <3> HIDE DEF c
    <3> QED
      BY <1>1, <3>2, <3>3
  <2>3. Progress(requests', replies', m, file, possible)
    BY <1>1, <1>4, <2>1, RetryProgress
  <2>4. Asked(rcall', p) = m
    BY <2>2 DEF Asked
  <2>5. \A q \in Client \ {p} : rcall[q].at # "recv"
    BY <1>0, Alone
  <2> HIDE DEF m
  <2>6. LockSound(rcall', rf_mutex')
    <3>1. rcall'[p].at # "run" /\ \A q \in Client \ {p} : rcall'[q].at = rcall[q].at
      BY <1>0, <2>2
    <3>2. LockSound(rcall', rf_mutex)
      BY <1>0, <3>1, LockSame DEF RfsSound
    <3> QED
      BY <2>1, <3>2
  <2>7. RfsTypes'
    BY <1>4, <2>1, <2>2 DEF RfsSound, RfsTypes
  <2>8. \A q \in Client : IF rcall'[q].at = "recv" THEN rcall'[q].seq = rf_seq' - 1 ELSE rcall'[q].req = NoRequest
    BY <2>2 DEF RfsSound, RfsExchange
  <2>9. \A q \in Client : rcall'[q].at = "recv" => Progress(requests', replies', Asked(rcall', q), file', possible')
    BY <2>1, <2>2, <2>3, <2>4, <2>5
  <2>10. rcall'[p].at = "recv"
    BY <1>0, <2>2
  <2>11. RfsExchange'
    BY <1>1, <1>4, <2>1, <2>8, <2>9, <2>10 DEF RfsExchange
  <2> QED
    BY <2>6, <2>7, <2>11 DEF RfsSound
<1> QED
  BY <1>5, <1>6

LEMMA TailReplies ==
    ASSUME RfsSound, replies # <<>>
    PROVE  Tail(replies) \in Seq(Reply) /\ Numbered(Tail(replies), rf_seq) /\ Head(replies) \in Reply
<1>1. replies \in Seq(Reply) /\ Numbered(replies, rf_seq)
  BY DEF RfsSound, RfsTypes, RfsExchange
<1>2. /\ Tail(replies) \in Seq(Reply) /\ Head(replies) \in Reply
      /\ \A i \in 1..Len(Tail(replies)) : i + 1 \in 1..Len(replies) /\ Tail(replies)[i] = replies[i + 1]
  BY <1>1, TailIs
<1> QED
  BY <1>1, <1>2 DEF Numbered

LEMMA NoReplyKeeps ==
    ASSUME RfsSound, NEW p \in Client, rfscommNoReply(p)
    PROVE  RfsSound'
<1>1. Inside(p, "recv") /\ (Retry(p) \/ Fail(p)) /\ UNCHANGED <<rf_seq, replies, file>>
  BY DEF rfscommNoReply
<1>2. rcall[p].at = "recv"
  BY <1>1 DEF Inside
<1>3. /\ replies' \in Seq(Reply) /\ Numbered(replies', rf_seq)
      /\ Progress(requests, replies', Asked(rcall, p), file, possible)
  BY <1>1, <1>2 DEF RfsSound, RfsTypes, RfsExchange
<1> QED
  BY <1>1, <1>3, RetryKeeps

LEMMA ReplyKeeps ==
    ASSUME RfsSound, NEW p \in Client, rfscommReply(p), rhalted' = "no"
    PROVE  RfsSound'
<1> DEFINE m == Asked(rcall, p)
           e == Head(replies)
<1>1. Inside(p, "recv") /\ replies # <<>> /\ replies' = Tail(replies) /\ UNCHANGED <<rf_seq, file>>
  BY DEF rfscommReply
<1>2. Holds(rcall, rf_mutex, p) /\ rcall[p].at = "recv"
  BY <1>1, InsideHolds
<1>3. /\ rf_seq \in Nat /\ rcall \in [Client -> RfsCall] /\ requests \in Seq(OnWay) /\ replies \in Seq(Reply)
      /\ possible \subseteq Content /\ ~gotOld
      /\ Progress(requests, replies, m, file, possible)
  BY <1>2 DEF RfsSound, RfsTypes, RfsExchange
<1>4. replies' \in Seq(Reply) /\ Numbered(replies', rf_seq) /\ e \in Reply
  BY <1>1, TailReplies
<1>5. CASE e.seq = rcall[p].seq /\ e.type = rcall[p].req.type
  <2>1. Answered(p, e) /\ ~e.old
    BY <1>5 DEF rfscommReply
  <2>2. m \in OnWay /\ m.seq = rcall[p].seq /\ m.req = rcall[p].req
    <3>1. rcall[p].req \in Request /\ rcall[p].seq \in Nat
      BY <1>3, CallType
    <3> QED
      BY <3>1 DEF Asked, Message, OnWay
  <2>3. ~Other(m, e)
    BY <1>5, <2>1, <2>2 DEF Other
  <2> HIDE DEF m
  <2>4. /\ ChainTo(requests, file, Len(requests), {Changed(m.req, x) : x \in possible})
        /\ \E x \in possible : e.data = Data(m.req, x)
    BY <1>1, <1>3, <2>2, <2>3, AnsweredProgress
  <2>5. /\ Leave(p) /\ requests' = requests
        /\ possible' = {Changed(m.req, x) : x \in possible}
        /\ gotOld' = (gotOld \/ (e.ok /\ \A x \in possible : e.data # Data(m.req, x)))
    BY <2>1, <2>2 DEF Answered
  <2>6. possible' \subseteq Content
    <3>1. m.req \in Request
      BY <2>2 DEF OnWay
    <3> QED
      BY <1>3, <2>5, <3>1, ChangedTwice
  <2>7. ~gotOld'
    BY <1>3, <2>4, <2>5
  <2>8. ChainTo(requests, file, Len(requests), possible')
    BY <2>4, <2>5
  <2> QED
    BY <1>1, <1>2, <1>4, <2>5, <2>6, <2>7, <2>8, LeaveKeeps
<1>6. CASE ~(e.seq = rcall[p].seq /\ e.type = rcall[p].req.type)
  <2>1. Retry(p)
    BY <1>6 DEF rfscommReply
  <2>2. Progress(requests, replies', m, file, possible)
    BY <1>1, <1>3, ReplyGone
  <2> QED
    BY <1>1, <1>4, <2>1, <2>2, RetryKeeps
<1> QED
  BY <1>5, <1>6

LEMMA serveKeeps ==
    ASSUME RfsSound, serve
    PROVE  RfsSound'
<1> DEFINE h == Head(requests)
           e == [type |-> h.req.type, seq |-> h.seq, old |-> h.old, ok |-> Succeeds(h.req, file), data |-> Data(h.req, file)]
<1>1. /\ requests # <<>> /\ requests' = Tail(requests)
      /\ file' = Changed(h.req, file) /\ replies' = InFlight(replies, e)
      /\ UNCHANGED <<rf_seq, rf_mutex, rcall, possible, gotOld>>
  BY DEF serve
<1>2. /\ rf_seq \in Nat /\ rcall \in [Client -> RfsCall] /\ requests \in Seq(OnWay) /\ replies \in Seq(Reply)
      /\ file \in Content /\ possible \subseteq Content
      /\ Numbered(requests, rf_seq) /\ Numbered(replies, rf_seq)
  BY DEF RfsSound, RfsTypes, RfsExchange
<1>3. /\ Tail(requests) \in Seq(OnWay) /\ h \in OnWay /\ h = requests[1]
      /\ Len(requests) \in Nat /\ Len(requests) >= 1 /\ Len(Tail(requests)) = Len(requests) - 1
      /\ \A i \in 1..Len(Tail(requests)) : i + 1 \in 1..Len(requests) /\ Tail(requests)[i] = requests[i + 1]
  BY <1>1, <1>2, TailIs
<1>4. h.req \in Request /\ h.seq \in Nat /\ h.old \in BOOLEAN
  BY <1>3 DEF OnWay
<1>5. h.old \/ h.seq < rf_seq
  <2>1. 1 \in 1..Len(requests)
    BY <1>3
  <2> QED
    BY <1>2, <1>3, <2>1 DEF Numbered
<1>6. Succeeds(h.req, file) \in BOOLEAN
  BY DEF Succeeds
<1>7. Data(h.req, file) \in Content /\ Changed(h.req, file) \in Content
  BY <1>2, <1>4, DataIsContent, ChangedTwice
<1>8. e \in Reply /\ e.old = h.old /\ e.seq = h.seq /\ e.data = Data(h.req, file)
  BY <1>4, <1>6, <1>7 DEF Reply
<1> HIDE DEF h, e
<1>9. /\ replies' \in Seq(Reply)
      /\ \A i \in 1..Len(replies') : (i \in 1..Len(replies) /\ replies'[i] = replies[i]) \/ replies'[i] = e
  BY <1>1, <1>2, <1>8, InFlightReply
<1>10. Numbered(requests', rf_seq) /\ Numbered(replies', rf_seq)
  <2>1. Numbered(requests', rf_seq)
    BY <1>1, <1>2, <1>3 DEF Numbered
  <2>2. Numbered(replies', rf_seq)
    BY <1>2, <1>5, <1>8, <1>9 DEF Numbered
  <2> QED
    BY <2>1, <2>2
<1>11. ASSUME NEW p \in Client, rcall[p].at = "recv"
       PROVE  Progress(requests', replies', Asked(rcall, p), file', possible)
  <2> DEFINE m == Asked(rcall, p)
  <2>1. Progress(requests, replies, m, file, possible)
    BY <1>11 DEF RfsSound, RfsExchange
  <2>2. m \in OnWay /\ ~m.old
    <3>1. rcall[p].req \in Request /\ rcall[p].seq \in Nat
      BY <1>2, CallType
    <3> QED
      BY <3>1 DEF Asked, Message, OnWay
  <2> HIDE DEF m
  <2>3. Progress(Tail(requests), InFlight(replies, e), m, Changed(Head(requests).req, file), possible)
    BY <1>1, <1>2, <1>8, <2>1, <2>2, ServeProgress DEF h
  <2> QED
    BY <1>1, <2>3 DEF h, m
<1>12. ASSUME \A p \in Client : rcall[p].at # "recv"
       PROVE  ChainTo(requests', file', Len(requests'), possible)
  <2>1. ChainTo(requests, file, Len(requests), possible)
    BY <1>12 DEF RfsSound, RfsExchange
  <2>2. Len(requests) \in 1..Len(requests)
    BY <1>3
  <2>3. ChainTo(Tail(requests), Changed(Head(requests).req, file), Len(requests) - 1, possible)
    BY <1>1, <1>2, <2>1, <2>2, ChainTail
  <2> QED
    BY <1>1, <1>3, <2>3 DEF h
<1>13. RfsTypes' /\ LockSound(rcall', rf_mutex')
  BY <1>1, <1>2, <1>3, <1>7, <1>9 DEF RfsSound, RfsTypes
<1>14. RfsExchange'
  <2>1. \A p \in Client : IF rcall'[p].at = "recv" THEN rcall'[p].seq = rf_seq' - 1 ELSE rcall'[p].req = NoRequest
    BY <1>1 DEF RfsSound, RfsExchange
  <2>2. ~gotOld'
    BY <1>1 DEF RfsSound, RfsExchange
  <2>3. \A p \in Client : rcall'[p].at = "recv" => Progress(requests', replies', Asked(rcall', p), file', possible')
    BY <1>1, <1>11 DEF Asked
  <2>4. (\A p \in Client : rcall'[p].at # "recv") => ChainTo(requests', file', Len(requests'), possible')
    BY <1>1, <1>12
  <2>5. Numbered(requests', rf_seq') /\ Numbered(replies', rf_seq')
    BY <1>1, <1>10
  <2> QED
    BY <2>1, <2>2, <2>3, <2>4, <2>5 DEF RfsExchange
<1> QED
  BY <1>13, <1>14 DEF RfsSound

LEMMA loseKeeps ==
    ASSUME RfsSound, lose
    PROVE  RfsSound'
<1>1. UNCHANGED <<rf_seq, rf_mutex, rcall, file, possible, gotOld>>
  BY DEF lose
<1>2. /\ rf_seq \in Nat /\ requests \in Seq(OnWay) /\ replies \in Seq(Reply)
      /\ Numbered(requests, rf_seq) /\ Numbered(replies, rf_seq)
  BY DEF RfsSound, RfsTypes, RfsExchange
<1>3. /\ requests' \in Seq(OnWay) /\ replies' \in Seq(Reply)
      /\ Numbered(requests', rf_seq) /\ Numbered(replies', rf_seq)
      /\ \A p \in Client : rcall[p].at = "recv" => Progress(requests', replies', Asked(rcall, p), file, possible)
      /\ (\A p \in Client : rcall[p].at # "recv") => ChainTo(requests', file, Len(requests'), possible)
  <2>1. CASE requests # <<>> /\ requests' = Tail(requests) /\ replies' = replies
    <3>1. /\ Tail(requests) \in Seq(OnWay)
          /\ Len(requests) \in Nat /\ Len(requests) >= 1 /\ Len(Tail(requests)) = Len(requests) - 1
          /\ \A i \in 1..Len(Tail(requests)) : i + 1 \in 1..Len(requests) /\ Tail(requests)[i] = requests[i + 1]
      BY <1>2, <2>1, TailIs
    <3>2. Numbered(Tail(requests), rf_seq)
      BY <1>2, <3>1 DEF Numbered
    <3>3. ASSUME NEW p \in Client, rcall[p].at = "recv"
          PROVE  Progress(Tail(requests), replies, Asked(rcall, p), file, possible)
      <4>1. Progress(requests, replies, Asked(rcall, p), file, possible)
        BY <3>3 DEF RfsSound, RfsExchange
      <4> QED
        BY <1>2, <2>1, <4>1, LoseProgress
    <3>4. ASSUME \A p \in Client : rcall[p].at # "recv"
          PROVE  ChainTo(Tail(requests), file, Len(Tail(requests)), possible)
      <4>1. ChainTo(requests, file, Len(requests), possible)
        BY <3>4 DEF RfsSound, RfsExchange
      <4>2. Len(requests) \in 1..Len(requests)
        BY <3>1
      <4>3. ChainTo(Tail(requests), file, Len(requests) - 1, possible)
        BY <1>2, <2>1, <4>1, <4>2, ChainTail
      <4> QED
        BY <3>1, <4>3
    <3> QED
      BY <1>2, <2>1, <3>1, <3>2, <3>3, <3>4
  <2>2. CASE replies # <<>> /\ replies' = Tail(replies) /\ requests' = requests
    <3>1. Tail(replies) \in Seq(Reply) /\ Numbered(Tail(replies), rf_seq)
      BY <2>2, TailReplies
    <3>2. ASSUME NEW p \in Client, rcall[p].at = "recv"
          PROVE  Progress(requests, Tail(replies), Asked(rcall, p), file, possible)
      <4>1. Progress(requests, replies, Asked(rcall, p), file, possible)
        BY <3>2 DEF RfsSound, RfsExchange
      <4> QED
        BY <1>2, <2>2, <4>1, ReplyGone
    <3>3. (\A p \in Client : rcall[p].at # "recv") => ChainTo(requests, file, Len(requests), possible)
      BY DEF RfsSound, RfsExchange
    <3> QED
      BY <1>2, <2>2, <3>1, <3>2, <3>3
  <2> QED
    BY <2>1, <2>2 DEF lose
<1>4. RfsTypes' /\ LockSound(rcall', rf_mutex')
  BY <1>1, <1>3 DEF RfsSound, RfsTypes
<1>5. \A p \in Client : IF rcall'[p].at = "recv" THEN rcall'[p].seq = rf_seq' - 1 ELSE rcall'[p].req = NoRequest
  BY <1>1 DEF RfsSound, RfsExchange
<1>6. ~gotOld'
  BY <1>1 DEF RfsSound, RfsExchange
<1>7. \A p \in Client : Asked(rcall', p) = Asked(rcall, p)
  BY <1>1
<1>8. RfsExchange'
  BY <1>1, <1>3, <1>5, <1>6, <1>7 DEF RfsExchange
<1> QED
  BY <1>4, <1>8 DEF RfsSound

\* Messages of an earlier life.
Old(e) == [e EXCEPT !.old = TRUE]
AllOld(q) == [i \in DOMAIN q |-> Old(q[i])]

LEMMA Aged ==
    ASSUME NEW T, NEW q \in Seq(T), \A e \in T : Old(e) \in T /\ Old(e).old, NEW n
    PROVE  /\ AllOld(q) \in Seq(T) /\ Len(AllOld(q)) = Len(q) /\ Numbered(AllOld(q), n)
           /\ \A i \in 1..Len(q) : AllOld(q)[i] = Old(q[i])
<1> DEFINE t == AllOld(q)
<1>1. Len(q) \in Nat /\ DOMAIN q = 1..Len(q) /\ \A i \in 1..Len(q) : q[i] \in T
  BY LenProperties, ElementOfSeq
<1>2. \A i \in 1..Len(q) : t[i] \in T /\ t[i].old /\ t[i] = Old(q[i])
  BY <1>1 DEF AllOld
<1>3. t \in [1..Len(q) -> T]
  BY <1>1 DEF AllOld
<1>4. t \in Seq(T)
  BY <1>1, <1>3, SeqDef
<1>5. Len(t) = Len(q)
  BY <1>1, <1>3, <1>4, LenProperties
<1> QED
  BY <1>2, <1>4, <1>5 DEF Numbered

LEMMA restartKeeps ==
    ASSUME RfsSound, restart
    PROVE  RfsSound'
<1>1. /\ rf_seq' = 1 /\ rf_mutex' = Semaphore(1) /\ rcall' = [p \in Client |-> NoExchange]
      /\ requests' = [i \in DOMAIN requests |-> [requests[i] EXCEPT !.old = TRUE]]
      /\ replies' = [i \in DOMAIN replies |-> [replies[i] EXCEPT !.old = TRUE]]
      /\ possible' = possible \cup UNION {{Changed(rcall[p].req, c) : c \in possible} : p \in Client}
      /\ UNCHANGED <<file, gotOld>>
  BY DEF restart, Restarted
<1>2. /\ rcall \in [Client -> RfsCall] /\ requests \in Seq(OnWay) /\ replies \in Seq(Reply)
      /\ file \in Content /\ possible \subseteq Content /\ ~gotOld
  BY DEF RfsSound, RfsTypes, RfsExchange
<1>3. NoExchange \in RfsCall /\ NoExchange.at = "run" /\ NoExchange.req = NoRequest
  BY DEF NoExchange, RfsCall, Request
<1>4. /\ rcall' \in [Client -> RfsCall]
      /\ \A p \in Client : rcall'[p].at = "run" /\ rcall'[p].req = NoRequest
  BY <1>1, <1>3
<1>5. LockSound(rcall', rf_mutex')
  <2>1. SemSound(Semaphore(1), Client) /\ Semaphore(1).count = 1 /\ \A p : ~Waits(Semaphore(1), p)
    BY SemaphoreSound
  <2>2. \A p \in Client : ~Holds(rcall', Semaphore(1), p)
    BY <1>4 DEF Holds
  <2>3. LockSound(rcall', Semaphore(1))
    BY <2>1, <2>2 DEF LockSound
  <2> QED
    BY <1>1, <2>3
<1>6. /\ requests' \in Seq(OnWay) /\ Len(requests') = Len(requests) /\ Numbered(requests', 1)
      /\ \A i \in 1..Len(requests) : requests'[i].req = requests[i].req
  <2>1. \A e \in OnWay : Old(e) \in OnWay /\ Old(e).old /\ Old(e).req = e.req
    BY DEF OnWay, Old
  <2>2. /\ AllOld(requests) \in Seq(OnWay) /\ Len(AllOld(requests)) = Len(requests) /\ Numbered(AllOld(requests), 1)
        /\ \A i \in 1..Len(requests) : AllOld(requests)[i] = Old(requests[i])
    BY <1>2, <2>1, Aged
  <2>3. \A i \in 1..Len(requests) : requests[i] \in OnWay
    BY <1>2, ElementOfSeq
  <2>4. requests' = AllOld(requests)
    BY <1>1 DEF AllOld, Old
  <2> QED
    BY <2>1, <2>2, <2>3, <2>4
<1>7. replies' \in Seq(Reply) /\ Numbered(replies', 1)
  <2>1. \A e \in Reply : Old(e) \in Reply /\ Old(e).old
    BY DEF Reply, Old
  <2>2. AllOld(replies) \in Seq(Reply) /\ Numbered(AllOld(replies), 1)
    BY <1>2, <2>1, Aged
  <2>3. replies' = AllOld(replies)
    BY <1>1 DEF AllOld, Old
  <2> QED
    BY <2>2, <2>3
<1>8. possible' \subseteq Content /\ possible \subseteq possible'
  <2>1. \A p \in Client : rcall[p].req \in Request
    BY <1>2, CallType
  <2>2. \A p \in Client : \A c \in possible : Changed(rcall[p].req, c) \in Content
    BY <1>2, <2>1, ChangedTwice
  <2> QED
    BY <1>1, <1>2, <2>2
<1>9. ChainTo(requests, file, Len(requests), possible')
  <2>1. ASSUME NEW S, ChainTo(requests, file, Len(requests), S), S \subseteq possible'
        PROVE  ChainTo(requests, file, Len(requests), possible')
    <3>1. Len(requests) \in Nat /\ Len(requests) <= Len(requests)
          /\ \A i \in (Len(requests) + 1)..Len(requests) : FALSE
      BY <1>2, LenProperties
    <3> QED
      BY <2>1, <3>1, ChainExtends
  <2>2. CASE \A p \in Client : rcall[p].at # "recv"
    BY <1>8, <2>1, <2>2 DEF RfsSound, RfsExchange
  <2>3. CASE \E p \in Client : rcall[p].at = "recv"
    <3>1. PICK p \in Client : rcall[p].at = "recv"
      BY <2>3
    <3> DEFINE m == Asked(rcall, p)
               S == possible \cup {Changed(m.req, x) : x \in possible}
    <3>2. Progress(requests, replies, m, file, possible)
      BY <3>1 DEF RfsSound, RfsExchange
    <3>3. m \in OnWay /\ m.req = rcall[p].req
      <4>1. rcall[p].req \in Request /\ rcall[p].seq \in Nat
        BY <1>2, CallType
      <4> QED
        BY <4>1 DEF Asked, Message, OnWay
    <3> HIDE DEF m
    <3>4. ChainTo(requests, file, Len(requests), S)
      BY <1>2, <3>2, <3>3, FailProgress
    <3>5. S \subseteq possible'
      BY <1>1, <3>3
    <3> HIDE DEF S
    <3> QED
      BY <2>1, <3>4, <3>5
  <2> QED
    BY <2>2, <2>3
<1>10. ChainTo(requests', file', Len(requests'), possible')
  <2>1. Len(requests) \in Nat
    BY <1>2, LenProperties
  <2>2. ChainTo(requests', file, Len(requests), possible')
    BY <1>6, <1>9, <2>1, ChainSame
  <2> QED
    BY <1>1, <1>6, <2>2
<1>11. RfsTypes'
  BY <1>1, <1>2, <1>4, <1>6, <1>7, <1>8 DEF RfsTypes
<1>12. RfsExchange'
  BY <1>1, <1>2, <1>4, <1>6, <1>7, <1>10 DEF RfsExchange
<1> QED
  BY <1>5, <1>11, <1>12 DEF RfsSound

----
\* The specification.

LEMMA RfsStart == rfsinit => RfsSound
<1> SUFFICES ASSUME rfsinit PROVE RfsSound
  OBVIOUS
<1>1. /\ rf_seq = 1 /\ rf_mutex = Semaphore(1) /\ rcall = [p \in Client |-> NoExchange]
      /\ requests = <<>> /\ replies = <<>> /\ file = NoFile /\ possible = {NoFile} /\ gotOld = FALSE
  BY DEF rfsinit
<1>2. NoExchange \in RfsCall /\ NoExchange.at = "run" /\ NoExchange.req = NoRequest
  BY DEF NoExchange, RfsCall, Request
<1>3. /\ rcall \in [Client -> RfsCall]
      /\ \A p \in Client : rcall[p].at = "run" /\ rcall[p].req = NoRequest
  BY <1>1, <1>2
<1>4. LockSound(rcall, rf_mutex)
  <2>1. SemSound(Semaphore(1), Client) /\ Semaphore(1).count = 1 /\ \A p : ~Waits(Semaphore(1), p)
    BY SemaphoreSound
  <2>2. \A p \in Client : ~Holds(rcall, Semaphore(1), p)
    BY <1>3 DEF Holds
  <2>3. LockSound(rcall, Semaphore(1))
    BY <2>1, <2>2 DEF LockSound
  <2> QED
    BY <1>1, <2>3
<1>5. requests \in Seq(OnWay) /\ replies \in Seq(Reply) /\ Len(requests) = 0 /\ Len(replies) = 0
  BY <1>1, EmptySeq
<1>6. RfsTypes
  BY <1>1, <1>3, <1>5, NoFileIsContent DEF RfsTypes
<1>7. ChainTo(requests, file, Len(requests), possible)
  BY <1>1, <1>5, ChainHere
<1>8. Numbered(requests, rf_seq) /\ Numbered(replies, rf_seq)
  BY <1>5 DEF Numbered
<1>9. RfsExchange
  BY <1>1, <1>3, <1>7, <1>8 DEF RfsExchange
<1> QED
  BY <1>4, <1>6, <1>9 DEF RfsSound

\* What the calls ask for.
LEMMA CallsKeep ==
    ASSUME RfsSound, NEW p \in Client,
           \/ \E chars \in Modes : rfsopen(p, chars)
           \/ \E d \in RflDev : \/ rflclose(p, d)
                                \/ \E len \in Counts : rflread(p, d, len)
                                \/ \E text \in Texts : rflwrite(p, d, text)
                                \/ \E pos \in Positions : rflseek(p, d, pos)
           \/ \E type \in Controls : rfscontrol(p, type)
    PROVE  RfsSound'
<1>1. ASSUME NEW chars \in Modes, rfsopen(p, chars) PROVE RfsSound'
  <2> DEFINE free == {d \in RflDev : rfltab[d].state = "FREE" /\ \A e \in 0..(d - 1) : rfltab[e].state # "FREE"}
             mode == rfsgetmode(chars)
             req == [type |-> "OREQ", mode |-> mode]
  <2>1. Inside(p, "locked")
    BY <1>1 DEF rfsopen
  <2>2. LeaveQuietly(p) \/ \E d \in free : rfscomm(p, d, req)
    BY <1>1 DEF rfsopen
  <2>3. req \in Request
    BY DEF Request
  <2>4. free \subseteq Nat
    BY RfsAssumption DEF RflDev
  <2> HIDE DEF free, req
  <2> QED
    BY <2>1, <2>2, <2>3, <2>4, QuietKeeps, CommKeeps
<1>2. ASSUME NEW d \in RflDev, rflclose(p, d) PROVE RfsSound'
  BY <1>2, QuietKeeps DEF rflclose
<1>3. ASSUME NEW d \in RflDev, NEW len \in Counts, rflread(p, d, len) PROVE RfsSound'
  <2> DEFINE req == [type |-> "RREQ", pos |-> rfltab[d].pos, len |-> len]
  <2>1. Inside(p, "locked") /\ (LeaveQuietly(p) \/ (rfltab[d].pos \in Positions /\ rfscomm(p, d, req)))
    BY <1>3 DEF rflread
  <2>2. rfltab[d].pos \in Positions => req \in Request
    BY DEF Request
  <2>3. d \in Nat
    BY RfsAssumption DEF RflDev
  <2> HIDE DEF req
  <2> QED
    BY <2>1, <2>2, <2>3, QuietKeeps, CommKeeps
<1>4. ASSUME NEW d \in RflDev, NEW text \in Texts, rflwrite(p, d, text) PROVE RfsSound'
  <2> DEFINE req == [type |-> "WREQ", pos |-> rfltab[d].pos, text |-> text]
  <2>1. Inside(p, "locked") /\ (LeaveQuietly(p) \/ (rfltab[d].pos \in Positions /\ rfscomm(p, d, req)))
    BY <1>4 DEF rflwrite
  <2>2. rfltab[d].pos \in Positions => req \in Request
    BY DEF Request
  <2>3. d \in Nat
    BY RfsAssumption DEF RflDev
  <2> HIDE DEF req
  <2> QED
    BY <2>1, <2>2, <2>3, QuietKeeps, CommKeeps
<1>5. ASSUME NEW d \in RflDev, NEW pos \in Positions, rflseek(p, d, pos) PROVE RfsSound'
  BY <1>5, QuietKeeps DEF rflseek
<1>6. ASSUME NEW type \in Controls, rfscontrol(p, type) PROVE RfsSound'
  <2> DEFINE req == [type |-> type]
  <2>1. Inside(p, "locked") /\ rfscomm(p, 0, req)
    BY <1>6 DEF rfscontrol, rfsndmsg
  <2>2. req \in Request
    BY DEF Request
  <2> HIDE DEF req
  <2> QED
    BY <2>1, <2>2, CommKeeps
<1> QED
  BY <1>1, <1>2, <1>3, <1>4, <1>5, <1>6

LEMMA RfsStep == RfsInv /\ [RfsNext]_rfvars => RfsInv'
<1> SUFFICES ASSUME RfsInv, [RfsNext]_rfvars, rhalted' = "no" PROVE RfsSound'
  BY DEF RfsInv
<1>1. CASE UNCHANGED rfvars
  <2>1. RfsSound
    BY <1>1 DEF RfsInv, rfvars
  <2> QED
    BY <1>1, <2>1 DEF RfsSound, RfsTypes, RfsExchange, rfvars
<1>2. CASE serve
  BY <1>2, serveKeeps DEF RfsInv, serve
<1>3. CASE lose
  BY <1>3, loseKeeps DEF RfsInv, lose
<1>4. CASE restart
  BY <1>4, restartKeeps DEF RfsInv, restart
<1>5. ASSUME NEW p \in Client, enter(p) PROVE RfsSound'
  <2>1. RfsSound
    BY <1>5 DEF RfsInv, enter, Inside
  <2> QED
    BY <1>5, <2>1, enterKeeps
<1>6. ASSUME NEW p \in Client,
             \/ \E chars \in Modes : rfsopen(p, chars)
             \/ \E d \in RflDev : \/ rflclose(p, d)
                                  \/ \E len \in Counts : rflread(p, d, len)
                                  \/ \E text \in Texts : rflwrite(p, d, text)
                                  \/ \E pos \in Positions : rflseek(p, d, pos)
             \/ \E type \in Controls : rfscontrol(p, type)
      PROVE  RfsSound'
  <2>1. Inside(p, "locked")
    BY <1>6 DEF rfsopen, rflclose, rflread, rflwrite, rflseek, rfscontrol
  <2>2. RfsSound
    BY <2>1 DEF RfsInv, Inside
  <2> QED
    BY <1>6, <2>2, CallsKeep
<1>7. ASSUME NEW p \in Client, rfscommNoReply(p) PROVE RfsSound'
  <2>1. RfsSound
    BY <1>7 DEF RfsInv, rfscommNoReply, Inside
  <2> QED
    BY <1>7, <2>1, NoReplyKeeps
<1>8. ASSUME NEW p \in Client, rfscommReply(p) PROVE RfsSound'
  <2>1. RfsSound
    BY <1>8 DEF RfsInv, rfscommReply, Inside
  <2> QED
    BY <1>8, <2>1, ReplyKeeps
<1> QED
  BY <1>1, <1>2, <1>3, <1>4, <1>5, <1>6, <1>7, <1>8 DEF RfsNext

LEMMA RfsInvExact == RfsInv => RemoteExact
<1> SUFFICES ASSUME RfsInv, rhalted = "no"
             PROVE  /\ CountIsQueue(rf_mutex)
                    /\ (\A p \in Client : rcall[p].at # "recv") => file \in possible
                    /\ ~gotOld
  BY DEF RemoteExact
<1>1. RfsSound
  BY DEF RfsInv
<1>2. CountIsQueue(rf_mutex) /\ ~gotOld
  BY <1>1 DEF RfsSound, LockSound, SemSound, RfsExchange
<1>3. ASSUME \A p \in Client : rcall[p].at # "recv" PROVE file \in possible
  <2>1. ChainTo(requests, file, Len(requests), possible) /\ Len(requests) \in Nat
    BY <1>1, <1>3, LenProperties DEF RfsSound, RfsTypes, RfsExchange
  <2> QED
    BY <2>1, ChainIn
<1> QED
  BY <1>2, <1>3

\* Remote files, for any number of processes, files and tries, and any requests: with
\* messages lost and late, requests sent several times and calls that give up, a call that
\* was answered has changed the file once, one that was not has done so or not, and a read
\* returns what the file then held, until a restart makes the machine take a reply to its
\* earlier life for its own.
THEOREM RemoteIsExact == RfsSpec => []RemoteExact
<1>1. rfsinit => RfsInv
  BY RfsStart DEF RfsInv
<1>2. RfsInv /\ [RfsNext]_rfvars => RfsInv'
  BY RfsStep
<1>3. RfsInv => RemoteExact
  BY RfsInvExact
<1> QED
  BY <1>1, <1>2, <1>3, PTL DEF RfsSpec

----
\* Ports: the state that the invariant speaks of.

PortEntry == [state : {"FREE", "LIMBO", "ALLOC"}, seq : Nat, maxcnt : Nat,
              ssem : [used : BOOLEAN, count : Int, queue : Seq(PortUser)],
              rsem : [used : BOOLEAN, count : Int, queue : Seq(PortUser)],
              list : Seq(Node)]

PortCall == [at : {"run", "send", "recv", "reset", "delete", "resetEnd", "deleteEnd"}, port : Port, seq : Nat]

PtTypes ==
    /\ porttab \in [Port -> PortEntry]
    /\ ptfree \in Seq(Node) /\ ptmsg \in [Node -> Nat]
    /\ ptcall \in [PortUser -> PortCall]

Clears(at) == at \in {"reset", "delete", "resetEnd", "deleteEnd"}

\* As semcreate() or semreset() have made it, or left without one.
Fresh(s, n) == s = NoSemaphore \/ s = Semaphore(n)

\* The calls at a semaphore of port t in its life n: those that were let in, and have not
\* run since.
LetIn(s, n, c, t, at) ==
    {p \in PortUser : c[p].at = at /\ c[p].port = t /\ c[p].seq = n /\ ~Waits(s, p)}

\* Who waits there is in the call that waits there.
GateSound(s, state, n, c, t, at) ==
    /\ s = NoSemaphore \/ SemSound(s, PortUser)
    /\ \A p \in PortUser : Waits(s, p) => c[p].at = at /\ c[p].port = t /\ (state = "ALLOC" => c[p].seq = n)

\* What wait() leaves as it is, when the caller counts as let in or as waiting.
Balance(s, n, c, t, at) == s.count + Cardinality(LetIn(s, n, c, t, at)) + Len(s.queue)

SemOf(e, at) == IF at = "send" THEN e.ssem ELSE e.rsem

\* The calls on the port.
CallersSound(e, c, t) ==
    \A p \in PortUser : c[p].port = t =>
        /\ c[p].at \in {"send", "recv"} =>
              /\ c[p].seq <= e.seq
              /\ e.state = "LIMBO" => c[p].seq < e.seq
              /\ e.state = "ALLOC" /\ c[p].seq = e.seq => SemOf(e, c[p].at).used
        /\ Clears(c[p].at) => e.state = "LIMBO"
        /\ c[p].at \in {"reset", "resetEnd"} => e.list = <<>> /\ Fresh(e.ssem, e.maxcnt)
        /\ c[p].at = "resetEnd" => Fresh(e.rsem, 0)

\* One call clears a port at a time.
OneClears(c, t) ==
    \A p, q \in PortUser :
        c[p].port = t /\ c[q].port = t /\ Clears(c[p].at) /\ Clears(c[q].at) => p = q

\* Places that are left, and messages, as the semaphores and the calls let in count them.
SlotsSound(e, c, t) ==
    e.state = "ALLOC" =>
        /\ e.ssem.used => Balance(e.ssem, e.seq, c, t, "send") = e.maxcnt - Len(e.list)
        /\ e.rsem.used => Balance(e.rsem, e.seq, c, t, "recv") = Len(e.list)

PortSound(e, c, t) ==
    /\ GateSound(e.ssem, e.state, e.seq, c, t, "send")
    /\ GateSound(e.rsem, e.state, e.seq, c, t, "recv")
    /\ CallersSound(e, c, t) /\ OneClears(c, t) /\ SlotsSound(e, c, t)

\* The lists that nodes are on: one for each port, and the free list.
ListOf(e) == IF e.state = "ALLOC" THEN e.list ELSE <<>>
ListsOf(tab, free) == [t \in 0..NPORTS |-> IF t = NPORTS THEN free ELSE ListOf(tab[t])]

\* Each node is on one of them, once.
Spread(L) ==
    /\ L \in [0..NPORTS -> Seq(Node)]
    /\ \A t \in 0..NPORTS : Once(L[t])
    /\ \A n \in Node : \E t \in 0..NPORTS : On(n, L[t])
    /\ \A n \in Node : \A t, u \in 0..NPORTS : On(n, L[t]) /\ On(n, L[u]) => t = u

\* What a port holds was sent in its present life.
Lively(e, msg) == e.state = "ALLOC" => \A i \in 1..Len(e.list) : msg[e.list[i]] = e.seq

PtInv ==
    /\ PtTypes
    /\ \A t \in Port : PortSound(porttab[t], ptcall, t)
    /\ Spread(ListsOf(porttab, ptfree))
    /\ \A t \in Port : Lively(porttab[t], ptmsg)
----
\* The semaphores of a port.

LEMMA LetInFinite ==
    ASSUME NEW s, NEW n, NEW c, NEW t, NEW at
    PROVE  IsFiniteSet(LetIn(s, n, c, t, at)) /\ Cardinality(LetIn(s, n, c, t, at)) \in Nat
<1>1. LetIn(s, n, c, t, at) \subseteq PortUser
  BY DEF LetIn
<1> QED
  BY <1>1, FS_Subset, FS_CardinalityType, PortsAssumption

LEMMA NoWaits == \A p : ~Waits(NoSemaphore, p)
<1>1. NoSemaphore.queue = <<>> /\ Len(<<>>) = 0
  BY EmptySeq DEF NoSemaphore
<1> QED
  BY <1>1 DEF Waits

LEMMA FreshGate ==
    ASSUME NEW s, NEW k \in Nat, Fresh(s, k), NEW state, NEW n, NEW c, NEW t, NEW at
    PROVE  /\ GateSound(s, state, n, c, t, at) /\ \A p : ~Waits(s, p)
           /\ s.used => s.count = k /\ Len(s.queue) = 0
<1>1. CASE s = NoSemaphore
  <2>1. s.used = FALSE
    BY <1>1 DEF NoSemaphore
  <2>2. \A p : ~Waits(s, p)
    BY <1>1, NoWaits
  <2>3. GateSound(s, state, n, c, t, at)
    BY <1>1, <2>2, Zenon DEF GateSound
  <2> QED
    BY <2>1, <2>2, <2>3
<1>2. CASE s = Semaphore(k)
  <2>1. SemSound(s, PortUser) /\ s.count = k /\ \A p : ~Waits(s, p)
    BY <1>2, SemaphoreSound
  <2>2. s.queue = <<>> /\ Len(<<>>) = 0
    BY <1>2, EmptySeq DEF Semaphore
  <2>3. GateSound(s, state, n, c, t, at)
    BY <2>1, Zenon DEF GateSound
  <2> QED
    BY <2>1, <2>2, <2>3
<1> QED
  BY <1>1, <1>2 DEF Fresh

LEMMA UsedIsSound ==
    ASSUME NEW s, NEW state, NEW n, NEW c, NEW t, NEW at, GateSound(s, state, n, c, t, at), s.used
    PROVE  SemSound(s, PortUser)
BY DEF GateSound, NoSemaphore

InCall(x, at, t, n) == x.at = at /\ x.port = t /\ x.seq = n

\* Only the call of p changes.
Moved(p, c, c1) == \A q \in PortUser \ {p} : c1[q] = c[q]

\* The calls at this semaphore are the same.
SameAt(c, c1, t, at) ==
    \A p \in PortUser : \/ c1[p] = c[p]
                        \/ ~(c[p].at = at /\ c[p].port = t) /\ ~(c1[p].at = at /\ c1[p].port = t)

LEMMA OtherGate ==
    ASSUME NEW s, NEW state, NEW n, NEW c, NEW t, NEW at, GateSound(s, state, n, c, t, at),
           NEW c1, SameAt(c, c1, t, at)
    PROVE  GateSound(s, state, n, c1, t, at) /\ Balance(s, n, c1, t, at) = Balance(s, n, c, t, at)
<1>1. LetIn(s, n, c1, t, at) = LetIn(s, n, c, t, at)
  BY DEF LetIn, SameAt
<1>2. GateSound(s, state, n, c1, t, at)
  BY DEF GateSound, SameAt
<1> QED
  BY <1>1, <1>2 DEF Balance

\* A call that begins is let in or waits.
LEMMA BeginGate ==
    ASSUME NEW s, NEW n, NEW c, NEW t, NEW at, GateSound(s, "ALLOC", n, c, t, at), SemSound(s, PortUser),
           NEW p \in PortUser, c[p].at # at, NEW c1, InCall(c1[p], at, t, n),
           Moved(p, c, c1)
    PROVE  /\ GateSound(Wait(s, p), "ALLOC", n, c1, t, at) /\ SemSound(Wait(s, p), PortUser)
           /\ Balance(Wait(s, p), n, c1, t, at) = Balance(s, n, c, t, at)
<1> DEFINE w == Wait(s, p)
           old == LetIn(s, n, c, t, at)
           new == LetIn(w, n, c1, t, at)
<1>1. SemSound(s, PortUser) /\ ~Waits(s, p)
  BY DEF GateSound
<1>2. /\ SemSound(w, PortUser) /\ w.count = s.count - 1
      /\ w.queue = IF s.count <= 0 THEN Append(s.queue, p) ELSE s.queue
      /\ \A q \in PortUser : Waits(w, q) <=> Waits(s, q) \/ (q = p /\ s.count <= 0)
  BY <1>1, WaitSound
<1> HIDE DEF w
<1>3. w.used = TRUE /\ s.count \in Int /\ s.queue \in Seq(PortUser) /\ Len(s.queue) \in Nat
  BY <1>1, <1>2, LenProperties DEF SemSound
<1>n. s.count \in Int /\ Len(s.queue) \in Nat /\ w.count = s.count - 1
  BY <1>2, <1>3
<1>4. GateSound(w, "ALLOC", n, c1, t, at)
  BY <1>2 DEF GateSound, Moved, InCall
<1>5. IsFiniteSet(old) /\ Cardinality(old) \in Nat
  BY LetInFinite
<1>6. p \notin old
  BY DEF LetIn
<1>7. CASE s.count <= 0
  <2>1. new = old
    BY <1>2, <1>6, <1>7 DEF LetIn, Moved, InCall
  <2>2. Len(w.queue) = Len(s.queue) + 1
    BY <1>2, <1>3, <1>7, AppendProperties
  <2> HIDE DEF old, new
  <2>3. (s.count - 1) + Cardinality(old) + (Len(s.queue) + 1) = s.count + Cardinality(old) + Len(s.queue)
    BY <1>5, <1>n
  <2> QED
    BY <1>2, <1>4, <1>n, <2>1, <2>2, <2>3 DEF Balance, old, new, w
<1>8. CASE ~(s.count <= 0)
  <2>1. new = old \cup {p}
    BY <1>1, <1>2, <1>6, <1>8 DEF LetIn, Moved, InCall
  <2> HIDE DEF old, new
  <2>2. Cardinality(new) = Cardinality(old) + 1
    BY <1>5, <1>6, <2>1, FS_AddElement
  <2>3. Len(w.queue) = Len(s.queue)
    BY <1>2, <1>8
  <2>4. (s.count - 1) + (Cardinality(old) + 1) + Len(s.queue) = s.count + Cardinality(old) + Len(s.queue)
    BY <1>5, <1>n
  <2> QED
    BY <1>2, <1>4, <1>n, <2>2, <2>3, <2>4 DEF Balance, old, new, w
<1> QED
  BY <1>7, <1>8

\* A call that was let in goes on and ends.
LEMMA LeaveGate ==
    ASSUME NEW s, NEW n, NEW c, NEW t, NEW at, GateSound(s, "ALLOC", n, c, t, at), NEW p \in LetIn(s, n, c, t, at),
           NEW c1, c1[p].at # at, Moved(p, c, c1), s.count \in Int, Len(s.queue) \in Nat
    PROVE  /\ GateSound(s, "ALLOC", n, c1, t, at)
           /\ Balance(s, n, c1, t, at) = Balance(s, n, c, t, at) - 1
<1> DEFINE old == LetIn(s, n, c, t, at)
           new == LetIn(s, n, c1, t, at)
<1>1. p \in PortUser /\ ~Waits(s, p)
  BY DEF LetIn
<1>2. GateSound(s, "ALLOC", n, c1, t, at)
  BY <1>1 DEF GateSound, Moved
<1>3. new = old \ {p}
  BY <1>1 DEF LetIn, Moved
<1>4. IsFiniteSet(old) /\ Cardinality(old) \in Nat /\ p \in old
  BY LetInFinite
<1> HIDE DEF old, new
<1>5. Cardinality(new) = Cardinality(old) - 1
  BY <1>3, <1>4, FS_RemoveElement
<1>6. s.count + Cardinality(new) + Len(s.queue) = (s.count + Cardinality(old) + Len(s.queue)) - 1
  BY <1>4, <1>5
<1> QED
  BY <1>2, <1>6 DEF Balance, old, new

\* signal(): one more place, or message; whoever it lets in counts.
LEMMA SignalGate ==
    ASSUME NEW s, NEW n, NEW c, NEW t, NEW at, GateSound(s, "ALLOC", n, c, t, at)
    PROVE  /\ GateSound(Signal(s), "ALLOC", n, c, t, at) /\ Signal(s).used = s.used
           /\ s.used => Balance(Signal(s), n, c, t, at) = Balance(s, n, c, t, at) + 1
<1>1. CASE ~s.used
  BY <1>1 DEF Signal
<1>2. CASE s.used
  <2> DEFINE w == Signal(s)
             h == Head(s.queue)
             old == LetIn(s, n, c, t, at)
             new == LetIn(w, n, c, t, at)
  <2>1. SemSound(s, PortUser)
    BY <1>2 DEF GateSound, NoSemaphore
  <2>2. /\ SemSound(w, PortUser) /\ w.count = s.count + 1
        /\ s.count >= 0 => w.queue = s.queue
        /\ s.count < 0 => /\ s.queue # <<>> /\ h \in PortUser /\ Waits(s, h)
                          /\ w.queue = Tail(s.queue)
        /\ \A q \in PortUser : Waits(w, q) <=> Waits(s, q) /\ ~(s.count < 0 /\ q = h)
    BY <2>1, SignalSound
  <2> HIDE DEF w, h
  <2>3. w.used = TRUE /\ s.used = TRUE /\ s.count \in Int /\ s.queue \in Seq(PortUser) /\ Len(s.queue) \in Nat
    BY <2>1, <2>2, LenProperties DEF SemSound
  <2>4. GateSound(w, "ALLOC", n, c, t, at)
    BY <2>2 DEF GateSound
  <2>5. IsFiniteSet(old) /\ Cardinality(old) \in Nat
    BY LetInFinite
  <2>6. CASE s.count < 0
    <3>1. c[h].at = at /\ c[h].port = t /\ c[h].seq = n
      BY <2>2, <2>6 DEF GateSound
    <3>2. new = old \cup {h} /\ h \notin old
      BY <2>2, <2>6, <3>1 DEF LetIn
    <3>3. Len(w.queue) = Len(s.queue) - 1
      BY <2>2, <2>3, <2>6, HeadTailProperties
    <3> HIDE DEF old, new
    <3>4. Cardinality(new) = Cardinality(old) + 1
      BY <2>5, <3>2, FS_AddElement
    <3>5. s.count \in Int /\ Len(s.queue) \in Nat
      BY <2>3
    <3>6. (s.count + 1) + (Cardinality(old) + 1) + (Len(s.queue) - 1) = (s.count + Cardinality(old) + Len(s.queue)) + 1
      <4>1. \A x, y, z \in Int : (x + 1) + (y + 1) + (z - 1) = (x + y + z) + 1
        OBVIOUS
      <4>2. s.count \in Int /\ Cardinality(old) \in Int /\ Len(s.queue) \in Int
        BY <2>5, <3>5
      <4> QED
        BY ONLY <4>1, <4>2
    <3> QED
      BY <2>2, <2>3, <2>4, <3>3, <3>4, <3>6 DEF Balance, old, new, w
  <2>7. CASE ~(s.count < 0)
    <3>1. new = old
      BY <2>2, <2>7 DEF LetIn
    <3>2. w.queue = s.queue
      BY <2>2, <2>3, <2>7
    <3> HIDE DEF old, new
    <3>3. s.count \in Int /\ Len(s.queue) \in Nat /\ w.count = s.count + 1
      BY <2>2, <2>3
    <3>4. (s.count + 1) + Cardinality(old) + Len(s.queue) = (s.count + Cardinality(old) + Len(s.queue)) + 1
      BY <2>5, <3>3
    <3> QED
      BY <2>3, <2>4, <3>1, <3>2, <3>3, <3>4 DEF Balance, old, new, w
  <2> QED
    BY <2>6, <2>7
<1> QED
  BY <1>1, <1>2

\* Whoever is let in to receive finds a message.
LEMMA LetInCounts ==
    ASSUME NEW s, NEW n, NEW c, NEW t, NEW at, GateSound(s, "ALLOC", n, c, t, at), SemSound(s, PortUser), LetIn(s, n, c, t, at) # {}
    PROVE  Balance(s, n, c, t, at) >= 1 /\ Balance(s, n, c, t, at) \in Int
<1> DEFINE old == LetIn(s, n, c, t, at)
<1>2. s.count \in Int /\ Len(s.queue) = IF s.count < 0 THEN 0 - s.count ELSE 0
  BY DEF SemSound, CountIsQueue
<1>3. IsFiniteSet(old) /\ Cardinality(old) \in Nat /\ Cardinality(old) # 0
  BY LetInFinite, FS_EmptySet
<1> HIDE DEF old
<1>4. s.count + Cardinality(old) + Len(s.queue) >= 1 /\ s.count + Cardinality(old) + Len(s.queue) \in Int
  BY <1>2, <1>3
<1> QED
  BY <1>4 DEF Balance, old

----
\* What each step does to the port it is about, and to the others.

\* The process is in no call on the port.
Off(x, t) == x.at = "run" \/ x.port # t

LEMMA PortElsewhere ==
    ASSUME NEW e, NEW c, NEW t, PortSound(e, c, t), NEW c1,
           \A p \in PortUser : c1[p] = c[p] \/ (Off(c[p], t) /\ Off(c1[p], t))
    PROVE  PortSound(e, c1, t)
<1>1. /\ GateSound(e.ssem, e.state, e.seq, c1, t, "send")
      /\ Balance(e.ssem, e.seq, c1, t, "send") = Balance(e.ssem, e.seq, c, t, "send")
  BY OtherGate DEF PortSound, Off, SameAt
<1>2. /\ GateSound(e.rsem, e.state, e.seq, c1, t, "recv")
      /\ Balance(e.rsem, e.seq, c1, t, "recv") = Balance(e.rsem, e.seq, c, t, "recv")
  BY OtherGate DEF PortSound, Off, SameAt
<1>3. SlotsSound(e, c1, t)
  BY <1>1, <1>2 DEF PortSound, SlotsSound
<1>4. CallersSound(e, c, t) /\ OneClears(c, t)
  BY DEF PortSound
<1>5. \A p \in PortUser : c1[p].port = t /\ c1[p].at # "run" => c1[p] = c[p]
  BY DEF Off
<1>6. CallersSound(e, c1, t)
  BY <1>4, <1>5 DEF CallersSound, Clears
<1>7. OneClears(c1, t)
  BY <1>4, <1>5 DEF OneClears, Clears
<1> QED
  BY <1>1, <1>2, <1>3, <1>6, <1>7 DEF PortSound

\* A semaphore that no call of this life has come to.
LEMMA FreshBalance ==
    ASSUME NEW s, NEW k \in Nat, Fresh(s, k), s.used, NEW n, NEW c, NEW t, NEW at,
           \A p \in PortUser : c[p].at = at /\ c[p].port = t => c[p].seq # n
    PROVE  Balance(s, n, c, t, at) = k
<1>1. s.count = k /\ Len(s.queue) = 0
  BY FreshGate
<1>2. LetIn(s, n, c, t, at) = {}
  BY DEF LetIn
<1>3. Cardinality(LetIn(s, n, c, t, at)) = 0
  BY <1>2, FS_EmptySet
<1> HIDE DEF LetIn
<1>4. k + 0 + 0 = k
  OBVIOUS
<1> QED
  BY <1>1, <1>3, <1>4 DEF Balance

LEMMA PortCreated ==
    ASSUME NEW e \in PortEntry, NEW c \in [PortUser -> PortCall], NEW t, PortSound(e, c, t),
           e.state = "FREE", NEW k \in Nat,
           NEW e1, e1.state = "ALLOC", e1.seq = e.seq + 1, e1.maxcnt = k, e1.list = <<>>,
           Fresh(e1.ssem, k), Fresh(e1.rsem, 0)
    PROVE  PortSound(e1, c, t)
<1>1. /\ GateSound(e1.ssem, e1.state, e1.seq, c, t, "send")
      /\ GateSound(e1.rsem, e1.state, e1.seq, c, t, "recv")
  BY FreshGate
<1>2. CallersSound(e, c, t)
  BY DEF PortSound
<1>3. e.seq \in Nat /\ \A p \in PortUser : c[p].seq \in Nat
  BY DEF PortEntry, PortCall
<1>4. \A p \in PortUser : c[p].port = t => ~Clears(c[p].at) /\ (c[p].at \in {"send", "recv"} => c[p].seq <= e.seq)
  BY <1>2 DEF CallersSound
<1>5. \A p \in PortUser : c[p].port = t /\ c[p].at \in {"send", "recv"} => c[p].seq <= e1.seq /\ c[p].seq # e1.seq
  BY <1>3, <1>4
<1>6. CallersSound(e1, c, t)
  BY <1>4, <1>5 DEF CallersSound, Clears
<1>7. OneClears(c, t)
  BY DEF PortSound
<1>8. SlotsSound(e1, c, t)
  <2>1. e1.ssem.used => Balance(e1.ssem, e1.seq, c, t, "send") = k
    BY <1>5, FreshBalance
  <2>2. e1.rsem.used => Balance(e1.rsem, e1.seq, c, t, "recv") = 0
    BY <1>5, FreshBalance
  <2>3. Len(e1.list) = 0 /\ k - 0 = k
    BY EmptySeq
  <2> QED
    BY <2>1, <2>2, <2>3 DEF SlotsSound
<1> QED
  BY <1>1, <1>6, <1>7, <1>8 DEF PortSound

LEMMA PortBegun ==
    ASSUME NEW e \in PortEntry, NEW c \in [PortUser -> PortCall], NEW t \in Port, PortSound(e, c, t),
           e.state = "ALLOC", NEW at \in {"send", "recv"}, SemOf(e, at).used,
           NEW p \in PortUser, c[p].at = "run",
           NEW e1, e1.state = e.state, e1.seq = e.seq, e1.maxcnt = e.maxcnt, e1.list = e.list,
           e1.ssem = IF at = "send" THEN Wait(e.ssem, p) ELSE e.ssem,
           e1.rsem = IF at = "recv" THEN Wait(e.rsem, p) ELSE e.rsem,
           NEW c1, InCall(c1[p], at, t, e.seq), Moved(p, c, c1)
    PROVE  PortSound(e1, c1, t)
<1>1. c1[p].at = at /\ c1[p].port = t /\ c1[p].seq = e.seq /\ Moved(p, c, c1)
  BY DEF InCall
<1>2. /\ GateSound(e.ssem, "ALLOC", e.seq, c, t, "send") /\ GateSound(e.rsem, "ALLOC", e.seq, c, t, "recv")
      /\ CallersSound(e, c, t) /\ OneClears(c, t) /\ SlotsSound(e, c, t)
  BY DEF PortSound
<1>3. /\ GateSound(e1.ssem, "ALLOC", e.seq, c1, t, "send") /\ e1.ssem.used = e.ssem.used
      /\ e.ssem.used => Balance(e1.ssem, e.seq, c1, t, "send") = Balance(e.ssem, e.seq, c, t, "send")
  <2>1. CASE at = "send"
    <3>1. e.ssem.used = TRUE /\ e1.ssem = Wait(e.ssem, p) /\ c[p].at # "send"
      BY <2>1 DEF SemOf, PortEntry
    <3>2. InCall(c1[p], "send", t, e.seq) /\ Moved(p, c, c1) /\ SemSound(e.ssem, PortUser)
      BY <1>1, <1>2, <2>1, <3>1, UsedIsSound DEF InCall
    <3>3. /\ GateSound(Wait(e.ssem, p), "ALLOC", e.seq, c1, t, "send") /\ SemSound(Wait(e.ssem, p), PortUser)
          /\ Balance(Wait(e.ssem, p), e.seq, c1, t, "send") = Balance(e.ssem, e.seq, c, t, "send")
      BY <1>2, <3>1, <3>2, BeginGate
    <3> QED
      BY <3>1, <3>3 DEF SemSound
  <2>2. CASE at = "recv"
    <3>1. e1.ssem = e.ssem
      BY <2>2
    <3>2. SameAt(c, c1, t, "send")
      BY <1>1, <2>2 DEF SameAt, Moved
    <3> QED
      BY <1>2, <3>1, <3>2, OtherGate
  <2> QED
    BY <2>1, <2>2
<1>4. /\ GateSound(e1.rsem, "ALLOC", e.seq, c1, t, "recv") /\ e1.rsem.used = e.rsem.used
      /\ e.rsem.used => Balance(e1.rsem, e.seq, c1, t, "recv") = Balance(e.rsem, e.seq, c, t, "recv")
  <2>1. CASE at = "recv"
    <3>1. e.rsem.used = TRUE /\ e1.rsem = Wait(e.rsem, p) /\ c[p].at # "recv"
      BY <2>1 DEF SemOf, PortEntry
    <3>2. InCall(c1[p], "recv", t, e.seq) /\ Moved(p, c, c1) /\ SemSound(e.rsem, PortUser)
      BY <1>1, <1>2, <2>1, <3>1, UsedIsSound DEF InCall
    <3>3. /\ GateSound(Wait(e.rsem, p), "ALLOC", e.seq, c1, t, "recv") /\ SemSound(Wait(e.rsem, p), PortUser)
          /\ Balance(Wait(e.rsem, p), e.seq, c1, t, "recv") = Balance(e.rsem, e.seq, c, t, "recv")
      BY <1>2, <3>1, <3>2, BeginGate
    <3> QED
      BY <3>1, <3>3 DEF SemSound
  <2>2. CASE at = "send"
    <3>1. e1.rsem = e.rsem
      BY <2>2
    <3>2. SameAt(c, c1, t, "recv")
      BY <1>1, <2>2 DEF SameAt, Moved
    <3> QED
      BY <1>2, <3>1, <3>2, OtherGate
  <2> QED
    BY <2>1, <2>2
<1>5. SlotsSound(e1, c1, t)
  BY <1>2, <1>3, <1>4 DEF SlotsSound
<1>6. e.seq \in Nat /\ e.seq <= e.seq
  BY DEF PortEntry
<1>7. \A q \in PortUser : c1[q].port = t =>
          /\ c1[q].at \in {"send", "recv"} => c1[q].seq <= e.seq /\ (c1[q].seq = e.seq => SemOf(e1, c1[q].at).used)
          /\ ~Clears(c1[q].at)
  <2> TAKE q \in PortUser
  <2>1. CASE q = p
    BY <1>1, <1>3, <1>4, <1>6, <2>1 DEF SemOf, Clears
  <2>2. CASE q # p
    BY <1>1, <1>2, <1>3, <1>4, <2>2 DEF CallersSound, SemOf, Moved
  <2> QED
    BY <2>1, <2>2
<1>8. CallersSound(e1, c1, t)
  BY <1>7 DEF CallersSound, Clears
<1>9. OneClears(c1, t)
  BY <1>7 DEF OneClears
<1> QED
  BY <1>3, <1>4, <1>5, <1>8, <1>9 DEF PortSound

\* A call that was let in finds the port cleared.
LEMMA PortGone ==
    ASSUME NEW e \in PortEntry, NEW c, NEW t, PortSound(e, c, t), NEW p \in PortUser,
           c[p].port = t => ~(e.state = "ALLOC" /\ e.seq = c[p].seq),
           ~Waits(e.ssem, p), ~Waits(e.rsem, p),
           NEW c1, c1[p].at = "run", Moved(p, c, c1)
    PROVE  PortSound(e, c1, t)
<1>1. CASE c[p].port # t
  BY <1>1, PortElsewhere DEF Moved, Off
<1>2. CASE c[p].port = t
  <2>1. /\ GateSound(e.ssem, e.state, e.seq, c, t, "send") /\ GateSound(e.rsem, e.state, e.seq, c, t, "recv")
        /\ CallersSound(e, c, t) /\ OneClears(c, t) /\ SlotsSound(e, c, t)
    BY DEF PortSound
  <2>2. /\ GateSound(e.ssem, e.state, e.seq, c1, t, "send") /\ GateSound(e.rsem, e.state, e.seq, c1, t, "recv")
    BY <2>1 DEF GateSound, Moved
  <2>3. e.state = "ALLOC" => /\ LetIn(e.ssem, e.seq, c1, t, "send") = LetIn(e.ssem, e.seq, c, t, "send")
                             /\ LetIn(e.rsem, e.seq, c1, t, "recv") = LetIn(e.rsem, e.seq, c, t, "recv")
    BY <1>2 DEF LetIn, Moved
  <2>4. SlotsSound(e, c1, t)
    BY <2>1, <2>3 DEF SlotsSound, Balance
  <2>5. CallersSound(e, c1, t)
    BY <2>1 DEF CallersSound, Moved, Clears
  <2>6. OneClears(c1, t)
    BY <2>1 DEF OneClears, Moved, Clears
  <2> QED
    BY <2>2, <2>4, <2>5, <2>6 DEF PortSound
<1> QED
  BY <1>1, <1>2

\* A call that was let in goes on: it takes the place, or the message, and gives the other.
LEMMA PortTurns ==
    ASSUME NEW e \in PortEntry, NEW c, NEW t, PortSound(e, c, t), NEW p \in PortUser,
           e.state = "ALLOC", c[p].port = t, c[p].seq = e.seq, NEW at, c[p].at = at, at \in {"send", "recv"},
           ~Waits(SemOf(e, at), p),
           NEW e1, e1.state = "ALLOC", e1.seq = e.seq, e1.maxcnt = e.maxcnt,
           e1.ssem = IF at = "recv" THEN Signal(e.ssem) ELSE e.ssem,
           e1.rsem = IF at = "send" THEN Signal(e.rsem) ELSE e.rsem,
           Len(e1.list) = IF at = "send" THEN Len(e.list) + 1 ELSE Len(e.list) - 1,
           NEW c1, c1[p].at = "run", Moved(p, c, c1)
    PROVE  PortSound(e1, c1, t) /\ (at = "recv" => Len(e.list) >= 1)
<1>1. /\ GateSound(e.ssem, "ALLOC", e.seq, c, t, "send") /\ GateSound(e.rsem, "ALLOC", e.seq, c, t, "recv")
      /\ CallersSound(e, c, t) /\ OneClears(c, t) /\ SlotsSound(e, c, t)
  BY DEF PortSound
<1>2. SemOf(e, at).used
  BY <1>1 DEF CallersSound
<1>3. /\ e.ssem.count \in Int /\ Len(e.ssem.queue) \in Nat /\ e.rsem.count \in Int /\ Len(e.rsem.queue) \in Nat
      /\ Len(e.list) \in Nat /\ e.maxcnt \in Nat /\ e.ssem.used \in BOOLEAN /\ e.rsem.used \in BOOLEAN
  BY LenProperties DEF PortEntry
<1>4. p \in LetIn(SemOf(e, at), e.seq, c, t, at)
  BY DEF LetIn
<1>5. CallersSound(e1, c1, t)
  <2>1. e1.ssem.used = e.ssem.used /\ e1.rsem.used = e.rsem.used
    BY <1>1, SignalGate
  <2>2. \A q \in PortUser : c1[q].port = t /\ c1[q].at # "run" =>
            /\ c[q].port = t /\ c1[q].at = c[q].at /\ c1[q].seq = c[q].seq
    BY DEF Moved
  <2>3. \A q \in PortUser : c[q].port = t => ~Clears(c[q].at)
    BY <1>1 DEF CallersSound
  <2>4. \A q \in PortUser : c[q].port = t /\ c[q].at \in {"send", "recv"} =>
            c[q].seq <= e.seq /\ (c[q].seq = e.seq => SemOf(e, c[q].at).used)
    BY <1>1 DEF CallersSound
  <2> QED
    BY <2>1, <2>2, <2>3, <2>4 DEF CallersSound, Clears, SemOf
<1>6. OneClears(c1, t)
  BY <1>1 DEF OneClears, Moved, Clears
<1>7. CASE at = "send"
  <2>1. /\ GateSound(e.ssem, "ALLOC", e.seq, c1, t, "send")
        /\ Balance(e.ssem, e.seq, c1, t, "send") = Balance(e.ssem, e.seq, c, t, "send") - 1
    BY <1>1, <1>3, <1>4, <1>7, LeaveGate DEF SemOf
  <2>2. SameAt(c, c1, t, "recv")
    BY <1>7 DEF SameAt, Moved
  <2>3. /\ GateSound(e.rsem, "ALLOC", e.seq, c1, t, "recv")
        /\ Balance(e.rsem, e.seq, c1, t, "recv") = Balance(e.rsem, e.seq, c, t, "recv")
    BY <1>1, <2>2, OtherGate
  <2>4. /\ GateSound(Signal(e.rsem), "ALLOC", e.seq, c1, t, "recv") /\ Signal(e.rsem).used = e.rsem.used
        /\ e.rsem.used => Balance(Signal(e.rsem), e.seq, c1, t, "recv") = Balance(e.rsem, e.seq, c1, t, "recv") + 1
    BY <2>3, SignalGate
  <2>5. /\ e.ssem.used => Balance(e.ssem, e.seq, c, t, "send") = e.maxcnt - Len(e.list)
        /\ e.rsem.used => Balance(e.rsem, e.seq, c, t, "recv") = Len(e.list)
    BY <1>1 DEF SlotsSound
  <2>6. e1.ssem = e.ssem /\ e1.rsem = Signal(e.rsem) /\ Len(e1.list) = Len(e.list) + 1
    BY <1>7
  <2>7. (e.maxcnt - Len(e.list)) - 1 = e.maxcnt - (Len(e.list) + 1)
    BY <1>3
  <2>8. SlotsSound(e1, c1, t)
    BY <2>1, <2>3, <2>4, <2>5, <2>6, <2>7 DEF SlotsSound
  <2> QED
    BY <1>5, <1>6, <1>7, <2>1, <2>4, <2>6, <2>8 DEF PortSound
<1>8. CASE at = "recv"
  <2>1. /\ GateSound(e.rsem, "ALLOC", e.seq, c1, t, "recv")
        /\ Balance(e.rsem, e.seq, c1, t, "recv") = Balance(e.rsem, e.seq, c, t, "recv") - 1
    BY <1>1, <1>3, <1>4, <1>8, LeaveGate DEF SemOf
  <2>2. SameAt(c, c1, t, "send")
    BY <1>8 DEF SameAt, Moved
  <2>3. /\ GateSound(e.ssem, "ALLOC", e.seq, c1, t, "send")
        /\ Balance(e.ssem, e.seq, c1, t, "send") = Balance(e.ssem, e.seq, c, t, "send")
    BY <1>1, <2>2, OtherGate
  <2>4. /\ GateSound(Signal(e.ssem), "ALLOC", e.seq, c1, t, "send") /\ Signal(e.ssem).used = e.ssem.used
        /\ e.ssem.used => Balance(Signal(e.ssem), e.seq, c1, t, "send") = Balance(e.ssem, e.seq, c1, t, "send") + 1
    BY <2>3, SignalGate
  <2>5. /\ e.ssem.used => Balance(e.ssem, e.seq, c, t, "send") = e.maxcnt - Len(e.list)
        /\ e.rsem.used => Balance(e.rsem, e.seq, c, t, "recv") = Len(e.list)
    BY <1>1 DEF SlotsSound
  <2>6. e1.ssem = Signal(e.ssem) /\ e1.rsem = e.rsem /\ Len(e1.list) = Len(e.list) - 1
    BY <1>8
  <2>7. (e.maxcnt - Len(e.list)) + 1 = e.maxcnt - (Len(e.list) - 1)
    BY <1>3
  <2>8. SlotsSound(e1, c1, t)
    BY <2>1, <2>3, <2>4, <2>5, <2>6, <2>7 DEF SlotsSound
  <2>9. Len(e.list) >= 1
    <3>1. e.rsem.used /\ p \in LetIn(e.rsem, e.seq, c, t, "recv")
      BY <1>2, <1>4, <1>8 DEF SemOf
    <3>2. SemSound(e.rsem, PortUser)
      BY <1>1, <3>1, UsedIsSound
    <3>3. Balance(e.rsem, e.seq, c, t, "recv") >= 1
      BY <1>1, <3>1, <3>2, LetInCounts
    <3> QED
      BY <2>5, <3>1, <3>3
  <2> QED
    BY <1>5, <1>6, <2>1, <2>4, <2>6, <2>8, <2>9 DEF PortSound
<1> QED
  BY <1>7, <1>8

\* _ptclear() begins: the port is in limbo and its life is over.
LEMMA PortClearing ==
    ASSUME NEW e \in PortEntry, NEW c \in [PortUser -> PortCall], NEW t, PortSound(e, c, t), NEW p \in PortUser,
           e.state = "ALLOC", c[p].at = "run", NEW at \in {"reset", "delete"},
           NEW e1, e1.state = "LIMBO", e1.seq = e.seq + 1, e1.maxcnt = e.maxcnt, e1.rsem = e.rsem,
           at = "reset" => e1.list = <<>>, Fresh(e1.ssem, e.maxcnt),
           NEW c1, c1[p].at = at, c1[p].port = t, Moved(p, c, c1)
    PROVE  PortSound(e1, c1, t)
<1>1. /\ GateSound(e.rsem, "ALLOC", e.seq, c, t, "recv") /\ CallersSound(e, c, t)
  BY DEF PortSound
<1>2. e.maxcnt \in Nat /\ e.seq \in Nat /\ \A q \in PortUser : c[q].seq \in Nat
  BY DEF PortEntry, PortCall
<1>3. GateSound(e1.ssem, "LIMBO", e1.seq, c1, t, "send")
  BY <1>2, FreshGate
<1>4. GateSound(e1.rsem, "LIMBO", e1.seq, c1, t, "recv")
  BY <1>1 DEF GateSound, Moved
<1>5. \A q \in PortUser : c[q].port = t => ~Clears(c[q].at) /\ (c[q].at \in {"send", "recv"} => c[q].seq <= e.seq)
  BY <1>1 DEF CallersSound
<1>6. \A q \in PortUser \ {p} : c1[q].port = t =>
         /\ ~Clears(c1[q].at) /\ (c1[q].at \in {"send", "recv"} => c1[q].seq < e1.seq /\ c1[q].seq <= e1.seq)
  BY <1>2, <1>5 DEF Moved
<1>7. CallersSound(e1, c1, t)
  BY <1>6 DEF CallersSound, Clears
<1>8. OneClears(c1, t)
  BY <1>6 DEF OneClears
<1> QED
  BY <1>3, <1>4, <1>7, <1>8 DEF PortSound, SlotsSound

\* Its second half: the other semaphore.
LEMMA PortSecond ==
    ASSUME NEW e \in PortEntry, NEW c, NEW t, PortSound(e, c, t), NEW p \in PortUser,
           c[p].port = t, NEW at, c[p].at = at, at \in {"reset", "delete"},
           NEW e1, e1.state = e.state, e1.seq = e.seq, e1.maxcnt = e.maxcnt, e1.ssem = e.ssem, e1.list = e.list,
           Fresh(e1.rsem, 0),
           NEW c1, c1[p].at = IF at = "reset" THEN "resetEnd" ELSE "deleteEnd", c1[p].port = t, Moved(p, c, c1)
    PROVE  PortSound(e1, c1, t)
<1>1. /\ GateSound(e.ssem, e.state, e.seq, c, t, "send") /\ CallersSound(e, c, t) /\ OneClears(c, t)
  BY DEF PortSound
<1>2. e.state = "LIMBO" /\ (at = "reset" => e.list = <<>> /\ Fresh(e.ssem, e.maxcnt))
  BY <1>1 DEF CallersSound, Clears
<1>3. SameAt(c, c1, t, "send")
  BY DEF SameAt, Moved
<1>4. GateSound(e.ssem, e.state, e.seq, c1, t, "send")
  BY <1>1, <1>3, OtherGate
<1>5. GateSound(e1.rsem, e1.state, e1.seq, c1, t, "recv")
  BY FreshGate
<1>6. \A q \in PortUser \ {p} : c1[q] = c[q] /\ (c1[q].port = t => ~Clears(c1[q].at))
  BY <1>1 DEF OneClears, Moved, Clears
<1>7. CallersSound(e1, c1, t)
  BY <1>1, <1>2, <1>6 DEF CallersSound, Clears
<1>8. OneClears(c1, t)
  BY <1>6 DEF OneClears
<1> QED
  BY <1>2, <1>4, <1>5, <1>7, <1>8 DEF PortSound, SlotsSound

\* Its end: the port is free, or in its next life.
LEMMA PortEnds ==
    ASSUME NEW e \in PortEntry, NEW c, NEW t, PortSound(e, c, t), NEW p \in PortUser,
           c[p].port = t, NEW at, c[p].at = at, at \in {"resetEnd", "deleteEnd"},
           NEW e1, e1.state = IF at = "resetEnd" THEN "ALLOC" ELSE "FREE",
           e1.seq = e.seq, e1.maxcnt = e.maxcnt, e1.ssem = e.ssem, e1.rsem = e.rsem, e1.list = e.list,
           NEW c1, c1[p].at = "run", Moved(p, c, c1)
    PROVE  PortSound(e1, c1, t) /\ e.state = "LIMBO" /\ (at = "resetEnd" => e.list = <<>>)
<1>1. /\ GateSound(e.ssem, e.state, e.seq, c, t, "send") /\ GateSound(e.rsem, e.state, e.seq, c, t, "recv")
      /\ CallersSound(e, c, t) /\ OneClears(c, t)
  BY DEF PortSound
<1>2. /\ e.state = "LIMBO"
      /\ at = "resetEnd" => e.list = <<>> /\ Fresh(e.ssem, e.maxcnt) /\ Fresh(e.rsem, 0)
  BY <1>1 DEF CallersSound, Clears
<1>3. e.maxcnt \in Nat /\ e.seq \in Nat
  BY DEF PortEntry
<1>4. \A q \in PortUser \ {p} : c1[q] = c[q] /\ (c1[q].port = t => ~Clears(c1[q].at))
  BY <1>1 DEF OneClears, Moved, Clears
<1>5. \A q \in PortUser : c1[q].port = t /\ c1[q].at \in {"send", "recv"} => c1[q].seq <= e.seq /\ c1[q].seq < e.seq
  BY <1>1, <1>2, <1>4 DEF CallersSound
<1>6. CallersSound(e1, c1, t)
  BY <1>3, <1>4, <1>5 DEF CallersSound, Clears
<1>7. OneClears(c1, t)
  BY <1>4 DEF OneClears, Clears
<1>8. CASE at = "deleteEnd"
  <2>1. e1.state = "FREE"
    BY <1>8
  <2>2. GateSound(e.ssem, "FREE", e.seq, c1, t, "send") /\ GateSound(e.rsem, "FREE", e.seq, c1, t, "recv")
    BY <1>1, <1>8 DEF GateSound, Moved
  <2> QED
    BY <1>2, <1>6, <1>7, <1>8, <2>1, <2>2 DEF PortSound, SlotsSound
<1>9. CASE at = "resetEnd"
  <2>1. Fresh(e.ssem, e.maxcnt) /\ Fresh(e.rsem, 0) /\ e.list = <<>>
    BY <1>2, <1>9
  <2>2. GateSound(e.ssem, "ALLOC", e.seq, c1, t, "send") /\ GateSound(e.rsem, "ALLOC", e.seq, c1, t, "recv")
    BY <1>3, <2>1, FreshGate
  <2>3. \A q \in PortUser : c1[q].port = t /\ c1[q].at \in {"send", "recv"} => c1[q].seq # e.seq
    <3> TAKE q \in PortUser
    <3> HAVE c1[q].port = t /\ c1[q].at \in {"send", "recv"}
    <3>1. c1[q].seq < e.seq
      BY <1>5
    <3> QED
      BY <1>3, <3>1
  <2>4. e.ssem.used => Balance(e.ssem, e.seq, c1, t, "send") = e.maxcnt
    BY <1>3, <2>1, <2>3, FreshBalance
  <2>5. e.rsem.used => Balance(e.rsem, e.seq, c1, t, "recv") = 0
    BY <2>1, <2>3, FreshBalance
  <2>6. Len(e.list) = 0 /\ e.maxcnt - 0 = e.maxcnt
    BY <1>3, <2>1, EmptySeq
  <2>7. SlotsSound(e1, c1, t)
    BY <2>4, <2>5, <2>6 DEF SlotsSound
  <2> QED
    BY <1>2, <1>6, <1>7, <1>9, <2>1, <2>2, <2>7 DEF PortSound
<1> QED
  BY <1>8, <1>9

----
\* The lists of nodes.

\* The nodes in M move from list u to list t.
LEMMA SpreadMove ==
    ASSUME NEW L, Spread(L), NEW t \in 0..NPORTS, NEW u \in 0..NPORTS, t # u, NEW M,
           NEW L1 \in [0..NPORTS -> Seq(Node)], Once(L1[t]), Once(L1[u]),
           \A v \in 0..NPORTS : v # t /\ v # u => L1[v] = L[v],
           \A n \in Node : n \in M => On(n, L[u]),
           \A n \in Node : On(n, L1[u]) <=> On(n, L[u]) /\ n \notin M,
           \A n \in Node : On(n, L1[t]) <=> On(n, L[t]) \/ n \in M
    PROVE  Spread(L1)
<1>1. \A v \in 0..NPORTS : Once(L1[v])
  BY DEF Spread
<1>2. \A n \in Node, v \in 0..NPORTS :
         On(n, L1[v]) <=> IF n \in M THEN v = t \/ (On(n, L[v]) /\ v # u) ELSE On(n, L[v])
  <2> TAKE n \in Node, v \in 0..NPORTS
  <2>1. CASE v = t
    BY <2>1
  <2>2. CASE v = u
    BY <2>2
  <2>3. CASE v # t /\ v # u
    BY <2>3
  <2> QED
    BY <2>1, <2>2, <2>3
<1>3. \A n \in Node : \A v, w \in 0..NPORTS : On(n, L[v]) /\ On(n, L[w]) => v = w
  BY DEF Spread
<1>4. \A n \in Node, v \in 0..NPORTS : On(n, L1[v]) <=> IF n \in M THEN v = t ELSE On(n, L[v])
  BY <1>2, <1>3
<1>5. \A n \in Node : \E v \in 0..NPORTS : On(n, L1[v])
  BY <1>4 DEF Spread
<1>6. \A n \in Node : \A v, w \in 0..NPORTS : On(n, L1[v]) /\ On(n, L1[w]) => v = w
  BY <1>3, <1>4
<1> QED
  BY <1>1, <1>5, <1>6 DEF Spread

\* The list of a port, and the free list.
LEMMA ListsOfList ==
    ASSUME NEW tab, NEW free
    PROVE  /\ NPORTS \in 0..NPORTS
           /\ ListsOf(tab, free)[NPORTS] = free
           /\ \A t \in Port : t \in 0..NPORTS /\ t # NPORTS /\ ListsOf(tab, free)[t] = ListOf(tab[t])
           /\ \A v \in 0..NPORTS : v # NPORTS => v \in Port
<1>1. NPORTS \in Nat \ {0}
  BY PortsAssumption
<1>2. NPORTS \in 0..NPORTS /\ \A t \in Port : t \in 0..NPORTS /\ t # NPORTS
  BY <1>1 DEF Port
<1>3. \A v \in 0..NPORTS : v # NPORTS => v \in Port
  BY <1>1 DEF Port
<1> QED
  BY <1>2, <1>3 DEF ListsOf

LEMMA ListsOfType ==
    ASSUME NEW tab, NEW free \in Seq(Node), \A t \in Port : tab[t].list \in Seq(Node)
    PROVE  ListsOf(tab, free) \in [0..NPORTS -> Seq(Node)]
<1>1. \A v \in 0..NPORTS : v # NPORTS => v \in Port
  BY ListsOfList
<1>2. <<>> \in Seq(Node)
  BY EmptySeq
<1> QED
  BY <1>1, <1>2 DEF ListsOf, ListOf

\* For the provers, which do not match Tail(), Append() and \o under other operators.
IsTail(r, s) == r = Tail(s)
IsAppended(r, s, x) == r = Append(s, x)
IsJoined(r, s, u) == r = s \o u

\* A node goes from the free list to the end of a port's list.
LEMMA SpreadSend ==
    ASSUME NEW tab, NEW free \in Seq(Node), Spread(ListsOf(tab, free)), free # <<>>,
           NEW t \in Port, tab[t].state = "ALLOC", tab[t].list \in Seq(Node),
           NEW tab1, \A u \in Port : tab1[u].list \in Seq(Node),
           \A u \in Port : u # t => tab1[u] = tab[u],
           NEW h, h = Head(free), tab1[t].state = "ALLOC", IsAppended(tab1[t].list, tab[t].list, h),
           NEW rest, IsTail(rest, free)
    PROVE  Spread(ListsOf(tab1, rest)) /\ ~On(h, tab[t].list) /\ h \in Node
           /\ \A u \in Port : tab[u].state = "ALLOC" => ~On(h, tab[u].list)
<1> DEFINE L == ListsOf(tab, free)
           L1 == ListsOf(tab1, rest)
<1>a. L[NPORTS] = free /\ \A u \in Port : L[u] = ListOf(tab[u])
  BY ListsOfList
<1>b. L1[NPORTS] = rest /\ \A u \in Port : L1[u] = ListOf(tab1[u])
  BY ListsOfList
<1> HIDE DEF L, L1
<1>1. /\ L[NPORTS] = free /\ L1[NPORTS] = rest /\ L[t] = tab[t].list /\ L1[t] = Append(L[t], h)
      /\ \A u \in Port : u # t => L1[u] = L[u]
      /\ \A u \in Port : tab[u].state = "ALLOC" => L[u] = tab[u].list
  BY <1>a, <1>b DEF ListOf, IsAppended
<1>2. NPORTS \in 0..NPORTS /\ (\A u \in Port : u \in 0..NPORTS /\ u # NPORTS) /\ \A v \in 0..NPORTS : v # NPORTS => v \in Port
  BY ListsOfList
<1>3. Once(free) /\ Once(L[t])
  BY <1>1, <1>2 DEF Spread, L
<1>4. /\ h \in Node /\ On(h, free) /\ rest \in Seq(Node) /\ Once(rest)
      /\ \A y \in Node : On(y, rest) <=> y # h /\ On(y, free)
  BY <1>3, TailOnce DEF IsTail
<1>5. \A u \in Port : ~On(h, L[u])
  BY <1>1, <1>2, <1>4 DEF Spread, L
<1>6. L[t] \in Seq(Node) /\ L[t] = tab[t].list
  BY <1>1
<1>7. Once(L1[t]) /\ \A y \in Node : On(y, L1[t]) <=> y = h \/ On(y, L[t])
  BY <1>1, <1>3, <1>4, <1>5, <1>6, AppendOnce
<1>8. L1 \in [0..NPORTS -> Seq(Node)]
  BY <1>4, ListsOfType DEF L1
<1>9. Spread(L1)
  <2>1. \A v \in 0..NPORTS : v # t /\ v # NPORTS => L1[v] = L[v]
    BY <1>1, <1>2
  <2>2. \A n \in Node : n \in {h} => On(n, L[NPORTS])
    BY <1>1, <1>4
  <2>3. \A n \in Node : On(n, L1[NPORTS]) <=> On(n, L[NPORTS]) /\ n \notin {h}
    BY <1>1, <1>4
  <2>4. \A n \in Node : On(n, L1[t]) <=> On(n, L[t]) \/ n \in {h}
    BY <1>7
  <2>5. Once(L1[NPORTS]) /\ Spread(L) /\ t \in 0..NPORTS /\ t # NPORTS
    BY <1>1, <1>2, <1>4 DEF L
  <2> QED
    BY <1>2, <1>7, <1>8, <2>1, <2>2, <2>3, <2>4, <2>5, SpreadMove
<1> QED
  BY <1>1, <1>4, <1>5, <1>9 DEF L1

\* The nodes of s, the first of a port's list or all of it, go in front of the free list.
LEMMA SpreadFree ==
    ASSUME NEW tab, NEW free \in Seq(Node), Spread(ListsOf(tab, free)),
           NEW t \in Port, tab[t].state = "ALLOC", tab[t].list \in Seq(Node),
           NEW s \in Seq(Node), Once(s),
           NEW tab1, \A u \in Port : tab1[u].list \in Seq(Node),
           \A u \in Port : u # t => tab1[u] = tab[u],
           Once(ListOf(tab1[t])),
           \A n \in Node : On(n, s) => On(n, tab[t].list),
           \A n \in Node : On(n, ListOf(tab1[t])) <=> On(n, tab[t].list) /\ ~On(n, s),
           NEW free1, IsJoined(free1, s, free)
    PROVE  Spread(ListsOf(tab1, free1)) /\ free1 \in Seq(Node)
<1> DEFINE L == ListsOf(tab, free)
           L1 == ListsOf(tab1, free1)
           M == {n \in Node : On(n, s)}
<1>a. L[NPORTS] = free /\ \A u \in Port : L[u] = ListOf(tab[u])
  BY ListsOfList
<1>b. L1[NPORTS] = free1 /\ \A u \in Port : L1[u] = ListOf(tab1[u])
  BY ListsOfList
<1> HIDE DEF L, L1, M
<1>1. /\ L[NPORTS] = free /\ L1[NPORTS] = free1 /\ L[t] = tab[t].list /\ L1[t] = ListOf(tab1[t])
      /\ \A u \in Port : u # t => L1[u] = L[u]
  BY <1>a, <1>b DEF ListOf
<1>2. NPORTS \in 0..NPORTS /\ (\A u \in Port : u \in 0..NPORTS /\ u # NPORTS) /\ \A v \in 0..NPORTS : v # NPORTS => v \in Port
  BY ListsOfList
<1>3. Once(free) /\ \A y \in Node : ~(On(y, s) /\ On(y, free))
  BY <1>1, <1>2 DEF Spread, L
<1>4. /\ free1 \in Seq(Node) /\ Once(free1)
      /\ \A y \in Node : On(y, free1) <=> On(y, s) \/ On(y, free)
  BY <1>3, ConcatOnce DEF IsJoined
<1>5. L1 \in [0..NPORTS -> Seq(Node)]
  BY <1>4, ListsOfType DEF L1
<1>6. \A n \in Node : n \in M <=> On(n, s)
  BY DEF M
<1>7. Spread(L1)
  <2>1. \A v \in 0..NPORTS : v # NPORTS /\ v # t => L1[v] = L[v]
    BY <1>1, <1>2
  <2>2. \A n \in Node : n \in M => On(n, L[t])
    BY <1>1, <1>6
  <2>3. \A n \in Node : On(n, L1[t]) <=> On(n, L[t]) /\ n \notin M
    BY <1>1, <1>6
  <2>4. \A n \in Node : On(n, L1[NPORTS]) <=> On(n, L[NPORTS]) \/ n \in M
    BY <1>1, <1>4, <1>6
  <2>5. Once(L1[NPORTS]) /\ Once(L1[t]) /\ Spread(L) /\ t \in 0..NPORTS /\ t # NPORTS
    BY <1>1, <1>2, <1>4 DEF L
  <2> QED
    BY <1>2, <1>5, <2>1, <2>2, <2>3, <2>4, <2>5, SpreadMove
<1> QED
  BY <1>4, <1>7 DEF L1

----
\* The entries keep their type.

SemType == [used : BOOLEAN, count : Int, queue : Seq(PortUser)]

LEMMA SoundType == \A s : s = NoSemaphore \/ SemSound(s, PortUser) => s \in SemType
<1>1. NoSemaphore \in SemType
  BY EmptySeq DEF NoSemaphore, SemType
<1>2. \A s : SemSound(s, PortUser) => s \in SemType
  BY DEF SemSound, SemType
<1> QED
  BY <1>1, <1>2

LEMMA FreshType == \A s : \A n \in Nat : Fresh(s, n) => s \in SemType
BY SoundType, SemaphoreSound DEF Fresh

\* The semaphores of a sound port after wait() and signal().
LEMMA StepType ==
    ASSUME NEW e, NEW c, NEW t, PortSound(e, c, t)
    PROVE  /\ Signal(e.ssem) \in SemType /\ Signal(e.rsem) \in SemType
           /\ \A p \in PortUser : /\ ~Waits(e.ssem, p) => Wait(e.ssem, p) \in SemType
                                  /\ ~Waits(e.rsem, p) => Wait(e.rsem, p) \in SemType
<1>1. \A s : s = NoSemaphore \/ SemSound(s, PortUser) =>
          /\ Signal(s) \in SemType
          /\ \A p \in PortUser : ~Waits(s, p) => Wait(s, p) \in SemType
  <2> SUFFICES ASSUME NEW s, s = NoSemaphore \/ SemSound(s, PortUser)
               PROVE  /\ Signal(s) \in SemType
                      /\ \A p \in PortUser : ~Waits(s, p) => Wait(s, p) \in SemType
    OBVIOUS
  <2>1. CASE s = NoSemaphore
    <3>1. s.used = FALSE
      BY <2>1 DEF NoSemaphore
    <3>2. Signal(s) = s /\ \A p \in PortUser : Wait(s, p) = s
      BY <3>1 DEF Signal, Wait
    <3> QED
      BY <2>1, <3>2, SoundType
  <2>2. CASE SemSound(s, PortUser)
    <3>1. SemSound(Signal(s), PortUser)
      BY <2>2, SignalSound
    <3>2. \A p \in PortUser : ~Waits(s, p) => SemSound(Wait(s, p), PortUser)
      BY <2>2, WaitSound
    <3> QED
      BY <3>1, <3>2, SoundType
  <2> QED
    BY <2>1, <2>2
<1> QED
  BY <1>1 DEF PortSound, GateSound

\* An entry, from its fields.
LEMMA EntryFields ==
    ASSUME NEW e \in PortEntry
    PROVE  /\ e.state \in {"FREE", "LIMBO", "ALLOC"} /\ e.seq \in Nat /\ e.maxcnt \in Nat
           /\ e.ssem \in SemType /\ e.rsem \in SemType /\ e.list \in Seq(Node)
BY DEF PortEntry, SemType

LEMMA EntryMade ==
    ASSUME NEW st \in {"FREE", "LIMBO", "ALLOC"}, NEW n \in Nat, NEW m \in Nat, NEW s \in SemType, NEW r \in SemType,
           NEW l \in Seq(Node)
    PROVE  [state |-> st, seq |-> n, maxcnt |-> m, ssem |-> s, rsem |-> r, list |-> l] \in PortEntry
BY DEF PortEntry, SemType

----
\* What the actions leave alone.

\* The other ports.
LEMMA OthersSound ==
    ASSUME NEW tab, NEW tab1, NEW c, NEW c1, NEW p \in PortUser, NEW t, Moved(p, c, c1),
           \A u \in Port : PortSound(tab[u], c, u),
           \A u \in Port : u # t => tab1[u] = tab[u],
           c[p].at = "run" \/ c[p].port = t, c1[p].at = "run" \/ c1[p].port = t
    PROVE  \A u \in Port : u # t => PortSound(tab1[u], c1, u)
<1> SUFFICES ASSUME NEW u \in Port, u # t
             PROVE  PortSound(tab1[u], c1, u)
  OBVIOUS
<1>1. PortSound(tab[u], c, u) /\ tab1[u] = tab[u]
  OBVIOUS
<1>2. \A q \in PortUser : c1[q] = c[q] \/ (Off(c[q], u) /\ Off(c1[q], u))
  BY DEF Moved, Off
<1>3. PortSound(tab[u], c1, u)
  BY <1>1, <1>2, PortElsewhere
<1> QED
  BY <1>1, <1>3

\* The nodes, when no list changes.
LEMMA NodesStay ==
    ASSUME NEW tab, NEW tab1, NEW free, NEW msg, \A u \in Port : ListOf(tab1[u]) = ListOf(tab[u]),
           \A u \in Port : tab1[u].state = "ALLOC" => tab1[u].seq = tab[u].seq \/ tab1[u].list = <<>>,
           Spread(ListsOf(tab, free)), \A u \in Port : Lively(tab[u], msg)
    PROVE  Spread(ListsOf(tab1, free)) /\ \A u \in Port : Lively(tab1[u], msg)
<1>1. \A v \in 0..NPORTS : v # NPORTS => v \in Port
  BY ListsOfList
<1>2. ListsOf(tab1, free) = ListsOf(tab, free)
  BY <1>1 DEF ListsOf
<1>3. ASSUME NEW u \in Port
      PROVE  Lively(tab1[u], msg)
  <2> SUFFICES ASSUME tab1[u].state = "ALLOC"
               PROVE  \A i \in 1..Len(tab1[u].list) : msg[tab1[u].list[i]] = tab1[u].seq
    BY DEF Lively
  <2>1. CASE tab1[u].list = <<>>
    BY <2>1, EmptySeq
  <2>2. CASE tab1[u].list # <<>>
    <3>1. tab1[u].seq = tab[u].seq /\ ListOf(tab1[u]) = tab1[u].list
      BY <2>2 DEF ListOf
    <3>2. tab[u].state = "ALLOC" /\ tab[u].list = tab1[u].list
      <4>1. ListOf(tab[u]) = tab1[u].list
        BY <3>1
      <4> QED
        BY <2>2, <4>1 DEF ListOf
    <3> QED
      BY <3>1, <3>2 DEF Lively
  <2> QED
    BY <2>1, <2>2
<1> QED
  BY <1>2, <1>3

----
\* Each action.

PortsSound == \A t \in Port : PortSound(porttab[t], ptcall, t)
NodesSound == Spread(ListsOf(porttab, ptfree)) /\ \A t \in Port : Lively(porttab[t], ptmsg)

\* Who runs waits on no port.
LEMMA RunsFree ==
    ASSUME NEW p, NEW at, Runs(p, at)
    PROVE  ptcall[p].at = at /\ \A t \in Port : ~Waits(porttab[t].ssem, p) /\ ~Waits(porttab[t].rsem, p)
BY DEF Runs, Blocked

\* When an action is about one port and one call, what it leaves alone is sound.
LEMMA OnePort ==
    ASSUME PtTypes, PortsSound, NEW t \in Port, NEW p \in PortUser,
           \A u \in Port : u # t => porttab'[u] = porttab[u], Moved(p, ptcall, ptcall'),
           ptcall[p].at = "run" \/ ptcall[p].port = t, ptcall'[p].at = "run" \/ ptcall'[p].port = t,
           PortSound(porttab'[t], ptcall', t)
    PROVE  PortsSound'
<1>1. \A u \in Port : u # t => PortSound(porttab'[u], ptcall', u)
  BY OthersSound DEF PortsSound
<1> QED
  BY <1>1 DEF PortsSound

LEMMA CreateKeeps ==
    ASSUME PtInv, NEW p \in PortUser, NEW count \in Sizes, NEW created \in Created, ptcreate(p, count, created)
    PROVE  PtInv'
<1> DEFINE s1 == IF created >= 1 THEN Semaphore(count) ELSE NoSemaphore
           r1 == IF created >= 2 THEN Semaphore(0) ELSE NoSemaphore
<1>1. PICK t \in Candidates :
          /\ porttab' = [porttab EXCEPT ![t] = [state |-> "ALLOC", seq |-> @.seq + 1, maxcnt |-> count, list |-> <<>>,
                                                ssem |-> s1, rsem |-> r1]]
          /\ UNCHANGED <<ptfree, ptmsg, ptcall>>
  BY DEF ptcreate
<1>2. t \in Port /\ porttab[t].state = "FREE"
  BY DEF Candidates
<1>3. PtTypes /\ PortsSound /\ NodesSound /\ count \in Nat
  BY PortsAssumption DEF PtInv, PortsSound, NodesSound
<1> DEFINE e == porttab[t]
           e1 == porttab'[t]
<1>4. e \in PortEntry /\ e.seq \in Nat /\ e.state = "FREE" /\ ptcall \in [PortUser -> PortCall]
  BY <1>2, <1>3, EntryFields DEF PtTypes
<1>5. Fresh(s1, count) /\ Fresh(r1, 0)
  BY DEF Fresh
<1>6. s1 \in SemType /\ r1 \in SemType
  BY <1>3, <1>5, FreshType
<1> HIDE DEF s1, r1
<1>7. /\ e1.state = "ALLOC" /\ e1.seq = e.seq + 1 /\ e1.maxcnt = count /\ e1.list = <<>> /\ e1.ssem = s1 /\ e1.rsem = r1
      /\ \A u \in Port : u # t => porttab'[u] = porttab[u]
  BY <1>1, <1>2, <1>3 DEF PtTypes
<1>8. PtTypes'
  <2>1. [state |-> "ALLOC", seq |-> e.seq + 1, maxcnt |-> count, ssem |-> s1, rsem |-> r1, list |-> <<>>] \in PortEntry
    BY <1>3, <1>4, <1>6, EmptySeq DEF PortEntry, SemType
  <2> QED
    BY <1>1, <1>2, <1>3, <2>1 DEF PtTypes
<1> HIDE DEF e, e1
<1>9. PortSound(e1, ptcall, t)
  <2>1. PortSound(e, ptcall, t)
    BY <1>2, <1>3 DEF PortsSound, e
  <2> QED
    BY <1>3, <1>4, <1>5, <1>7, <2>1, PortCreated
<1>10. ptcall' = ptcall /\ ptfree' = ptfree /\ ptmsg' = ptmsg
  BY <1>1
<1>11. PortsSound'
  BY <1>3, <1>7, <1>9, <1>10 DEF PortsSound, e1
<1>12. NodesSound'
  <2>1. \A u \in Port : ListOf(porttab'[u]) = ListOf(porttab[u])
    BY <1>4, <1>7 DEF ListOf, e, e1
  <2>2. \A u \in Port : porttab'[u].state = "ALLOC" => porttab'[u].seq = porttab[u].seq \/ porttab'[u].list = <<>>
    BY <1>7 DEF e1
  <2>3. Spread(ListsOf(porttab', ptfree)) /\ \A u \in Port : Lively(porttab'[u], ptmsg)
    BY <1>3, <2>1, <2>2, NodesStay DEF NodesSound
  <2> QED
    BY <1>10, <2>3 DEF NodesSound
<1> QED
  BY <1>8, <1>11, <1>12 DEF PtInv, PortsSound, NodesSound

\* No list changes, and no life: the nodes are as they were.
LEMMA ListsStay ==
    ASSUME NodesSound, ptfree' = ptfree, ptmsg' = ptmsg,
           \A u \in Port : ListOf(porttab'[u]) = ListOf(porttab[u]),
           \A u \in Port : porttab'[u].state = "ALLOC" => porttab'[u].seq = porttab[u].seq \/ porttab'[u].list = <<>>
    PROVE  NodesSound'
<1>1. Spread(ListsOf(porttab', ptfree)) /\ \A u \in Port : Lively(porttab'[u], ptmsg)
  BY NodesStay DEF NodesSound
<1> QED
  BY <1>1 DEF NodesSound

LEMMA BeginKeeps ==
    ASSUME PtInv, NEW p \in PortUser, NEW t \in Port, NEW at \in {"send", "recv"},
           Runs(p, "run"), porttab[t].state = "ALLOC", SemOf(porttab[t], at).used,
           NEW e1, e1.state = porttab[t].state, e1.seq = porttab[t].seq, e1.maxcnt = porttab[t].maxcnt,
           e1.list = porttab[t].list,
           e1.ssem = IF at = "send" THEN Wait(porttab[t].ssem, p) ELSE porttab[t].ssem,
           e1.rsem = IF at = "recv" THEN Wait(porttab[t].rsem, p) ELSE porttab[t].rsem,
           porttab[t] \in PortEntry /\ e1.ssem \in SemType /\ e1.rsem \in SemType => e1 \in PortEntry,
           porttab' = [porttab EXCEPT ![t] = e1],
           ptcall' = [ptcall EXCEPT ![p] = [at |-> at, port |-> t, seq |-> porttab[t].seq]],
           ptfree' = ptfree, ptmsg' = ptmsg
    PROVE  PtInv'
<1> DEFINE e == porttab[t]
<1>1. PtTypes /\ PortsSound /\ NodesSound
  BY DEF PtInv, PortsSound, NodesSound
<1>2. /\ e \in PortEntry /\ ptcall \in [PortUser -> PortCall] /\ PortSound(e, ptcall, t)
      /\ ptcall[p].at = "run" /\ ~Waits(e.ssem, p) /\ ~Waits(e.rsem, p) /\ e.seq \in Nat
  BY <1>1, RunsFree, EntryFields DEF PtTypes, PortsSound
<1>3. e1.ssem \in SemType /\ e1.rsem \in SemType
  BY <1>2, StepType, EntryFields
<1>4. e1 \in PortEntry
  BY <1>2, <1>3
<1>5. PtTypes'
  <2>1. [at |-> at, port |-> t, seq |-> e.seq] \in PortCall
    BY <1>2 DEF PortCall
  <2> QED
    BY <1>1, <1>4, <2>1 DEF PtTypes
<1>6. /\ porttab'[t] = e1 /\ \A u \in Port : u # t => porttab'[u] = porttab[u]
      /\ InCall(ptcall'[p], at, t, e.seq) /\ Moved(p, ptcall, ptcall')
  BY <1>1 DEF PtTypes, InCall, Moved
<1> SUFFICES ASSUME /\ e1.state = e.state /\ e1.seq = e.seq /\ e1.maxcnt = e.maxcnt /\ e1.list = e.list
                    /\ e1.ssem = IF at = "send" THEN Wait(e.ssem, p) ELSE e.ssem
                    /\ e1.rsem = IF at = "recv" THEN Wait(e.rsem, p) ELSE e.rsem
                    /\ e.state = "ALLOC" /\ SemOf(e, at).used
             PROVE  PtInv'
  OBVIOUS
<1> HIDE DEF e
<1>7. PortSound(e1, ptcall', t)
  BY <1>2, <1>6, PortBegun
<1>8. PortsSound'
  <2>1. ptcall'[p].port = t
    BY <1>6 DEF InCall
  <2> QED
    BY <1>1, <1>2, <1>6, <1>7, <2>1, OnePort
<1>9. NodesSound'
  <2>1. \A u \in Port : ListOf(porttab'[u]) = ListOf(porttab[u])
    BY <1>6 DEF ListOf, e
  <2>2. \A u \in Port : porttab'[u].state = "ALLOC" => porttab'[u].seq = porttab[u].seq \/ porttab'[u].list = <<>>
    BY <1>6 DEF e
  <2> QED
    BY <1>1, <2>1, <2>2, ListsStay
<1> QED
  BY <1>5, <1>8, <1>9 DEF PtInv, PortsSound, NodesSound

LEMMA SendKeeps ==
    ASSUME PtInv, NEW p \in PortUser, NEW t \in Port, ptsend(p, t)
    PROVE  PtInv'
<1> DEFINE e1 == [porttab[t] EXCEPT !.ssem = Wait(porttab[t].ssem, p)]
<1>1. porttab[t] \in PortEntry /\ porttab \in [Port -> PortEntry]
  BY DEF PtInv, PtTypes
<1>2. /\ e1.state = porttab[t].state /\ e1.seq = porttab[t].seq /\ e1.maxcnt = porttab[t].maxcnt
      /\ e1.list = porttab[t].list /\ e1.ssem = Wait(porttab[t].ssem, p) /\ e1.rsem = porttab[t].rsem
      /\ e1.ssem \in SemType => e1 \in PortEntry
  BY <1>1 DEF PortEntry, SemType
<1>3. /\ Runs(p, "run") /\ porttab[t].state = "ALLOC" /\ porttab[t].ssem.used
      /\ porttab' = [porttab EXCEPT ![t] = e1]
      /\ ptcall' = [ptcall EXCEPT ![p] = [at |-> "send", port |-> t, seq |-> porttab[t].seq]]
      /\ ptfree' = ptfree /\ ptmsg' = ptmsg
  BY <1>1 DEF ptsend, begin, PortEntry
<1> HIDE DEF e1
<1> QED
  BY <1>2, <1>3, BeginKeeps DEF SemOf

LEMMA RecvKeeps ==
    ASSUME PtInv, NEW p \in PortUser, NEW t \in Port, ptrecv(p, t)
    PROVE  PtInv'
<1> DEFINE e1 == [porttab[t] EXCEPT !.rsem = Wait(porttab[t].rsem, p)]
<1>1. porttab[t] \in PortEntry /\ porttab \in [Port -> PortEntry]
  BY DEF PtInv, PtTypes
<1>2. /\ e1.state = porttab[t].state /\ e1.seq = porttab[t].seq /\ e1.maxcnt = porttab[t].maxcnt
      /\ e1.list = porttab[t].list /\ e1.ssem = porttab[t].ssem /\ e1.rsem = Wait(porttab[t].rsem, p)
      /\ e1.rsem \in SemType => e1 \in PortEntry
  BY <1>1 DEF PortEntry, SemType
<1>3. /\ Runs(p, "run") /\ porttab[t].state = "ALLOC" /\ porttab[t].rsem.used
      /\ porttab' = [porttab EXCEPT ![t] = e1]
      /\ ptcall' = [ptcall EXCEPT ![p] = [at |-> "recv", port |-> t, seq |-> porttab[t].seq]]
      /\ ptfree' = ptfree /\ ptmsg' = ptmsg
  BY <1>1 DEF ptrecv, begin, PortEntry
<1> HIDE DEF e1
<1> QED
  BY <1>2, <1>3, BeginKeeps DEF SemOf

LEMMA GoneKeeps ==
    ASSUME PtInv, NEW p \in PortUser, gone(p)
    PROVE  PtInv'
<1>1. PtTypes /\ PortsSound /\ NodesSound
  BY DEF PtInv, PortsSound, NodesSound
<1>2. /\ porttab' = porttab /\ ptfree' = ptfree /\ ptmsg' = ptmsg /\ ptcall' = [ptcall EXCEPT ![p] = NoPtCall]
      /\ Runs(p, "send") \/ Runs(p, "recv")
      /\ ~(porttab[ptcall[p].port].state = "ALLOC" /\ porttab[ptcall[p].port].seq = ptcall[p].seq)
  BY DEF gone, SamePort
<1>3. \A t \in Port : ~Waits(porttab[t].ssem, p) /\ ~Waits(porttab[t].rsem, p)
  BY <1>2, RunsFree
<1>4. NoPtCall \in PortCall /\ NoPtCall.at = "run"
  BY PortsAssumption DEF NoPtCall, PortCall, Port
<1>5. PtTypes'
  BY <1>1, <1>2, <1>4 DEF PtTypes
<1>6. ptcall'[p].at = "run" /\ Moved(p, ptcall, ptcall')
  BY <1>1, <1>2, <1>4 DEF PtTypes, Moved
<1>7. PortsSound'
  <2> SUFFICES ASSUME NEW t \in Port
               PROVE  PortSound(porttab[t], ptcall', t)
    BY <1>2 DEF PortsSound
  <2>1. porttab[t] \in PortEntry /\ PortSound(porttab[t], ptcall, t)
    BY <1>1 DEF PtTypes, PortsSound
  <2>2. ptcall[p].port = t => ~(porttab[t].state = "ALLOC" /\ porttab[t].seq = ptcall[p].seq)
    BY <1>2
  <2> QED
    BY <1>3, <1>6, <2>1, <2>2, PortGone
<1>8. NodesSound'
  BY <1>1, <1>2 DEF NodesSound
<1> QED
  BY <1>5, <1>7, <1>8 DEF PtInv, PortsSound, NodesSound

LEMMA LinkKeeps ==
    ASSUME PtInv, NEW p \in PortUser, ptsendLink(p)
    PROVE  PtInv'
<1> DEFINE t == ptcall[p].port
           h == Head(ptfree)
           e == porttab[t]
           e1 == [e EXCEPT !.list = Append(e.list, h), !.rsem = Signal(e.rsem)]
<1>1. PtTypes /\ PortsSound /\ NodesSound
  BY DEF PtInv, PortsSound, NodesSound
<1>2. CASE ptfree = <<>>
  <2>1. porttab' = porttab /\ ptfree' = ptfree /\ ptmsg' = ptmsg /\ ptcall' = ptcall
    BY <1>2 DEF ptsendLink
  <2> QED
    BY <2>1 DEF PtInv, PtTypes
<1>3. CASE ptfree # <<>>
  <2>1. t \in Port /\ e \in PortEntry /\ ptcall[p].seq \in Nat
    BY <1>1 DEF PtTypes, PortCall
  <2>2. /\ ptfree' = Tail(ptfree) /\ ptmsg' = [ptmsg EXCEPT ![h] = ptcall[p].seq]
        /\ ptcall' = [ptcall EXCEPT ![p] = NoPtCall]
        /\ porttab' = [porttab EXCEPT ![t] = e1]
        /\ Runs(p, "send") /\ e.state = "ALLOC" /\ e.seq = ptcall[p].seq
    BY <1>1, <1>3, <2>1 DEF ptsendLink, SamePort, PtTypes, PortEntry
  <2>3. /\ e1.state = e.state /\ e1.seq = e.seq /\ e1.maxcnt = e.maxcnt /\ e1.ssem = e.ssem
        /\ e1.list = Append(e.list, h) /\ e1.rsem = Signal(e.rsem)
        /\ e1.list \in Seq(Node) /\ e1.rsem \in SemType => e1 \in PortEntry
    BY <2>1 DEF PortEntry, SemType
  <2> HIDE DEF e1
  <2>4. /\ ptcall[p].at = "send" /\ ~Waits(e.ssem, p) /\ ~Waits(e.rsem, p) /\ PortSound(e, ptcall, t)
    BY <1>1, <2>1, <2>2, RunsFree DEF PortsSound
  <2>5. e.list \in Seq(Node) /\ Len(e.list) \in Nat /\ ptfree \in Seq(Node) /\ h \in Node
    BY <1>1, <1>3, <2>1, EntryFields, LenProperties, HeadTailProperties DEF PtTypes
  <2>6. e1.list \in Seq(Node) /\ Len(e1.list) = Len(e.list) + 1
    BY <2>3, <2>5, AppendProperties
  <2>7. e1 \in PortEntry
    BY <2>3, <2>4, <2>6, StepType
  <2>8. NoPtCall \in PortCall /\ NoPtCall.at = "run"
    BY PortsAssumption DEF NoPtCall, PortCall, Port
  <2>9. PtTypes'
    <3>1. Tail(ptfree) \in Seq(Node)
      BY <1>3, <2>5, HeadTailProperties
    <3> QED
      BY <1>1, <2>1, <2>2, <2>7, <2>8, <3>1 DEF PtTypes
  <2>10. /\ porttab'[t] = e1 /\ \A u \in Port : u # t => porttab'[u] = porttab[u]
         /\ ptcall'[p].at = "run" /\ Moved(p, ptcall, ptcall')
    BY <1>1, <2>1, <2>2, <2>8 DEF PtTypes, Moved
  <2>11. PortSound(e1, ptcall', t)
    <3>1. ptcall[p].port = t /\ ptcall[p].seq = e.seq /\ ~Waits(SemOf(e, "send"), p)
      BY <2>2, <2>4 DEF SemOf
    <3> HIDE DEF t, e
    <3> QED
      BY <2>1, <2>2, <2>3, <2>4, <2>6, <2>10, <3>1, PortTurns
  <2>12. PortsSound'
    BY <1>1, <2>1, <2>10, <2>11, OnePort
  <2>13. /\ Spread(ListsOf(porttab', ptfree')) /\ ~On(h, e.list)
         /\ \A u \in Port : porttab[u].state = "ALLOC" => ~On(h, porttab[u].list)
    <3>1. \A u \in Port : porttab'[u].list \in Seq(Node)
      BY <2>9, EntryFields DEF PtTypes
    <3>2. /\ porttab'[t].state = "ALLOC" /\ IsAppended(porttab'[t].list, porttab[t].list, h)
          /\ porttab[t].state = "ALLOC" /\ IsTail(ptfree', ptfree)
      BY <2>2, <2>3, <2>10 DEF IsAppended, IsTail
    <3>3. Spread(ListsOf(porttab, ptfree)) /\ porttab[t].list \in Seq(Node)
      BY <1>1, <2>5 DEF NodesSound
    <3> HIDE DEF t
    <3> QED
      BY <1>3, <2>1, <2>5, <2>10, <3>1, <3>2, <3>3, SpreadSend
  <2>14. ASSUME NEW u \in Port
         PROVE  Lively(porttab'[u], ptmsg')
    <3> SUFFICES ASSUME porttab'[u].state = "ALLOC", NEW i \in 1..Len(porttab'[u].list)
                 PROVE  ptmsg'[porttab'[u].list[i]] = porttab'[u].seq
      BY DEF Lively
    <3>1. Lively(porttab[u], ptmsg) /\ porttab[u].list \in Seq(Node) /\ ptmsg \in [Node -> Nat]
      BY <1>1, EntryFields DEF NodesSound, PtTypes
    <3>2. CASE u # t
      <4>1. porttab'[u] = porttab[u]
        BY <2>10, <3>2
      <4>2. porttab[u].list[i] # h /\ porttab[u].list[i] \in Node
        BY <2>13, <3>1, <4>1, ElementOfSeq DEF On
      <4> QED
        BY <2>2, <3>1, <4>1, <4>2 DEF Lively
    <3>3. CASE u = t
      <4>1. porttab'[u].list = Append(e.list, h) /\ porttab'[u].seq = e.seq
        BY <2>3, <2>10, <3>3
      <4>2. CASE i = Len(e.list) + 1
        <5>1. porttab'[u].list[i] = h
          <6> DEFINE q == e.list
          <6>2. q \in Seq(Node) /\ h \in Node
            BY <2>5
          <6> HIDE DEF q, e, h
          <6>3. Append(q, h)[Len(q) + 1] = h
            BY ONLY <6>2, AppendProperties
          <6>1. Append(e.list, h)[Len(e.list) + 1] = h
            BY ONLY <6>3 DEF q
          <6> QED
            BY <4>1, <4>2, <6>1
        <5> QED
          BY <2>2, <2>5, <3>1, <4>1, <5>1
      <4>3. CASE i # Len(e.list) + 1
        <5>1. i \in 1..Len(e.list)
          BY <2>5, <2>6, <2>10, <3>3, <4>3
        <5>2. porttab'[u].list[i] = e.list[i]
          BY <2>5, <4>1, <5>1, AppendProperties
        <5>3. e.list[i] # h /\ e.list[i] \in Node
          BY <2>5, <2>13, <5>1, ElementOfSeq DEF On
        <5>4. ptmsg[e.list[i]] = e.seq
          BY <2>2, <3>1, <3>3, <5>1 DEF Lively
        <5> QED
          BY <2>2, <3>1, <4>1, <5>2, <5>3, <5>4
      <4> QED
        BY <4>2, <4>3
    <3> QED
      BY <3>2, <3>3
  <2> QED
    BY <2>2, <2>9, <2>12, <2>13, <2>14 DEF PtInv, PortsSound
<1> QED
  BY <1>2, <1>3

\* What is left on the lists when nodes are freed was on them, and the contents of the
\* nodes are as they were.
LEMMA LivelyStays ==
    ASSUME NEW tab, NEW tab1, NEW msg, NEW t, \A u \in Port : Lively(tab[u], msg),
           \A u \in Port : u # t => tab1[u] = tab[u], Lively(tab1[t], msg)
    PROVE  \A u \in Port : Lively(tab1[u], msg)
OBVIOUS

LEMMA UnlinkKeeps ==
    ASSUME PtInv, NEW p \in PortUser, ptrecvUnlink(p)
    PROVE  PtInv'
<1> DEFINE t == ptcall[p].port
           e == porttab[t]
           h == Head(e.list)
           e1 == [e EXCEPT !.list = Tail(e.list), !.ssem = Signal(e.ssem)]
<1>1. PtTypes /\ PortsSound /\ NodesSound
  BY DEF PtInv, PortsSound, NodesSound
<1>2. t \in Port /\ e \in PortEntry /\ ptcall[p].seq \in Nat
  BY <1>1 DEF PtTypes, PortCall
<1>3. /\ ptfree' = <<h>> \o ptfree /\ ptmsg' = ptmsg
      /\ ptcall' = [ptcall EXCEPT ![p] = NoPtCall]
      /\ porttab' = [porttab EXCEPT ![t] = e1]
      /\ Runs(p, "recv") /\ e.state = "ALLOC" /\ e.seq = ptcall[p].seq
  BY <1>1, <1>2 DEF ptrecvUnlink, SamePort, PtTypes, PortEntry
<1>4. /\ e1.state = e.state /\ e1.seq = e.seq /\ e1.maxcnt = e.maxcnt /\ e1.rsem = e.rsem
      /\ e1.list = Tail(e.list) /\ e1.ssem = Signal(e.ssem)
      /\ e1.list \in Seq(Node) /\ e1.ssem \in SemType => e1 \in PortEntry
  BY <1>2 DEF PortEntry, SemType
<1> HIDE DEF e1
<1>5. /\ ptcall[p].at = "recv" /\ ~Waits(e.ssem, p) /\ ~Waits(e.rsem, p) /\ PortSound(e, ptcall, t)
  BY <1>1, <1>2, <1>3, RunsFree DEF PortsSound
<1>6. e.list \in Seq(Node) /\ Len(e.list) \in Nat /\ ptfree \in Seq(Node)
  BY <1>1, <1>2, EntryFields, LenProperties DEF PtTypes
<1>7. NoPtCall \in PortCall /\ NoPtCall.at = "run"
  BY PortsAssumption DEF NoPtCall, PortCall, Port
<1>8. /\ porttab'[t] = e1 /\ \A u \in Port : u # t => porttab'[u] = porttab[u]
      /\ ptcall'[p].at = "run" /\ Moved(p, ptcall, ptcall')
  BY <1>1, <1>2, <1>3, <1>7 DEF PtTypes, Moved
<1>9. e.list # <<>>
  <2>1. ptcall[p].port = t /\ ptcall[p].seq = e.seq /\ SemOf(e, "recv").used
    BY <1>2, <1>3, <1>5 DEF PortSound, CallersSound
  <2>2. p \in LetIn(e.rsem, e.seq, ptcall, t, "recv") /\ e.rsem.used
    BY <1>5, <2>1 DEF LetIn, SemOf
  <2>3. GateSound(e.rsem, "ALLOC", e.seq, ptcall, t, "recv") /\ Balance(e.rsem, e.seq, ptcall, t, "recv") = Len(e.list)
    BY <1>3, <1>5, <2>2 DEF PortSound, SlotsSound
  <2>4. SemSound(e.rsem, PortUser)
    BY <2>2, <2>3, UsedIsSound
  <2>5. Len(e.list) >= 1
    <3> HIDE DEF e, t
    <3>1. Balance(e.rsem, e.seq, ptcall, t, "recv") >= 1
      BY <2>2, <2>3, <2>4, LetInCounts
    <3> QED
      BY <2>3, <3>1
  <2> QED
    BY <2>5, EmptySeq
<1>10. Once(e.list)
  <2>1. Once(ListsOf(porttab, ptfree)[t])
    BY <1>1, <1>2, ListsOfList DEF NodesSound, Spread
  <2> QED
    BY <1>2, <1>3, <2>1, ListsOfList DEF ListOf
<1>11. /\ h \in Node /\ On(h, e.list) /\ Tail(e.list) \in Seq(Node) /\ Len(Tail(e.list)) = Len(e.list) - 1
       /\ Once(Tail(e.list)) /\ \A y \in Node : On(y, Tail(e.list)) <=> y # h /\ On(y, e.list)
  BY <1>6, <1>9, <1>10, TailOnce
<1>12. e1 \in PortEntry
  BY <1>4, <1>5, <1>11, StepType
<1> HIDE DEF h
<1>13. /\ <<h>> \in Seq(Node) /\ Once(<<h>>) /\ \A y : On(y, <<h>>) <=> y = h
  <2>1. Len(<<h>>) = 1 /\ <<h>>[1] = h
    OBVIOUS
  <2>2. \A i : i \in 1..1 <=> i = 1
    OBVIOUS
  <2>3. <<h>> \in Seq(Node)
    BY <1>11
  <2> HIDE DEF h
  <2>4. \A i \in 1..Len(<<h>>) : i = 1
    BY <2>1, <2>2
  <2>5. 1 \in 1..Len(<<h>>)
    BY <2>1, <2>2
  <2> QED
    BY <2>1, <2>3, <2>4, <2>5 DEF Once, On
<1>14. Spread(ListsOf(porttab', ptfree')) /\ ptfree' \in Seq(Node)
  <2> DEFINE s == <<h>>
  <2>1. IsJoined(ptfree', s, ptfree) /\ Spread(ListsOf(porttab, ptfree)) /\ porttab[t].state = "ALLOC"
    BY <1>1, <1>3 DEF IsJoined, NodesSound
  <2>2. \A u \in Port : porttab'[u].list \in Seq(Node)
    <3> TAKE u \in Port
    <3>1. CASE u = t
      BY <1>8, <1>12, <3>1, EntryFields
    <3>2. CASE u # t
      <4>1. porttab[u] \in PortEntry /\ porttab'[u] = porttab[u]
        BY <1>1, <1>8, <3>2 DEF PtTypes
      <4> QED
        BY <4>1, EntryFields
    <3> QED
      BY <3>1, <3>2
  <2>3. ListOf(porttab'[t]) = Tail(e.list)
    BY <1>3, <1>4, <1>8 DEF ListOf
  <2>4. Once(ListOf(porttab'[t])) /\ \A n \in Node : On(n, ListOf(porttab'[t])) <=> On(n, porttab[t].list) /\ ~On(n, s)
    BY <1>11, <1>13, <2>3
  <2>5. s \in Seq(Node) /\ Once(s) /\ \A n \in Node : On(n, s) => On(n, porttab[t].list)
    BY <1>11, <1>13
  <2>6. porttab[t].list \in Seq(Node)
    BY <1>6
  <2> HIDE DEF s, t
  <2> QED
    BY <1>2, <1>6, <1>8, <2>1, <2>2, <2>4, <2>5, <2>6, SpreadFree
<1>15. PtTypes'
  BY <1>1, <1>2, <1>3, <1>7, <1>12, <1>14 DEF PtTypes
<1>16. PortSound(e1, ptcall', t)
  <2>1. ptcall[p].port = t /\ ptcall[p].seq = e.seq /\ ~Waits(SemOf(e, "recv"), p)
    BY <1>3, <1>5 DEF SemOf
  <2>2. Len(e1.list) = Len(e.list) - 1
    BY <1>4, <1>11
  <2>3. e \in PortEntry /\ PortSound(e, ptcall, t) /\ p \in PortUser /\ e.state = "ALLOC" /\ ptcall[p].at = "recv"
    BY <1>2, <1>3, <1>5
  <2>4. /\ e1.state = "ALLOC" /\ e1.seq = e.seq /\ e1.maxcnt = e.maxcnt
        /\ e1.ssem = Signal(e.ssem) /\ e1.rsem = e.rsem
    BY <1>3, <1>4
  <2>5. ptcall'[p].at = "run" /\ Moved(p, ptcall, ptcall')
    BY <1>8
  <2> HIDE DEF t, e
  <2> QED
    BY ONLY <2>1, <2>2, <2>3, <2>4, <2>5, PortTurns
<1>17. PortsSound'
  BY <1>1, <1>2, <1>8, <1>16, OnePort
<1>18. Lively(e1, ptmsg)
  <2> SUFFICES ASSUME NEW i \in 1..Len(Tail(e.list))
               PROVE  ptmsg[Tail(e.list)[i]] = e.seq
    BY <1>4 DEF Lively
  <2>1. i + 1 \in 1..Len(e.list) /\ Tail(e.list)[i] = e.list[i + 1]
    BY <1>6, <1>9, HeadTailProperties
  <2>2. Lively(e, ptmsg)
    BY <1>1, <1>2 DEF NodesSound
  <2> QED
    BY <1>3, <2>1, <2>2 DEF Lively
<1>19. \A u \in Port : Lively(porttab'[u], ptmsg)
  BY <1>1, <1>8, <1>18, LivelyStays DEF NodesSound
<1> QED
  BY <1>3, <1>14, <1>15, <1>17, <1>19 DEF PtInv, PortsSound

LEMMA ClearKeeps ==
    ASSUME PtInv, NEW p \in PortUser, NEW t \in Port, NEW at \in {"reset", "delete"}, clear(p, t, at)
    PROVE  PtInv'
<1> DEFINE e == porttab[t]
           s1 == IF ~e.ssem.used \/ at = "delete" THEN NoSemaphore ELSE Semaphore(e.maxcnt)
           l1 == IF at = "reset" THEN <<>> ELSE e.list
           e1 == [e EXCEPT !.state = "LIMBO", !.seq = e.seq + 1, !.list = l1, !.ssem = s1]
<1>1. PtTypes /\ PortsSound /\ NodesSound
  BY DEF PtInv, PortsSound, NodesSound
<1>2. e \in PortEntry /\ e.seq \in Nat /\ e.maxcnt \in Nat /\ e.rsem \in SemType /\ e.list \in Seq(Node)
  BY <1>1, EntryFields DEF PtTypes
<1>3. /\ ptfree' = e.list \o ptfree /\ ptmsg' = ptmsg
      /\ ptcall' = [ptcall EXCEPT ![p] = [at |-> at, port |-> t, seq |-> 0]]
      /\ porttab' = [porttab EXCEPT ![t] = e1]
      /\ Runs(p, "run") /\ e.state = "ALLOC"
  BY <1>1, <1>2 DEF clear, PtTypes, PortEntry
<1>4. Fresh(s1, e.maxcnt) /\ (at = "reset" => l1 = <<>>) /\ l1 \in Seq(Node)
  BY <1>2, EmptySeq DEF Fresh
<1>5. s1 \in SemType
  BY <1>2, <1>4, FreshType
<1> HIDE DEF s1, l1
<1>6. /\ e1.state = "LIMBO" /\ e1.seq = e.seq + 1 /\ e1.maxcnt = e.maxcnt /\ e1.rsem = e.rsem
      /\ e1.list = l1 /\ e1.ssem = s1 /\ e1 \in PortEntry
  <2>1. e.seq + 1 \in Nat
    BY <1>2
  <2>2. /\ e1.state = "LIMBO" /\ e1.seq = e.seq + 1 /\ e1.maxcnt = e.maxcnt /\ e1.rsem = e.rsem
        /\ e1.list = l1 /\ e1.ssem = s1
    BY <1>2 DEF PortEntry
  <2>3. [e EXCEPT !.state = "LIMBO", !.seq = e.seq + 1] \in PortEntry
    BY <1>2, <2>1 DEF PortEntry
  <2>4. e1 \in PortEntry
    <3> DEFINE e2 == [e EXCEPT !.state = "LIMBO", !.seq = e.seq + 1]
    <3>1. e1 = [e2 EXCEPT !.list = l1, !.ssem = s1]
      OBVIOUS
    <3> HIDE DEF e2, e1
    <3> QED
      BY <1>4, <1>5, <2>3, <3>1 DEF PortEntry, SemType, e2
  <2> QED
    BY <2>2, <2>4
<1> HIDE DEF e1
<1>7. /\ porttab'[t] = e1 /\ \A u \in Port : u # t => porttab'[u] = porttab[u]
      /\ ptcall'[p].at = at /\ ptcall'[p].port = t /\ Moved(p, ptcall, ptcall')
      /\ [at |-> at, port |-> t, seq |-> 0] \in PortCall
  BY <1>1, <1>3 DEF PtTypes, Moved, PortCall
<1>8. ptcall[p].at = "run" /\ PortSound(e, ptcall, t) /\ ptcall \in [PortUser -> PortCall]
  BY <1>1, <1>3, RunsFree DEF PortsSound, PtTypes
<1>9. PortSound(e1, ptcall', t)
  <2>1. at = "reset" => e1.list = <<>>
    BY <1>4, <1>6
  <2>2. Fresh(e1.ssem, e.maxcnt)
    BY <1>4, <1>6
  <2> HIDE DEF e
  <2> QED
    BY <1>2, <1>3, <1>6, <1>7, <1>8, <2>1, <2>2, PortClearing
<1>10. PortsSound'
  BY <1>1, <1>7, <1>8, <1>9, OnePort
<1>11. Once(e.list)
  <2>1. Once(ListsOf(porttab, ptfree)[t])
    BY <1>1, ListsOfList DEF NodesSound, Spread
  <2> QED
    BY <1>3, <2>1, ListsOfList DEF ListOf
<1>12. Spread(ListsOf(porttab', ptfree')) /\ ptfree' \in Seq(Node)
  <2>1. IsJoined(ptfree', e.list, ptfree) /\ Spread(ListsOf(porttab, ptfree)) /\ porttab[t].state = "ALLOC"
        /\ ptfree \in Seq(Node)
    BY <1>1, <1>3 DEF IsJoined, NodesSound, PtTypes
  <2>2. \A u \in Port : porttab'[u].list \in Seq(Node)
    <3> TAKE u \in Port
    <3>1. CASE u = t
      BY <1>6, <1>7, <3>1, EntryFields
    <3>2. CASE u # t
      <4>1. porttab[u] \in PortEntry /\ porttab'[u] = porttab[u]
        BY <1>1, <1>7, <3>2 DEF PtTypes
      <4> QED
        BY <4>1, EntryFields
    <3> QED
      BY <3>1, <3>2
  <2>3. ListOf(porttab'[t]) = <<>>
    BY <1>6, <1>7 DEF ListOf
  <2>4. Once(<<>>) /\ \A n : ~On(n, <<>>)
    BY EmptySeq DEF Once, On
  <2>5. Once(ListOf(porttab'[t])) /\ \A n \in Node : On(n, ListOf(porttab'[t])) <=> On(n, porttab[t].list) /\ ~On(n, e.list)
    BY <2>3, <2>4
  <2>6. \A n \in Node : On(n, e.list) => On(n, porttab[t].list)
    OBVIOUS
  <2>7. porttab[t].list \in Seq(Node)
    BY <1>2
  <2> HIDE DEF e
  <2> QED
    BY <1>2, <1>7, <1>11, <2>1, <2>2, <2>5, <2>6, <2>7, SpreadFree
<1>13. PtTypes'
  BY <1>1, <1>3, <1>6, <1>7, <1>12 DEF PtTypes
<1>14. Lively(e1, ptmsg)
  BY <1>6 DEF Lively
<1>15. \A u \in Port : Lively(porttab'[u], ptmsg)
  BY <1>1, <1>7, <1>14, LivelyStays DEF NodesSound
<1> QED
  BY <1>3, <1>10, <1>12, <1>13, <1>15 DEF PtInv, PortsSound

LEMMA SecondKeeps ==
    ASSUME PtInv, NEW p \in PortUser, clearSecond(p)
    PROVE  PtInv'
<1> DEFINE t == ptcall[p].port
           at == ptcall[p].at
           e == porttab[t]
           r1 == IF ~e.rsem.used \/ at = "delete" THEN NoSemaphore ELSE Semaphore(0)
           e1 == [e EXCEPT !.rsem = r1]
           c1 == [ptcall[p] EXCEPT !.at = IF at = "reset" THEN "resetEnd" ELSE "deleteEnd"]
<1>1. PtTypes /\ PortsSound /\ NodesSound
  BY DEF PtInv, PortsSound, NodesSound
<1>2. t \in Port /\ e \in PortEntry /\ e.ssem \in SemType /\ ptcall[p] \in PortCall
  BY <1>1, EntryFields DEF PtTypes, PortCall
<1>3. /\ ptfree' = ptfree /\ ptmsg' = ptmsg
      /\ ptcall' = [ptcall EXCEPT ![p] = c1]
      /\ porttab' = [porttab EXCEPT ![t] = e1]
      /\ Runs(p, "reset") \/ Runs(p, "delete")
  BY <1>1, <1>2 DEF clearSecond, PtTypes, PortEntry, PortCall
<1>4. Fresh(r1, 0)
  BY DEF Fresh
<1>5. r1 \in SemType
  BY <1>4, FreshType
<1> HIDE DEF r1
<1>6. /\ e1.state = e.state /\ e1.seq = e.seq /\ e1.maxcnt = e.maxcnt /\ e1.ssem = e.ssem
      /\ e1.list = e.list /\ e1.rsem = r1 /\ e1 \in PortEntry
  BY <1>2, <1>5 DEF PortEntry, SemType
<1>7. /\ c1.at = (IF at = "reset" THEN "resetEnd" ELSE "deleteEnd") /\ c1.port = t /\ c1 \in PortCall
  BY <1>2 DEF PortCall
<1> HIDE DEF e1, c1
<1>8. /\ porttab'[t] = e1 /\ \A u \in Port : u # t => porttab'[u] = porttab[u]
      /\ ptcall'[p] = c1 /\ Moved(p, ptcall, ptcall')
  BY <1>1, <1>2, <1>3 DEF PtTypes, Moved
<1>9. at \in {"reset", "delete"} /\ PortSound(e, ptcall, t)
  BY <1>1, <1>2, <1>3, RunsFree DEF PortsSound
<1>10. PortSound(e1, ptcall', t)
  <2>1. ptcall'[p].at = (IF at = "reset" THEN "resetEnd" ELSE "deleteEnd") /\ ptcall'[p].port = t
    BY <1>7, <1>8
  <2>2. ptcall[p].port = t /\ ptcall[p].at = at
    OBVIOUS
  <2>3. Fresh(e1.rsem, 0)
    BY <1>4, <1>6
  <2> HIDE DEF t, at, e
  <2> QED
    BY <1>2, <1>6, <1>8, <1>9, <2>1, <2>2, <2>3, PortSecond
<1>11. PortsSound'
  <2>1. ptcall'[p].port = t
    BY <1>7, <1>8
  <2> QED
    BY <1>1, <1>2, <1>8, <1>10, <2>1, OnePort
<1>12. PtTypes'
  BY <1>1, <1>2, <1>3, <1>6, <1>7 DEF PtTypes
<1>13. NodesSound'
  <2>1. \A u \in Port : ListOf(porttab'[u]) = ListOf(porttab[u])
    BY <1>6, <1>8 DEF ListOf
  <2>2. \A u \in Port : porttab'[u].state = "ALLOC" => porttab'[u].seq = porttab[u].seq \/ porttab'[u].list = <<>>
    BY <1>6, <1>8
  <2> QED
    BY <1>1, <1>3, <2>1, <2>2, ListsStay
<1> QED
  BY <1>11, <1>12, <1>13 DEF PtInv, PortsSound, NodesSound

LEMMA EndKeeps ==
    ASSUME PtInv, NEW p \in PortUser, clearEnd(p)
    PROVE  PtInv'
<1> DEFINE t == ptcall[p].port
           at == ptcall[p].at
           e == porttab[t]
           st == IF at = "resetEnd" THEN "ALLOC" ELSE "FREE"
           e1 == [e EXCEPT !.state = st]
<1>1. PtTypes /\ PortsSound /\ NodesSound
  BY DEF PtInv, PortsSound, NodesSound
<1>2. t \in Port /\ e \in PortEntry
  BY <1>1, EntryFields DEF PtTypes, PortCall
<1>3. /\ ptfree' = ptfree /\ ptmsg' = ptmsg
      /\ ptcall' = [ptcall EXCEPT ![p] = NoPtCall]
      /\ porttab' = [porttab EXCEPT ![t] = e1]
      /\ Runs(p, "resetEnd") \/ Runs(p, "deleteEnd")
  BY <1>1, <1>2 DEF clearEnd, PtTypes, PortEntry
<1>4. /\ e1.state = st /\ e1.seq = e.seq /\ e1.maxcnt = e.maxcnt /\ e1.ssem = e.ssem
      /\ e1.list = e.list /\ e1.rsem = e.rsem /\ e1 \in PortEntry
  BY <1>2 DEF PortEntry
<1>5. NoPtCall \in PortCall /\ NoPtCall.at = "run"
  BY PortsAssumption DEF NoPtCall, PortCall, Port
<1> HIDE DEF e1
<1>6. /\ porttab'[t] = e1 /\ \A u \in Port : u # t => porttab'[u] = porttab[u]
      /\ ptcall'[p].at = "run" /\ Moved(p, ptcall, ptcall')
  BY <1>1, <1>2, <1>3, <1>5 DEF PtTypes, Moved
<1>7. at \in {"resetEnd", "deleteEnd"} /\ PortSound(e, ptcall, t)
  BY <1>1, <1>2, <1>3, RunsFree DEF PortsSound
<1>8. PortSound(e1, ptcall', t) /\ e.state = "LIMBO" /\ (at = "resetEnd" => e.list = <<>>)
  <2>1. ptcall[p].port = t /\ ptcall[p].at = at /\ e1.state = IF at = "resetEnd" THEN "ALLOC" ELSE "FREE"
    BY <1>4
  <2> HIDE DEF t, at, e
  <2> QED
    BY <1>2, <1>4, <1>6, <1>7, <2>1, PortEnds
<1>9. PortsSound'
  BY <1>1, <1>2, <1>6, <1>8, OnePort
<1>10. PtTypes'
  BY <1>1, <1>2, <1>3, <1>4, <1>5 DEF PtTypes
<1>11. NodesSound'
  <2>1. \A u \in Port : ListOf(porttab'[u]) = ListOf(porttab[u])
    BY <1>4, <1>6, <1>7, <1>8 DEF ListOf
  <2>2. \A u \in Port : porttab'[u].state = "ALLOC" => porttab'[u].seq = porttab[u].seq \/ porttab'[u].list = <<>>
    BY <1>4, <1>6
  <2> QED
    BY <1>1, <1>3, <2>1, <2>2, ListsStay
<1> QED
  BY <1>9, <1>10, <1>11 DEF PtInv, PortsSound, NodesSound

----
\* At first.
LEMMA InitPtInv ==
    ASSUME ptinit
    PROVE  PtInv
<1> DEFINE k == Cardinality(Node)
<1>1. k \in Nat /\ IsFiniteSet(Node)
  BY PortsAssumption, FS_CardinalityType
<1>2. ptfree \in [1..k -> Node] /\ {ptfree[i] : i \in DOMAIN ptfree} = Node
  BY DEF ptinit
<1>3. ptfree \in Seq(Node) /\ Len(ptfree) = k
  BY <1>1, <1>2, SeqDef, LenProperties
<1>4. \A n \in Node : On(n, ptfree)
  BY <1>2, <1>3 DEF On
<1>5. Once(ptfree)
  <2>1. ptfree \in Surjection(1..k, Node)
    BY <1>2, <1>3, <1>4 DEF Surjection, On
  <2>2. IsFiniteSet(1..k) /\ Cardinality(1..k) = k
    BY <1>1, FS_Interval
  <2>3. ptfree \in Injection(1..k, Node)
    <3> DEFINE dom == 1..k
    <3>1. ptfree \in Surjection(dom, Node) /\ IsFiniteSet(dom) /\ Cardinality(dom) = Cardinality(Node)
      BY <2>1, <2>2
    <3> HIDE DEF dom, k
    <3>2. ptfree \in Injection(dom, Node)
      BY <3>1, FS_Surjection
    <3> QED
      BY <3>2 DEF dom
  <2> QED
    BY <1>3, <2>3 DEF Injection, IsInjective, Once
<1>6. /\ \A t \in Port : porttab[t] = [state |-> "FREE", seq |-> 0, maxcnt |-> 0,
                                       ssem |-> NoSemaphore, rsem |-> NoSemaphore, list |-> <<>>]
      /\ \A p \in PortUser : ptcall[p] = NoPtCall
      /\ ptcall = [p \in PortUser |-> NoPtCall] /\ ptmsg = [n \in Node |-> 0]
  BY DEF ptinit
<1>7. NoPtCall \in PortCall /\ NoPtCall.at = "run"
  BY PortsAssumption DEF NoPtCall, PortCall, Port
<1>8. PtTypes
  <2>1. NoSemaphore \in SemType /\ <<>> \in Seq(Node)
    BY SoundType, EmptySeq
  <2>2. [state |-> "FREE", seq |-> 0, maxcnt |-> 0, ssem |-> NoSemaphore, rsem |-> NoSemaphore, list |-> <<>>] \in PortEntry
    BY <2>1, EntryMade
  <2>3. porttab \in [Port -> PortEntry]
    BY <2>2 DEF ptinit
  <2> QED
    BY <1>3, <1>6, <1>7, <2>3 DEF PtTypes
<1>9. ASSUME NEW t \in Port
      PROVE  PortSound(porttab[t], ptcall, t) /\ Lively(porttab[t], ptmsg) /\ ListOf(porttab[t]) = <<>>
  <2>1. porttab[t].state = "FREE" /\ porttab[t].ssem = NoSemaphore /\ porttab[t].rsem = NoSemaphore
    BY <1>6
  <2>2. \A p \in PortUser : ptcall[p].at = "run"
    BY <1>6, <1>7
  <2>3. /\ GateSound(porttab[t].ssem, porttab[t].state, porttab[t].seq, ptcall, t, "send")
        /\ GateSound(porttab[t].rsem, porttab[t].state, porttab[t].seq, ptcall, t, "recv")
    BY <2>1, FreshGate DEF Fresh
  <2>4. CallersSound(porttab[t], ptcall, t) /\ OneClears(ptcall, t)
    BY <2>2 DEF CallersSound, OneClears, Clears
  <2>5. ListOf(porttab[t]) = <<>>
    BY <2>1 DEF ListOf
  <2> QED
    BY <2>1, <2>3, <2>4, <2>5 DEF PortSound, SlotsSound, Lively
<1>10. Spread(ListsOf(porttab, ptfree))
  <2> DEFINE L == ListsOf(porttab, ptfree)
  <2>1. L[NPORTS] = ptfree /\ NPORTS \in 0..NPORTS /\ \A v \in 0..NPORTS : v # NPORTS => L[v] = <<>>
    BY <1>9, ListsOfList
  <2>2. L \in [0..NPORTS -> Seq(Node)]
    BY <1>3, <1>8, EntryFields, ListsOfType DEF PtTypes
  <2>3. Once(<<>>) /\ \A n : ~On(n, <<>>)
    BY EmptySeq DEF Once, On
  <2> HIDE DEF L
  <2> QED
    BY <1>4, <1>5, <2>1, <2>2, <2>3 DEF Spread, L
<1> QED
  BY <1>8, <1>9, <1>10 DEF PtInv

----
\* What the invariant says.

LEMMA CountApart ==
    ASSUME NEW c \in Int, NEW i \in Int, NEW q \in Int, NEW m \in Int, NEW l \in Int, c + i + q = m - l
    PROVE  c = m - l - i - q
OBVIOUS

SumIs(c, i, q, l) == c + i + q = l

LEMMA CountLeft ==
    ASSUME NEW c \in Int, NEW i \in Int, NEW q \in Int, NEW l \in Int, SumIs(c, i, q, l)
    PROVE  c = (l - i) - q
BY DEF SumIs

\* ptcount(), from the counts and the lengths of the queues.
QueueOf(c) == IF c < 0 THEN 0 - c ELSE 0
CountOf(rc, sc) == IF rc >= 0 /\ sc < 0 THEN rc - sc ELSE rc

LEMMA CountsTogether ==
    ASSUME NEW rc \in Int, NEW sc \in Int, NEW rq \in Nat, NEW sq \in Nat, NEW l \in Nat,
           rq = QueueOf(rc), sq = QueueOf(sc), SumIs(rc, 0, rq, l)
    PROVE  CountOf(rc, sc) = IF rq = 0 THEN l + sq ELSE l + (0 - rq)
BY DEF QueueOf, CountOf, SumIs

LEMMA InvSlots ==
    ASSUME PtInv
    PROVE  SlotsExact
<1>1. PtTypes /\ PortsSound
  BY DEF PtInv, PortsSound
<1> SUFFICES ASSUME NEW t \in Port, porttab[t].state = "ALLOC"
             PROVE  LET e == porttab[t]
                        in == Cardinality(Granted(t, "send"))
                        out == Cardinality(Granted(t, "recv"))
                    IN  /\ e.ssem.used => e.ssem.count = e.maxcnt - Len(e.list) - in - Len(e.ssem.queue)
                        /\ e.rsem.used => e.rsem.count = Len(e.list) - out - Len(e.rsem.queue)
                        /\ \A p \in PortUser : Waits(e.ssem, p) \/ Waits(e.rsem, p) =>
                                ptcall[p].port = t /\ ptcall[p].seq = e.seq
                        /\ e.ssem.used /\ e.rsem.used /\ out = 0 =>
                                ptcount(t) = Len(e.list) + (IF e.rsem.queue = <<>> THEN Len(e.ssem.queue)
                                                                                   ELSE 0 - Len(e.rsem.queue))
  BY DEF SlotsExact
<1> DEFINE e == porttab[t]
           in == Cardinality(Granted(t, "send"))
           out == Cardinality(Granted(t, "recv"))
<1>2. /\ GateSound(e.ssem, "ALLOC", e.seq, ptcall, t, "send") /\ GateSound(e.rsem, "ALLOC", e.seq, ptcall, t, "recv")
      /\ SlotsSound(e, ptcall, t) /\ e \in PortEntry
  BY <1>1 DEF PortsSound, PortSound, PtTypes
<1>3. \A u \in Port, p \in PortUser : /\ Waits(porttab[u].ssem, p) => ptcall[p].at = "send" /\ ptcall[p].port = u
                                      /\ Waits(porttab[u].rsem, p) => ptcall[p].at = "recv" /\ ptcall[p].port = u
  BY <1>1 DEF PortsSound, PortSound, GateSound
<1>4. Granted(t, "send") = LetIn(e.ssem, e.seq, ptcall, t, "send")
  BY <1>3 DEF Granted, LetIn, Blocked
<1>5. Granted(t, "recv") = LetIn(e.rsem, e.seq, ptcall, t, "recv")
  BY <1>3 DEF Granted, LetIn, Blocked
<1>6. in \in Nat /\ out \in Nat
  BY <1>4, <1>5, LetInFinite
<1>7. /\ e.ssem.count \in Int /\ Len(e.ssem.queue) \in Nat /\ e.rsem.count \in Int /\ Len(e.rsem.queue) \in Nat
      /\ Len(e.list) \in Nat /\ e.maxcnt \in Nat /\ (e.rsem.queue = <<>> <=> Len(e.rsem.queue) = 0)
  BY <1>2, LenProperties, EmptySeq DEF PortEntry
<1>8. /\ e.ssem.used => e.ssem.count + in + Len(e.ssem.queue) = e.maxcnt - Len(e.list)
      /\ e.rsem.used => e.rsem.count + out + Len(e.rsem.queue) = Len(e.list)
  BY <1>2, <1>4, <1>5 DEF SlotsSound, Balance
<1>9. /\ e.ssem.used => Len(e.ssem.queue) = IF e.ssem.count < 0 THEN 0 - e.ssem.count ELSE 0
      /\ e.rsem.used => Len(e.rsem.queue) = IF e.rsem.count < 0 THEN 0 - e.rsem.count ELSE 0
  BY <1>2, UsedIsSound DEF SemSound, CountIsQueue
<1>10. ptcount(t) = LET received == IF e.rsem.used THEN e.rsem.count ELSE -1
                        sending  == IF e.ssem.used THEN e.ssem.count ELSE -1
                    IN  IF received >= 0 /\ sending < 0 THEN received - sending ELSE received
  BY DEF ptcount
<1>11. \A p \in PortUser : Waits(e.ssem, p) \/ Waits(e.rsem, p) => ptcall[p].port = t /\ ptcall[p].seq = e.seq
  BY <1>2 DEF GateSound
<1> HIDE DEF in, out, e
<1>12. /\ e.ssem.used => e.ssem.count = e.maxcnt - Len(e.list) - in - Len(e.ssem.queue)
       /\ e.rsem.used => e.rsem.count = Len(e.list) - out - Len(e.rsem.queue)
  <2>1. e.ssem.used => e.ssem.count = e.maxcnt - Len(e.list) - in - Len(e.ssem.queue)
    BY <1>6, <1>7, <1>8, CountApart
  <2>2. e.rsem.used => e.rsem.count = Len(e.list) - out - Len(e.rsem.queue)
    <3> DEFINE l == Len(e.list)
               q == Len(e.rsem.queue)
    <3>1. e.rsem.used => SumIs(e.rsem.count, out, q, l)
      BY <1>8 DEF SumIs
    <3>2. out \in Int /\ e.rsem.count \in Int /\ q \in Int /\ l \in Int
      BY <1>6, <1>7
    <3> HIDE DEF l, q
    <3>3. e.rsem.used => e.rsem.count = l - out - q
      BY <3>1, <3>2, CountLeft
    <3> QED
      BY <3>3 DEF l, q
  <2> QED
    BY <2>1, <2>2
<1>13. ASSUME e.ssem.used, e.rsem.used, out = 0
       PROVE  ptcount(t) = Len(e.list) + (IF e.rsem.queue = <<>> THEN Len(e.ssem.queue) ELSE 0 - Len(e.rsem.queue))
  <2>1. ptcount(t) = CountOf(e.rsem.count, e.ssem.count)
    BY <1>10, <1>13 DEF CountOf
  <2>2. /\ Len(e.rsem.queue) = QueueOf(e.rsem.count) /\ Len(e.ssem.queue) = QueueOf(e.ssem.count)
        /\ SumIs(e.rsem.count, 0, Len(e.rsem.queue), Len(e.list))
    BY <1>8, <1>9, <1>13 DEF QueueOf, SumIs
  <2>3. CountOf(e.rsem.count, e.ssem.count) = IF Len(e.rsem.queue) = 0 THEN Len(e.list) + Len(e.ssem.queue)
                                              ELSE Len(e.list) + (0 - Len(e.rsem.queue))
    BY <1>7, <2>2, CountsTogether
  <2>4. e.rsem.queue = <<>> <=> Len(e.rsem.queue) = 0
    BY <1>7
  <2>5. CASE Len(e.rsem.queue) = 0
    BY <2>1, <2>3, <2>4, <2>5
  <2>6. CASE Len(e.rsem.queue) # 0
    BY <2>1, <2>3, <2>4, <2>6
  <2> QED
    BY <2>5, <2>6
<1> QED
  BY <1>11, <1>12, <1>13 DEF e, in, out

LEMMA InvMessages ==
    ASSUME PtInv
    PROVE  MessagesOfThisLife
<1> DEFINE lists == [t \in 0..NPORTS |-> IF t = NPORTS THEN ptfree
                                         ELSE IF porttab[t].state = "ALLOC" THEN porttab[t].list
                                         ELSE <<>>]
           places(n) == {x \in (0..NPORTS) \X (1..Cardinality(Node)) : x[2] <= Len(lists[x[1]]) /\ lists[x[1]][x[2]] = n}
<1>1. lists = ListsOf(porttab, ptfree) /\ Spread(ListsOf(porttab, ptfree))
  BY DEF ListsOf, ListOf, PtInv
<1> HIDE DEF lists
<1>2. Spread(lists)
  BY <1>1
<1>3. Cardinality(Node) \in Nat /\ IsFiniteSet(Node)
  BY PortsAssumption, FS_CardinalityType
<1>4. \A t \in 0..NPORTS : Len(lists[t]) \in Nat /\ Len(lists[t]) <= Cardinality(Node)
  <2> TAKE t \in 0..NPORTS
  <2>1. lists[t] \in Seq(Node) /\ Once(lists[t])
    BY <1>2 DEF Spread
  <2> DEFINE w == lists[t]
  <2>2. Len(w) \in Nat /\ w \in [1..Len(w) -> Node]
    BY <2>1, LenProperties
  <2>3. w \in Injection(1..Len(w), Node)
    BY <2>1, <2>2 DEF Injection, IsInjective, Once
  <2>4. Cardinality(1..Len(w)) <= Cardinality(Node)
    <3> DEFINE dom == 1..Len(w)
    <3>1. w \in Injection(dom, Node)
      BY <2>3
    <3> HIDE DEF dom, w
    <3>2. Cardinality(dom) <= Cardinality(Node)
      BY <1>3, <3>1, FS_Injection
    <3> QED
      BY <3>2 DEF dom
  <2>5. Cardinality(1..Len(w)) = Len(w)
    <3> HIDE DEF w
    <3>1. 1 \in Int /\ Len(w) \in Int /\ Len(w) >= 0
      BY <2>2
    <3>2. Cardinality(1..Len(w)) = IF 1 > Len(w) THEN 0 ELSE Len(w) - 1 + 1
      BY <3>1, FS_Interval
    <3> QED
      BY <3>1, <3>2
  <2> QED
    BY <2>2, <2>4, <2>5
<1>5. ASSUME NEW n \in Node
      PROVE  Cardinality(places(n)) = 1
  <2>1. PICK t \in 0..NPORTS : On(n, lists[t])
    BY <1>2 DEF Spread
  <2>2. PICK i \in 1..Len(lists[t]) : lists[t][i] = n
    BY <2>1 DEF On
  <2>3. i \in 1..Cardinality(Node) /\ i <= Len(lists[t])
    BY <1>3, <1>4, <2>2
  <2>4. <<t, i>> \in places(n)
    BY <2>2, <2>3
  <2>5. ASSUME NEW x \in places(n)
        PROVE  x = <<t, i>>
    <3>1. /\ x \in (0..NPORTS) \X (1..Cardinality(Node)) /\ x[2] <= Len(lists[x[1]]) /\ lists[x[1]][x[2]] = n
      BY <2>5
    <3>2. x[1] \in 0..NPORTS /\ x[2] \in 1..Cardinality(Node) /\ x = <<x[1], x[2]>>
      BY <3>1
    <3>3. x[2] \in 1..Len(lists[x[1]])
      BY <1>4, <3>1, <3>2
    <3>4. On(n, lists[x[1]])
      BY <3>1, <3>3 DEF On
    <3>5. x[1] = t
      BY <1>2, <2>1, <3>2, <3>4 DEF Spread
    <3>6. x[2] = i
      BY <1>2, <2>2, <3>1, <3>3, <3>5 DEF Spread, Once
    <3> QED
      BY <3>2, <3>5, <3>6
  <2> HIDE DEF places
  <2>6. places(n) = {<<t, i>>}
    BY <2>4, <2>5
  <2> QED
    BY <2>6, FS_Singleton
<1>6. \A t \in Port : porttab[t].state = "ALLOC" =>
         \A i \in 1..Len(porttab[t].list) : ptmsg[porttab[t].list[i]] = porttab[t].seq
  BY DEF PtInv, Lively
<1> QED
  BY <1>5, <1>6 DEF MessagesOfThisLife, lists

LEMMA NextPtInv ==
    ASSUME PtInv, [PtNext]_ptvars
    PROVE  PtInv'
<1>1. CASE PtNext
  <2>1. PICK p \in PortUser :
            \/ \E count \in Sizes, created \in Created : ptcreate(p, count, created)
            \/ \E t \in Port : ptsend(p, t) \/ ptrecv(p, t) \/ ptreset(p, t) \/ ptdelete(p, t)
            \/ gone(p) \/ ptsendLink(p) \/ ptrecvUnlink(p) \/ clearSecond(p) \/ clearEnd(p)
    BY <1>1 DEF PtNext
  <2>2. CASE \E count \in Sizes, created \in Created : ptcreate(p, count, created)
    BY <2>2, CreateKeeps
  <2>3. CASE \E t \in Port : ptsend(p, t) \/ ptrecv(p, t)
    BY <2>3, SendKeeps, RecvKeeps
  <2>4. CASE \E t \in Port : ptreset(p, t) \/ ptdelete(p, t)
    BY <2>4, ClearKeeps DEF ptreset, ptdelete
  <2>5. CASE gone(p)
    BY <2>5, GoneKeeps
  <2>6. CASE ptsendLink(p)
    BY <2>6, LinkKeeps
  <2>7. CASE ptrecvUnlink(p)
    BY <2>7, UnlinkKeeps
  <2>8. CASE clearSecond(p)
    BY <2>8, SecondKeeps
  <2>9. CASE clearEnd(p)
    BY <2>9, EndKeeps
  <2> QED
    BY <2>1, <2>2, <2>3, <2>4, <2>5, <2>6, <2>7, <2>8, <2>9
<1>2. CASE UNCHANGED ptvars
  BY <1>2 DEF ptvars, PtInv, PtTypes
<1> QED
  BY <1>1, <1>2

\* The semaphores of a port agree with its list and with the calls they let in, whoever
\* waits on a port waits in its present life, no node is lost or on two lists, and nothing
\* sent before a reset or to an earlier port is received (system/pt*.c).
THEOREM PortsAreExact == PtSpec => []PortsExact
<1>1. ptinit => PtInv
  BY InitPtInv
<1>2. PtInv /\ [PtNext]_ptvars => PtInv'
  BY NextPtInv
<1>3. PtInv => PortsExact
  BY InvSlots, InvMessages DEF PortsExact
<1> QED
  BY <1>1, <1>2, <1>3, PTL DEF PtSpec

----
\* Free lists.

Even == {k \in Nat : k % 2 = 0}
Block == [at : Even, len : Even \ {0}]
FreeOf(list) == UNION {Words(list[i].at, list[i].len) : i \in 1..Len(list)}

\* The blocks ascend, and no two of them touch.
Apart(list) == \A i, j \in 1..Len(list) : i < j => list[i].at + list[i].len < list[j].at

Sound(list) == list \in Seq(Block) /\ Apart(list)

LEMMA EvenIs ==
    /\ Even \subseteq Nat /\ 0 \in Even /\ HeapWords \in Even \ {0} /\ VHeapWords \in Even \ {0}
    /\ \A a, b \in Even : a + b \in Even /\ (b <= a => a - b \in Even)
    /\ \A n \in Nat \ {0} : roundmb(n) \in Even \ {0} /\ n <= roundmb(n)
<1>1. Even \subseteq Nat /\ 0 \in Even
  BY DEF Even
<1>2. HeapWords \in Even \ {0} /\ VHeapWords \in Even \ {0}
  BY MemoryAssumption DEF Even
<1>3. \A a, b \in Even : a + b \in Even /\ (b <= a => a - b \in Even)
  BY DEF Even
<1>4. \A n \in Nat \ {0} : roundmb(n) \in Even \ {0} /\ n <= roundmb(n)
  BY DEF Even, roundmb
<1> QED
  BY <1>1, <1>2, <1>3, <1>4

LEMMA EvenNat == \A k \in Even : k \in Nat /\ (k # 0 => k > 0)
BY DEF Even

LEMMA EvenSum == \A a, b \in Even : a + b \in Even
BY EvenIs

LEMMA EvenDifference == \A a, b \in Even : b <= a => a - b \in Even
BY EvenIs

LEMMA WordsIs == \A at, n \in Int : \A w : w \in Words(at, n) <=> w \in Int /\ at <= w /\ w < at + n
BY DEF Words

LEMMA BlockIs ==
    ASSUME NEW list, Sound(list)
    PROVE  /\ Len(list) \in Nat
           /\ \A i \in 1..Len(list) : /\ list[i].at \in Even /\ list[i].len \in Even /\ list[i].len # 0
                                      /\ list[i].at \in Nat /\ list[i].len \in Nat /\ list[i].len > 0
           /\ \A w : w \in FreeOf(list) <=>
                        w \in Int /\ \E i \in 1..Len(list) : list[i].at <= w /\ w < list[i].at + list[i].len
<1>1. Len(list) \in Nat /\ \A i \in 1..Len(list) : list[i] \in Block
  BY LenProperties, ElementOfSeq DEF Sound
<1>2. \A i \in 1..Len(list) : /\ list[i].at \in Even /\ list[i].len \in Even /\ list[i].len # 0
                              /\ list[i].at \in Nat /\ list[i].len \in Nat /\ list[i].len > 0
  <2>1. TAKE i \in 1..Len(list)
  <2>2. list[i].at \in Even /\ list[i].len \in Even \ {0}
    BY <1>1 DEF Block
  <2>3. list[i].at \in Nat /\ list[i].len \in Nat
    BY <2>2, EvenIs
  <2> QED
    BY <2>2, <2>3
<1>3. \A w : w \in FreeOf(list) <=> \E i \in 1..Len(list) : w \in Words(list[i].at, list[i].len)
  BY DEF FreeOf
<1>4. \A i \in 1..Len(list) : \A w : w \in Words(list[i].at, list[i].len) <=>
                                        w \in Int /\ list[i].at <= w /\ w < list[i].at + list[i].len
  BY <1>2, WordsIs
<1> QED
  BY <1>1, <1>2, <1>3, <1>4

\* r is list with the blocks a + 1 to b - 1 replaced by x, or taken out.
IsSpliced(r, list, a, x, b) ==
    /\ Len(r) = a + 1 + (Len(list) - b + 1)
    /\ \A k \in 1..a : r[k] = list[k]
    /\ r[a + 1] = x
    /\ \A k \in (a + 2)..Len(r) : r[k] = list[(k - (a + 2)) + b]

IsWithout(r, list, i) ==
    /\ Len(r) = Len(list) - 1
    /\ \A k \in 1..(i - 1) : r[k] = list[k]
    /\ \A k \in i..Len(r) : r[k] = list[k + 1]

JoinIs(r, s, t, S) ==
    /\ r \in Seq(S) /\ Len(s) \in Nat /\ Len(t) \in Nat /\ Len(r) = Len(s) + Len(t)
    /\ \A i \in 1..Len(s) : r[i] = s[i]
    /\ \A i \in (Len(s) + 1)..Len(r) : r[i] = t[i - Len(s)]

LEMMA JoinedIs ==
    ASSUME NEW S, NEW s \in Seq(S), NEW t \in Seq(S), NEW r, IsJoined(r, s, t)
    PROVE  JoinIs(r, s, t, S)
<1>1. /\ r \in Seq(S) /\ Len(r) = Len(s) + Len(t)
      /\ \A i \in 1..(Len(s) + Len(t)) : r[i] = IF i <= Len(s) THEN s[i] ELSE t[i - Len(s)]
  BY ConcatProperties DEF IsJoined
<1>2. Len(s) \in Nat /\ Len(t) \in Nat
  BY LenProperties
<1>3. \A i \in 1..Len(s) : r[i] = s[i]
  BY <1>1, <1>2
<1>4. \A i \in (Len(s) + 1)..Len(r) : r[i] = t[i - Len(s)]
  BY <1>1, <1>2
<1> QED
  BY <1>1, <1>2, <1>3, <1>4 DEF JoinIs

LEMMA Joined ==
    ASSUME NEW S, NEW s \in Seq(S), NEW t \in Seq(S), NEW r, IsJoined(r, s, t)
    PROVE  /\ r \in Seq(S) /\ Len(s) \in Nat /\ Len(t) \in Nat /\ Len(r) = Len(s) + Len(t)
           /\ \A i \in 1..Len(s) : r[i] = s[i]
           /\ \A i \in (Len(s) + 1)..Len(r) : r[i] = t[i - Len(s)]
BY JoinedIs DEF JoinIs

LEMMA Splice ==
    ASSUME NEW S, NEW list \in Seq(S), NEW a \in 0..Len(list), NEW b \in 1..(Len(list) + 1), NEW x \in S, a < b
    PROVE  LET r == SubSeq(list, 1, a) \o <<x>> \o SubSeq(list, b, Len(list))
           IN  r \in Seq(S) /\ IsSpliced(r, list, a, x, b)
<1> DEFINE s == SubSeq(list, 1, a)
           t == SubSeq(list, b, Len(list))
           r == s \o <<x>> \o t
<1>n. Len(list) \in Nat /\ a \in Nat /\ b \in Nat /\ a <= Len(list) /\ 1 <= b /\ b <= Len(list) + 1
  BY LenProperties
<1>e. \A i \in 1..Len(list) : list[i] \in S
  BY ElementOfSeq
<1>1. s \in Seq(S) /\ Len(s) = a /\ \A k \in 1..a : s[k] = list[k]
  BY <1>n, <1>e
<1>2. t \in Seq(S) /\ Len(t) = Len(list) - b + 1 /\ \A k \in 1..Len(t) : t[k] = list[k - 1 + b]
  BY <1>n, <1>e
<1> HIDE DEF s, t
<1>3. s \o <<x>> \in Seq(S) /\ Len(s \o <<x>>) = a + 1 /\ (s \o <<x>>)[a + 1] = x
      /\ \A k \in 1..a : (s \o <<x>>)[k] = s[k]
  BY <1>n, <1>1
<1> DEFINE u == s \o <<x>>
<1>4. r = u \o t
  OBVIOUS
<1>5. u \in Seq(S) /\ Len(u) = a + 1 /\ u[a + 1] = x /\ \A k \in 1..a : u[k] = list[k]
  BY <1>1, <1>3
<1> HIDE DEF u, r
<1>6. /\ r \in Seq(S) /\ Len(r) = (a + 1) + Len(t)
      /\ \A k \in 1..(a + 1) : r[k] = u[k]
      /\ \A k \in (a + 2)..Len(r) : r[k] = t[k - (a + 1)]
  <2>1. IsJoined(r, u, t) /\ u \in Seq(S) /\ t \in Seq(S)
    <3>1. IsJoined(r, u, t)
      BY <1>4 DEF IsJoined
    <3> QED
      BY <1>2, <1>5, <3>1
  <2>2. /\ r \in Seq(S) /\ Len(r) = Len(u) + Len(t)
        /\ \A k \in 1..Len(u) : r[k] = u[k]
        /\ \A k \in (Len(u) + 1)..Len(r) : r[k] = t[k - Len(u)]
    BY <2>1, Joined
  <2>3. (a + 1) + 1 = a + 2
    BY <1>n
  <2>4. Len(u) = a + 1
    BY <1>5
  <2> QED
    BY <2>2, <2>3, <2>4
<1>7. Len(t) \in Nat /\ Len(r) \in Nat
  BY <1>2, <1>6, LenProperties
<1>8. Len(r) = a + 1 + (Len(list) - b + 1)
  BY <1>n, <1>2, <1>6
<1>9. \A k \in 1..a : r[k] = list[k]
  BY <1>n, <1>5, <1>6
<1>10. r[a + 1] = x
  BY <1>n, <1>5, <1>6
<1>11. \A k \in (a + 2)..Len(r) : r[k] = list[(k - (a + 2)) + b]
  <2>1. TAKE k \in (a + 2)..Len(r)
  <2>2. k - (a + 1) \in 1..Len(t) /\ (k - (a + 1)) - 1 + b = (k - (a + 2)) + b
    BY <1>n, <1>6, <1>7
  <2> QED
    BY <1>2, <1>6, <2>2
<1> QED
  BY <1>6, <1>8, <1>9, <1>10, <1>11 DEF IsSpliced, r, u, s, t

LEMMA Without ==
    ASSUME NEW S, NEW list \in Seq(S), NEW i \in 1..Len(list)
    PROVE  LET r == SubSeq(list, 1, i - 1) \o SubSeq(list, i + 1, Len(list))
           IN  r \in Seq(S) /\ IsWithout(r, list, i)
<1> DEFINE s == SubSeq(list, 1, i - 1)
           t == SubSeq(list, i + 1, Len(list))
           r == s \o t
<1>n. Len(list) \in Nat /\ i \in Nat /\ i <= Len(list) /\ 1 <= i
  BY LenProperties
<1>e. \A k \in 1..Len(list) : list[k] \in S
  BY ElementOfSeq
<1>1. s \in Seq(S) /\ Len(s) = i - 1 /\ \A k \in 1..(i - 1) : s[k] = list[k]
  BY <1>n, <1>e
<1>2. t \in Seq(S) /\ Len(t) = Len(list) - i /\ \A k \in 1..Len(t) : t[k] = list[k + i]
  BY <1>n, <1>e
<1> HIDE DEF s, t
<1>3. /\ r \in Seq(S) /\ Len(r) = (i - 1) + Len(t)
      /\ \A k \in 1..(i - 1) : r[k] = s[k]
      /\ \A k \in i..Len(r) : r[k] = t[k - (i - 1)]
  <2>1. IsJoined(r, s, t) /\ s \in Seq(S) /\ t \in Seq(S) /\ Len(s) = i - 1
    BY <1>1, <1>2 DEF IsJoined
  <2> HIDE DEF r
  <2>2. /\ r \in Seq(S) /\ Len(s) \in Nat /\ Len(t) \in Nat /\ Len(r) = Len(s) + Len(t)
        /\ \A k \in 1..Len(s) : r[k] = s[k]
        /\ \A k \in (Len(s) + 1)..Len(r) : r[k] = t[k - Len(s)]
    <3>1. JoinIs(r, s, t, S)
      BY ONLY <2>1, JoinedIs
    <3> QED
      BY ONLY <3>1 DEF JoinIs
  <2>3. (i - 1) + 1 = i
    BY <1>n
  <2> QED
    BY <2>1, <2>2, <2>3
<1> HIDE DEF r
<1>4. Len(r) = Len(list) - 1
  BY <1>n, <1>2, <1>3
<1>5. \A k \in i..Len(r) : r[k] = list[k + 1]
  <2>1. TAKE k \in i..Len(r)
  <2>2. k - (i - 1) \in 1..Len(t) /\ (k - (i - 1)) + i = k + 1
    BY <1>n, <1>2, <1>4
  <2> QED
    BY <1>2, <1>3, <2>2
<1> QED
  BY <1>1, <1>3, <1>4, <1>5 DEF IsWithout, r, s, t

In(w, x) == w \in Int /\ x.at <= w /\ w < x.at + x.len

LEMMA InBlock ==
    ASSUME NEW x \in Block
    PROVE  /\ x.at \in Nat /\ x.len \in Nat /\ x.len > 0
           /\ \A w : w \in Words(x.at, x.len) <=> In(w, x)
<1>1. x.at \in Even /\ x.len \in Even \ {0}
  BY DEF Block
<1>2. x.at \in Nat /\ x.len \in Nat /\ x.len > 0
  BY <1>1, EvenNat
<1> QED
  BY <1>2, WordsIs DEF In

\* No word is in two blocks.
LEMMA OneBlock ==
    ASSUME NEW list, Sound(list)
    PROVE  \A w : \A j, k \in 1..Len(list) : In(w, list[j]) /\ In(w, list[k]) => j = k
<1>1. \A j, k \in 1..Len(list) : j < k => \A w : ~(In(w, list[j]) /\ In(w, list[k]))
  <2>1. TAKE j, k \in 1..Len(list)
  <2>2. HAVE j < k
  <2>3. list[j].at + list[j].len < list[k].at /\ list[j].at \in Nat /\ list[j].len \in Nat /\ list[k].at \in Nat
    BY <2>2, BlockIs DEF Sound, Apart
  <2> QED
    BY <2>3 DEF In
<1>2. Len(list) \in Nat
  BY BlockIs
<1> QED
  BY <1>1, <1>2

\* A list without one of its blocks.
LEMMA WithoutSound ==
    ASSUME NEW list, Sound(list), NEW i \in 1..Len(list), NEW r \in Seq(Block), IsWithout(r, list, i)
    PROVE  /\ Sound(r)
           /\ \A w : w \in FreeOf(r) <=> w \in FreeOf(list) /\ ~In(w, list[i])
<1>1. /\ Len(list) \in Nat
      /\ \A k \in 1..Len(list) : list[k].at \in Nat /\ list[k].len \in Nat /\ list[k].len > 0
  BY BlockIs
<1>2. \A j, k \in 1..Len(list) : j < k => list[j].at + list[j].len < list[k].at
  BY DEF Sound, Apart
<1>3. /\ Len(r) = Len(list) - 1
      /\ \A k \in 1..(i - 1) : r[k] = list[k]
      /\ \A k \in i..Len(r) : r[k] = list[k + 1]
  BY DEF IsWithout
<1> DEFINE old(k) == IF k < i THEN k ELSE k + 1
<1>4. \A k \in 1..Len(r) : old(k) \in 1..Len(list) /\ old(k) # i /\ r[k] = list[old(k)]
  BY <1>1, <1>3
<1>5. \A j, k \in 1..Len(r) : j < k => old(j) < old(k)
  BY <1>1, <1>3
<1>6. \A k \in 1..Len(list) : k # i => \E j \in 1..Len(r) : old(j) = k
  <2>1. TAKE k \in 1..Len(list)
  <2>2. HAVE k # i
  <2>3. CASE k < i
    <3>1. k \in 1..Len(r) /\ old(k) = k
      BY <1>1, <1>3, <2>3
    <3> QED
      BY <3>1
  <2>4. CASE i < k
    <3>1. k - 1 \in 1..Len(r) /\ ~(k - 1 < i) /\ (k - 1) + 1 = k
      BY <1>1, <1>3, <2>4
    <3> QED
      BY <3>1
  <2> QED
    BY <2>2, <2>3, <2>4
<1> HIDE DEF old
<1>7. Sound(r)
  BY <1>2, <1>4, <1>5 DEF Sound, Apart
<1>8. \A w : w \in FreeOf(r) <=> \E k \in 1..Len(r) : In(w, r[k])
  BY <1>7, BlockIs DEF In
<1>9. \A w : w \in FreeOf(list) <=> \E k \in 1..Len(list) : In(w, list[k])
  BY BlockIs DEF In
<1>10. \A w : \A k \in 1..Len(list) : In(w, list[k]) /\ In(w, list[i]) => k = i
  BY OneBlock
<1> QED
  BY <1>4, <1>6, <1>7, <1>8, <1>9, <1>10

\* A list with one of its blocks made smaller.
LEMMA ShrunkSound ==
    ASSUME NEW list, Sound(list), NEW i \in 1..Len(list), NEW x \in Block,
           list[i].at <= x.at, x.at + x.len <= list[i].at + list[i].len
    PROVE  LET r == [list EXCEPT ![i] = x]
           IN  /\ Sound(r)
               /\ \A w : w \in FreeOf(r) <=> (w \in FreeOf(list) /\ ~In(w, list[i])) \/ In(w, x)
<1> DEFINE r == [list EXCEPT ![i] = x]
<1>1. /\ Len(list) \in Nat /\ list \in Seq(Block)
      /\ \A k \in 1..Len(list) : list[k].at \in Nat /\ list[k].len \in Nat /\ list[k].len > 0
  BY BlockIs DEF Sound
<1>2. \A j, k \in 1..Len(list) : j < k => list[j].at + list[j].len < list[k].at
  BY DEF Sound, Apart
<1>3. x.at \in Nat /\ x.len \in Nat /\ x.len > 0
  BY InBlock
<1>4. r \in Seq(Block) /\ Len(r) = Len(list) /\ r[i] = x /\ \A k \in 1..Len(list) : k # i => r[k] = list[k]
  BY <1>1
<1> HIDE DEF r
<1>5. Sound(r)
  <2>1. \A j, k \in 1..Len(r) : j < k => r[j].at + r[j].len < r[k].at
    <3>1. TAKE j, k \in 1..Len(r)
    <3>2. HAVE j < k
    <3>3. list[j].at + list[j].len < list[k].at /\ list[j].at \in Nat /\ list[j].len \in Nat /\ list[k].at \in Nat
      BY <1>1, <1>2, <1>4, <3>2
    <3>0. /\ j \in 1..Len(list) /\ k \in 1..Len(list)
          /\ (j = i => r[j] = x) /\ (k = i => r[k] = x) /\ (j # i => r[j] = list[j]) /\ (k # i => r[k] = list[k])
      BY <1>4
    <3>4. CASE j = i
      <4>1. r[j] = x /\ r[k] = list[k] /\ x.at + x.len <= list[j].at + list[j].len
        BY <3>0, <3>2, <3>4
      <4>2. x.at + x.len < list[k].at
        <5> DEFINE u == x.at + x.len
                   v == list[j].at + list[j].len
                   w == list[k].at
        <5>1. u \in Nat
          BY ONLY <1>3
        <5>3. v \in Nat /\ w \in Nat /\ v < w
          BY ONLY <3>3
        <5>4. u <= v
          BY ONLY <4>1
        <5> HIDE DEF u, v, w
        <5>2. u < w
          BY ONLY <5>1, <5>3, <5>4
        <5> QED
          BY ONLY <5>2 DEF u, w
      <4> QED
        BY <4>1, <4>2
    <3>5. CASE k = i
      <4>1. r[k] = x /\ r[j] = list[j] /\ list[k].at <= x.at
        BY <3>0, <3>2, <3>5
      <4>2. list[j].at + list[j].len < x.at
        <5> DEFINE u == list[j].at + list[j].len
                   v == list[k].at
                   w == x.at
        <5>1. w \in Nat
          BY ONLY <1>3
        <5>3. u \in Nat /\ v \in Nat /\ u < v
          BY ONLY <3>3
        <5>4. v <= w
          BY ONLY <4>1
        <5> HIDE DEF u, v, w
        <5>2. u < w
          BY ONLY <5>1, <5>3, <5>4
        <5> QED
          BY ONLY <5>2 DEF u, w
      <4> QED
        BY <4>1, <4>2
    <3>6. CASE j # i /\ k # i
      BY <3>0, <3>3, <3>6
    <3> QED
      BY <3>4, <3>5, <3>6
  <2> QED
    BY <1>4, <2>1 DEF Sound, Apart
<1>6. \A w : w \in FreeOf(r) <=> \E k \in 1..Len(r) : In(w, r[k])
  BY <1>5, BlockIs DEF In
<1>7. \A w : w \in FreeOf(list) <=> \E k \in 1..Len(list) : In(w, list[k])
  BY BlockIs DEF In
<1>8. \A w : \A k \in 1..Len(list) : In(w, list[k]) /\ In(w, list[i]) => k = i
  BY OneBlock
<1>9. \A w : w \in FreeOf(r) <=> (w \in FreeOf(list) /\ ~In(w, list[i])) \/ In(w, x)
  BY <1>4, <1>6, <1>7, <1>8
<1> QED
  BY <1>5, <1>9 DEF r

\* r is list with n words fewer in its i-th block, which begins at a then.
IsCut(r, list, i, n, a) ==
    r = IF list[i].len = n THEN SubSeq(list, 1, i - 1) \o SubSeq(list, i + 1, Len(list))
        ELSE [list EXCEPT ![i] = [at |-> a, len |-> list[i].len - n]]

AtEdge(at, a, list, i, n) ==
    \/ at = list[i].at /\ a = at + n
    \/ at = list[i].at + (list[i].len - n) /\ a = list[i].at

\* What is taken from a block: at the bottom, or at the top.
LEMMA CutIs ==
    ASSUME NEW list, Sound(list), NEW i \in 1..Len(list), NEW n \in Even \ {0}, n <= list[i].len,
           NEW at, NEW a, AtEdge(at, a, list, i, n),
           NEW r, IsCut(r, list, i, n, a)
    PROVE  /\ Sound(r) /\ at \in Even /\ Words(at, n) \subseteq FreeOf(list)
           /\ FreeOf(r) = FreeOf(list) \ Words(at, n)
<1>1. /\ Len(list) \in Nat /\ list \in Seq(Block) /\ list[i] \in Block
      /\ list[i].at \in Even /\ list[i].len \in Even
      /\ list[i].at \in Nat /\ list[i].len \in Nat /\ list[i].len > 0
  BY BlockIs, ElementOfSeq DEF Sound
<1>2. n \in Nat /\ n > 0
  BY EvenNat
<1>3. /\ list[i].at + list[i].len \in Even /\ list[i].at + (list[i].len - n) \in Even
      /\ list[i].at + n \in Even /\ list[i].len - n \in Even
  <2>1. list[i].at + list[i].len \in Even /\ list[i].at + n \in Even /\ list[i].len - n \in Even
    BY <1>1, EvenSum, EvenDifference
  <2> QED
    BY <1>1, <2>1, EvenSum
<1>4. at \in Even /\ a \in Even
  <2>1. CASE at = list[i].at /\ a = at + n
    BY <1>1, <1>3, <2>1
  <2>2. CASE at = list[i].at + (list[i].len - n) /\ a = list[i].at
    BY <1>1, <1>3, <2>2, Zenon
  <2> QED
    BY <2>1, <2>2 DEF AtEdge
<1>5. at \in Nat /\ a \in Nat
  BY <1>4, EvenNat
<1>6. \A w : w \in Words(at, n) <=> w \in Int /\ at <= w /\ w < at + n
  BY <1>2, <1>5, WordsIs
<1>7. \A w : w \in Words(at, n) => In(w, list[i])
  BY <1>1, <1>2, <1>5, <1>6 DEF In, AtEdge
<1>8. \A w : In(w, list[i]) => w \in FreeOf(list)
  BY BlockIs DEF In
<1>9. CASE list[i].len = n
  <2>1. r \in Seq(Block) /\ IsWithout(r, list, i)
    <3>1. r = SubSeq(list, 1, i - 1) \o SubSeq(list, i + 1, Len(list))
      BY <1>9 DEF IsCut
    <3> QED
      BY <1>1, <3>1, Without, Zenon
  <2>2. Sound(r) /\ \A w : w \in FreeOf(r) <=> w \in FreeOf(list) /\ ~In(w, list[i])
    BY <2>1, WithoutSound
  <2>3. \A w : In(w, list[i]) => w \in Words(at, n)
    BY <1>1, <1>2, <1>5, <1>6, <1>9 DEF In, AtEdge
  <2>4. FreeOf(r) = FreeOf(list) \ Words(at, n)
    BY <1>7, <2>2, <2>3
  <2> QED
    BY <1>4, <1>7, <1>8, <2>2, <2>4
<1>10. CASE list[i].len # n
  <2> DEFINE x == [at |-> a, len |-> list[i].len - n]
  <2>1. x \in Block /\ x.at = a /\ x.len = list[i].len - n
    <3>1. list[i].len - n \in Even \ {0}
      BY <1>1, <1>2, <1>3, <1>10
    <3> QED
      BY <1>4, <3>1 DEF Block
  <2> DEFINE e == [list EXCEPT ![i] = x]
  <2>2. r = e
    BY <1>10 DEF IsCut
  <2>3. list[i].at <= x.at /\ x.at + x.len <= list[i].at + list[i].len
    BY <1>1, <1>2, <1>5, <1>10, <2>1 DEF AtEdge
  <2>4. Sound(e) /\ \A w : w \in FreeOf(e) <=> (w \in FreeOf(list) /\ ~In(w, list[i])) \/ In(w, x)
    <3> HIDE DEF x
    <3> QED
      BY <2>1, <2>3, ShrunkSound
  <2> HIDE DEF x, e
  <2>5. \A w : In(w, x) <=> In(w, list[i]) /\ w \notin Words(at, n)
    <3> DEFINE f == list[i].at
               l == list[i].len
    <3>0. /\ \A w : In(w, x) <=> w \in Int /\ a <= w /\ w < a + (l - n)
          /\ \A w : In(w, list[i]) <=> w \in Int /\ f <= w /\ w < f + l
      BY <2>1 DEF In
    <3>3. f \in Nat /\ l \in Nat /\ n \in Nat /\ at \in Nat /\ a \in Nat
      BY <1>1, <1>2, <1>5
    <3>4. (at = f /\ a = at + n) \/ (at = f + (l - n) /\ a = f)
      BY DEF AtEdge
    <3> HIDE DEF f, l
    <3>1. CASE at = f /\ a = at + n
      BY ONLY <1>6, <3>0, <3>1, <3>3
    <3>2. CASE at = f + (l - n) /\ a = f
      BY ONLY <1>6, <3>0, <3>2, <3>3
    <3> QED
      BY <3>1, <3>2, <3>4
  <2>6. FreeOf(r) = FreeOf(list) \ Words(at, n)
    BY <1>7, <1>8, <2>2, <2>4, <2>5
  <2> QED
    BY <1>4, <1>7, <1>8, <2>2, <2>4, <2>6
<1> QED
  BY <1>9, <1>10

LEMMA CutBottom ==
    ASSUME NEW list, Sound(list), NEW i \in 1..Len(list), NEW n \in Even \ {0}, n <= list[i].len
    PROVE  /\ Sound(Cut(list, i, n, TRUE)) /\ list[i].at \in Even
           /\ Words(list[i].at, n) \subseteq FreeOf(list)
           /\ FreeOf(Cut(list, i, n, TRUE)) = FreeOf(list) \ Words(list[i].at, n)
<1> DEFINE r == Cut(list, i, n, TRUE)
           at == list[i].at
           a == list[i].at + n
<1>1. IsCut(r, list, i, n, a)
  <2>1. i \in DOMAIN list
    BY DEF Sound
  <2> QED
    BY <2>1 DEF Cut, IsCut
<1>2. AtEdge(at, a, list, i, n)
  BY DEF AtEdge
<1> HIDE DEF r, at, a
<1>3. /\ Sound(r) /\ at \in Even /\ Words(at, n) \subseteq FreeOf(list)
      /\ FreeOf(r) = FreeOf(list) \ Words(at, n)
  BY <1>1, <1>2, CutIs
<1> QED
  BY <1>3 DEF r, at

LEMMA CutTop ==
    ASSUME NEW list, Sound(list), NEW i \in 1..Len(list), NEW n \in Even \ {0}, n <= list[i].len
    PROVE  LET at == list[i].at + (list[i].len - n)
           IN  /\ Sound(Cut(list, i, n, FALSE)) /\ at \in Even
               /\ Words(at, n) \subseteq FreeOf(list)
               /\ FreeOf(Cut(list, i, n, FALSE)) = FreeOf(list) \ Words(at, n)
<1> DEFINE r == Cut(list, i, n, FALSE)
           at == list[i].at + (list[i].len - n)
           a == list[i].at
<1>1. IsCut(r, list, i, n, a)
  <2>1. i \in DOMAIN list
    BY DEF Sound
  <2> QED
    BY <2>1 DEF Cut, IsCut
<1>2. AtEdge(at, a, list, i, n)
  BY DEF AtEdge
<1> HIDE DEF r, at, a
<1>3. /\ Sound(r) /\ at \in Even /\ Words(at, n) \subseteq FreeOf(list)
      /\ FreeOf(r) = FreeOf(list) \ Words(at, n)
  BY <1>1, <1>2, CutIs
<1> QED
  BY <1>3 DEF r, at

\* The blocks below an address are the first ones of the list, as many as there are.
LEMMA BelowIs ==
    ASSUME NEW list, Sound(list), NEW at \in Nat
    PROVE  LET i == Cardinality({k \in 1..Len(list) : list[k].at < at})
           IN  /\ i \in 0..Len(list)
               /\ \A k \in 1..Len(list) : list[k].at < at <=> k <= i
<1> DEFINE N == Len(list)
           S == {k \in 1..N : list[k].at < at}
           T == {k \in 1..(N + 1) : k \notin S}
<1>1. N \in Nat /\ \A k \in 1..N : list[k].at \in Nat /\ list[k].len \in Nat
  BY BlockIs
<1>2. \A j, k \in 1..N : j < k /\ k \in S => j \in S
  <2>1. TAKE j, k \in 1..N
  <2>2. HAVE j < k /\ k \in S
  <2>3. list[j].at + list[j].len < list[k].at /\ list[k].at < at
    BY <2>2 DEF Sound, Apart
  <2>4. list[j].at < at
    BY <1>1, <2>3
  <2> QED
    BY <2>4
<1>3. \E m \in T : \A k \in T : m <= k
  <2>1. T \in SUBSET Nat /\ N + 1 \in T
    BY <1>1
  <2> HIDE DEF T
  <2> QED
    BY <2>1, LeastNatural
<1>4. PICK m \in T : \A k \in T : m <= k
  BY <1>3
<1>5. m \in 1..(N + 1) /\ m \notin S /\ \A k \in 1..N : k < m => k \in S
  BY <1>1, <1>4
<1>6. S = 1..(m - 1)
  <2>1. ASSUME NEW k \in S PROVE k \in 1..(m - 1)
    <3>1. k \in 1..N
      OBVIOUS
    <3>2. ~(m <= k)
      <4>1. m <= k => m \in 1..N /\ (m = k \/ m < k)
        BY <1>1, <1>5, <3>1
      <4> HIDE DEF S
      <4> QED
        BY <1>2, <1>5, <2>1, <3>1, <4>1
    <3> QED
      BY <1>1, <1>5, <3>1, <3>2
  <2>2. ASSUME NEW k \in 1..(m - 1) PROVE k \in S
    BY <1>1, <1>5, <2>2
  <2> HIDE DEF S
  <2> QED
    BY <2>1, <2>2
<1>7. Cardinality(1..(m - 1)) = m - 1
  BY <1>1, <1>5, FS_Interval
<1>8. Cardinality(S) = m - 1
  BY <1>6, <1>7, Zenon
<1>9. m - 1 \in 0..N /\ \A k \in 1..N : k \in S <=> k <= m - 1
  <2>1. m \in Nat /\ 1 <= m /\ m <= N + 1
    BY <1>1, <1>5
  <2> HIDE DEF S
  <2> QED
    BY <1>1, <1>6, <2>1
<1>10. \A k \in 1..N : list[k].at < at <=> k \in S
  OBVIOUS
<1> HIDE DEF S, N
<1>11. Cardinality(S) \in 0..N /\ \A k \in 1..N : list[k].at < at <=> k <= Cardinality(S)
  BY <1>8, <1>9, <1>10
<1> QED
  BY <1>11 DEF S, N

\* A list with x in place of the blocks a + 1 to b - 1.
LEMMA SplicedSound ==
    ASSUME NEW list, Sound(list), NEW a \in 0..Len(list), NEW b \in 1..(Len(list) + 1), a < b, NEW x \in Block,
           \A k \in 1..a : list[k].at + list[k].len < x.at,
           \A k \in b..Len(list) : x.at + x.len < list[k].at,
           NEW r \in Seq(Block), IsSpliced(r, list, a, x, b)
    PROVE  /\ Sound(r)
           /\ \A w : w \in FreeOf(r) <=> In(w, x) \/ \E k \in 1..Len(list) : (k <= a \/ b <= k) /\ In(w, list[k])
<1>n. Len(list) \in Nat /\ a \in Nat /\ b \in Nat /\ a <= Len(list) /\ 1 <= b /\ b <= Len(list) + 1 /\ a < b
  BY BlockIs
<1>1. \A k \in 1..Len(list) : list[k].at \in Nat /\ list[k].len \in Nat /\ list[k].len > 0
  BY BlockIs
<1>2. \A j, k \in 1..Len(list) : j < k => list[j].at + list[j].len < list[k].at
  BY DEF Sound, Apart
<1>3. /\ Len(r) = a + 1 + (Len(list) - b + 1)
      /\ \A k \in 1..a : r[k] = list[k]
      /\ r[a + 1] = x
      /\ \A k \in (a + 2)..Len(r) : r[k] = list[(k - (a + 2)) + b]
  BY DEF IsSpliced
<1> DEFINE old(k) == IF k <= a THEN k ELSE (k - (a + 2)) + b
<1>4. \A k \in 1..Len(r) : k # a + 1 =>
        /\ old(k) \in 1..Len(list) /\ (old(k) <= a \/ b <= old(k)) /\ r[k] = list[old(k)]
        /\ (k < a + 1 <=> old(k) <= a) /\ (a + 1 < k <=> b <= old(k))
  <2>1. TAKE k \in 1..Len(r)
  <2>2. HAVE k # a + 1
  <2>3. k \in Int /\ 1 <= k /\ k <= a + 1 + (Len(list) - b + 1)
    BY <1>n, <1>3, <2>1
  <2>4. CASE k <= a
    <3>1. old(k) = k /\ r[k] = list[k]
      BY <1>3, <2>3, <2>4
    <3> QED
      BY <1>n, <2>3, <2>4, <3>1
  <2>5. CASE ~(k <= a)
    <3>1. k \in (a + 2)..Len(r)
      BY <1>n, <1>3, <2>1, <2>2, <2>3, <2>5
    <3>2. old(k) = (k - (a + 2)) + b /\ r[k] = list[(k - (a + 2)) + b]
      BY <1>3, <2>5, <3>1
    <3>3. /\ (k - (a + 2)) + b \in 1..Len(list) /\ b <= (k - (a + 2)) + b /\ a + 1 < k
      <4>1. \A u, v, l, j \in Int : u + 2 <= j /\ j <= u + 1 + (l - v + 1)
              => v <= (j - (u + 2)) + v /\ (j - (u + 2)) + v <= l
        OBVIOUS
      <4>2. a \in Int /\ b \in Int /\ Len(list) \in Int /\ 1 <= b
        BY <1>n
      <4>3. a + 2 <= k
        BY <2>2, <2>3, <2>5, <4>2
      <4>4. b <= (k - (a + 2)) + b /\ (k - (a + 2)) + b <= Len(list)
        BY ONLY <2>3, <4>1, <4>2, <4>3
      <4> QED
        BY ONLY <2>3, <4>2, <4>3, <4>4
    <3>4. a \in Int /\ b \in Int /\ a < b
      BY <1>n
    <3> HIDE DEF old
    <3>5. old(k) \in 1..Len(list) /\ old(k) \in Int /\ b <= old(k) /\ a + 1 < k /\ r[k] = list[old(k)]
      BY <3>2, <3>3
    <3>6. ~(k < a + 1) /\ ~(old(k) <= a)
      BY <2>3, <3>4, <3>5
    <3> QED
      BY <2>5, <3>5, <3>6
  <2> QED
    BY <2>4, <2>5
<1>5. \A j, k \in 1..Len(r) : j # a + 1 /\ k # a + 1 /\ j < k => old(j) < old(k)
  BY <1>n, <1>3
<1>6. \A k \in 1..Len(list) : k <= a \/ b <= k => \E j \in 1..Len(r) : j # a + 1 /\ old(j) = k
  <2>1. TAKE k \in 1..Len(list)
  <2>2. HAVE k <= a \/ b <= k
  <2>3. CASE k <= a
    <3>1. k \in 1..Len(r) /\ old(k) = k /\ k # a + 1
      BY <1>n, <1>3, <2>3
    <3> QED
      BY <3>1
  <2>4. CASE b <= k
    <3> DEFINE j == (k - b) + (a + 2)
    <3>1. j \in 1..Len(r) /\ j # a + 1 /\ old(j) = k
      BY <1>n, <1>3, <2>4
    <3> QED
      BY <3>1
  <2> QED
    BY <2>2, <2>3, <2>4
<1>7. a + 1 \in 1..Len(r) /\ Len(r) \in Nat
  BY <1>n, <1>3
<1> HIDE DEF old
<1>8. Sound(r)
  <2>1. \A j, k \in 1..Len(r) : j < k => r[j].at + r[j].len < r[k].at
    <3>1. TAKE j, k \in 1..Len(r)
    <3>2. HAVE j < k
    <3>3. CASE j = a + 1
      <4>1. k # a + 1 /\ a + 1 < k
        BY <3>2, <3>3, <1>n
      <4>2. r[k] = list[old(k)] /\ old(k) \in b..Len(list)
        BY <1>n, <1>4, <4>1
      <4> QED
        BY <1>3, <3>3, <4>2
    <3>4. CASE k = a + 1
      <4>1. j # a + 1 /\ j < a + 1
        BY <3>2, <3>4, <1>n
      <4>2. r[j] = list[old(j)] /\ old(j) \in 1..a
        BY <1>n, <1>4, <4>1
      <4> QED
        BY <1>3, <3>4, <4>2
    <3>5. CASE j # a + 1 /\ k # a + 1
      <4>1. old(j) < old(k) /\ r[j] = list[old(j)] /\ r[k] = list[old(k)] /\ old(j) \in 1..Len(list) /\ old(k) \in 1..Len(list)
        BY <1>4, <1>5, <3>2, <3>5
      <4> QED
        BY <1>2, <4>1
    <3> QED
      BY <3>3, <3>4, <3>5
  <2> QED
    BY <2>1 DEF Sound, Apart
<1>9. \A w : w \in FreeOf(r) <=> \E k \in 1..Len(r) : In(w, r[k])
  BY <1>8, BlockIs DEF In
<1>10. \A w : (\E k \in 1..Len(r) : In(w, r[k])) <=>
                In(w, x) \/ \E k \in 1..Len(list) : (k <= a \/ b <= k) /\ In(w, list[k])
  BY <1>3, <1>4, <1>6, <1>7
<1> QED
  BY <1>8, <1>9, <1>10

\* A block that is put back into a list that has none of its words.
LEMMA ReturnedIs ==
    ASSUME NEW list, Sound(list), NEW at \in Even, NEW n \in Even \ {0}, Words(at, n) \cap FreeOf(list) = {}
    PROVE  /\ Sound(Returned(list, at, n))
           /\ FreeOf(Returned(list, at, n)) = FreeOf(list) \cup Words(at, n)
<1> DEFINE N == Len(list)
           i == Cardinality({k \in 1..Len(list) : list[k].at < at})
           below == i > 0 /\ list[i].at + list[i].len = at
           above == i < Len(list) /\ at + n = list[i + 1].at
           x == [at  |-> IF below THEN list[i].at ELSE at,
                 len |-> (IF below THEN list[i].len ELSE 0) + n + (IF above THEN list[i + 1].len ELSE 0)]
           a == IF below THEN i - 1 ELSE i
           b == IF above THEN i + 2 ELSE i + 1
           r == SubSeq(list, 1, a) \o <<x>> \o SubSeq(list, b, Len(list))
<1>1. Returned(list, at, n) = r
  BY DEF Returned
<1>2. at \in Nat /\ n \in Nat /\ n > 0 /\ n \in Even
  BY EvenNat
<1>3. /\ N \in Nat
      /\ \A k \in 1..N : /\ list[k].at \in Even /\ list[k].len \in Even
                         /\ list[k].at \in Nat /\ list[k].len \in Nat /\ list[k].len > 0
  BY BlockIs
<1>4. i \in 0..N /\ \A k \in 1..N : list[k].at < at <=> k <= i
  BY <1>2, BelowIs
<1> HIDE DEF i
<1>5. i \in Int /\ 0 <= i /\ i <= N
  BY <1>4
<1>6. \A k \in 1..N : \A w : In(w, list[k]) => ~(w \in Int /\ at <= w /\ w < at + n)
  <2>1. \A w : w \in Words(at, n) <=> w \in Int /\ at <= w /\ w < at + n
    BY <1>2, WordsIs
  <2>2. \A k \in 1..N : \A w : In(w, list[k]) => w \in FreeOf(list)
    BY BlockIs DEF In
  <2> QED
    BY <2>1, <2>2
<1>7. \A k \in 1..N : k <= i => list[k].at + list[k].len <= at
  <2>1. TAKE k \in 1..N
  <2>2. HAVE k <= i
  <2>3. at \in Int /\ at <= at /\ at < at + n
    BY <1>2
  <2>4. ~In(at, list[k])
    BY <1>6, <2>3
  <2> QED
    BY <1>2, <1>3, <1>4, <2>2, <2>4 DEF In
<1>8. \A k \in 1..N : i < k => at + n <= list[k].at
  <2>1. TAKE k \in 1..N
  <2>2. HAVE i < k
  <2>3. at <= list[k].at
    BY <1>2, <1>3, <1>4, <1>5, <2>2
  <2>4. In(list[k].at, list[k])
    BY <1>3 DEF In
  <2> QED
    BY <1>2, <1>3, <1>6, <2>3, <2>4
<1>9. \A j, k \in 1..N : j < k => list[j].at + list[j].len < list[k].at
  BY DEF Sound, Apart
<1>10. below => i \in 1..N /\ list[i].at + list[i].len = at
  BY <1>5
<1>11. above => i + 1 \in 1..N /\ at + n = list[i + 1].at
  BY <1>5
<1>12. below \/ at \notin {list[k].at + list[k].len : k \in 1..i}
  <2>1. SUFFICES ASSUME NEW k \in 1..i, list[k].at + list[k].len = at PROVE below
    OBVIOUS
  <2>2. k \in 1..N /\ k <= i /\ i \in 1..N
    BY <1>5
  <2>3. k = i
    <3>1. k < i => list[k].at + list[k].len < list[i].at /\ list[i].at < at
      BY <1>4, <1>9, <2>2
    <3> QED
      BY <1>2, <1>3, <2>1, <2>2, <3>1
  <2> QED
    BY <2>1, <2>2, <2>3
<1>13. above \/ at + n \notin {list[k].at : k \in (i + 1)..N}
  <2>1. SUFFICES ASSUME NEW k \in (i + 1)..N, list[k].at = at + n PROVE above
    OBVIOUS
  <2>2. k \in 1..N /\ i < k /\ i + 1 \in 1..N
    BY <1>5
  <2>3. k = i + 1
    <3>1. i + 1 < k => list[i + 1].at + list[i + 1].len < list[k].at /\ at + n <= list[i + 1].at
      BY <1>5, <1>8, <1>9, <2>2
    <3> QED
      BY <1>2, <1>3, <2>1, <2>2, <3>1
  <2> QED
    BY <1>5, <2>1, <2>2, <2>3
<1>14. /\ a \in 0..N /\ b \in 1..(N + 1) /\ a < b /\ a <= i /\ i + 1 <= b /\ a \in Int /\ b \in Int
       /\ below => a = i - 1
       /\ ~below => a = i
       /\ above => b = i + 2
       /\ ~above => b = i + 1
  BY <1>3, <1>5, <1>10, <1>11
<1>15. /\ x.at = IF below THEN list[i].at ELSE at
       /\ x.len = (IF below THEN list[i].len ELSE 0) + n + (IF above THEN list[i + 1].len ELSE 0)
  OBVIOUS
<1>16. x \in Block
  <2>1. x.at \in Even
    BY <1>3, <1>10, <1>15
  <2>2. /\ (IF below THEN list[i].len ELSE 0) \in Even
        /\ (IF above THEN list[i + 1].len ELSE 0) \in Even
    BY <1>3, <1>10, <1>11, EvenIs
  <2>3. (IF below THEN list[i].len ELSE 0) + n \in Even
    BY <1>2, <2>2, EvenSum
  <2>4. x.len \in Even
    BY <1>15, <2>2, <2>3, EvenSum
  <2>5. x.len # 0
    <3>1. \A u, v \in Nat : u + n + v # 0
      BY <1>2
    <3> QED
      BY <1>15, <2>2, <3>1, EvenNat
  <2> HIDE DEF below, above
  <2> QED
    BY <2>1, <2>4, <2>5 DEF Block
<1> HIDE DEF x, a, b, r, below, above
<1>17. x.at \in Nat /\ x.len \in Nat
  BY <1>16, InBlock
<1>18. /\ below => x.at = list[i].at
       /\ ~below => x.at = at
       /\ above => x.at + x.len = list[i + 1].at + list[i + 1].len
       /\ ~above => x.at + x.len = at + n
  <2>1. below => x.at = list[i].at /\ list[i].at \in Nat /\ list[i].len \in Nat
    BY <1>3, <1>10, <1>15
  <2>2. ~below => x.at = at
    BY <1>15
  <2>3. above => list[i + 1].len \in Nat /\ list[i + 1].at \in Nat
    BY <1>3, <1>11
  <2>4. CASE below /\ above
    <3>1. x.len = list[i].len + n + list[i + 1].len
      BY <1>15, <2>4
    <3> QED
      <4>1. \A a0, l0, a1, l1 \in Nat : a0 + l0 = at /\ a1 = at + n => a0 + (l0 + n + l1) = a1 + l1
        BY <1>2
      <4>2. list[i].at + list[i].len = at /\ list[i + 1].at = at + n
        BY <1>10, <1>11, <2>4
      <4> QED
        BY <2>1, <2>3, <2>4, <3>1, <4>1, <4>2
  <2>5. CASE below /\ ~above
    <3>1. x.len = list[i].len + n + 0
      BY <1>15, <2>5
    <3> QED
      BY <1>2, <1>10, <2>1, <2>2, <2>5, <3>1
  <2>6. CASE ~below /\ above
    <3>1. x.len = 0 + n + list[i + 1].len
      BY <1>15, <2>6
    <3> QED
      BY <1>2, <1>11, <2>1, <2>2, <2>3, <2>6, <3>1
  <2>7. CASE ~below /\ ~above
    <3>1. x.len = 0 + n + 0
      BY <1>15, <2>7
    <3> QED
      BY <1>2, <2>1, <2>2, <2>7, <3>1
  <2> QED
    BY <2>4, <2>5, <2>6, <2>7
<1>19. \A k \in 1..a : list[k].at + list[k].len < x.at
  <2>1. TAKE k \in 1..a
  <2>2. k \in 1..N /\ k <= i
    BY <1>3, <1>5, <1>14
  <2>3. CASE below
    BY <1>5, <1>9, <1>10, <1>14, <1>18, <2>2, <2>3
  <2>4. CASE ~below
    <3>1. list[k].at + list[k].len <= at /\ list[k].at + list[k].len # at
      BY <1>5, <1>7, <1>12, <2>2, <2>4
    <3>2. x.at = at /\ list[k].at \in Nat /\ list[k].len \in Nat
      BY <1>3, <1>18, <2>2, <2>4
    <3>3. at \in Nat
      BY <1>2
    <3> QED
      BY ONLY <3>1, <3>2, <3>3
  <2> QED
    BY <2>3, <2>4
<1>20. \A k \in b..N : x.at + x.len < list[k].at
  <2>1. TAKE k \in b..N
  <2>2. k \in 1..N /\ i < k
    BY <1>3, <1>5, <1>14
  <2>3. CASE above
    BY <1>5, <1>9, <1>11, <1>14, <1>18, <2>2, <2>3
  <2>4. CASE ~above
    <3>1. at + n <= list[k].at /\ list[k].at # at + n
      BY <1>5, <1>8, <1>13, <2>2, <2>4
    <3>2. x.at + x.len = at + n /\ list[k].at \in Nat
      BY <1>3, <1>18, <2>2, <2>4
    <3> QED
      BY <1>2, <1>17, <3>1, <3>2
  <2> QED
    BY <2>3, <2>4
<1>21. r \in Seq(Block) /\ IsSpliced(r, list, a, x, b)
  BY <1>14, <1>16, Splice DEF Sound, r, N
<1>22. /\ Sound(r)
       /\ \A w : w \in FreeOf(r) <=> In(w, x) \/ \E k \in 1..N : (k <= a \/ b <= k) /\ In(w, list[k])
  <2>1. a \in 0..Len(list) /\ b \in 1..(Len(list) + 1) /\ \A k \in b..Len(list) : x.at + x.len < list[k].at
    BY <1>14, <1>20
  <2> QED
    BY <1>14, <1>16, <1>19, <1>21, <2>1, SplicedSound
<1>23. \A w : In(w, x) <=> \/ w \in Words(at, n)
                           \/ below /\ In(w, list[i])
                           \/ above /\ In(w, list[i + 1])
  <2>1. \A w : w \in Words(at, n) <=> w \in Int /\ at <= w /\ w < at + n
    BY <1>2, WordsIs
  <2>2. CASE below /\ above
    <3>1. /\ list[i].at \in Nat /\ list[i].len \in Nat /\ list[i + 1].at \in Nat /\ list[i + 1].len \in Nat
          /\ list[i].at + list[i].len = at /\ at + n = list[i + 1].at
          /\ x.at = list[i].at /\ x.at + x.len = list[i + 1].at + list[i + 1].len
      BY <1>3, <1>10, <1>11, <1>18, <2>2
    <3>2. \A w \in Int : x.at <= w /\ w < x.at + x.len
                <=> \/ at <= w /\ w < at + n
                    \/ list[i].at <= w /\ w < list[i].at + list[i].len
                    \/ list[i + 1].at <= w /\ w < list[i + 1].at + list[i + 1].len
      BY <1>2, <1>17, <3>1
    <3> QED
      BY <2>1, <2>2, <3>2 DEF In
  <2>3. CASE below /\ ~above
    BY <1>2, <1>3, <1>10, <1>17, <1>18, <2>1, <2>3 DEF In
  <2>4. CASE ~below /\ above
    BY <1>2, <1>3, <1>11, <1>17, <1>18, <2>1, <2>4 DEF In
  <2>5. CASE ~below /\ ~above
    BY <1>2, <1>17, <1>18, <2>1, <2>5 DEF In
  <2> QED
    BY <2>2, <2>3, <2>4, <2>5
<1>24. \A k \in 1..N : (k <= a \/ b <= k) \/ (below /\ k = i) \/ (above /\ k = i + 1)
  BY <1>3, <1>5, <1>14
<1>25. \A w : w \in FreeOf(list) <=> \E k \in 1..N : In(w, list[k])
  BY BlockIs DEF In
<1>26. FreeOf(r) = FreeOf(list) \cup Words(at, n)
  BY <1>10, <1>11, <1>22, <1>23, <1>24, <1>25
<1> QED
  BY <1>1, <1>22, <1>26

\* freemem() of a block that is free already: the test against the block below, or the
\* one above, refuses it.
LEMMA FreeOverlaps ==
    ASSUME NEW list, Sound(list), NEW at \in Nat, NEW n \in Even \ {0},
           \E i \in 1..Len(list) : Words(at, n) \subseteq Words(list[i].at, list[i].len)
    PROVE  Overlaps(list, at, n)
<1> DEFINE i == Cardinality({k \in 1..Len(list) : list[k].at < at})
<1>1. PICK j \in 1..Len(list) : Words(at, n) \subseteq Words(list[j].at, list[j].len)
  OBVIOUS
<1>2. /\ n \in Nat /\ n > 0 /\ at \in Int /\ Len(list) \in Nat
      /\ \A k \in 1..Len(list) : list[k].at \in Nat /\ list[k].len \in Nat /\ list[k].len > 0
  BY EvenNat, BlockIs
<1>3. i \in 0..Len(list) /\ \A k \in 1..Len(list) : list[k].at < at <=> k <= i
  BY BelowIs
<1> HIDE DEF i
<1>4. list[j].at <= at /\ at < list[j].at + list[j].len
  <2>1. at \in Words(at, n)
    <3>1. at \in Int /\ n \in Int /\ at <= at /\ at < at + n
      BY <1>2
    <3> QED
      BY ONLY <3>1, WordsIs
  <2>2. at \in Words(list[j].at, list[j].len)
    BY <1>1, <2>1
  <2> QED
    BY <1>2, <2>2, WordsIs
<1>5. CASE list[j].at < at
  <2>1. j <= i /\ i \in 1..Len(list)
    BY <1>2, <1>3, <1>5
  <2>2. i = j
    <3>1. j < i => list[j].at + list[j].len < list[i].at /\ list[i].at < at
      BY <1>3, <2>1 DEF Sound, Apart
    <3> QED
      BY <1>2, <1>3, <1>4, <2>1, <3>1
  <2>3. i > 0 /\ at < list[i].at + list[i].len
    BY <1>4, <2>1, <2>2
  <2> QED
    BY <2>3 DEF Overlaps, i
<1>6. CASE ~(list[j].at < at)
  <2>1. list[j].at = at /\ i < j /\ i + 1 \in 1..Len(list)
    BY <1>2, <1>3, <1>4, <1>6
  <2>2. j = i + 1
    <3>1. i + 1 < j => list[i + 1].at + list[i + 1].len < list[j].at
      BY <2>1 DEF Sound, Apart
    <3>2. i + 1 < j => list[i + 1].at < at
      BY <1>2, <2>1, <3>1
    <3> QED
      BY <1>3, <2>1, <3>2
  <2>3. i < Len(list) /\ at + n > list[i + 1].at
    BY <1>2, <1>3, <2>1, <2>2
  <2> QED
    BY <2>3 DEF Overlaps, i
<1> QED
  BY <1>5, <1>6

\* Blocks in use.

MemBlock == [kind : {"heap", "stack", "virtual"}, at : Nat, size : Nat \ {0}]
Start(b) == IF b.kind = "stack" THEN b.at - roundmb(b.size) + 1 ELSE b.at
WellPlaced(b) == b \in MemBlock /\ Start(b) \in Even

LEMMA ExtentIs ==
    ASSUME NEW b, WellPlaced(b)
    PROVE  /\ Extent(b) = Words(Start(b), roundmb(b.size)) /\ Extent(b) # {}
           /\ Start(b) \in Even /\ roundmb(b.size) \in Even \ {0}
<1>1. Extent(b) = Words(Start(b), roundmb(b.size))
  BY DEF Extent, Start
<1>2. Start(b) \in Even /\ roundmb(b.size) \in Even \ {0}
  BY EvenIs DEF WellPlaced, MemBlock
<1>3. Start(b) \in Words(Start(b), roundmb(b.size))
  BY <1>2, EvenNat, WordsIs
<1> QED
  BY <1>1, <1>2, <1>3

\* A region of n words: F is free, the blocks B are in use and the rest is R.
Tiled(F, B, R, n) ==
    /\ \A w : w \in 0..(n - 1) <=> w \in F \/ w \in R \/ \E b \in B : w \in Extent(b)
    /\ F \cap R = {}
    /\ \A b \in B : Extent(b) \cap F = {} /\ Extent(b) \cap R = {}
    /\ \A b, c \in B : b # c => Extent(b) \cap Extent(c) = {}

LEMMA TiledTake ==
    ASSUME NEW F, NEW B, NEW R, NEW n, Tiled(F, B, R, n), NEW b, Extent(b) \subseteq F
    PROVE  Tiled(F \ Extent(b), B \cup {b}, R, n)
BY DEF Tiled

LEMMA TiledGive ==
    ASSUME NEW F, NEW B, NEW R, NEW n, Tiled(F, B, R, n), NEW b \in B
    PROVE  Tiled(F \cup Extent(b), B \ {b}, R, n) /\ Extent(b) \cap F = {}
BY DEF Tiled

LEMMA TiledMove ==
    ASSUME NEW F, NEW B, NEW R, NEW n, Tiled(F, B, R, n), NEW W, W \subseteq F
    PROVE  Tiled(F \ W, B, R \cup W, n) /\ W \cap R = {}
BY DEF Tiled

LEMMA TiledStart ==
    ASSUME NEW n \in Nat
    PROVE  Tiled(Words(0, n), {}, {}, n)
BY DEF Tiled, Words

LEMMA TiledFinite ==
    ASSUME NEW F, NEW B, NEW R, NEW n \in Nat, Tiled(F, B, R, n)
    PROVE  /\ F \subseteq 0..(n - 1) /\ IsFiniteSet(F) /\ Cardinality(F) \in Nat
           /\ R \subseteq 0..(n - 1)
           /\ \A b \in B : Extent(b) \subseteq 0..(n - 1)
<1>1. /\ F \subseteq 0..(n - 1) /\ R \subseteq 0..(n - 1)
      /\ \A b \in B : Extent(b) \subseteq 0..(n - 1)
  BY DEF Tiled
<1>2. IsFiniteSet(0..(n - 1))
  BY FS_Interval
<1>3. IsFiniteSet(F)
  BY <1>1, <1>2, FS_Subset
<1> QED
  BY <1>1, <1>3, FS_CardinalityType

LEMMA WordsCount ==
    ASSUME NEW at \in Nat, NEW n \in Nat
    PROVE  IsFiniteSet(Words(at, n)) /\ Cardinality(Words(at, n)) = n
<1>1. at \in Int /\ at + n - 1 \in Int
  OBVIOUS
<1>2. /\ IsFiniteSet(at..(at + n - 1))
      /\ Cardinality(at..(at + n - 1)) = IF at > at + n - 1 THEN 0 ELSE (at + n - 1) - at + 1
  BY <1>1, FS_Interval
<1> QED
  BY <1>2 DEF Words

LEMMA CountTaken ==
    ASSUME NEW F, IsFiniteSet(F), NEW at \in Nat, NEW n \in Nat, Words(at, n) \subseteq F
    PROVE  Cardinality(F \ Words(at, n)) = Cardinality(F) - n
<1>1. IsFiniteSet(Words(at, n)) /\ Cardinality(Words(at, n)) = n
  BY WordsCount
<1>2. Cardinality(F \ Words(at, n)) = Cardinality(F) - Cardinality(F \cap Words(at, n))
  BY FS_Difference
<1>3. F \cap Words(at, n) = Words(at, n)
  OBVIOUS
<1> QED
  BY <1>1, <1>2, <1>3

LEMMA CountGiven ==
    ASSUME NEW F, IsFiniteSet(F), NEW at \in Nat, NEW n \in Nat, Words(at, n) \cap F = {}
    PROVE  Cardinality(F \cup Words(at, n)) = Cardinality(F) + n
<1>1. IsFiniteSet(Words(at, n)) /\ Cardinality(Words(at, n)) = n
  BY WordsCount
<1>2. Cardinality(F \cup Words(at, n)) = Cardinality(F) + Cardinality(Words(at, n)) - Cardinality(F \cap Words(at, n))
  BY <1>1, FS_Union
<1>3. Cardinality(F \cap Words(at, n)) = 0
  BY FS_EmptySet
<1>4. Cardinality(F) \in Nat
  BY FS_CardinalityType
<1> QED
  BY <1>1, <1>2, <1>3, <1>4

\* The heap.

HeapBlocks == {b \in owned : b.kind # "virtual"}
VirtualBlocks == {b \in owned : b.kind = "virtual"}
PoolArea == IF pool.made THEN Words(pool.at, roundmb(poolWords)) ELSE {}

\* What is counted: the free words F and V, with l for memlist.mlength and d for drift.
Counted(F, V, l, d) == l = Cardinality(F) + Cardinality(V) - VHeapWords - d

HeapTypes ==
    /\ \A b \in owned : WellPlaced(b)
    /\ Sound(memlist) /\ Sound(vlist)
    /\ vheap \in [prhasheap : BOOLEAN, list : Seq(Block)]
    /\ memlength \in Int /\ drift \in Int
HeapTiled ==
    /\ Tiled(FreeOf(memlist), HeapBlocks, leaked \cup PoolArea, HeapWords)
    /\ leaked \cap PoolArea = {}
    /\ Tiled(FreeOf(vlist), VirtualBlocks, {}, VHeapWords)
HeapCounted == Counted(FreeOf(memlist), FreeOf(vlist), memlength, drift)
HeapInv == HeapTypes /\ HeapTiled /\ HeapCounted

LEMMA HeapSize == HeapWords \in Nat /\ VHeapWords \in Nat
BY MemoryAssumption

LEMMA HeapFinite ==
    ASSUME HeapInv
    PROVE  /\ IsFiniteSet(FreeOf(memlist)) /\ Cardinality(FreeOf(memlist)) \in Nat
           /\ IsFiniteSet(FreeOf(vlist)) /\ Cardinality(FreeOf(vlist)) \in Nat
<1>1. Tiled(FreeOf(memlist), HeapBlocks, leaked \cup PoolArea, HeapWords)
  BY DEF HeapInv, HeapTiled
<1>2. Tiled(FreeOf(vlist), VirtualBlocks, {}, VHeapWords)
  BY DEF HeapInv, HeapTiled
<1> QED
  BY <1>1, <1>2, HeapSize, TiledFinite

LEMMA CountedTake ==
    ASSUME NEW F, NEW V, IsFiniteSet(F), Cardinality(V) \in Nat, NEW l \in Int, NEW d \in Int, Counted(F, V, l, d),
           NEW at \in Even, NEW n \in Even, Words(at, n) \subseteq F
    PROVE  Counted(F \ Words(at, n), V, l - n, d)
<1>1. at \in Nat /\ n \in Nat /\ Cardinality(F) \in Nat
  BY EvenNat, FS_CardinalityType
<1>2. Cardinality(F \ Words(at, n)) = Cardinality(F) - n
  BY <1>1, CountTaken
<1> QED
  BY <1>1, <1>2, HeapSize DEF Counted

LEMMA CountedGive ==
    ASSUME NEW F, NEW V, IsFiniteSet(F), Cardinality(V) \in Nat, NEW l \in Int, NEW d \in Int, Counted(F, V, l, d),
           NEW at \in Even, NEW n \in Even, Words(at, n) \cap F = {}
    PROVE  Counted(F \cup Words(at, n), V, l + n, d)
<1>1. at \in Nat /\ n \in Nat /\ Cardinality(F) \in Nat
  BY EvenNat, FS_CardinalityType
<1>2. Cardinality(F \cup Words(at, n)) = Cardinality(F) + n
  BY <1>1, CountGiven
<1> QED
  BY <1>1, <1>2, HeapSize DEF Counted

LEMMA CountedSwap ==
    ASSUME NEW F, NEW V, Cardinality(F) \in Nat, Cardinality(V) \in Nat, NEW l, NEW d \in Int
    PROVE  Counted(F, V, l, d) <=> Counted(V, F, l, d)
BY HeapSize DEF Counted

\* n words at an address are taken from the heap.
TakenFrom(at, n) ==
    /\ at \in Even /\ n \in Even \ {0}
    /\ Sound(memlist') /\ Words(at, n) \subseteq FreeOf(memlist)
    /\ FreeOf(memlist') = FreeOf(memlist) \ Words(at, n)
    /\ memlength' = memlength - n

LEMMA TakenBottom ==
    ASSUME HeapInv, NEW m \in Nat \ {0}, NEW where \in getmemAt(m), take(m, where, TRUE)
    PROVE  TakenFrom(where.at, roundmb(m))
<1> DEFINE n == roundmb(m)
<1>1. n \in Even \ {0}
  BY EvenIs
<1> HIDE DEF n
<1>2. PICK i \in First(Fits(memlist, n)) : where = [i |-> i, at |-> memlist[i].at]
  BY DEF getmemAt, n
<1>3. i \in 1..Len(memlist) /\ memlist[i].len >= n /\ where.i = i /\ where.at = memlist[i].at
  BY <1>2 DEF First, Fits
<1>4. Sound(memlist)
  BY DEF HeapInv, HeapTypes
<1>5. memlist[i].len \in Nat /\ n \in Nat
  BY <1>1, <1>3, <1>4, BlockIs, EvenNat
<1>6. n <= memlist[i].len
  BY <1>3, <1>5
<1>7. memlist' = Cut(memlist, i, n, TRUE) /\ memlength' = memlength - n
  BY <1>3 DEF take, n
<1>8. TakenFrom(memlist[i].at, n)
  <2>1. /\ Sound(Cut(memlist, i, n, TRUE)) /\ memlist[i].at \in Even
        /\ Words(memlist[i].at, n) \subseteq FreeOf(memlist)
        /\ FreeOf(Cut(memlist, i, n, TRUE)) = FreeOf(memlist) \ Words(memlist[i].at, n)
    <3>1. i \in 1..Len(memlist)
      BY <1>3
    <3> QED
      BY ONLY <1>1, <1>4, <1>6, <3>1, CutBottom
  <2> QED
    BY <1>1, <1>7, <2>1 DEF TakenFrom
<1> QED
  BY <1>3, <1>8 DEF n

LEMMA TakenTop ==
    ASSUME HeapInv, NEW m \in Nat \ {0}, NEW where \in getstkAt(m), take(m, where, FALSE)
    PROVE  TakenFrom(where.at, roundmb(m))
<1> DEFINE n == roundmb(m)
<1>1. n \in Even \ {0}
  BY EvenIs
<1> HIDE DEF n
<1>2. PICK i \in Highest(Fits(memlist, n)) : where = [i |-> i, at |-> memlist[i].at + memlist[i].len - n]
  BY DEF getstkAt, n
<1>3. i \in 1..Len(memlist) /\ memlist[i].len >= n
  BY DEF Highest, Fits
<1>4. Sound(memlist)
  BY DEF HeapInv, HeapTypes
<1>5. memlist[i].len \in Nat /\ n \in Nat
  BY <1>1, <1>3, <1>4, BlockIs, EvenNat
<1>6. n <= memlist[i].len
  BY <1>3, <1>5
<1>7. where.i = i /\ where.at = memlist[i].at + (memlist[i].len - n)
  BY <1>2
<1> DEFINE at == memlist[i].at + (memlist[i].len - n)
           r == Cut(memlist, i, n, FALSE)
<1>8. Sound(r) /\ at \in Even /\ Words(at, n) \subseteq FreeOf(memlist) /\ FreeOf(r) = FreeOf(memlist) \ Words(at, n)
  BY <1>1, <1>3, <1>4, <1>6, CutTop
<1>9. memlist' = r /\ memlength' = memlength - n
  BY <1>7 DEF take, n
<1> HIDE DEF at, r
<1>10. TakenFrom(at, n)
  BY <1>1, <1>8, <1>9 DEF TakenFrom
<1> QED
  BY <1>7, <1>10 DEF n, at

LEMMA TakenCounts ==
    ASSUME HeapInv, NEW at, NEW n, TakenFrom(at, n), UNCHANGED <<vheap, drift>>
    PROVE  /\ vlist' = vlist /\ memlength' \in Int /\ drift' \in Int /\ HeapCounted'
           /\ Sound(vlist') /\ vheap' \in [prhasheap : BOOLEAN, list : Seq(Block)]
<1>1. n \in Nat /\ n \in Even /\ at \in Even
  BY EvenNat DEF TakenFrom
<1>2. vlist' = vlist
  BY DEF vlist
<1>3. memlength \in Int /\ drift \in Int /\ Counted(FreeOf(memlist), FreeOf(vlist), memlength, drift)
  BY DEF HeapInv, HeapTypes, HeapCounted
<1>4. Counted(FreeOf(memlist) \ Words(at, n), FreeOf(vlist), memlength - n, drift)
  BY <1>1, <1>3, HeapFinite, CountedTake DEF TakenFrom
<1> QED
  BY <1>1, <1>2, <1>3, <1>4 DEF HeapCounted, TakenFrom, HeapInv, HeapTypes

LEMMA BlockTaken ==
    ASSUME HeapInv, NEW at, NEW n, TakenFrom(at, n), NEW b, WellPlaced(b), b.kind # "virtual", Extent(b) = Words(at, n),
           owned' = owned \cup {b}, UNCHANGED <<vheap, drift, leaked, pool>>
    PROVE  HeapInv'
<1>1. /\ vlist' = vlist /\ memlength' \in Int /\ drift' \in Int /\ HeapCounted'
      /\ Sound(vlist') /\ vheap' \in [prhasheap : BOOLEAN, list : Seq(Block)]
  BY TakenCounts
<1>2. HeapBlocks' = HeapBlocks \cup {b} /\ VirtualBlocks' = VirtualBlocks
  BY DEF HeapBlocks, VirtualBlocks
<1>3. PoolArea' = PoolArea
  BY DEF PoolArea, poolWords
<1>4. /\ Tiled(FreeOf(memlist), HeapBlocks, leaked \cup PoolArea, HeapWords)
      /\ leaked \cap PoolArea = {} /\ Tiled(FreeOf(vlist), VirtualBlocks, {}, VHeapWords)
  BY DEF HeapInv, HeapTiled
<1>5. Sound(memlist') /\ Extent(b) \subseteq FreeOf(memlist) /\ FreeOf(memlist') = FreeOf(memlist) \ Extent(b)
  BY DEF TakenFrom
<1>6. Tiled(FreeOf(memlist'), HeapBlocks \cup {b}, leaked \cup PoolArea, HeapWords)
  BY <1>4, <1>5, TiledTake
<1>7. HeapTiled'
  BY <1>1, <1>2, <1>3, <1>4, <1>6 DEF HeapTiled
<1>8. \A c \in owned' : WellPlaced(c)
  BY DEF HeapInv, HeapTypes
<1> QED
  BY <1>1, <1>5, <1>7, <1>8 DEF HeapInv, HeapTypes

LEMMA BlockGiven ==
    ASSUME HeapInv, NEW b \in owned, b.kind # "virtual",
           memlist' = Returned(memlist, Start(b), roundmb(b.size)), memlength' = memlength + roundmb(b.size),
           owned' = owned \ {b}, UNCHANGED <<vheap, drift, leaked, pool>>
    PROVE  HeapInv'
<1> DEFINE n == roundmb(b.size)
           at == Start(b)
<1>1. WellPlaced(b) /\ Sound(memlist) /\ Sound(vlist) /\ memlength \in Int /\ drift \in Int
  BY DEF HeapInv, HeapTypes
<1>2. Extent(b) = Words(at, n) /\ at \in Even /\ n \in Even \ {0}
  BY <1>1, ExtentIs
<1> HIDE DEF n, at
<1>3. HeapBlocks' = HeapBlocks \ {b} /\ VirtualBlocks' = VirtualBlocks /\ b \in HeapBlocks
  BY DEF HeapBlocks, VirtualBlocks
<1>4. PoolArea' = PoolArea /\ vlist' = vlist
  BY DEF PoolArea, poolWords, vlist
<1>5. /\ Tiled(FreeOf(memlist), HeapBlocks, leaked \cup PoolArea, HeapWords)
      /\ leaked \cap PoolArea = {} /\ Tiled(FreeOf(vlist), VirtualBlocks, {}, VHeapWords)
  BY DEF HeapInv, HeapTiled
<1>6. /\ Tiled(FreeOf(memlist) \cup Extent(b), HeapBlocks \ {b}, leaked \cup PoolArea, HeapWords)
      /\ Words(at, n) \cap FreeOf(memlist) = {}
  BY <1>2, <1>3, <1>5, TiledGive
<1>7. Sound(Returned(memlist, at, n)) /\ FreeOf(Returned(memlist, at, n)) = FreeOf(memlist) \cup Words(at, n)
  BY <1>1, <1>2, <1>6, ReturnedIs
<1>8. memlist' = Returned(memlist, at, n) /\ memlength' = memlength + n
  BY DEF at, n
<1>9. HeapTiled'
  BY <1>2, <1>3, <1>4, <1>5, <1>6, <1>7, <1>8 DEF HeapTiled
<1>10. HeapCounted'
  <2>1. Counted(FreeOf(memlist), FreeOf(vlist), memlength, drift)
    BY DEF HeapInv, HeapCounted
  <2>2. Counted(FreeOf(memlist) \cup Words(at, n), FreeOf(vlist), memlength + n, drift)
    BY <1>1, <1>2, <1>6, <2>1, HeapFinite, CountedGive
  <2> QED
    BY <1>4, <1>7, <1>8, <2>2 DEF HeapCounted
<1>11. HeapTypes'
  <2>1. memlength' \in Int
    BY <1>1, <1>2, <1>8, EvenNat
  <2>2. \A c \in owned' : WellPlaced(c)
    BY DEF HeapInv, HeapTypes
  <2> QED
    BY <1>1, <1>4, <1>7, <1>8, <2>1, <2>2 DEF HeapTypes, HeapInv
<1> QED
  BY <1>9, <1>10, <1>11 DEF HeapInv

\* The words taken become lost, or the memory of the pool.
LEMMA WordsTaken ==
    ASSUME HeapInv, NEW at, NEW n, TakenFrom(at, n), UNCHANGED <<vheap, drift, owned>>,
           \/ leaked' = leaked \cup Words(at, n) /\ PoolArea' = PoolArea
           \/ PoolArea = {} /\ PoolArea' = Words(at, n) /\ leaked' = leaked
    PROVE  HeapInv'
<1>1. /\ vlist' = vlist /\ memlength' \in Int /\ drift' \in Int /\ HeapCounted'
      /\ Sound(vlist') /\ vheap' \in [prhasheap : BOOLEAN, list : Seq(Block)]
  BY TakenCounts
<1>2. HeapBlocks' = HeapBlocks /\ VirtualBlocks' = VirtualBlocks
  BY DEF HeapBlocks, VirtualBlocks
<1>3. /\ Tiled(FreeOf(memlist), HeapBlocks, leaked \cup PoolArea, HeapWords)
      /\ leaked \cap PoolArea = {} /\ Tiled(FreeOf(vlist), VirtualBlocks, {}, VHeapWords)
  BY DEF HeapInv, HeapTiled
<1>4. Sound(memlist') /\ Words(at, n) \subseteq FreeOf(memlist) /\ FreeOf(memlist') = FreeOf(memlist) \ Words(at, n)
  BY DEF TakenFrom
<1>5. /\ Tiled(FreeOf(memlist'), HeapBlocks, (leaked \cup PoolArea) \cup Words(at, n), HeapWords)
      /\ Words(at, n) \cap (leaked \cup PoolArea) = {}
  BY <1>3, <1>4, TiledMove
<1>6. (leaked \cup PoolArea)' = (leaked \cup PoolArea) \cup Words(at, n) /\ leaked' \cap PoolArea' = {}
  BY <1>3, <1>5
<1>7. HeapTiled'
  BY <1>1, <1>2, <1>3, <1>5, <1>6 DEF HeapTiled
<1>8. \A c \in owned' : WellPlaced(c)
  BY DEF HeapInv, HeapTypes
<1> QED
  BY <1>1, <1>4, <1>7, <1>8 DEF HeapInv, HeapTypes

LEMMA getmemKeeps == ASSUME HeapInv, NEW n \in Requests, getmem(n) PROVE HeapInv'
<1>1. n \in Nat \ {0}
  BY MemoryAssumption
<1>2. PICK where \in getmemAt(n) :
         take(n, where, TRUE) /\ owned' = owned \cup {[kind |-> "heap", at |-> where.at, size |-> n]}
  BY DEF getmem
<1> DEFINE b == [kind |-> "heap", at |-> where.at, size |-> n]
<1>3. TakenFrom(where.at, roundmb(n))
  BY <1>1, <1>2, TakenBottom
<1>4. b.kind # "virtual" /\ b.kind = "heap" /\ b.at = where.at /\ b.size = n
  OBVIOUS
<1>5. where.at \in Even /\ where.at \in Nat
  BY <1>3, EvenNat DEF TakenFrom
<1>6. b \in MemBlock
  BY <1>1, <1>5 DEF MemBlock
<1>7. owned' = owned \cup {b} /\ UNCHANGED <<vheap, drift, leaked, pool>>
  BY <1>2 DEF getmem
<1> HIDE DEF b
<1>8. WellPlaced(b) /\ Extent(b) = Words(where.at, roundmb(n))
  BY <1>4, <1>5, <1>6 DEF WellPlaced, Start, Extent
<1> QED
  BY <1>3, <1>4, <1>7, <1>8, BlockTaken

LEMMA getstkKeeps == ASSUME HeapInv, NEW n \in Requests, getstk(n) PROVE HeapInv'
<1>1. n \in Nat \ {0}
  BY MemoryAssumption
<1>2. PICK where \in getstkAt(n) :
         /\ take(n, where, FALSE)
         /\ owned' = owned \cup {[kind |-> "stack", at |-> where.at + roundmb(n) - 1, size |-> n]}
  BY DEF getstk
<1> DEFINE b == [kind |-> "stack", at |-> where.at + roundmb(n) - 1, size |-> n]
<1>3. TakenFrom(where.at, roundmb(n))
  BY <1>1, <1>2, TakenTop
<1>4. b.kind # "virtual" /\ b.kind = "stack" /\ b.at = where.at + roundmb(n) - 1 /\ b.size = n
  OBVIOUS
<1>5. where.at \in Even /\ where.at \in Nat /\ roundmb(n) \in Nat /\ roundmb(n) > 0
  BY <1>1, <1>3, EvenNat DEF TakenFrom
<1>6. where.at + roundmb(n) - 1 \in Nat
  BY <1>5
<1>7. b \in MemBlock
  BY <1>1, <1>6 DEF MemBlock
<1>8. owned' = owned \cup {b} /\ UNCHANGED <<vheap, drift, leaked, pool>>
  BY <1>2 DEF getstk
<1> HIDE DEF b
<1>9. b.at - roundmb(b.size) + 1 = where.at
  BY <1>4, <1>5
<1>10. WellPlaced(b) /\ Extent(b) = Words(where.at, roundmb(n))
  BY <1>4, <1>5, <1>7, <1>9 DEF WellPlaced, Start, Extent
<1> QED
  BY <1>3, <1>4, <1>8, <1>10, BlockTaken

LEMMA createFailsKeeps == ASSUME HeapInv, NEW n \in Requests, createFails(n) PROVE HeapInv'
<1>1. n \in Nat \ {0}
  BY MemoryAssumption
<1>2. PICK where \in getstkAt(n) : take(n, where, FALSE) /\ leaked' = leaked \cup Words(where.at, roundmb(n))
  BY DEF createFails
<1>3. TakenFrom(where.at, roundmb(n))
  BY <1>1, <1>2, TakenTop
<1>4. PoolArea' = PoolArea /\ UNCHANGED <<vheap, drift, owned>>
  BY DEF PoolArea, poolWords, createFails
<1> QED
  BY <1>2, <1>3, <1>4, WordsTaken

LEMMA freememKeeps == ASSUME HeapInv, NEW b \in owned, freemem(b) PROVE HeapInv'
<1>1. b.kind # "virtual" /\ Start(b) = b.at
  BY DEF freemem, Start
<1>2. memlist' = Returned(memlist, Start(b), roundmb(b.size)) /\ memlength' = memlength + roundmb(b.size)
  BY <1>1 DEF freemem, giveBack
<1> QED
  BY <1>1, <1>2, BlockGiven DEF freemem

LEMMA freestkKeeps == ASSUME HeapInv, NEW b \in owned, freestk(b) PROVE HeapInv'
<1>1. b.kind # "virtual" /\ Start(b) = b.at - roundmb(b.size) + 1
  BY DEF freestk, Start
<1>2. memlist' = Returned(memlist, Start(b), roundmb(b.size)) /\ memlength' = memlength + roundmb(b.size)
  BY <1>1 DEF freestk, giveBack
<1> QED
  BY <1>1, <1>2, BlockGiven DEF freestk

LEMMA HeapSame ==
    ASSUME HeapInv, UNCHANGED <<memlist, memlength, vheap, owned, leaked, drift>>, PoolArea' = PoolArea
    PROVE  HeapInv'
<1>1. vlist' = vlist /\ HeapBlocks' = HeapBlocks /\ VirtualBlocks' = VirtualBlocks
  BY DEF vlist, HeapBlocks, VirtualBlocks
<1> QED
  BY <1>1 DEF HeapInv, HeapTypes, HeapTiled, HeapCounted

LEMMA freeAgainKeeps ==
    ASSUME HeapInv, NEW at \in Nat, NEW n \in Requests, freeAgain(at, n)
    PROVE  HeapInv'
<1>1. roundmb(n) \in Even \ {0}
  BY MemoryAssumption, EvenIs
<1>2. Sound(memlist) /\ \E i \in 1..Len(memlist) : Words(at, roundmb(n)) \subseteq Words(memlist[i].at, memlist[i].len)
  BY DEF HeapInv, HeapTypes, freeAgain
<1>3. Overlaps(memlist, at, roundmb(n))
  BY <1>1, <1>2, FreeOverlaps
<1>4. UNCHANGED <<memlist, memlength, vheap, owned, leaked, drift>> /\ PoolArea' = PoolArea
  BY <1>3 DEF freeAgain, PoolArea, poolWords
<1> QED
  BY <1>4, HeapSame

LEMMA vgetmemKeeps ==
    ASSUME HeapInv, NEW m \in VRequests, vgetmem(m)
    PROVE  HeapInv'
<1> DEFINE n == roundmb(m)
<1>1. n \in Even \ {0} /\ m \in Nat \ {0}
  BY MemoryAssumption, EvenIs
<1>2. /\ Sound(memlist) /\ Sound(vlist) /\ memlength \in Int /\ drift \in Int
      /\ Counted(FreeOf(memlist), FreeOf(vlist), memlength, drift)
      /\ Tiled(FreeOf(memlist), HeapBlocks, leaked \cup PoolArea, HeapWords)
      /\ leaked \cap PoolArea = {} /\ Tiled(FreeOf(vlist), VirtualBlocks, {}, VHeapWords)
      /\ \A c \in owned : WellPlaced(c)
  BY DEF HeapInv, HeapTypes, HeapTiled, HeapCounted
<1>3. PoolArea' = PoolArea /\ UNCHANGED <<memlist, leaked, drift>>
  BY DEF PoolArea, poolWords, vgetmem
<1>4. vheap'.prhasheap => vlist' = vheap'.list
  BY DEF vlist
<1>5. CASE Fits(vlist, n) = {}
  <2>1. vheap' = [prhasheap |-> TRUE, list |-> vlist] /\ UNCHANGED <<memlength, owned>>
    BY <1>5 DEF vgetmem
  <2>2. vlist' = vlist /\ vheap' \in [prhasheap : BOOLEAN, list : Seq(Block)]
    BY <1>2, <1>4, <2>1 DEF Sound
  <2>3. HeapBlocks' = HeapBlocks /\ VirtualBlocks' = VirtualBlocks
    BY <2>1 DEF HeapBlocks, VirtualBlocks
  <2> QED
    BY <1>2, <1>3, <2>1, <2>2, <2>3 DEF HeapInv, HeapTypes, HeapTiled, HeapCounted
<1>6. CASE Fits(vlist, n) # {}
  <2>1. PICK i \in First(Fits(vlist, n)) :
           /\ vheap' = [prhasheap |-> TRUE, list |-> Cut(vlist, i, n, TRUE)]
           /\ owned' = owned \cup {[kind |-> "virtual", at |-> vlist[i].at, size |-> m]}
           /\ memlength' = memlength - n
    BY <1>6 DEF vgetmem
  <2>2. i \in 1..Len(vlist) /\ vlist[i].len >= n
    BY DEF First, Fits
  <2>3. n \in Nat /\ vlist[i].len \in Nat
    BY <1>1, <1>2, <2>2, BlockIs, EvenNat
  <2>4. n <= vlist[i].len
    BY <2>2, <2>3
  <2> DEFINE at == vlist[i].at
             r == Cut(vlist, i, n, TRUE)
             b == [kind |-> "virtual", at |-> at, size |-> m]
  <2> HIDE DEF n
  <2>5. Sound(r) /\ at \in Even /\ Words(at, n) \subseteq FreeOf(vlist) /\ FreeOf(r) = FreeOf(vlist) \ Words(at, n)
    BY <1>1, <1>2, <2>2, <2>4, CutBottom
  <2>6. b.kind = "virtual" /\ b.at = at /\ b.size = m
    OBVIOUS
  <2>7. b \in MemBlock
    BY <1>1, <2>5, EvenNat DEF MemBlock
  <2>8. vheap' = [prhasheap |-> TRUE, list |-> r] /\ owned' = owned \cup {b} /\ memlength' = memlength - n
    BY <2>1 DEF n
  <2> HIDE DEF r, b, at
  <2>9. WellPlaced(b) /\ Extent(b) = Words(at, n)
    BY <2>5, <2>6, <2>7 DEF WellPlaced, Start, Extent, n
  <2>10. vlist' = r /\ vheap' \in [prhasheap : BOOLEAN, list : Seq(Block)]
    BY <1>4, <2>5, <2>8 DEF Sound
  <2>11. HeapBlocks' = HeapBlocks /\ VirtualBlocks' = VirtualBlocks \cup {b}
    BY <2>6, <2>8 DEF HeapBlocks, VirtualBlocks
  <2>12. Tiled(FreeOf(vlist) \ Extent(b), VirtualBlocks \cup {b}, {}, VHeapWords)
    BY <1>2, <2>5, <2>9, TiledTake
  <2>13. HeapTiled'
    BY <1>2, <1>3, <2>5, <2>9, <2>10, <2>11, <2>12 DEF HeapTiled
  <2>14. HeapCounted'
    <3>1. Counted(FreeOf(vlist), FreeOf(memlist), memlength, drift)
      BY <1>2, HeapFinite, CountedSwap
    <3>2. Counted(FreeOf(vlist) \ Words(at, n), FreeOf(memlist), memlength - n, drift)
      BY <1>1, <1>2, <2>5, <3>1, HeapFinite, CountedTake
    <3>3. Cardinality(FreeOf(memlist)) \in Nat /\ Cardinality(FreeOf(vlist) \ Words(at, n)) \in Nat
      BY HeapFinite, FS_Difference, FS_CardinalityType
    <3>4. Counted(FreeOf(memlist), FreeOf(vlist) \ Words(at, n), memlength - n, drift)
      BY <1>2, <3>2, <3>3, CountedSwap
    <3> QED
      BY <1>3, <2>5, <2>8, <2>10, <3>4 DEF HeapCounted
  <2>15. HeapTypes'
    <3>1. memlength' \in Int
      BY <1>2, <2>3, <2>8
    <3> QED
      BY <1>2, <1>3, <2>5, <2>8, <2>9, <2>10, <3>1 DEF HeapTypes
  <2> QED
    BY <2>13, <2>14, <2>15 DEF HeapInv
<1> QED
  BY <1>5, <1>6

LEMMA vfreememKeeps ==
    ASSUME HeapInv, NEW b \in owned, vfreemem(b)
    PROVE  HeapInv'
<1> DEFINE n == roundmb(b.size)
           at == Start(b)
           r == Returned(vlist, at, n)
<1>1. /\ Sound(memlist) /\ Sound(vlist) /\ memlength \in Int /\ drift \in Int
      /\ Counted(FreeOf(memlist), FreeOf(vlist), memlength, drift)
      /\ Tiled(FreeOf(memlist), HeapBlocks, leaked \cup PoolArea, HeapWords)
      /\ leaked \cap PoolArea = {} /\ Tiled(FreeOf(vlist), VirtualBlocks, {}, VHeapWords)
      /\ WellPlaced(b) /\ \A c \in owned : WellPlaced(c)
      /\ vheap \in [prhasheap : BOOLEAN, list : Seq(Block)]
  BY DEF HeapInv, HeapTypes, HeapTiled, HeapCounted
<1>2. PoolArea' = PoolArea /\ UNCHANGED <<memlist, leaked, drift>>
  BY DEF PoolArea, poolWords, vfreemem
<1>3. /\ b.kind = "virtual" /\ vheap.prhasheap /\ vlist = vheap.list /\ at = b.at
      /\ memlength' = memlength + n /\ owned' = owned \ {b}
  BY DEF vfreemem, vlist, Start
<1>4. vheap' = [vheap EXCEPT !.list = r]
  BY <1>3 DEF vfreemem
<1>5. Extent(b) = Words(at, n) /\ at \in Even /\ n \in Even \ {0}
  BY <1>1, ExtentIs
<1> HIDE DEF n, at
<1>6. HeapBlocks' = HeapBlocks /\ VirtualBlocks' = VirtualBlocks \ {b} /\ b \in VirtualBlocks
  BY <1>3 DEF HeapBlocks, VirtualBlocks
<1>7. /\ Tiled(FreeOf(vlist) \cup Extent(b), VirtualBlocks \ {b}, {}, VHeapWords)
      /\ Words(at, n) \cap FreeOf(vlist) = {}
  BY <1>1, <1>5, <1>6, TiledGive
<1>8. Sound(r) /\ FreeOf(r) = FreeOf(vlist) \cup Words(at, n)
  BY <1>1, <1>5, <1>7, ReturnedIs
<1> HIDE DEF r
<1>9. vheap' \in [prhasheap : BOOLEAN, list : Seq(Block)] /\ vheap'.prhasheap /\ vheap'.list = r
  BY <1>1, <1>3, <1>4, <1>8 DEF Sound
<1>10. vlist' = r
  BY <1>9 DEF vlist
<1>11. HeapTiled'
  BY <1>1, <1>2, <1>5, <1>6, <1>7, <1>8, <1>10 DEF HeapTiled
<1>12. HeapCounted'
  <2>1. Counted(FreeOf(vlist), FreeOf(memlist), memlength, drift)
    BY <1>1, HeapFinite, CountedSwap
  <2>2. Counted(FreeOf(vlist) \cup Words(at, n), FreeOf(memlist), memlength + n, drift)
    BY <1>1, <1>5, <1>7, <2>1, HeapFinite, CountedGive
  <2>3. Cardinality(FreeOf(memlist)) \in Nat /\ Cardinality(FreeOf(vlist) \cup Words(at, n)) \in Nat
    <3>1. at \in Nat /\ n \in Nat
      BY <1>5, EvenNat
    <3>2. IsFiniteSet(FreeOf(vlist) \cup Words(at, n))
      BY <3>1, HeapFinite, WordsCount, FS_Union
    <3> QED
      BY <3>2, HeapFinite, FS_CardinalityType
  <2>4. memlength + n \in Int
    BY <1>1, <1>5, EvenNat
  <2>5. Counted(FreeOf(memlist), FreeOf(vlist) \cup Words(at, n), memlength + n, drift)
    BY <1>1, <2>2, <2>3, <2>4, CountedSwap
  <2> QED
    BY <1>2, <1>3, <1>8, <1>10, <2>5 DEF HeapCounted
<1>13. HeapTypes'
  <2>1. memlength' \in Int
    BY <1>1, <1>3, <1>5, EvenNat
  <2> QED
    BY <1>1, <1>2, <1>3, <1>8, <1>9, <1>10, <2>1 DEF HeapTypes
<1> QED
  BY <1>11, <1>12, <1>13 DEF HeapInv

\* A free list of one block that is the region.
LEMMA WholeIs ==
    ASSUME NEW n \in Even \ {0}
    PROVE  Sound(<<[at |-> 0, len |-> n]>>) /\ FreeOf(<<[at |-> 0, len |-> n]>>) = Words(0, n)
<1> DEFINE x == [at |-> 0, len |-> n]
<1>1. x \in Block
  BY EvenIs DEF Block
<1>2. x.at = 0 /\ x.len = n
  OBVIOUS
<1> HIDE DEF x
<1>3. <<x>> \in Seq(Block) /\ Len(<<x>>) = 1 /\ <<x>>[1] = x
  BY <1>1
<1>4. \A i \in 1..Len(<<x>>) : i = 1
  BY <1>3
<1>5. Apart(<<x>>)
  <2>1. ~(1 < 1)
    OBVIOUS
  <2> QED
    BY <1>4, <2>1 DEF Apart
<1>6. FreeOf(<<x>>) = Words(x.at, x.len)
  BY <1>3, <1>4 DEF FreeOf
<1> QED
  BY <1>2, <1>3, <1>5, <1>6 DEF Sound, x

LEMMA vendKeeps == ASSUME HeapInv, vend PROVE HeapInv'
<1> DEFINE U == UNION {Extent(b) : b \in VirtualBlocks}
           lost == Cardinality(U)
<1>1. /\ Sound(memlist) /\ Sound(vlist) /\ memlength \in Int /\ drift \in Int
      /\ Counted(FreeOf(memlist), FreeOf(vlist), memlength, drift)
      /\ Tiled(FreeOf(memlist), HeapBlocks, leaked \cup PoolArea, HeapWords)
      /\ leaked \cap PoolArea = {} /\ Tiled(FreeOf(vlist), VirtualBlocks, {}, VHeapWords)
      /\ \A c \in owned : WellPlaced(c)
  BY DEF HeapInv, HeapTypes, HeapTiled, HeapCounted
<1>2. PoolArea' = PoolArea /\ UNCHANGED <<memlist, memlength, leaked>> /\ vheap' = NoHeap
  BY DEF PoolArea, poolWords, vend
<1>3. owned' = owned \ VirtualBlocks /\ drift' = drift + lost
  BY DEF vend, VirtualBlocks
<1>4. HeapBlocks' = HeapBlocks /\ VirtualBlocks' = {}
  BY <1>3 DEF HeapBlocks, VirtualBlocks
<1>5. vlist' = <<[at |-> 0, len |-> VHeapWords]>> /\ vheap' \in [prhasheap : BOOLEAN, list : Seq(Block)]
  BY <1>2 DEF vlist, NoHeap
<1>6. Sound(vlist') /\ FreeOf(vlist') = Words(0, VHeapWords)
  BY <1>5, EvenIs, WholeIs
<1>7. Words(0, VHeapWords) = 0..(VHeapWords - 1)
  BY HeapSize DEF Words
<1>8. FreeOf(vlist) \cup U = Words(0, VHeapWords) /\ FreeOf(vlist) \cap U = {}
  <2>1. /\ \A w : w \in 0..(VHeapWords - 1) <=> w \in FreeOf(vlist) \/ \E b \in VirtualBlocks : w \in Extent(b)
        /\ \A b \in VirtualBlocks : Extent(b) \cap FreeOf(vlist) = {}
    BY <1>1 DEF Tiled
  <2>2. \A w : w \in U <=> \E b \in VirtualBlocks : w \in Extent(b)
    OBVIOUS
  <2> HIDE DEF U
  <2> QED
    BY <1>7, <2>1, <2>2
<1> HIDE DEF U
<1>9. /\ IsFiniteSet(FreeOf(vlist)) /\ Cardinality(FreeOf(vlist)) \in Nat /\ Cardinality(FreeOf(memlist)) \in Nat
      /\ IsFiniteSet(Words(0, VHeapWords)) /\ Cardinality(Words(0, VHeapWords)) = VHeapWords
  BY HeapFinite, HeapSize, WordsCount
<1>10. IsFiniteSet(U) /\ lost \in Nat
  <2>1. U \subseteq Words(0, VHeapWords)
    BY <1>8
  <2>2. IsFiniteSet(U)
    BY <1>9, <2>1, FS_Subset
  <2> QED
    BY <2>2, FS_CardinalityType
<1>11. VHeapWords = Cardinality(FreeOf(vlist)) + lost
  <2>1. Cardinality(FreeOf(vlist) \cup U) = Cardinality(FreeOf(vlist)) + lost - Cardinality(FreeOf(vlist) \cap U)
    BY <1>9, <1>10, FS_Union
  <2>2. Cardinality(FreeOf(vlist) \cap U) = 0
    BY <1>8, FS_EmptySet
  <2>3. Cardinality(FreeOf(vlist) \cup U) = VHeapWords
    BY <1>8, <1>9
  <2> HIDE DEF lost
  <2> QED
    BY <1>9, <1>10, <2>1, <2>2, <2>3
<1> HIDE DEF lost
<1>12. HeapCounted'
  <2>1. memlength = Cardinality(FreeOf(memlist)) + Cardinality(Words(0, VHeapWords)) - VHeapWords - (drift + lost)
    BY <1>1, <1>9, <1>10, <1>11, HeapSize DEF Counted
  <2> QED
    BY <1>2, <1>3, <1>6, <2>1 DEF HeapCounted, Counted
<1>13. HeapTiled'
  <2>1. Tiled(Words(0, VHeapWords), {}, {}, VHeapWords)
    BY HeapSize, TiledStart
  <2> QED
    BY <1>1, <1>2, <1>4, <1>6, <2>1 DEF HeapTiled
<1>14. HeapTypes'
  BY <1>1, <1>2, <1>3, <1>5, <1>6, <1>10 DEF HeapTypes
<1> QED
  BY <1>12, <1>13, <1>14 DEF HeapInv

LEMMA SoundCoalesced == ASSUME NEW list, Sound(list) PROVE Coalesced(list)
<1>1. \A i \in 1..Len(list) : list[i].at \in Even /\ list[i].len \in Even
  BY BlockIs
<1>2. Len(list) \in Nat
  BY BlockIs
<1>3. \A i \in 1..(Len(list) - 1) : i \in 1..Len(list) /\ i + 1 \in 1..Len(list) /\ i < i + 1
  BY <1>2
<1>4. \A i \in 1..(Len(list) - 1) : list[i].at + list[i].len < list[i + 1].at
  BY <1>3 DEF Sound, Apart
<1> QED
  BY <1>1, <1>4 DEF Coalesced, Even

\* A word is free and in nothing in use, or not free and in one of the uses.
LEMMA PartitionIs ==
    ASSUME NEW list, Sound(list), NEW uses, NEW n \in Nat,
           \A w \in 0..(n - 1) :
              \/ w \in FreeOf(list) /\ \A u \in uses : w \notin u
              \/ w \notin FreeOf(list) /\ \E u \in uses : w \in u /\ \A v \in uses : w \in v => v = u
    PROVE  Partition(list, uses, n)
<1>1. SUFFICES ASSUME NEW w \in 0..(n - 1)
               PROVE  Cardinality({i \in 1..Len(list) : w \in Words(list[i].at, list[i].len)})
                         + Cardinality({u \in uses : w \in u}) = 1
  BY DEF Partition
<1> DEFINE S == {i \in 1..Len(list) : w \in Words(list[i].at, list[i].len)}
           T == {u \in uses : w \in u}
<1>2. w \in FreeOf(list) <=> S # {}
  BY DEF FreeOf
<1>3. \A i, j \in S : i = j
  <2>1. \A i \in S : i \in 1..Len(list) /\ In(w, list[i])
    <3>1. \A i \in 1..Len(list) : list[i] \in Block
      BY DEF Sound
    <3> QED
      BY <3>1, InBlock
  <2> QED
    BY <2>1, OneBlock
<1>4. Cardinality({}) = 0 /\ \A x : Cardinality({x}) = 1
  BY FS_EmptySet, FS_Singleton
<1>5. CASE w \in FreeOf(list) /\ \A u \in uses : w \notin u
  <2>1. PICK i \in S : TRUE
    BY <1>2, <1>5
  <2>2. S = {i} /\ T = {}
    BY <1>3, <1>5, <2>1
  <2>3. Cardinality(S) = 1 /\ Cardinality(T) = 0
    BY <1>4, <2>2
  <2> QED
    BY <2>3
<1>6. CASE w \notin FreeOf(list) /\ \E u \in uses : w \in u /\ \A v \in uses : w \in v => v = u
  <2>1. PICK u \in uses : w \in u /\ \A v \in uses : w \in v => v = u
    BY <1>6
  <2>2. S = {} /\ T = {u}
    BY <1>2, <1>6, <2>1
  <2>3. Cardinality(S) = 0 /\ Cardinality(T) = 1
    BY <1>4, <2>2
  <2> QED
    BY <2>3
<1> QED
  BY <1>5, <1>6

LEMMA HeapInvPartitioned == HeapInv => HeapPartitioned
<1> SUFFICES ASSUME HeapInv PROVE HeapPartitioned
  OBVIOUS
<1> DEFINE V == {Extent(b) : b \in {c \in owned : c.kind = "virtual"}}
<1>1. /\ Sound(memlist) /\ Sound(vlist)
      /\ Counted(FreeOf(memlist), FreeOf(vlist), memlength, drift)
      /\ Tiled(FreeOf(memlist), HeapBlocks, leaked \cup PoolArea, HeapWords)
      /\ leaked \cap PoolArea = {} /\ Tiled(FreeOf(vlist), VirtualBlocks, {}, VHeapWords)
  BY DEF HeapInv, HeapTypes, HeapTiled, HeapCounted
<1>2. Coalesced(memlist) /\ Coalesced(vlist)
  BY <1>1, SoundCoalesced
<1>3. Partition(vlist, V, VHeapWords)
  <2>1. V = {Extent(b) : b \in VirtualBlocks}
    BY DEF VirtualBlocks
  <2> HIDE DEF V
  <2>2. \A w : w \in 0..(VHeapWords - 1) <=> w \in FreeOf(vlist) \/ \E b \in VirtualBlocks : w \in Extent(b)
    BY <1>1 DEF Tiled
  <2>3. \A b \in VirtualBlocks : Extent(b) \cap FreeOf(vlist) = {}
    BY <1>1 DEF Tiled
  <2>4. \A b, c \in VirtualBlocks : b # c => Extent(b) \cap Extent(c) = {}
    BY <1>1 DEF Tiled
  <2>5. ASSUME NEW w \in 0..(VHeapWords - 1)
        PROVE  \/ w \in FreeOf(vlist) /\ \A u \in V : w \notin u
               \/ w \notin FreeOf(vlist) /\ \E u \in V : w \in u /\ \A v \in V : w \in v => v = u
    <3>1. CASE w \in FreeOf(vlist)
      BY <2>1, <2>3, <3>1
    <3>2. CASE w \notin FreeOf(vlist)
      <4>1. PICK b \in VirtualBlocks : w \in Extent(b)
        BY <2>2, <3>2
      <4>2. \A v \in V : w \in v => v = Extent(b)
        BY <2>1, <2>4, <4>1
      <4>3. Extent(b) \in V
        BY <2>1
      <4> QED
        BY <3>2, <4>1, <4>2, <4>3
    <3> QED
      BY <3>1, <3>2
  <2> QED
    BY <1>1, <2>5, HeapSize, PartitionIs
<1>4. Partition(memlist, Uses, HeapWords)
  <2> DEFINE H == {Extent(b) : b \in HeapBlocks}
             L == IF leaked = {} THEN {} ELSE {leaked}
             P == IF pool.made THEN {Words(pool.at, roundmb(poolWords))} ELSE {}
  <2>1. Uses = H \cup L \cup P
    BY DEF Uses, HeapBlocks
  <2>2. /\ \A u \in L : u = leaked
        /\ \A w \in leaked : leaked \in L
        /\ \A u \in P : u = PoolArea
        /\ \A w \in PoolArea : PoolArea \in P
    BY DEF PoolArea
  <2>3. /\ \A u \in H : \E b \in HeapBlocks : u = Extent(b)
        /\ \A b \in HeapBlocks : Extent(b) \in H
    OBVIOUS
  <2> HIDE DEF H, L, P
  <2>4. \A w : w \in 0..(HeapWords - 1) <=>
            w \in FreeOf(memlist) \/ w \in leaked \/ w \in PoolArea \/ \E b \in HeapBlocks : w \in Extent(b)
    BY <1>1 DEF Tiled
  <2>5. \A w : w \in FreeOf(memlist) => w \notin leaked /\ w \notin PoolArea /\ \A b \in HeapBlocks : w \notin Extent(b)
    BY <1>1 DEF Tiled
  <2>6. \A b \in HeapBlocks : \A w \in Extent(b) : w \notin leaked /\ w \notin PoolArea
    BY <1>1 DEF Tiled
  <2>7. \A b, c \in HeapBlocks : b # c => Extent(b) \cap Extent(c) = {}
    BY <1>1 DEF Tiled
  <2>8. ASSUME NEW w \in 0..(HeapWords - 1)
        PROVE  \/ w \in FreeOf(memlist) /\ \A u \in Uses : w \notin u
               \/ w \notin FreeOf(memlist) /\ \E u \in Uses : w \in u /\ \A v \in Uses : w \in v => v = u
    <3>1. CASE w \in FreeOf(memlist)
      BY <2>1, <2>2, <2>3, <2>5, <3>1
    <3>2. CASE w \in leaked
      <4>1. w \notin FreeOf(memlist) /\ w \notin PoolArea /\ \A b \in HeapBlocks : w \notin Extent(b)
        BY <1>1, <2>5, <2>6, <3>2
      <4>2. leaked \in Uses /\ \A v \in Uses : w \in v => v = leaked
        BY <2>1, <2>2, <2>3, <3>2, <4>1
      <4> QED
        BY <3>2, <4>1, <4>2
    <3>3. CASE w \in PoolArea
      <4>1. w \notin FreeOf(memlist) /\ w \notin leaked /\ \A b \in HeapBlocks : w \notin Extent(b)
        BY <1>1, <2>5, <2>6, <3>3
      <4>2. PoolArea \in Uses /\ \A v \in Uses : w \in v => v = PoolArea
        BY <2>1, <2>2, <2>3, <3>3, <4>1
      <4> QED
        BY <3>3, <4>1, <4>2
    <3>4. CASE w \notin FreeOf(memlist) /\ w \notin leaked /\ w \notin PoolArea
      <4>1. PICK b \in HeapBlocks : w \in Extent(b)
        BY <2>4, <3>4
      <4>2. Extent(b) \in Uses
        BY <2>1, <2>3
      <4>3. ASSUME NEW v \in Uses, w \in v PROVE v = Extent(b)
        <5>1. v \notin L /\ v \notin P
          BY <2>2, <3>4, <4>3
        <5>2. PICK c \in HeapBlocks : v = Extent(c)
          BY <2>1, <2>3, <5>1
        <5> QED
          BY <2>7, <4>1, <4>3, <5>2
      <4> QED
        BY <3>4, <4>1, <4>2, <4>3
    <3> QED
      BY <3>1, <3>2, <3>3, <3>4
  <2> QED
    BY <1>1, <2>8, HeapSize, PartitionIs
<1> QED
  BY <1>1, <1>2, <1>3, <1>4 DEF HeapPartitioned, Counted, FreeOf

\* The buffer pool.

SemOfPool == [used : BOOLEAN, count : Int, queue : Seq(BufUser)]
PoolType == [made : BOOLEAN, at : Nat, list : Seq(Nat), bpsem : SemOfPool]

\* The processes that getbuf() has let in and that have not taken their buffer
LetThrough(s, g) == {p \in g : ~Waits(s, p)}
BufferAt(at, i) == at + (i - 1) * (BufSize + 1)
Buffers(at) == {BufferAt(at, i) : i \in 1..NumBufs}

LEMMA Sums ==
    ASSUME NEW c \in Int, NEW i \in Nat, NEW q \in Nat, NEW l \in Nat, SumIs(c, i, q, l)
    PROVE  /\ SumIs(c - 1, i + 1, q, l) /\ SumIs(c - 1, i, q + 1, l)
           /\ SumIs(c, i - 1, q, l - 1)
           /\ SumIs(c + 1, i, q, l + 1) /\ SumIs(c + 1, i + 1, q - 1, l + 1)
BY DEF SumIs

\* The list l, the buffers h in use, the semaphore s and the processes g in getbuf()
PoolSound(at, l, h, s, g) ==
    /\ SemSound(s, BufUser)
    /\ \A p \in BufUser : Waits(s, p) => p \in g
    /\ Once(l)
    /\ \A b \in Nat : ~(b \in h /\ On(b, l))
    /\ \A b \in Nat : b \in h \/ On(b, l) <=> b \in Buffers(at)
    /\ Len(l) + Cardinality(h) = NumBufs
    /\ SumIs(s.count, Cardinality(LetThrough(s, g)), Len(s.queue), Len(l))

PoolInv ==
    /\ pool \in PoolType /\ getting \subseteq BufUser
    /\ held \subseteq Nat /\ IsFiniteSet(held)
    /\ pool.made => PoolSound(pool.at, pool.list, held, pool.bpsem, getting)
    /\ ~pool.made => held = {} /\ getting = {}

LEMMA PoolSizes ==
    /\ BufSize \in Nat /\ BufSize + 1 \in Nat \ {0} /\ NumBufs \in Nat \ {0}
    /\ poolWords \in Nat \ {0}
<1>1. BufSize \in Nat \ {0} /\ NumBufs \in Nat \ {0}
  BY MemoryAssumption
<1>2. \A a, b \in Nat \ {0} : a * b \in Nat \ {0}
  OBVIOUS
<1> QED
  BY <1>1, <1>2 DEF poolWords

LEMMA Multiples ==
    ASSUME NEW s \in Nat \ {0}, NEW i \in Nat, NEW j \in Nat
    PROVE  /\ i * s \in Nat /\ (i + 1) * s = i * s + s
           /\ i < j => i * s + s <= j * s
<1>1. i * s \in Nat /\ (i + 1) * s = i * s + s
  OBVIOUS
<1>2. ASSUME i < j PROVE i * s + s <= j * s
  <2>1. PICK k \in Nat : j = i + 1 + k
    <3>1. j - (i + 1) \in Nat /\ j = i + 1 + (j - (i + 1))
      BY <1>2
    <3> QED
      BY <3>1
  <2>2. k * s \in Nat
    OBVIOUS
  <2>3. j * s = i * s + s + k * s
    BY <2>1
  <2> QED
    BY <1>1, <2>2, <2>3
<1> QED
  BY <1>1, <1>2

LEMMA LetThroughFinite ==
    ASSUME NEW s, NEW g, g \subseteq BufUser
    PROVE  IsFiniteSet(LetThrough(s, g)) /\ Cardinality(LetThrough(s, g)) \in Nat
<1>1. IsFiniteSet(BufUser) /\ LetThrough(s, g) \subseteq BufUser
  BY MemoryAssumption DEF LetThrough
<1> QED
  BY <1>1, FS_Subset, FS_CardinalityType

\* mkbufpool() cuts the buffers out of its memory.
LEMMA PoolMade ==
    ASSUME NEW at \in Nat
    PROVE  /\ [i \in 1..NumBufs |-> at + (i - 1) * (BufSize + 1)] \in Seq(Nat)
           /\ PoolSound(at, [i \in 1..NumBufs |-> at + (i - 1) * (BufSize + 1)], {}, Semaphore(NumBufs), {})
<1> DEFINE l == [i \in 1..NumBufs |-> at + (i - 1) * (BufSize + 1)]
           s == Semaphore(NumBufs)
<1>1. \A i \in 1..NumBufs : i - 1 \in Nat /\ (i - 1) * (BufSize + 1) \in Nat
  BY PoolSizes, Multiples
<1>2. l \in Seq(Nat) /\ Len(l) = NumBufs /\ \A i \in 1..NumBufs : l[i] = BufferAt(at, i)
  BY <1>1, PoolSizes DEF BufferAt
<1> HIDE DEF l
<1>3. Once(l)
  <2>1. SUFFICES ASSUME NEW i \in 1..NumBufs, NEW j \in 1..NumBufs, l[i] = l[j] PROVE i = j
    BY <1>2 DEF Once
  <2> DEFINE a == (i - 1) * (BufSize + 1)
             b == (j - 1) * (BufSize + 1)
  <2>2. /\ i - 1 \in Nat /\ j - 1 \in Nat
        /\ (i - 1 < j - 1 => a + (BufSize + 1) <= b)
        /\ (j - 1 < i - 1 => b + (BufSize + 1) <= a)
    BY <1>1, PoolSizes, Multiples
  <2>3. a \in Nat /\ b \in Nat /\ at + a = at + b
    BY <1>1, <1>2, <2>1 DEF BufferAt
  <2> HIDE DEF a, b
  <2> QED
    BY <2>2, <2>3, PoolSizes
<1>4. \A b : On(b, l) <=> b \in Buffers(at)
  BY <1>2 DEF On, Buffers
<1>5. SemSound(s, BufUser) /\ s.count = NumBufs /\ (\A p : ~Waits(s, p)) /\ s.queue = <<>>
  BY PoolSizes, SemaphoreSound DEF Semaphore
<1>6. LetThrough(s, {}) = {} /\ Cardinality({}) = 0 /\ Len(<<>>) = 0
  BY FS_EmptySet DEF LetThrough
<1> HIDE DEF s
<1>7. SumIs(s.count, Cardinality(LetThrough(s, {})), Len(s.queue), Len(l))
  <2>1. Cardinality(LetThrough(s, {})) = 0 /\ Len(s.queue) = 0
    BY <1>5, <1>6
  <2>2. s.count = NumBufs /\ Len(l) = NumBufs
    BY <1>2, <1>5
  <2> QED
    BY <2>1, <2>2, PoolSizes DEF SumIs
<1>8. Len(l) + Cardinality({}) = NumBufs
  BY <1>2, <1>6, PoolSizes
<1>9. PoolSound(at, l, {}, s, {})
  BY <1>3, <1>4, <1>5, <1>7, <1>8 DEF PoolSound
<1> QED
  BY <1>2, <1>9 DEF l, s

\* getbuf(): a process asks for a buffer.
LEMMA PoolAsked ==
    ASSUME NEW at, NEW l \in Seq(Nat), NEW h, NEW s, NEW g, g \subseteq BufUser, PoolSound(at, l, h, s, g),
           NEW p \in BufUser, p \notin g
    PROVE  PoolSound(at, l, h, Wait(s, p), g \cup {p})
<1> DEFINE w == Wait(s, p)
           I == LetThrough(s, g)
           J == LetThrough(w, g \cup {p})
<1>1. SemSound(s, BufUser) /\ (\A q \in BufUser : Waits(s, q) => q \in g) /\ ~Waits(s, p)
  BY DEF PoolSound
<1>2. /\ SemSound(w, BufUser) /\ w.count = s.count - 1
      /\ w.queue = IF s.count <= 0 THEN Append(s.queue, p) ELSE s.queue
      /\ \A q \in BufUser : Waits(w, q) <=> Waits(s, q) \/ (q = p /\ s.count <= 0)
  BY <1>1, WaitSound
<1>30. Len(l) \in Nat
  OBVIOUS
<1>3. /\ s.count \in Int /\ s.queue \in Seq(BufUser) /\ Len(s.queue) \in Nat
      /\ s.count > 0 => Len(s.queue) = 0
  BY <1>1 DEF SemSound, CountIsQueue
<1>4. SumIs(s.count, Cardinality(I), Len(s.queue), Len(l)) /\ IsFiniteSet(I) /\ Cardinality(I) \in Nat
  BY LetThroughFinite DEF PoolSound
<1> HIDE DEF w
<1>0. w.count = s.count - 1
  BY <1>2
<1>5. SumIs(w.count, Cardinality(J), Len(w.queue), Len(l))
  <2>1. CASE s.count <= 0
    <3>1. J = I
      BY <1>2, <2>1 DEF LetThrough
    <3>2. Len(w.queue) = Len(s.queue) + 1
      BY <1>2, <1>3, <2>1
    <3> HIDE DEF I, J
    <3> QED
      BY <1>3, <1>4, <1>30, <1>0, <3>1, <3>2, Sums
  <2>2. CASE s.count > 0
    <3>1. J = I \cup {p} /\ p \notin I
      BY <1>1, <1>2, <1>3, <2>2 DEF LetThrough
    <3>2. Cardinality(J) = Cardinality(I) + 1
      BY <1>4, <3>1, FS_AddElement
    <3>3. Len(w.queue) = Len(s.queue)
      BY <1>2, <1>3, <2>2
    <3> HIDE DEF I, J
    <3> QED
      BY <1>3, <1>4, <1>30, <1>0, <3>2, <3>3, Sums
  <2> QED
    BY <1>3, <2>1, <2>2
<1>6. \A q \in BufUser : Waits(w, q) => q \in g \cup {p}
  BY <1>1, <1>2
<1> QED
  BY <1>2, <1>5, <1>6 DEF PoolSound, w

\* A process that getbuf() let in finds a buffer, and takes it.
LEMMA PoolTaken ==
    ASSUME NEW at, NEW l \in Seq(Nat), NEW h, IsFiniteSet(h), NEW s, NEW g, g \subseteq BufUser,
           PoolSound(at, l, h, s, g), NEW p \in g, ~Waits(s, p)
    PROVE  /\ l # <<>> /\ Head(l) \in Nat /\ Tail(l) \in Seq(Nat)
           /\ PoolSound(at, Tail(l), h \cup {Head(l)}, s, g \ {p})
<1> DEFINE I == LetThrough(s, g)
           J == LetThrough(s, g \ {p})
           b == Head(l)
           t == Tail(l)
<1>1. /\ SemSound(s, BufUser) /\ (\A q \in BufUser : Waits(s, q) => q \in g)
      /\ Once(l) /\ (\A c \in Nat : ~(c \in h /\ On(c, l)))
      /\ (\A c \in Nat : c \in h \/ On(c, l) <=> c \in Buffers(at))
  BY DEF PoolSound
<1>2. SumIs(s.count, Cardinality(I), Len(s.queue), Len(l)) /\ IsFiniteSet(I) /\ Cardinality(I) \in Nat
  BY LetThroughFinite DEF PoolSound
<1>3. /\ s.count \in Int /\ Len(s.queue) \in Nat /\ Len(l) \in Nat
      /\ Len(s.queue) = IF s.count < 0 THEN 0 - s.count ELSE 0
  BY <1>1 DEF SemSound, CountIsQueue
<1>4. I = J \cup {p} /\ J = I \ {p} /\ p \in I
  BY DEF LetThrough
<1>5. Cardinality(J) = Cardinality(I) - 1 /\ Cardinality(J) \in Nat
  <2>1. IsFiniteSet(I) /\ J = I \ {p} /\ p \in I
    BY <1>2, <1>4
  <2> HIDE DEF I, J
  <2>2. IsFiniteSet(I \ {p}) /\ Cardinality(I \ {p}) = Cardinality(I) - 1
    BY <2>1, FS_RemoveElement
  <2> QED
    BY <2>1, <2>2, FS_CardinalityType
<1>6. Len(l) > 0
  BY <1>2, <1>3, <1>5 DEF SumIs
<1>7. l # <<>>
  <2>1. Len(<<>>) = 0
    OBVIOUS
  <2> QED
    BY <1>6, <2>1
<1>8. /\ b \in Nat /\ On(b, l) /\ t \in Seq(Nat) /\ Len(t) = Len(l) - 1 /\ Once(t)
      /\ \A c \in Nat : On(c, t) <=> c # b /\ On(c, l)
  BY <1>1, <1>7, TailOnce
<1> HIDE DEF b, t
<1>9. b \notin h
  BY <1>1, <1>8
<1>10. Len(t) + Cardinality(h \cup {b}) = NumBufs
  <2>1. Cardinality(h \cup {b}) = Cardinality(h) + 1 /\ Cardinality(h) \in Nat
    BY <1>9, FS_AddElement, FS_CardinalityType
  <2>2. Len(l) + Cardinality(h) = NumBufs
    BY DEF PoolSound
  <2> QED
    BY <1>3, <1>8, <2>1, <2>2, PoolSizes
<1>11. SumIs(s.count, Cardinality(J), Len(s.queue), Len(t))
  <2>1. Len(t) = Len(l) - 1
    BY <1>8
  <2> HIDE DEF I, J
  <2> QED
    BY <1>2, <1>3, <1>5, <2>1, Sums
<1>12. \A q \in BufUser : Waits(s, q) => q \in g \ {p}
  BY <1>1
<1>13. \A c \in Nat : ~(c \in h \cup {b} /\ On(c, t))
  BY <1>1, <1>8
<1>14. \A c \in Nat : c \in h \cup {b} \/ On(c, t) <=> c \in Buffers(at)
  BY <1>1, <1>8
<1>15. PoolSound(at, t, h \cup {b}, s, g \ {p})
  BY <1>1, <1>8, <1>10, <1>11, <1>12, <1>13, <1>14 DEF PoolSound
<1> QED
  BY <1>7, <1>8, <1>15 DEF b, t

\* freebuf(): a buffer goes back to the head of the list.
LEMMA PoolFreed ==
    ASSUME NEW at, NEW l \in Seq(Nat), NEW h, IsFiniteSet(h), NEW s, NEW g, g \subseteq BufUser,
           PoolSound(at, l, h, s, g), NEW b \in h, b \in Nat
    PROVE  <<b>> \o l \in Seq(Nat) /\ PoolSound(at, <<b>> \o l, h \ {b}, Signal(s), g)
<1> DEFINE w == Signal(s)
           I == LetThrough(s, g)
           J == LetThrough(w, g)
           t == <<b>> \o l
<1>1. /\ SemSound(s, BufUser) /\ (\A q \in BufUser : Waits(s, q) => q \in g)
      /\ Once(l) /\ (\A c \in Nat : ~(c \in h /\ On(c, l)))
      /\ (\A c \in Nat : c \in h \/ On(c, l) <=> c \in Buffers(at))
  BY DEF PoolSound
<1>2. SumIs(s.count, Cardinality(I), Len(s.queue), Len(l)) /\ IsFiniteSet(I) /\ Cardinality(I) \in Nat
  BY LetThroughFinite DEF PoolSound
<1>3. /\ s.count \in Int /\ s.queue \in Seq(BufUser) /\ Len(s.queue) \in Nat /\ Len(l) \in Nat
      /\ Len(s.queue) = IF s.count < 0 THEN 0 - s.count ELSE 0
  BY <1>1 DEF SemSound, CountIsQueue
<1>4. /\ SemSound(w, BufUser) /\ w.count = s.count + 1
      /\ s.count >= 0 => w.queue = s.queue
      /\ s.count < 0 => /\ s.queue # <<>> /\ Head(s.queue) \in BufUser /\ Waits(s, Head(s.queue))
                        /\ w.queue = Tail(s.queue)
      /\ \A q \in BufUser : Waits(w, q) <=> Waits(s, q) /\ ~(s.count < 0 /\ q = Head(s.queue))
  BY <1>1, SignalSound
<1>5. /\ t \in Seq(Nat) /\ Once(t) /\ Len(t) = Len(l) + 1
      /\ \A c \in Nat : On(c, t) <=> c = b \/ On(c, l)
  <2>1. <<b>> \in Seq(Nat) /\ Len(<<b>>) = 1 /\ <<b>>[1] = b
    OBVIOUS
  <2>2. Once(<<b>>) /\ \A c \in Nat : On(c, <<b>>) <=> c = b
    BY <2>1 DEF Once, On
  <2>3. \A c \in Nat : ~(On(c, <<b>>) /\ On(c, l))
    BY <1>1, <2>2
  <2>4. t \in Seq(Nat) /\ Once(t) /\ \A c \in Nat : On(c, t) <=> On(c, <<b>>) \/ On(c, l)
    BY <1>1, <2>1, <2>2, <2>3, ConcatOnce
  <2>5. Len(t) = 1 + Len(l)
    BY <2>1
  <2> QED
    BY <1>3, <2>2, <2>4, <2>5
<1> HIDE DEF w, t
<1>0. w.count = s.count + 1 /\ Len(t) = Len(l) + 1
  BY <1>4, <1>5
<1>6. SumIs(w.count, Cardinality(J), Len(w.queue), Len(t))
  <2>1. CASE s.count >= 0
    <3>1. J = I
      BY <1>3, <1>4, <2>1 DEF LetThrough
    <3>2. w.queue = s.queue
      BY <1>4, <2>1
    <3> HIDE DEF I, J
    <3> QED
      BY <1>2, <1>3, <1>0, <3>1, <3>2, Sums
  <2>2. CASE s.count < 0
    <3> DEFINE q == Head(s.queue)
    <3>1. q \in BufUser /\ Waits(s, q) /\ w.queue = Tail(s.queue) /\ s.queue # <<>>
      BY <1>4, <2>2
    <3>2. q \in g /\ \A r \in BufUser : Waits(w, r) <=> Waits(s, r) /\ r # q
      BY <1>1, <1>4, <2>2, <3>1
    <3> HIDE DEF q
    <3>3. J = I \cup {q} /\ q \notin I
      BY <3>1, <3>2 DEF LetThrough
    <3>4. Cardinality(J) = Cardinality(I) + 1
      BY <1>2, <3>3, FS_AddElement
    <3>5. Len(w.queue) = Len(s.queue) - 1
      BY <1>3, <3>1
    <3> HIDE DEF I, J
    <3> QED
      BY <1>2, <1>3, <1>0, <3>4, <3>5, Sums
  <2> QED
    BY <1>3, <2>1, <2>2
<1>7. Len(t) + Cardinality(h \ {b}) = NumBufs
  <2>1. Cardinality(h \ {b}) = Cardinality(h) - 1 /\ Cardinality(h) \in Nat
    BY FS_RemoveElement, FS_CardinalityType
  <2>2. Len(l) + Cardinality(h) = NumBufs
    BY DEF PoolSound
  <2> QED
    BY <1>3, <1>5, <2>1, <2>2, PoolSizes
<1>8. \A q \in BufUser : Waits(w, q) => q \in g
  BY <1>1, <1>4
<1>9. \A c \in Nat : ~(c \in h \ {b} /\ On(c, t))
  BY <1>1, <1>5
<1>10. \A c \in Nat : c \in h \ {b} \/ On(c, t) <=> c \in Buffers(at)
  BY <1>1, <1>5
<1>11. PoolSound(at, t, h \ {b}, w, g)
  BY <1>4, <1>5, <1>6, <1>7, <1>8, <1>9, <1>10 DEF PoolSound
<1> QED
  BY <1>5, <1>11 DEF w, t

\* The buffers lie side by side in the memory of the pool.
LEMMA BuffersFill ==
    ASSUME NEW at \in Nat
    PROVE  UNION {Words(b, BufSize + 1) : b \in Buffers(at)} = Words(at, poolWords)
<1> DEFINE s == BufSize + 1
<1>1. s \in Nat \ {0} /\ NumBufs \in Nat \ {0} /\ poolWords = NumBufs * s /\ poolWords \in Nat
  BY PoolSizes DEF poolWords
<1>2. \A i \in 1..NumBufs : i - 1 \in Nat /\ (i - 1) * s \in Nat /\ BufferAt(at, i) = at + (i - 1) * s
  BY <1>1, Multiples DEF BufferAt
<1> HIDE DEF s
<1>3. \A w : w \in Words(at, poolWords) <=> w \in Int /\ at <= w /\ w < at + poolWords
  BY <1>1, WordsIs
<1>4. \A i \in 1..NumBufs : \A w : w \in Words(BufferAt(at, i), s) <=>
                w \in Int /\ at + (i - 1) * s <= w /\ w < at + (i - 1) * s + s
  <2>1. TAKE i \in 1..NumBufs
  <2>2. BufferAt(at, i) \in Int /\ s \in Int /\ BufferAt(at, i) = at + (i - 1) * s
    BY <1>1, <1>2
  <2> QED
    BY <2>2, WordsIs
<1>5. ASSUME NEW i \in 1..NumBufs, NEW w \in Words(BufferAt(at, i), s) PROVE w \in Words(at, poolWords)
  <2>1. i - 1 \in Nat /\ i - 1 < NumBufs
    BY <1>1
  <2>2. (i - 1) * s + s <= NumBufs * s /\ (i - 1) * s \in Nat
    BY <1>1, <2>1, Multiples
  <2>3. w \in Int /\ at + (i - 1) * s <= w /\ w < at + (i - 1) * s + s
    BY <1>4
  <2> QED
    BY <1>1, <1>3, <2>2, <2>3
<1>6. ASSUME NEW w \in Words(at, poolWords) PROVE \E i \in 1..NumBufs : w \in Words(BufferAt(at, i), s)
  <2> DEFINE T == {k \in Nat : w < at + k * s}
  <2>1. w \in Int /\ at <= w /\ w < at + NumBufs * s
    BY <1>1, <1>3
  <2>2. NumBufs \in T /\ T \in SUBSET Nat
    BY <1>1, <2>1
  <2>3. PICK m \in T : \A k \in T : m <= k
    BY <2>2, LeastNatural
  <2>4. m \in Nat /\ m <= NumBufs /\ w < at + m * s
    BY <2>2, <2>3
  <2>5. m # 0
    <3>1. 0 * s = 0
      BY <1>1
    <3> QED
      BY <2>1, <2>4, <3>1
  <2>6. m - 1 \in Nat /\ m - 1 \notin T /\ m \in 1..NumBufs
    BY <1>1, <2>3, <2>4, <2>5
  <2>7. (m - 1) * s \in Nat /\ (m - 1 + 1) * s = (m - 1) * s + s /\ m - 1 + 1 = m
    BY <1>1, <2>4, <2>6, Multiples
  <2>8. at + (m - 1) * s <= w
    BY <2>1, <2>6, <2>7
  <2>9. w < at + (m - 1) * s + s
    BY <1>1, <2>4, <2>7
  <2> QED
    BY <1>4, <2>1, <2>6, <2>8, <2>9
<1>7. UNION {Words(b, s) : b \in Buffers(at)} = Words(at, poolWords)
  BY <1>5, <1>6 DEF Buffers
<1> QED
  BY <1>7 DEF s

LEMMA PoolInvExact == PoolInv => PoolExact
<1> SUFFICES ASSUME PoolInv, pool.made PROVE PoolExact
  BY DEF PoolExact
<1> DEFINE s == pool.bpsem
           l == pool.list
           I == LetThrough(s, getting)
<1>1. /\ l \in Seq(Nat) /\ Len(l) \in Nat /\ pool.at \in Nat /\ getting \subseteq BufUser /\ held \subseteq Nat
      /\ PoolSound(pool.at, l, held, s, getting)
  BY DEF PoolInv, PoolType
<1>2. /\ SemSound(s, BufUser) /\ CountIsQueue(s) /\ Once(l)
      /\ (\A c \in Nat : ~(c \in held /\ On(c, l)))
      /\ (\A c \in Nat : c \in held \/ On(c, l) <=> c \in Buffers(pool.at))
      /\ Len(l) + Cardinality(held) = NumBufs
  BY <1>1 DEF PoolSound, SemSound
<1>3. SumIs(s.count, Cardinality(I), Len(s.queue), Len(l))
  BY <1>1 DEF PoolSound
<1>4. s.count \in Int /\ s.queue \in Seq(BufUser) /\ Len(s.queue) \in Nat
  <2> HIDE DEF s, l
  <2>1. s \in [used : {TRUE}, count : Int, queue : Seq(BufUser)]
    BY <1>2 DEF SemSound
  <2> QED
    BY <2>1
<1>5. Len(s.queue) = IF s.count < 0 THEN 0 - s.count ELSE 0
  BY <1>2 DEF CountIsQueue
<1>6. Cardinality(I) \in Nat
  BY <1>1, LetThroughFinite
<1> HIDE DEF I
<1>7. Len(l) = (IF s.count > 0 THEN s.count ELSE 0) + Cardinality(I)
  <2>1. CASE s.count > 0
    BY <1>1, <1>3, <1>4, <1>5, <1>6, <2>1 DEF SumIs
  <2>2. CASE ~(s.count > 0)
    BY <1>1, <1>3, <1>4, <1>5, <1>6, <2>2 DEF SumIs
  <2> QED
    BY <2>1, <2>2
<1>8. \A b \in held : \A i \in 1..Len(l) : l[i] # b
  BY <1>1, <1>2 DEF On
<1>9. held \cup {l[i] : i \in 1..Len(l)} = Buffers(pool.at)
  <2>1. \A i \in 1..Len(l) : l[i] \in Nat
    BY <1>1
  <2>2. \A b \in Buffers(pool.at) : b \in Nat
    <3>1. \A i \in 1..NumBufs : i - 1 \in Nat /\ (i - 1) * (BufSize + 1) \in Nat
      BY PoolSizes, Multiples
    <3> QED
      BY <1>1, <3>1 DEF Buffers, BufferAt
  <2>3. \A b \in Nat : b \in {l[i] : i \in 1..Len(l)} <=> On(b, l)
    BY DEF On
  <2> HIDE DEF l
  <2> QED
    BY <1>1, <1>2, <2>1, <2>2, <2>3
<1>10. UNION {Words(b, BufSize + 1) : b \in held \cup {l[i] : i \in 1..Len(l)}} = Words(pool.at, poolWords)
  BY <1>1, <1>9, BuffersFill
<1> QED
  BY <1>2, <1>7, <1>8, <1>10 DEF PoolExact, Once, I, LetThrough

LEMMA getbufKeeps == ASSUME PoolInv, NEW p \in BufUser, getbuf(p) PROVE PoolInv'
<1> DEFINE w == Wait(pool.bpsem, p)
<1>1. /\ pool \in PoolType /\ pool.list \in Seq(Nat) /\ getting \subseteq BufUser /\ held \subseteq Nat /\ IsFiniteSet(held)
      /\ PoolSound(pool.at, pool.list, held, pool.bpsem, getting)
      /\ pool.made /\ p \notin getting
  BY DEF PoolInv, getbuf, PoolType
<1>2. PoolSound(pool.at, pool.list, held, w, getting \cup {p})
  BY <1>1, PoolAsked
<1>3. w \in SemOfPool
  BY <1>2 DEF PoolSound, SemSound, SemOfPool
<1>4. pool' = [pool EXCEPT !.bpsem = w] /\ getting' = getting \cup {p} /\ held' = held
  BY DEF getbuf
<1> HIDE DEF w
<1>5. /\ pool' \in PoolType /\ pool'.made /\ pool'.at = pool.at /\ pool'.list = pool.list /\ pool'.bpsem = w
  BY <1>1, <1>3, <1>4 DEF PoolType
<1> QED
  BY <1>1, <1>2, <1>4, <1>5 DEF PoolInv

LEMMA getbufTakeKeeps == ASSUME PoolInv, NEW p \in BufUser, getbufTake(p) PROVE PoolInv'
<1> DEFINE t == Tail(pool.list)
           b == Head(pool.list)
<1>1. /\ pool \in PoolType /\ pool.list \in Seq(Nat) /\ getting \subseteq BufUser /\ held \subseteq Nat /\ IsFiniteSet(held)
      /\ p \in getting /\ ~Waits(pool.bpsem, p) /\ pool.made
      /\ PoolSound(pool.at, pool.list, held, pool.bpsem, getting)
  BY DEF PoolInv, getbufTake, PoolType
<1>2. b \in Nat /\ t \in Seq(Nat) /\ PoolSound(pool.at, t, held \cup {b}, pool.bpsem, getting \ {p})
  BY <1>1, PoolTaken
<1>3. pool' = [pool EXCEPT !.list = t] /\ getting' = getting \ {p} /\ held' = held \cup {b}
  BY DEF getbufTake
<1> HIDE DEF t, b
<1>4. pool' \in PoolType /\ pool'.made /\ pool'.at = pool.at /\ pool'.list = t /\ pool'.bpsem = pool.bpsem
  BY <1>1, <1>2, <1>3 DEF PoolType
<1>5. held' \subseteq Nat /\ IsFiniteSet(held')
  BY <1>1, <1>2, <1>3, FS_AddElement
<1> QED
  BY <1>1, <1>2, <1>3, <1>4, <1>5 DEF PoolInv

LEMMA freebufKeeps == ASSUME PoolInv, NEW b \in held, freebuf(b) PROVE PoolInv'
<1> DEFINE t == <<b>> \o pool.list
           w == Signal(pool.bpsem)
<1>1. /\ pool \in PoolType /\ pool.list \in Seq(Nat) /\ getting \subseteq BufUser /\ held \subseteq Nat /\ IsFiniteSet(held)
      /\ pool.made /\ PoolSound(pool.at, pool.list, held, pool.bpsem, getting) /\ b \in Nat
  BY DEF PoolInv, PoolType
<1>2. t \in Seq(Nat) /\ PoolSound(pool.at, t, held \ {b}, w, getting)
  BY <1>1, PoolFreed
<1>3. w \in SemOfPool
  BY <1>2 DEF PoolSound, SemSound, SemOfPool
<1>4. pool' = [pool EXCEPT !.list = t, !.bpsem = w] /\ getting' = getting /\ held' = held \ {b}
  BY DEF freebuf
<1> HIDE DEF t, w
<1>5. pool' \in PoolType /\ pool'.made /\ pool'.at = pool.at /\ pool'.list = t /\ pool'.bpsem = w
  BY <1>1, <1>2, <1>3, <1>4 DEF PoolType
<1>6. held' \subseteq Nat /\ IsFiniteSet(held')
  BY <1>1, <1>4, FS_RemoveElement
<1> QED
  BY <1>1, <1>2, <1>4, <1>5, <1>6 DEF PoolInv

LEMMA PoolSame ==
    ASSUME PoolInv, UNCHANGED <<pool, held, getting>> PROVE PoolInv'
BY DEF PoolInv

LEMMA mkbufpoolKeeps ==
    ASSUME HeapInv, PoolInv, NEW created \in BOOLEAN, mkbufpool(created)
    PROVE  HeapInv' /\ PoolInv'
<1> DEFINE n == roundmb(poolWords)
           list(at) == [i \in 1..NumBufs |-> at + (i - 1) * (BufSize + 1)]
<1>1. PICK where \in getmemAt(poolWords) :
         /\ take(poolWords, where, TRUE)
         /\ IF created
            THEN /\ pool' = [made |-> TRUE, at |-> where.at, list |-> list(where.at), bpsem |-> Semaphore(NumBufs)]
                 /\ UNCHANGED leaked
            ELSE leaked' = leaked \cup Words(where.at, n) /\ UNCHANGED pool
  BY DEF mkbufpool
<1>2. TakenFrom(where.at, n)
  BY <1>1, PoolSizes, TakenBottom
<1>3. where.at \in Nat
  BY <1>2, EvenNat DEF TakenFrom
<1>4. ~pool.made /\ PoolArea = {} /\ held = {} /\ getting = {} /\ held' = {} /\ getting' = {} /\ UNCHANGED <<vheap, drift, owned>>
  BY DEF mkbufpool, PoolArea, PoolInv
<1>5. CASE created
  <2> DEFINE l == list(where.at)
             s == Semaphore(NumBufs)
  <2>1. l \in Seq(Nat) /\ PoolSound(where.at, l, {}, s, {})
    BY <1>3, PoolMade
  <2>2. s \in SemOfPool
    BY <2>1 DEF PoolSound, SemSound, SemOfPool
  <2>3. pool' = [made |-> TRUE, at |-> where.at, list |-> l, bpsem |-> s] /\ leaked' = leaked
    BY <1>1, <1>5
  <2> HIDE DEF l, s
  <2>4. /\ pool' \in PoolType /\ pool'.made /\ pool'.at = where.at /\ pool'.list = l /\ pool'.bpsem = s
    BY <1>3, <2>1, <2>2, <2>3 DEF PoolType
  <2>5. PoolArea' = Words(where.at, n)
    BY <2>4 DEF PoolArea, poolWords
  <2>6. HeapInv'
    BY <1>2, <1>4, <2>3, <2>5, WordsTaken
  <2>7. IsFiniteSet({})
    BY FS_EmptySet
  <2>8. PoolInv'
    BY <1>4, <2>1, <2>4, <2>7 DEF PoolInv
  <2> QED
    BY <2>6, <2>8
<1>6. CASE ~created
  <2>1. leaked' = leaked \cup Words(where.at, n) /\ pool' = pool
    BY <1>1, <1>6
  <2>2. PoolArea' = PoolArea
    BY <2>1 DEF PoolArea, poolWords
  <2>3. HeapInv'
    BY <1>2, <1>4, <2>1, <2>2, WordsTaken
  <2>4. PoolInv'
    BY <1>4, <2>1, PoolSame
  <2> QED
    BY <2>3, <2>4
<1> QED
  BY <1>5, <1>6

MemInv == HeapInv /\ PoolInv

LEMMA InitMemInv == meminit => MemInv
<1> SUFFICES ASSUME meminit PROVE MemInv
  OBVIOUS
<1>1. /\ memlist = <<[at |-> 0, len |-> HeapWords]>> /\ memlength = HeapWords /\ vheap = NoHeap
      /\ owned = {} /\ leaked = {} /\ pool = NoPool /\ held = {} /\ getting = {} /\ drift = 0
  BY DEF meminit
<1>2. vlist = <<[at |-> 0, len |-> VHeapWords]>> /\ vheap \in [prhasheap : BOOLEAN, list : Seq(Block)]
  BY <1>1 DEF vlist, NoHeap
<1>3. /\ Sound(memlist) /\ FreeOf(memlist) = Words(0, HeapWords)
      /\ Sound(vlist) /\ FreeOf(vlist) = Words(0, VHeapWords)
  BY <1>1, <1>2, EvenIs, WholeIs
<1>4. HeapBlocks = {} /\ VirtualBlocks = {} /\ PoolArea = {} /\ leaked \cup PoolArea = {}
  BY <1>1 DEF HeapBlocks, VirtualBlocks, PoolArea, NoPool
<1>5. HeapTiled
  <2>1. Tiled(Words(0, HeapWords), {}, {}, HeapWords) /\ Tiled(Words(0, VHeapWords), {}, {}, VHeapWords)
    BY HeapSize, TiledStart
  <2> QED
    BY <1>3, <1>4, <2>1 DEF HeapTiled
<1>6. HeapCounted
  <2>1. Cardinality(Words(0, HeapWords)) = HeapWords /\ Cardinality(Words(0, VHeapWords)) = VHeapWords
    BY HeapSize, WordsCount
  <2>2. memlength = HeapWords /\ drift = 0 /\ HeapWords = HeapWords + VHeapWords - VHeapWords - 0
    BY <1>1, HeapSize
  <2> QED
    BY <1>3, <2>1, <2>2 DEF HeapCounted, Counted
<1>7. HeapTypes
  BY <1>1, <1>2, <1>3, HeapSize DEF HeapTypes
<1>8. PoolInv
  <2>1. NoSemaphore \in SemOfPool
    BY DEF NoSemaphore, SemOfPool
  <2>2. pool \in PoolType /\ ~pool.made
    BY <1>1, <2>1 DEF NoPool, PoolType
  <2> QED
    BY <1>1, <2>2, FS_EmptySet DEF PoolInv
<1> QED
  BY <1>5, <1>6, <1>7, <1>8 DEF MemInv, HeapInv

LEMMA NextMemInv == MemInv /\ [MemNext]_mvars => MemInv'
<1> SUFFICES ASSUME HeapInv, PoolInv, [MemNext]_mvars PROVE HeapInv' /\ PoolInv'
  BY DEF MemInv
<1>1. ASSUME NEW n \in Requests, getmem(n) \/ getstk(n) \/ createFails(n) PROVE HeapInv' /\ PoolInv'
  <2>1. HeapInv'
    BY <1>1, getmemKeeps, getstkKeeps, createFailsKeeps
  <2>2. UNCHANGED <<pool, held, getting>>
    BY <1>1 DEF getmem, getstk, createFails
  <2> QED
    BY <2>1, <2>2, PoolSame
<1>2. ASSUME NEW b \in owned, freemem(b) \/ freestk(b) \/ vfreemem(b) PROVE HeapInv' /\ PoolInv'
  <2>1. HeapInv'
    BY <1>2, freememKeeps, freestkKeeps, vfreememKeeps
  <2>2. UNCHANGED <<pool, held, getting>>
    BY <1>2 DEF freemem, freestk, vfreemem
  <2> QED
    BY <2>1, <2>2, PoolSame
<1>3. ASSUME NEW i \in 0..(HeapWords \div 2), NEW n \in Requests, freeAgain(2 * i, n) PROVE HeapInv' /\ PoolInv'
  <2>1. 2 * i \in Nat
    OBVIOUS
  <2>2. HeapInv'
    BY <1>3, <2>1, freeAgainKeeps
  <2>3. UNCHANGED <<pool, held, getting>>
    BY <1>3 DEF freeAgain
  <2> QED
    BY <2>2, <2>3, PoolSame
<1>4. ASSUME NEW n \in VRequests, vgetmem(n) PROVE HeapInv' /\ PoolInv'
  <2>1. UNCHANGED <<pool, held, getting>>
    BY <1>4 DEF vgetmem
  <2> QED
    BY <1>4, <2>1, vgetmemKeeps, PoolSame
<1>5. ASSUME vend PROVE HeapInv' /\ PoolInv'
  <2>1. UNCHANGED <<pool, held, getting>>
    BY <1>5 DEF vend
  <2> QED
    BY <1>5, <2>1, vendKeeps, PoolSame
<1>6. ASSUME PoolInv', pool.made => pool'.made /\ pool'.at = pool.at, ~pool.made => pool' = pool,
             UNCHANGED <<memlist, memlength, vheap, owned, leaked, drift>>
      PROVE  HeapInv'
  <2>1. PoolArea' = PoolArea
    BY <1>6 DEF PoolArea, poolWords
  <2> QED
    BY <1>6, <2>1, HeapSame
<1>7. pool \in PoolType
  BY DEF PoolInv
<1>8. ASSUME NEW p \in BufUser, getbuf(p) \/ getbufTake(p) PROVE HeapInv' /\ PoolInv'
  <2>1. PoolInv'
    BY <1>8, getbufKeeps, getbufTakeKeeps
  <2>2. pool.made
    BY <1>8 DEF getbuf, getbufTake, PoolInv
  <2>3. pool'.made /\ pool'.at = pool.at
    BY <1>7, <1>8, <2>2 DEF getbuf, getbufTake, PoolType
  <2>4. UNCHANGED <<memlist, memlength, vheap, owned, leaked, drift>>
    BY <1>8 DEF getbuf, getbufTake
  <2> QED
    BY <1>6, <2>1, <2>2, <2>3, <2>4
<1>9. ASSUME NEW b \in held, freebuf(b) PROVE HeapInv' /\ PoolInv'
  <2>1. PoolInv'
    BY <1>9, freebufKeeps
  <2>2. pool.made
    BY DEF PoolInv
  <2>3. pool'.made /\ pool'.at = pool.at
    BY <1>7, <1>9, <2>2 DEF freebuf, PoolType
  <2>4. UNCHANGED <<memlist, memlength, vheap, owned, leaked, drift>>
    BY <1>9 DEF freebuf
  <2> QED
    BY <1>6, <2>1, <2>2, <2>3, <2>4
<1>10. CASE UNCHANGED mvars
  <2>1. UNCHANGED <<memlist, memlength, vheap, owned, leaked, drift>> /\ UNCHANGED <<pool, held, getting>>
    BY <1>10 DEF mvars
  <2>2. PoolArea' = PoolArea
    BY <2>1 DEF PoolArea, poolWords
  <2> QED
    BY <2>1, <2>2, HeapSame, PoolSame
<1> QED
  BY <1>1, <1>2, <1>3, <1>4, <1>5, <1>8, <1>9, <1>10, mkbufpoolKeeps DEF MemNext

\* After any sequence of getmem(), getstk(), vgetmem() and mkbufpool(), of frees in any
\* order and of getbuf() and freebuf(), for every size of the heaps, of the requests and of
\* the pool: the words of both heaps are shared out without overlap or loss, free blocks do
\* not touch, memlist.mlength is what is free less the drift of the virtual heaps, and a
\* process that getbuf() lets in finds a buffer.
THEOREM MemoryIsExact == MemSpec => []MemoryExact
<1>1. MemInv => MemoryExact
  BY HeapInvPartitioned, PoolInvExact DEF MemInv, MemoryExact
<1> QED
  BY <1>1, InitMemInv, NextMemInv, PTL DEF MemSpec
----
\* The terminal: who waits.

\* The calls of the kinds K, in c, that the semaphore s stands before: who waits there is in
\* such a call.
InKinds(c, K) == {p \in TtyUser : c[p].kind \in K}
SideSound(s, c, K) == SemSound(s, TtyUser) /\ \A p \in TtyUser : Waits(s, p) => c[p].kind \in K

\* What the semaphore counts, and what calls have taken from it.
Stock(s, c, K) == s.count + Cardinality(InKinds(c, K))

Others(p, c, c1) == \A q \in TtyUser \ {p} : c1[q] = c[q]

LEMMA InKindsFinite ==
    ASSUME NEW c, NEW K
    PROVE  IsFiniteSet(InKinds(c, K)) /\ Cardinality(InKinds(c, K)) \in Nat
<1>1. InKinds(c, K) \in SUBSET TtyUser
  BY DEF InKinds
<1> QED
  BY <1>1, FS_Subset, FS_CardinalityType, TtyAssumption

\* One call changes.
LEMMA KindsMove ==
    ASSUME NEW p \in TtyUser, NEW c, NEW c1, Others(p, c, c1), NEW K
    PROVE  /\ c[p].kind \in K /\ c1[p].kind \in K => Cardinality(InKinds(c1, K)) = Cardinality(InKinds(c, K))
           /\ c[p].kind \notin K /\ c1[p].kind \notin K => Cardinality(InKinds(c1, K)) = Cardinality(InKinds(c, K))
           /\ c[p].kind \notin K /\ c1[p].kind \in K => Cardinality(InKinds(c1, K)) = Cardinality(InKinds(c, K)) + 1
           /\ c[p].kind \in K /\ c1[p].kind \notin K => Cardinality(InKinds(c1, K)) = Cardinality(InKinds(c, K)) - 1
<1>1. \A q \in TtyUser : q # p => (c1[q].kind \in K <=> c[q].kind \in K)
  BY DEF Others
<1>2. /\ (c[p].kind \in K <=> c1[p].kind \in K) => InKinds(c1, K) = InKinds(c, K)
      /\ c[p].kind \notin K /\ c1[p].kind \in K => InKinds(c1, K) = InKinds(c, K) \cup {p} /\ p \notin InKinds(c, K)
      /\ c[p].kind \in K /\ c1[p].kind \notin K => InKinds(c1, K) = InKinds(c, K) \ {p} /\ p \in InKinds(c, K)
  BY <1>1 DEF InKinds
<1> DEFINE S == InKinds(c, K)
<1>3. IsFiniteSet(S)
  BY InKindsFinite
<1> HIDE DEF S
<1>4. /\ p \notin S => Cardinality(S \cup {p}) = Cardinality(S) + 1
      /\ p \in S => Cardinality(S \ {p}) = Cardinality(S) - 1
  BY <1>3, FS_AddElement, FS_RemoveElement
<1> QED
  BY <1>2, <1>4 DEF S

\* A call that begins, or goes on, with wait().
LEMMA SideWait ==
    ASSUME NEW K, NEW s, NEW c, SideSound(s, c, K), NEW p \in TtyUser, ~Waits(s, p),
           NEW c1, Others(p, c, c1), c1[p].kind \in K
    PROVE  /\ SideSound(Wait(s, p), c1, K)
           /\ c[p].kind \notin K => Stock(Wait(s, p), c1, K) = Stock(s, c, K)
           /\ c[p].kind \in K => Stock(Wait(s, p), c1, K) = Stock(s, c, K) - 1
<1>1. /\ SemSound(Wait(s, p), TtyUser) /\ Wait(s, p).count = s.count - 1
      /\ \A q \in TtyUser : Waits(Wait(s, p), q) <=> Waits(s, q) \/ (q = p /\ s.count <= 0)
  BY WaitSound DEF SideSound
<1>2. SideSound(Wait(s, p), c1, K)
  BY <1>1 DEF SideSound, Others
<1>3. s.count \in Int /\ Cardinality(InKinds(c, K)) \in Nat
  BY InKindsFinite DEF SideSound, SemSound
<1> DEFINE n == Cardinality(InKinds(c, K))
           n1 == Cardinality(InKinds(c1, K))
<1>4. (c[p].kind \notin K => n1 = n + 1) /\ (c[p].kind \in K => n1 = n)
  BY KindsMove
<1> HIDE DEF n, n1
<1>5. n \in Nat
  BY <1>3 DEF n
<1>6. /\ c[p].kind \notin K => (s.count - 1) + n1 = s.count + n
      /\ c[p].kind \in K => (s.count - 1) + n1 = (s.count + n) - 1
  BY <1>3, <1>4, <1>5
<1> QED
  BY <1>1, <1>2, <1>6 DEF Stock, n, n1

\* A call that ends, or changes without coming to the semaphore.
LEMMA SideMove ==
    ASSUME NEW K, NEW s, NEW c, SideSound(s, c, K), NEW p \in TtyUser, ~Waits(s, p),
           NEW c1, Others(p, c, c1), c1[p].kind \notin K
    PROVE  /\ SideSound(s, c1, K)
           /\ c[p].kind \notin K => Stock(s, c1, K) = Stock(s, c, K)
           /\ c[p].kind \in K => Stock(s, c1, K) = Stock(s, c, K) - 1
<1>2. SideSound(s, c1, K)
  BY DEF SideSound, Others
<1>3. s.count \in Int /\ Cardinality(InKinds(c, K)) \in Nat
  BY InKindsFinite DEF SideSound, SemSound
<1> DEFINE n == Cardinality(InKinds(c, K))
           n1 == Cardinality(InKinds(c1, K))
<1>4. (c[p].kind \notin K => n1 = n) /\ (c[p].kind \in K => n1 = n - 1)
  BY KindsMove
<1> HIDE DEF n, n1
<1>5. n \in Nat
  BY <1>3 DEF n
<1>6. /\ c[p].kind \notin K => s.count + n1 = s.count + n
      /\ c[p].kind \in K => s.count + n1 = (s.count + n) - 1
  BY <1>3, <1>4, <1>5
<1> QED
  BY <1>2, <1>6 DEF Stock, n, n1

\* The processes that are let in stay in their calls until they run.
LEMMA SideSignal ==
    ASSUME NEW K, NEW s, NEW c, SideSound(s, c, K)
    PROVE  SideSound(Signal(s), c, K) /\ Stock(Signal(s), c, K) = Stock(s, c, K) + 1
<1>1. /\ SemSound(Signal(s), TtyUser) /\ Signal(s).count = s.count + 1
      /\ \A q \in TtyUser : Waits(Signal(s), q) => Waits(s, q)
  BY SignalSound DEF SideSound
<1>2. SideSound(Signal(s), c, K)
  BY <1>1 DEF SideSound
<1>3. s.count \in Int /\ Cardinality(InKinds(c, K)) \in Nat
  BY InKindsFinite DEF SideSound, SemSound
<1> QED
  BY <1>1, <1>2, <1>3 DEF Stock

LEMMA SideSignalN ==
    ASSUME NEW K, NEW s, NEW c, SideSound(s, c, K), NEW n \in Nat
    PROVE  SideSound(SignalN(s, n), c, K) /\ Stock(SignalN(s, n), c, K) = Stock(s, c, K) + n
<1>1. /\ SemSound(SignalN(s, n), TtyUser) /\ SignalN(s, n).count = s.count + n
      /\ \A q \in TtyUser : Waits(SignalN(s, n), q) => Waits(s, q)
  BY SignalNSound DEF SideSound
<1>2. SideSound(SignalN(s, n), c, K)
  BY <1>1 DEF SideSound
<1>3. s.count \in Int /\ Cardinality(InKinds(c, K)) \in Nat
  BY InKindsFinite DEF SideSound, SemSound
<1> QED
  BY <1>1, <1>2, <1>3 DEF Stock

\* Those let in, and those that wait, are the calls.
LEMMA StockIs ==
    ASSUME NEW K, NEW s, NEW c, SideSound(s, c, K)
    PROVE  /\ Stock(s, c, K) = s.count + Len(s.queue) + Cardinality({p \in TtyUser : c[p].kind \in K /\ ~Waits(s, p)})
           /\ Cardinality({p \in TtyUser : c[p].kind \in K /\ ~Waits(s, p)}) \in Nat
           /\ s.count \in Int /\ Len(s.queue) \in Nat /\ s.count + Len(s.queue) >= 0
           /\ \A p \in TtyUser : c[p].kind \in K /\ ~Waits(s, p) => Stock(s, c, K) >= 1
<1> DEFINE A == InKinds(c, K)
           W == {p \in TtyUser : Waits(s, p)}
           G == {p \in TtyUser : c[p].kind \in K /\ ~Waits(s, p)}
<1>1. IsFiniteSet(A) /\ Cardinality(A) \in Nat /\ IsFiniteSet(W) /\ Cardinality(W) = Len(s.queue)
  BY InKindsFinite, WaitingCount DEF SideSound
<1>2. G = A \ W /\ A \cap W = W
  BY DEF InKinds, SideSound
<1>3. s.count \in Int /\ Len(s.queue) \in Nat /\ Len(s.queue) = IF s.count < 0 THEN 0 - s.count ELSE 0
  BY LenProperties DEF SideSound, SemSound, CountIsQueue
<1>4. \A p \in TtyUser : c[p].kind \in K /\ ~Waits(s, p) => p \in G
  OBVIOUS
<1>5. Stock(s, c, K) = s.count + Cardinality(A)
  BY DEF Stock
<1> HIDE DEF A, W, G
<1>6. IsFiniteSet(G) /\ Cardinality(G) = Cardinality(A) - Cardinality(W)
  <2>1. IsFiniteSet(A \ W) /\ Cardinality(A \ W) = Cardinality(A) - Cardinality(A \cap W)
    BY <1>1, FS_Difference
  <2> QED
    BY <1>2, <2>1
<1>7. Cardinality(G) \in Nat /\ (Cardinality(G) = 0 => G = {})
  BY <1>6, FS_CardinalityType, FS_EmptySet
<1>8. \A x, g, a, q \in Int : g = a - q => x + a = x + q + g
  OBVIOUS
<1>9. Stock(s, c, K) = s.count + Len(s.queue) + Cardinality(G)
  BY <1>1, <1>3, <1>5, <1>6, <1>7, <1>8
<1>10. s.count + Len(s.queue) >= 0
  BY <1>3
<1>11. \A p \in G : Stock(s, c, K) >= 1
  <2>1. \A p \in G : Cardinality(G) >= 1
    BY <1>7
  <2> QED
    BY <1>3, <1>7, <1>9, <1>10, <2>1
<1> QED
  BY <1>3, <1>4, <1>7, <1>9, <1>10, <1>11 DEF G
----
\* A buffer of n cells that holds the characters q, from h on.  Raw mode leaves the place of
\* the next at n, and if all are read then, the head goes round alone.
RingAt(h, t, c, n, q) ==
    /\ h \in 0..(n - 1) /\ t \in 0..n /\ c \in [0..(n - 1) -> Char]
    /\ q \in Seq(Char) /\ Len(q) <= n
    /\ t = h + Len(q) \/ t + n = h + Len(q) \/ t = h + Len(q) + n
    /\ \A i \in 1..Len(q) : c[Place(h, i - 1, n)] = q[i]

Ring(b, n, q) == b = [head |-> b.head, tail |-> b.tail, cell |-> b.cell] /\ RingAt(b.head, b.tail, b.cell, n, q)

IsNext(t1, t, n) == t1 \in Nat /\ (t1 = t + 1 \/ (t + 1 = n /\ t1 = 0))
IsStored(c1, c, t, ch) == c1 = [c EXCEPT ![t] = ch]

\* A character is stored.
LEMMA RingStore ==
    ASSUME NEW n \in Nat \ {0}, NEW h, NEW t, NEW c, NEW q, RingAt(h, t, c, n, q), t < n, Len(q) < n,
           NEW ch \in Char, NEW t1, IsNext(t1, t, n),
           NEW c1, IsStored(c1, c, t, ch)
    PROVE  RingAt(h, t1, c1, n, Append(q, ch))
<1> DEFINE l == Len(q)
           q1 == Append(q, ch)
<1>1. /\ l \in Nat /\ h \in Nat /\ h < n /\ t \in Nat /\ l < n /\ t \in 0..(n - 1)
      /\ t = h + l \/ t + n = h + l \/ t = h + l + n
  BY LenProperties DEF RingAt
<1>2. /\ q1 \in Seq(Char) /\ Len(q1) = l + 1 /\ q1[l + 1] = ch
      /\ \A i \in 1..l : q1[i] = q[i]
  BY AppendProperties DEF RingAt
<1>3. c1 \in [0..(n - 1) -> Char] /\ c1[t] = ch /\ \A i \in 0..(n - 1) : i # t => c1[i] = c[i]
  BY <1>1 DEF RingAt, IsStored
<1>4. \A i \in 1..l : c[Place(h, i - 1, n)] = q[i]
  BY DEF RingAt
<1> HIDE DEF l, q1
<1>5. Place(h, (l + 1) - 1, n) = t
  BY <1>1 DEF Place
<1>6. \A i \in 1..l : Place(h, i - 1, n) \in 0..(n - 1) /\ Place(h, i - 1, n) # t
  BY <1>1 DEF Place
<1>7. \A i \in 1..(l + 1) : c1[Place(h, i - 1, n)] = q1[i]
  <2>1. TAKE i \in 1..(l + 1)
  <2>2. CASE i = l + 1
    BY <1>2, <1>3, <1>5, <2>2
  <2>3. CASE i # l + 1
    <3>1. i \in 1..l
      BY <1>1, <2>1, <2>3
    <3> QED
      BY <1>2, <1>3, <1>4, <1>6, <3>1
  <2> QED
    BY <2>2, <2>3
<1>8. t1 \in 0..n /\ (t1 = h + (l + 1) \/ t1 + n = h + (l + 1)) /\ l + 1 <= n
  BY <1>1 DEF IsNext
<1>9. h \in 0..(n - 1)
  BY <1>1
<1> QED
  BY <1>2, <1>3, <1>7, <1>8, <1>9 DEF RingAt, q1

\* k characters are taken from the front.
LEMMA RingTake ==
    ASSUME NEW n \in Nat \ {0}, NEW h, NEW t, NEW c, NEW q, RingAt(h, t, c, n, q),
           NEW k \in Nat, k <= Len(q), NEW q1 \in Seq(Char), Len(q1) = Len(q) - k,
           \A i \in 1..(Len(q) - k) : q1[i] = q[i + k]
    PROVE  RingAt(Place(h, k, n), t, c, n, q1)
<1> DEFINE l == Len(q)
           g == Place(h, k, n)
<1>1. /\ l \in Nat /\ h \in Nat /\ h < n /\ t \in Nat /\ l <= n /\ t <= n /\ t \in 0..n
      /\ t = h + l \/ t + n = h + l \/ t = h + l + n
  BY LenProperties DEF RingAt
<1>2. c \in [0..(n - 1) -> Char] /\ \A i \in 1..l : c[Place(h, i - 1, n)] = q[i]
  BY DEF RingAt
<1>3. Len(q1) = l - k /\ k <= l /\ \A i \in 1..(l - k) : q1[i] = q[i + k]
  OBVIOUS
<1>4. g = IF h + k < n THEN h + k ELSE (h + k) - n
  BY DEF Place
<1> HIDE DEF l, g
<1>5. g \in 0..(n - 1)
  BY <1>1, <1>3, <1>4
<1>6. t = g + (l - k) \/ t + n = g + (l - k) \/ t = g + (l - k) + n
  BY <1>1, <1>3, <1>4
<1>7. \A i \in 1..(l - k) : i + k \in 1..l /\ Place(g, i - 1, n) = Place(h, (i + k) - 1, n)
  BY <1>1, <1>3, <1>4 DEF Place
<1>8. \A i \in 1..(l - k) : c[Place(g, i - 1, n)] = q1[i]
  BY <1>2, <1>3, <1>7
<1>9. l - k <= n
  BY <1>1
<1> QED
  BY <1>1, <1>2, <1>3, <1>5, <1>6, <1>8, <1>9 DEF RingAt, g, l

\* k characters are taken from the end.
LEMMA RingCut ==
    ASSUME NEW n \in Nat \ {0}, NEW h, NEW t, NEW c, NEW q, RingAt(h, t, c, n, q),
           NEW k \in Nat, k <= Len(q), NEW t1 \in 0..n, t1 + k = t \/ (t1 + k = t + n /\ k = 1 /\ t = 0)
    PROVE  /\ RingAt(h, t1, c, n, SubSeq(q, 1, Len(q) - k))
           /\ Len(SubSeq(q, 1, Len(q) - k)) = Len(q) - k
<1> DEFINE l == Len(q)
           q1 == SubSeq(q, 1, l - k)
<1>1. /\ l \in Nat /\ h \in Nat /\ h < n /\ t \in Nat /\ l <= n /\ t <= n /\ k <= l /\ t1 \in Nat /\ t1 <= n
      /\ t = h + l \/ t + n = h + l \/ t = h + l + n
  BY LenProperties DEF RingAt
<1>2. c \in [0..(n - 1) -> Char] /\ \A i \in 1..l : c[Place(h, i - 1, n)] = q[i] /\ q[i] \in Char
  BY ElementOfSeq DEF RingAt
<1>q. q1 = SubSeq(q, 1, l - k)
  OBVIOUS
<1> HIDE DEF l, q1
<1>3. q1 \in Seq(Char) /\ Len(q1) = l - k /\ \A i \in 1..(l - k) : q1[i] = q[i] /\ i \in 1..l
  <2>1. \A i \in 1..(l - k) : i \in 1..l
    BY <1>1
  <2>2. \A i \in 1..(l - k) : q[i] \in Char
    BY <1>2, <2>1
  <2>3. /\ q1 \in Seq(Char) /\ Len(q1) = IF 1 <= l - k THEN (l - k) - 1 + 1 ELSE 0
        /\ \A i \in 1..((l - k) - 1 + 1) : q1[i] = q[1 + i - 1]
    BY <1>1, <1>q, <2>2, SubSeqProperties
  <2>4. (l - k) - 1 + 1 = l - k /\ (1 <= l - k \/ l - k = 0)
    BY <1>1
  <2>5. \A i \in 1..(l - k) : 1 + i - 1 = i
    OBVIOUS
  <2> QED
    BY <2>1, <2>3, <2>4, <2>5
<1>4. t1 = h + (l - k) \/ t1 + n = h + (l - k) \/ t1 = h + (l - k) + n
  BY <1>1
<1>5. l - k <= n /\ h \in 0..(n - 1)
  BY <1>1
<1> QED
  BY <1>2, <1>3, <1>4, <1>5 DEF RingAt, q1, l

\* With the indices as they go round.
LEMMA RingExact ==
    ASSUME NEW n \in Nat \ {0}, NEW h, NEW t, NEW c, NEW q, RingAt(h, t, c, n, q)
    PROVE  /\ (t - h - Len(q)) % n = 0
           /\ \A i \in 1..Len(q) : c[(h + i - 1) % n] = q[i]
<1> DEFINE l == Len(q)
<1>1. /\ l \in Nat /\ h \in Nat /\ h < n /\ t \in Nat /\ l <= n
      /\ t = h + l \/ t + n = h + l \/ t = h + l + n
  BY LenProperties DEF RingAt
<1>2. \A i \in 1..l : c[Place(h, i - 1, n)] = q[i]
  BY DEF RingAt
<1> HIDE DEF l
<1>3. t - h - l = 0 \/ t - h - l = 0 - n \/ t - h - l = n
  BY <1>1
<1>4. (t - h - l) % n = 0
  <2>1. n % n = 0
    BY ModIs
  <2> QED
    BY <1>3, <2>1, ModZero
<1>5. \A i \in 1..l : (h + i - 1) % n = Place(h, i - 1, n)
  <2>1. TAKE i \in 1..l
  <2>2. h + i - 1 \in Nat /\ h + i - 1 < 2 * n /\ h + i - 1 = h + (i - 1)
    BY <1>1, <2>1
  <2> DEFINE x == h + i - 1
  <2>3. x % n = IF x < n THEN x ELSE x - n
    BY <2>2, ModIs
  <2> QED
    BY <2>2, <2>3 DEF Place
<1> QED
  BY <1>2, <1>4, <1>5 DEF l
----
\* The terminal: the state that the invariant speaks of.

Readers == {"line", "rest", "chars", "next"}
TtyCall == [kind : {"none", "write"} \cup Readers, left : Nat, text : Seq(Char)]

CallsTyped(c) ==
    /\ c \in [TtyUser -> TtyCall]
    /\ \A p \in TtyUser : c[p].kind = "write" => c[p].text # <<>>
    /\ \A p \in TtyUser : c[p].kind \in {"line", "rest", "chars"} => c[p].left # 0

\* What was typed is what the semaphore counts, what readers let in have still to fetch,
\* and m more.
InSound(b, q, s, c, m) ==
    /\ Ring(b, TY_IBUFLEN, q) /\ SideSound(s, c, Readers)
    /\ Len(q) = Stock(s, c, Readers) + m

\* The places that characters do not take, the semaphore counts, and writers let in have.
OutSound(b, q, s, c) ==
    /\ Ring(b, TY_OBUFLEN, q) /\ b.tail < TY_OBUFLEN /\ SideSound(s, c, {"write"})
    /\ Len(q) + Stock(s, c, {"write"}) = TY_OBUFLEN

Uart == [etbei : BOOLEAN, thre : BOOLEAN, sending : BOOLEAN]
EchoBuf == [head : 0..(TY_EBUFLEN - 1), tail : 0..(TY_EBUFLEN - 1)]

\* While there is something to send, the interrupt is on.
Behind == Echoes > 0 \/ written # <<>>
Moving ==
    /\ ebuf \in EchoBuf /\ uart \in Uart /\ oheld \in BOOLEAN /\ missed \in BOOLEAN
    /\ Behind => uart.etbei
    /\ Behind /\ ~oheld /\ ~missed => uart.sending \/ uart.thre

TtyModes ==
    /\ icursor \in Nat /\ uncounted \in Nat
    /\ imode \in {"raw", "cooked", "cbreak"} /\ iecho \in BOOLEAN
    /\ tcur \in TtyUser \cup {NoTtyUser}

TtySound ==
    /\ TtyModes /\ CallsTyped(tcall) /\ Moving
    /\ InSound(ibuf, typed, isem, tcall, icursor + uncounted)
    /\ OutSound(obuf, written, osem, tcall)

TtyInv == thalted = "no" => TtySound

----
LEMMA Lengths ==
    /\ TY_IBUFLEN \in Nat \ {0} /\ TY_OBUFLEN \in Nat \ {0} /\ TY_EBUFLEN \in Nat \ {0} /\ UART_FIFO_SIZE \in Nat \ {0}
    /\ 0 \in 0..(TY_IBUFLEN - 1) /\ 0 \in 0..(TY_OBUFLEN - 1) /\ 0 \in 0..(TY_EBUFLEN - 1)
<1>1. /\ TY_IBUFLEN \in Nat \ {0} /\ TY_OBUFLEN \in Nat \ {0} /\ TY_EBUFLEN \in Nat \ {0} /\ UART_FIFO_SIZE \in Nat \ {0}
  BY TtyAssumption
<1> QED
  BY <1>1

\* The semaphores and who stands before them.
LEMMA SidesAre ==
    ASSUME TtySound
    PROVE  /\ SideSound(isem, tcall, Readers) /\ SideSound(osem, tcall, {"write"})
           /\ Stock(isem, tcall, Readers) \in Nat /\ Stock(osem, tcall, {"write"}) \in Nat
           /\ isem.count \in Int /\ osem.count \in Int /\ osem.count <= TY_OBUFLEN
           /\ Len(typed) \in Nat /\ Len(written) \in Nat
           /\ \A p \in TtyUser : /\ Waits(isem, p) => tcall[p].kind \in Readers
                                 /\ Waits(osem, p) => tcall[p].kind = "write"
<1>1. SideSound(isem, tcall, Readers) /\ SideSound(osem, tcall, {"write"})
  BY DEF TtySound, InSound, OutSound
<1>2. /\ isem.count \in Int /\ Len(isem.queue) \in Nat /\ isem.count + Len(isem.queue) >= 0
      /\ Stock(isem, tcall, Readers) \in Nat
  <2> DEFINE x == Stock(isem, tcall, Readers)
             g == Cardinality({p \in TtyUser : tcall[p].kind \in Readers /\ ~Waits(isem, p)})
  <2>1. x = isem.count + Len(isem.queue) + g /\ g \in Nat /\ isem.count \in Int
        /\ Len(isem.queue) \in Nat /\ isem.count + Len(isem.queue) >= 0
    BY <1>1, StockIs
  <2> HIDE DEF x, g
  <2>2. x \in Nat
    BY <2>1
  <2> QED
    BY <2>1, <2>2 DEF x
<1>3. /\ osem.count \in Int /\ Len(osem.queue) \in Nat /\ osem.count + Len(osem.queue) >= 0
      /\ Stock(osem, tcall, {"write"}) \in Nat
  <2> DEFINE x == Stock(osem, tcall, {"write"})
             g == Cardinality({p \in TtyUser : tcall[p].kind \in {"write"} /\ ~Waits(osem, p)})
  <2>1. x = osem.count + Len(osem.queue) + g /\ g \in Nat /\ osem.count \in Int
        /\ Len(osem.queue) \in Nat /\ osem.count + Len(osem.queue) >= 0
    BY <1>1, StockIs
  <2> HIDE DEF x, g
  <2>2. x \in Nat
    BY <2>1
  <2> QED
    BY <2>1, <2>2 DEF x
<1>4. Len(typed) \in Nat /\ Len(written) \in Nat
  BY LenProperties DEF TtySound, InSound, OutSound, Ring, RingAt
<1>5. osem.count <= TY_OBUFLEN
  <2> DEFINE a == Cardinality(InKinds(tcall, {"write"}))
  <2>1. Len(written) + (osem.count + a) = TY_OBUFLEN
    BY DEF TtySound, OutSound, Stock
  <2>2. a \in Nat
    BY InKindsFinite
  <2> HIDE DEF a
  <2> QED
    BY <1>3, <1>4, <2>1, <2>2, Lengths
<1>6. \A p \in TtyUser : /\ Waits(isem, p) => tcall[p].kind \in Readers
                         /\ Waits(osem, p) => tcall[p].kind = "write"
  BY <1>1 DEF SideSound
<1> QED
  BY <1>1, <1>2, <1>3, <1>4, <1>5, <1>6

LEMMA EmptyRing ==
    ASSUME NEW n \in Nat \ {0}, NEW b, b = [head |-> 0, tail |-> 0, cell |-> [i \in 0..(n - 1) |-> "a"]]
    PROVE  Ring(b, n, <<>>) /\ b.tail = 0
<1> DEFINE c == [i \in 0..(n - 1) |-> "a"]
<1>1. c \in [0..(n - 1) -> Char]
  BY DEF Char
<1>0. b = [head |-> 0, tail |-> 0, cell |-> c]
  OBVIOUS
<1> HIDE DEF c
<1>2. b.head = 0 /\ b.tail = 0 /\ b.cell = c /\ b = [head |-> b.head, tail |-> b.tail, cell |-> b.cell]
  BY ONLY <1>0
<1>3. Len(<<>>) = 0 /\ <<>> \in Seq(Char)
  BY EmptySeq
<1>4. 0 \in 0..(n - 1) /\ 0 \in 0..n /\ 0 <= n /\ 0 = 0 + 0
  OBVIOUS
<1>5. RingAt(0, 0, c, n, <<>>)
  <2>1. \A i \in 1..Len(<<>>) : FALSE
    BY <1>3
  <2>2. 0 = 0 + Len(<<>>) /\ Len(<<>>) <= n
    BY <1>3
  <2> QED
    BY <1>1, <1>3, <1>4, <2>1, <2>2 DEF RingAt
<1> QED
  BY <1>2, <1>5 DEF Ring

LEMMA TtyStart == ttinit => TtySound
<1> SUFFICES ASSUME ttinit PROVE TtySound
  OBVIOUS
<1>1. /\ tcall \in [TtyUser -> TtyCall] /\ \A p \in TtyUser : tcall[p].kind = "none"
  BY EmptySeq DEF ttinit, NoTtyCall, TtyCall
<1>2. CallsTyped(tcall)
  BY <1>1 DEF CallsTyped
<1>3. TtyModes
  BY DEF ttinit, TtyModes
<1>4. Moving
  <2>1. ebuf.tail - ebuf.head = 0 /\ ebuf \in EchoBuf
    BY Lengths DEF ttinit, EchoBuf
  <2>2. Echoes = 0
    BY <2>1, ModZero, Lengths DEF Echoes
  <2>3. written = <<>> /\ uart = [etbei |-> TRUE, thre |-> TRUE, sending |-> FALSE] /\ oheld = FALSE /\ missed = FALSE
    BY DEF ttinit
  <2> QED
    BY <2>1, <2>2, <2>3 DEF Moving, Behind, Uart
<1>5. \A K : K \subseteq {"write"} \cup Readers => Cardinality(InKinds(tcall, K)) = 0
  <2>1. \A K : K \subseteq {"write"} \cup Readers => InKinds(tcall, K) = {}
    BY <1>1 DEF InKinds, Readers
  <2> QED
    BY <2>1, FS_EmptySet
<1>6. Len(<<>>) = 0 /\ <<>> \in Seq(Char)
  BY EmptySeq
<1>7. InSound(ibuf, typed, isem, tcall, icursor + uncounted)
  <2>1. /\ SemSound(isem, TtyUser) /\ isem.count = 0 /\ \A p : ~Waits(isem, p)
    BY SemaphoreSound DEF ttinit
  <2>2. Stock(isem, tcall, Readers) = 0
    BY <1>5, <2>1 DEF Stock
  <2>3. Ring(ibuf, TY_IBUFLEN, typed)
    BY EmptyRing, Lengths DEF ttinit
  <2>4. Len(typed) = 0 /\ icursor + uncounted = 0
    BY <1>6 DEF ttinit
  <2> QED
    BY <2>1, <2>2, <2>3, <2>4 DEF InSound, SideSound
<1>8. OutSound(obuf, written, osem, tcall)
  <2>1. /\ SemSound(osem, TtyUser) /\ osem.count = TY_OBUFLEN /\ \A p : ~Waits(osem, p)
    BY SemaphoreSound, Lengths DEF ttinit
  <2>2. Stock(osem, tcall, {"write"}) = TY_OBUFLEN
    BY <1>5, <2>1, Lengths DEF Stock
  <2>3. Ring(obuf, TY_OBUFLEN, written) /\ obuf.tail < TY_OBUFLEN
    BY EmptyRing, Lengths DEF ttinit
  <2>4. Len(written) = 0
    BY <1>6 DEF ttinit
  <2> QED
    BY <2>1, <2>2, <2>3, <2>4, Lengths DEF OutSound, SideSound
<1> QED
  BY <1>2, <1>3, <1>4, <1>7, <1>8 DEF TtySound
----
\* Steps of the two sides.

\* A call that neither semaphore holds, and its next.
LEMMA CallMoves ==
    ASSUME TtySound, NEW p \in TtyUser, NEW x \in TtyCall,
           x.kind = "write" => x.text # <<>>, x.kind \in {"line", "rest", "chars"} => x.left # 0
    PROVE  LET c1 == [tcall EXCEPT ![p] = x]
           IN  c1[p] = x /\ Others(p, tcall, c1) /\ CallsTyped(c1)
BY DEF TtySound, CallsTyped, Others

LEMMA InOther ==
    ASSUME NEW b, NEW q, NEW s, NEW c, NEW m, InSound(b, q, s, c, m), NEW p \in TtyUser, NEW c1, Others(p, c, c1),
           c[p].kind \notin Readers, c1[p].kind \notin Readers
    PROVE  InSound(b, q, s, c1, m)
<1>1. ~Waits(s, p) /\ SideSound(s, c, Readers)
  BY DEF InSound, SideSound
<1>2. SideSound(s, c1, Readers) /\ Stock(s, c1, Readers) = Stock(s, c, Readers)
  BY <1>1, SideMove
<1> QED
  BY <1>2 DEF InSound

LEMMA OutOther ==
    ASSUME NEW b, NEW q, NEW s, NEW c, OutSound(b, q, s, c), NEW p \in TtyUser, NEW c1, Others(p, c, c1),
           c[p].kind # "write", c1[p].kind # "write"
    PROVE  OutSound(b, q, s, c1)
<1> DEFINE K == {"write"}
<1>1. ~Waits(s, p) /\ SideSound(s, c, K) /\ c[p].kind \notin K /\ c1[p].kind \notin K
  BY DEF OutSound, SideSound
<1> HIDE DEF K
<1>2. SideSound(s, c1, K) /\ Stock(s, c1, K) = Stock(s, c, K)
  BY <1>1, SideMove
<1> QED
  BY <1>2 DEF OutSound, K

\* A reader comes to the semaphore.
LEMMA InWait ==
    ASSUME NEW b, NEW q, NEW s, NEW c, NEW m, InSound(b, q, s, c, m), NEW p \in TtyUser, NEW c1, Others(p, c, c1),
           c[p].kind \notin Readers, c1[p].kind \in Readers
    PROVE  InSound(b, q, Wait(s, p), c1, m)
<1>1. ~Waits(s, p) /\ SideSound(s, c, Readers)
  BY DEF InSound, SideSound
<1>2. SideSound(Wait(s, p), c1, Readers) /\ Stock(Wait(s, p), c1, Readers) = Stock(s, c, Readers)
  BY <1>1, SideWait
<1> QED
  BY <1>2 DEF InSound

LEMMA OutWait ==
    ASSUME NEW b, NEW q, NEW s, NEW c, OutSound(b, q, s, c), NEW p \in TtyUser, NEW c1, Others(p, c, c1),
           c[p].kind # "write", c1[p].kind = "write"
    PROVE  OutSound(b, q, Wait(s, p), c1)
<1> DEFINE K == {"write"}
<1>1. ~Waits(s, p) /\ SideSound(s, c, K) /\ c[p].kind \notin K /\ c1[p].kind \in K
  BY DEF OutSound, SideSound
<1> HIDE DEF K
<1>2. SideSound(Wait(s, p), c1, K) /\ Stock(Wait(s, p), c1, K) = Stock(s, c, K)
  BY <1>1, SideWait
<1> QED
  BY <1>2 DEF OutSound, K

\* A reader that was let in takes a character, and comes to the semaphore again, or ends.
LEMMA InTake ==
    ASSUME NEW b, NEW q, NEW s, NEW c, NEW m \in Nat, InSound(b, q, s, c, m), NEW p \in TtyUser, NEW c1, Others(p, c, c1),
           c[p].kind \in Readers, ~Waits(s, p),
           NEW s1, \/ s1 = s /\ c1[p].kind \notin Readers
                   \/ s1 = Wait(s, p) /\ c1[p].kind \in Readers,
           NEW b1, b1 = [b EXCEPT !.head = Wrap(@ + 1, TY_IBUFLEN)]
    PROVE  q # <<>> /\ InSound(b1, Tail(q), s1, c1, m)
<1>1. SideSound(s, c, Readers) /\ Len(q) = Stock(s, c, Readers) + m /\ Ring(b, TY_IBUFLEN, q)
  BY DEF InSound
<1>2. SideSound(s1, c1, Readers) /\ Stock(s1, c1, Readers) = Stock(s, c, Readers) - 1
  BY <1>1, SideMove, SideWait
<1>3. Stock(s, c, Readers) >= 1 /\ Stock(s, c, Readers) \in Int
  <2> DEFINE x == Stock(s, c, Readers)
             g == Cardinality({r \in TtyUser : c[r].kind \in Readers /\ ~Waits(s, r)})
  <2>1. x = s.count + Len(s.queue) + g /\ g \in Nat /\ s.count \in Int /\ Len(s.queue) \in Nat /\ x >= 1
    BY <1>1, StockIs
  <2> HIDE DEF x, g
  <2>2. x \in Int /\ x >= 1
    BY <2>1
  <2> QED
    BY <2>2 DEF x
<1> DEFINE x == Stock(s, c, Readers)
           x1 == Stock(s1, c1, Readers)
<1> HIDE DEF x, x1
<1>4. x \in Int /\ x >= 1 /\ x1 = x - 1 /\ Len(q) = x + m
  BY <1>1, <1>2, <1>3 DEF x, x1
<1>5. Len(q) >= 1 /\ Len(q) - 1 = x1 + m
  BY <1>4
<1>6. RingAt(b.head, b.tail, b.cell, TY_IBUFLEN, q) /\ b = [head |-> b.head, tail |-> b.tail, cell |-> b.cell]
  BY <1>1 DEF Ring
<1>7. q \in Seq(Char) /\ Len(q) \in Nat /\ q # <<>> /\ b.head \in Nat /\ b.head < TY_IBUFLEN
  <2>1. q \in Seq(Char) /\ b.head \in 0..(TY_IBUFLEN - 1)
    BY <1>6 DEF RingAt
  <2>2. Len(q) \in Nat
    BY <2>1, LenProperties
  <2>3. Len(<<>>) = 0
    BY EmptySeq
  <2> QED
    BY <1>5, <2>1, <2>2, <2>3, Lengths
<1>8. /\ Tail(q) \in Seq(Char) /\ Len(Tail(q)) = Len(q) - 1
      /\ \A i \in 1..(Len(q) - 1) : Tail(q)[i] = q[i + 1]
  BY <1>7, HeadTailProperties
<1>9. Wrap(b.head + 1, TY_IBUFLEN) = Place(b.head, 1, TY_IBUFLEN)
  BY <1>7, Lengths DEF Wrap, Place
<1>10. RingAt(Place(b.head, 1, TY_IBUFLEN), b.tail, b.cell, TY_IBUFLEN, Tail(q))
  BY <1>5, <1>6, <1>8, RingTake, Lengths
<1>11. b1.head = Place(b.head, 1, TY_IBUFLEN) /\ b1.tail = b.tail /\ b1.cell = b.cell
       /\ b1 = [head |-> b1.head, tail |-> b1.tail, cell |-> b1.cell]
  BY <1>6, <1>9
<1>12. Ring(b1, TY_IBUFLEN, Tail(q))
  BY <1>10, <1>11 DEF Ring
<1> QED
  BY <1>2, <1>5, <1>7, <1>8, <1>12 DEF InSound, x1

\* A writer that was let in stores a character.
LEMMA OutStore ==
    ASSUME NEW b, NEW q, NEW s, NEW c, OutSound(b, q, s, c), NEW p \in TtyUser, NEW c1, Others(p, c, c1),
           c[p].kind = "write", ~Waits(s, p), NEW ch \in Char,
           NEW s1, \/ s1 = s /\ c1[p].kind # "write"
                   \/ s1 = Wait(s, p) /\ c1[p].kind = "write",
           NEW b1, b1 = [b EXCEPT !.cell[b.tail] = ch, !.tail = Wrap(@ + 1, TY_OBUFLEN)]
    PROVE  OutSound(b1, Append(q, ch), s1, c1)
<1> DEFINE K == {"write"}
           x == Stock(s, c, K)
           x1 == Stock(s1, c1, K)
<1>1. /\ SideSound(s, c, K) /\ Len(q) + x = TY_OBUFLEN /\ Ring(b, TY_OBUFLEN, q) /\ b.tail < TY_OBUFLEN
      /\ c[p].kind \in K /\ (c1[p].kind \in K <=> c1[p].kind = "write")
  BY DEF OutSound
<1> HIDE DEF K
<1>2. SideSound(s1, c1, K) /\ x1 = x - 1
  <2>1. CASE s1 = s /\ c1[p].kind # "write"
    BY <1>1, <2>1, SideMove
  <2>2. CASE s1 = Wait(s, p) /\ c1[p].kind = "write"
    BY <1>1, <2>2, SideWait
  <2> QED
    BY <2>1, <2>2
<1>3. x >= 1 /\ x \in Int
  <2> DEFINE g == Cardinality({r \in TtyUser : c[r].kind \in K /\ ~Waits(s, r)})
  <2>1. x = s.count + Len(s.queue) + g /\ g \in Nat /\ s.count \in Int /\ Len(s.queue) \in Nat /\ x >= 1
    BY <1>1, StockIs
  <2> HIDE DEF x, g
  <2> QED
    BY <2>1
<1> HIDE DEF x, x1
<1>6. RingAt(b.head, b.tail, b.cell, TY_OBUFLEN, q) /\ b = [head |-> b.head, tail |-> b.tail, cell |-> b.cell]
  BY <1>1 DEF Ring
<1>7. q \in Seq(Char) /\ Len(q) \in Nat /\ b.tail \in Nat /\ b.tail < TY_OBUFLEN
  <2>1. q \in Seq(Char) /\ b.tail \in 0..TY_OBUFLEN
    BY <1>6 DEF RingAt
  <2>2. Len(q) \in Nat
    BY <2>1, LenProperties
  <2> QED
    BY <1>1, <2>1, <2>2, Lengths
<1>8. Len(q) < TY_OBUFLEN /\ (Len(q) + 1) + x1 = TY_OBUFLEN
  BY <1>1, <1>2, <1>3, <1>7
<1> DEFINE t1 == Wrap(b.tail + 1, TY_OBUFLEN)
           d1 == [b.cell EXCEPT ![b.tail] = ch]
<1>9. t1 \in Nat /\ (t1 = b.tail + 1 \/ (b.tail + 1 = TY_OBUFLEN /\ t1 = 0)) /\ t1 < TY_OBUFLEN
  BY <1>7, Lengths DEF Wrap
<1>11. b1 = [head |-> b.head, tail |-> t1, cell |-> d1]
  <2>1. b1 = [b EXCEPT !.cell = d1, !.tail = t1]
    OBVIOUS
  <2> HIDE DEF t1, d1
  <2> QED
    BY <1>6, <2>1
<1> HIDE DEF t1
<1>10. RingAt(b.head, t1, d1, TY_OBUFLEN, Append(q, ch))
  <2>1. /\ TY_OBUFLEN \in Nat \ {0} /\ b.tail < TY_OBUFLEN /\ Len(q) < TY_OBUFLEN /\ ch \in Char
        /\ IsNext(t1, b.tail, TY_OBUFLEN)
    BY <1>1, <1>8, <1>9, Lengths DEF IsNext
  <2>2. RingAt(b.head, b.tail, b.cell, TY_OBUFLEN, q) /\ IsStored(d1, b.cell, b.tail, ch)
    BY <1>6 DEF IsStored
  <2> HIDE DEF d1
  <2> QED
    BY ONLY <2>1, <2>2, RingStore
<1> HIDE DEF d1
<1>12. b1.head = b.head /\ b1.tail = t1 /\ b1.cell = d1 /\ b1 = [head |-> b1.head, tail |-> b1.tail, cell |-> b1.cell]
  BY ONLY <1>11
<1>13. Ring(b1, TY_OBUFLEN, Append(q, ch)) /\ b1.tail < TY_OBUFLEN
  BY <1>9, <1>10, <1>12 DEF Ring
<1>14. Len(Append(q, ch)) = Len(q) + 1
  BY <1>7, AppendProperties
<1> QED
  BY <1>2, <1>8, <1>13, <1>14 DEF OutSound, K, x1
----
\* What arrives.

LEMMA InParts ==
    ASSUME TtySound
    PROVE  /\ RingAt(ibuf.head, ibuf.tail, ibuf.cell, TY_IBUFLEN, typed)
           /\ ibuf = [head |-> ibuf.head, tail |-> ibuf.tail, cell |-> ibuf.cell]
           /\ typed \in Seq(Char) /\ Len(typed) \in Nat /\ Len(typed) <= TY_IBUFLEN
           /\ ibuf.head \in Nat /\ ibuf.head < TY_IBUFLEN /\ ibuf.tail \in Nat /\ ibuf.tail <= TY_IBUFLEN
           /\ DOMAIN ibuf.cell = 0..(TY_IBUFLEN - 1)
           /\ icursor \in Nat /\ uncounted \in Nat
           /\ Len(typed) = Stock(isem, tcall, Readers) + (icursor + uncounted)
           /\ Stock(isem, tcall, Readers) \in Nat
<1>1. /\ RingAt(ibuf.head, ibuf.tail, ibuf.cell, TY_IBUFLEN, typed)
      /\ ibuf = [head |-> ibuf.head, tail |-> ibuf.tail, cell |-> ibuf.cell]
      /\ Len(typed) = Stock(isem, tcall, Readers) + (icursor + uncounted)
  BY DEF TtySound, InSound, Ring
<1>2. /\ typed \in Seq(Char) /\ Len(typed) <= TY_IBUFLEN
      /\ ibuf.head \in 0..(TY_IBUFLEN - 1) /\ ibuf.tail \in 0..TY_IBUFLEN
      /\ DOMAIN ibuf.cell = 0..(TY_IBUFLEN - 1)
  BY <1>1 DEF RingAt
<1>3. /\ ibuf.head \in Nat /\ ibuf.head < TY_IBUFLEN /\ ibuf.tail \in Nat /\ ibuf.tail <= TY_IBUFLEN
  BY <1>2, Lengths
<1>4. icursor \in Nat /\ uncounted \in Nat
  BY DEF TtySound, TtyModes
<1> QED
  BY <1>1, <1>2, <1>3, <1>4, SidesAre

\* The characters and the semaphore change together.
LEMMA InChange ==
    ASSUME TtySound, tcall' = tcall, Ring(ibuf', TY_IBUFLEN, typed'),
           SideSound(isem', tcall, Readers),
           NEW k \in Int, Stock(isem', tcall, Readers) = Stock(isem, tcall, Readers) + k,
           NEW m \in Int, icursor' + uncounted' = (icursor + uncounted) + m, icursor' \in Nat, uncounted' \in Nat,
           Len(typed') = Len(typed) + (k + m)
    PROVE  InSound(ibuf', typed', isem', tcall', icursor' + uncounted')
<1> DEFINE x == Stock(isem, tcall, Readers)
<1>1. Len(typed) = x + (icursor + uncounted) /\ x \in Nat /\ icursor \in Nat /\ uncounted \in Nat
  BY InParts
<1>2. Stock(isem', tcall, Readers) = x + k
  OBVIOUS
<1> HIDE DEF x
<1>3. \A u, v \in Int : (x + (icursor + uncounted)) + (u + v) = (x + u) + ((icursor + uncounted) + v)
  BY <1>1
<1>4. Len(typed') = (x + k) + (icursor' + uncounted')
  BY <1>1, <1>3
<1> QED
  BY <1>2, <1>4 DEF InSound

LEMMA StoreRing ==
    ASSUME TtySound, NEW ch \in Char, NEW wrap \in BOOLEAN, store(ch, wrap), thalted' = "no"
    PROVE  Ring(ibuf', TY_IBUFLEN, typed') /\ Len(typed') = Len(typed) + 1
<1> DEFINE t == ibuf.tail
           t1 == IF wrap THEN Wrap(t + 1, TY_IBUFLEN) ELSE t + 1
           d1 == [ibuf.cell EXCEPT ![t] = ch]
<1>1. /\ RingAt(ibuf.head, t, ibuf.cell, TY_IBUFLEN, typed)
      /\ ibuf = [head |-> ibuf.head, tail |-> t, cell |-> ibuf.cell]
      /\ typed \in Seq(Char) /\ Len(typed) \in Nat /\ Len(typed) <= TY_IBUFLEN /\ t \in Nat
      /\ DOMAIN ibuf.cell = 0..(TY_IBUFLEN - 1)
  BY InParts
<1>2. t \in DOMAIN ibuf.cell /\ Len(typed) # TY_IBUFLEN
  BY DEF store
<1>3. t < TY_IBUFLEN /\ Len(typed) < TY_IBUFLEN
  BY <1>1, <1>2, Lengths
<1>4. IsNext(t1, t, TY_IBUFLEN)
  BY <1>1, <1>3, Lengths DEF IsNext, Wrap
<1>5. IsStored(d1, ibuf.cell, t, ch)
  BY DEF IsStored
<1>6. typed' = Append(typed, ch)
  BY DEF store
<1>7. ibuf' = [ibuf EXCEPT !.cell = d1, !.tail = t1]
  BY <1>2 DEF store
<1> HIDE DEF t1, d1, t
<1>8. ibuf' = [head |-> ibuf.head, tail |-> t1, cell |-> d1]
  BY ONLY <1>1, <1>7
<1>9. RingAt(ibuf.head, t1, d1, TY_IBUFLEN, Append(typed, ch))
  <2>1. TY_IBUFLEN \in Nat \ {0}
    BY Lengths
  <2>2. ch \in Char
    OBVIOUS
  <2> QED
    BY ONLY <1>1, <1>3, <1>4, <1>5, <2>1, <2>2, RingStore
<1>10. ibuf'.head = ibuf.head /\ ibuf'.tail = t1 /\ ibuf'.cell = d1
       /\ ibuf' = [head |-> ibuf'.head, tail |-> ibuf'.tail, cell |-> ibuf'.cell]
  BY ONLY <1>8
<1>11. Ring(ibuf', TY_IBUFLEN, typed')
  BY ONLY <1>6, <1>9, <1>10 DEF Ring
<1>12. Len(Append(typed, ch)) = Len(typed) + 1
  BY <1>1, AppendProperties
<1> QED
  BY <1>6, <1>11, <1>12

\* The other half of the terminal, when a character arrives.
EchoDone == ebuf' \in EchoBuf /\ uart' \in Uart /\ oheld' \in BOOLEAN /\ missed' \in BOOLEAN /\ Moving'
InDone ==
    /\ icursor' \in Nat /\ uncounted' \in Nat
    /\ InSound(ibuf', typed', isem', tcall', icursor' + uncounted')

LEMMA Kicks ==
    ASSUME uart \in Uart
    PROVE  kicked \in Uart /\ kicked.etbei = TRUE /\ (kicked.sending \/ kicked.thre)
<1>1. uart = [etbei |-> uart.etbei, thre |-> uart.thre, sending |-> uart.sending]
      /\ uart.thre \in BOOLEAN /\ uart.sending \in BOOLEAN
  BY DEF Uart
<1> DEFINE x == uart.thre \/ ~uart.sending
<1>2. kicked = [uart EXCEPT !.etbei = TRUE, !.thre = x]
  BY Zenon DEF kicked
<1>x. x \in BOOLEAN /\ (uart.sending \/ x)
  OBVIOUS
<1> HIDE DEF x
<1>3. kicked = [etbei |-> TRUE, thre |-> x, sending |-> uart.sending]
  BY <1>1, <1>2
<1>4. kicked.etbei = TRUE /\ kicked.thre = x /\ kicked.sending = uart.sending
  BY <1>3
<1> QED
  BY <1>1, <1>3, <1>4, <1>x DEF Uart

LEMMA EchoTail ==
    ASSUME ebuf \in EchoBuf, NEW n \in Nat, ebuf' = [ebuf EXCEPT !.tail = (@ + n) % TY_EBUFLEN]
    PROVE  ebuf' \in EchoBuf /\ (n = 0 => ebuf' = ebuf)
<1>1. /\ ebuf = [head |-> ebuf.head, tail |-> ebuf.tail]
      /\ ebuf.head \in 0..(TY_EBUFLEN - 1) /\ ebuf.tail \in 0..(TY_EBUFLEN - 1)
  BY DEF EchoBuf
<1> DEFINE t1 == (ebuf.tail + n) % TY_EBUFLEN
<1>2. t1 \in 0..(TY_EBUFLEN - 1)
  BY <1>1, Lengths
<1>3. n = 0 => t1 = ebuf.tail
  <2>1. SUFFICES ASSUME n = 0 PROVE t1 = ebuf.tail
    OBVIOUS
  <2>2. ebuf.tail + n = ebuf.tail /\ ebuf.tail \in Nat /\ ebuf.tail < TY_EBUFLEN /\ ebuf.tail < 2 * TY_EBUFLEN
    BY <1>1, <2>1, Lengths
  <2> QED
    BY <2>2, ModIs, Lengths
<1> HIDE DEF t1
<1>4. ebuf' = [head |-> ebuf.head, tail |-> t1]
  BY <1>1 DEF t1
<1> QED
  BY <1>1, <1>2, <1>3, <1>4 DEF EchoBuf

LEMMA EchoMoves ==
    ASSUME TtySound, NEW n \in Nat, eputc(n), written' = written
    PROVE  EchoDone
<1>1. ebuf \in EchoBuf /\ uart \in Uart /\ oheld \in BOOLEAN /\ missed \in BOOLEAN
      /\ (Behind => uart.etbei) /\ (Behind /\ ~oheld /\ ~missed => uart.sending \/ uart.thre)
  BY DEF TtySound, Moving
<1>2. ebuf' \in EchoBuf /\ (n = 0 => ebuf' = ebuf)
  BY <1>1, EchoTail DEF eputc
<1>3. CASE n > 0
  <2>1. uart' = kicked /\ missed' = FALSE /\ oheld' = FALSE
    BY <1>3 DEF eputc
  <2>2. uart' \in Uart /\ uart'.etbei /\ (uart'.sending \/ uart'.thre)
    BY <1>1, <2>1, Kicks
  <2> QED
    BY <1>2, <2>1, <2>2 DEF EchoDone, Moving
<1>4. CASE n = 0
  <2>1. uart' = uart /\ missed' = (missed \/ oheld) /\ oheld' = FALSE /\ ebuf' = ebuf
    BY <1>2, <1>4 DEF eputc
  <2>2. Behind' = Behind
    BY <2>1 DEF Behind, Echoes
  <2> QED
    BY <1>1, <2>1, <2>2, Zenon DEF EchoDone, Moving
<1> QED
  BY <1>3, <1>4

LEMMA InStays ==
    ASSUME TtySound, nothing, tcall' = tcall
    PROVE  InDone
BY DEF TtySound, TtyModes, nothing, InDone

\* A character is stored, and the semaphore signalled.
LEMMA StoreSignal ==
    ASSUME TtySound, tcall' = tcall, thalted' = "no", NEW ch \in Char, NEW wrap \in BOOLEAN, store(ch, wrap),
           isem' = Signal(isem), UNCHANGED <<icursor, uncounted>>
    PROVE  InDone
<1>1. Ring(ibuf', TY_IBUFLEN, typed') /\ Len(typed') = Len(typed) + (1 + 0)
  BY StoreRing, InParts
<1>2. SideSound(isem', tcall, Readers) /\ Stock(isem', tcall, Readers) = Stock(isem, tcall, Readers) + 1
  BY SidesAre, SideSignal
<1>3. icursor' + uncounted' = (icursor + uncounted) + 0 /\ icursor' \in Nat /\ uncounted' \in Nat
  BY InParts
<1>4. 0 \in Int /\ 1 \in Int
  OBVIOUS
<1>5. InSound(ibuf', typed', isem', tcall', icursor' + uncounted')
  BY <1>1, <1>2, <1>3, <1>4, InChange
<1> QED
  BY <1>3, <1>5 DEF InDone

\* A character is stored, and nobody is told.
LEMMA StoreQuietly ==
    ASSUME TtySound, tcall' = tcall, thalted' = "no", NEW ch \in Char, NEW wrap \in BOOLEAN, store(ch, wrap),
           isem' = isem, \/ icursor' = icursor + 1 /\ uncounted' = uncounted
                         \/ icursor' = icursor /\ uncounted' = uncounted + 1
    PROVE  InDone
<1>1. Ring(ibuf', TY_IBUFLEN, typed') /\ Len(typed') = Len(typed) + (0 + 1)
  BY StoreRing, InParts
<1>2. SideSound(isem', tcall, Readers) /\ Stock(isem', tcall, Readers) = Stock(isem, tcall, Readers) + 0
  BY SidesAre
<1>0. icursor \in Nat /\ uncounted \in Nat
  BY InParts
<1>3. icursor' + uncounted' = (icursor + uncounted) + 1 /\ icursor' \in Nat /\ uncounted' \in Nat
  BY <1>0
<1>4. 0 \in Int /\ 1 \in Int
  OBVIOUS
<1>5. InSound(ibuf', typed', isem', tcall', icursor' + uncounted')
  BY <1>1, <1>2, <1>3, <1>4, InChange
<1> QED
  BY <1>3, <1>5 DEF InDone

\* The end of a line is stored, and all of the line counted.
LEMMA StoreLine ==
    ASSUME TtySound, tcall' = tcall, thalted' = "no", NEW ch \in Char, NEW wrap \in BOOLEAN, store(ch, wrap),
           isem' = SignalN(isem, icursor + 1), icursor' = 0, uncounted' = uncounted
    PROVE  InDone
<1>1. Ring(ibuf', TY_IBUFLEN, typed') /\ Len(typed') = Len(typed) + ((icursor + 1) + (0 - icursor))
  BY StoreRing, InParts
<1>2. SideSound(isem', tcall, Readers) /\ Stock(isem', tcall, Readers) = Stock(isem, tcall, Readers) + (icursor + 1)
  <2> DEFINE n == icursor + 1
  <2>1. n \in Nat /\ isem' = SignalN(isem, n)
    BY InParts
  <2>2. SideSound(isem, tcall, Readers)
    BY SidesAre
  <2> HIDE DEF n
  <2>3. SideSound(SignalN(isem, n), tcall, Readers) /\ Stock(SignalN(isem, n), tcall, Readers) = Stock(isem, tcall, Readers) + n
    BY ONLY <2>1, <2>2, SideSignalN
  <2> QED
    BY <2>1, <2>3 DEF n
<1>3. icursor' + uncounted' = (icursor + uncounted) + (0 - icursor) /\ icursor' \in Nat /\ uncounted' \in Nat
  BY InParts
<1>4. icursor + 1 \in Int /\ 0 - icursor \in Int
  BY InParts
<1>5. InSound(ibuf', typed', isem', tcall', icursor' + uncounted')
  BY <1>1, <1>2, <1>3, <1>4, InChange
<1> QED
  BY <1>3, <1>5 DEF InDone

\* k characters of the unfinished line are taken back.
LEMMA CutLine ==
    ASSUME TtySound, tcall' = tcall, isem' = isem, NEW k \in Nat, k <= icursor,
           NEW t1 \in 0..TY_IBUFLEN, t1 + k = ibuf.tail \/ (t1 + k = ibuf.tail + TY_IBUFLEN /\ k = 1 /\ ibuf.tail = 0),
           ibuf' = [head |-> ibuf.head, tail |-> t1, cell |-> ibuf.cell],
           typed' = SubSeq(typed, 1, Len(typed) - k), icursor' = icursor - k, uncounted' = uncounted
    PROVE  InDone
<1>1. k <= Len(typed)
  <2> DEFINE x == Stock(isem, tcall, Readers)
  <2>1. x \in Nat /\ Len(typed) = x + (icursor + uncounted) /\ icursor \in Nat /\ uncounted \in Nat
    BY InParts
  <2> HIDE DEF x
  <2> QED
    BY <2>1
<1>2. /\ RingAt(ibuf.head, t1, ibuf.cell, TY_IBUFLEN, typed')
      /\ Len(typed') = Len(typed) - k
  <2>1. RingAt(ibuf.head, ibuf.tail, ibuf.cell, TY_IBUFLEN, typed) /\ TY_IBUFLEN \in Nat \ {0}
    BY InParts, Lengths
  <2>2. /\ RingAt(ibuf.head, t1, ibuf.cell, TY_IBUFLEN, SubSeq(typed, 1, Len(typed) - k))
        /\ Len(SubSeq(typed, 1, Len(typed) - k)) = Len(typed) - k
    BY <1>1, <2>1, RingCut
  <2> QED
    BY <2>2
<1>3. Ring(ibuf', TY_IBUFLEN, typed')
  <2>1. ibuf'.head = ibuf.head /\ ibuf'.tail = t1 /\ ibuf'.cell = ibuf.cell
    OBVIOUS
  <2> QED
    BY <1>2, <2>1 DEF Ring
<1>4. Len(typed') = Len(typed) + (0 + (0 - k))
  BY <1>2, InParts
<1>5. icursor' + uncounted' = (icursor + uncounted) + (0 - k) /\ icursor' \in Nat /\ uncounted' \in Nat
  <2>1. icursor \in Nat /\ uncounted \in Nat
    BY InParts
  <2>2. icursor' = icursor - k /\ uncounted' = uncounted /\ k \in Nat /\ k <= icursor
    OBVIOUS
  <2> QED
    BY ONLY <2>1, <2>2
<1>6. SideSound(isem', tcall, Readers) /\ Stock(isem', tcall, Readers) = Stock(isem, tcall, Readers) + 0
  BY SidesAre
<1>7. 0 \in Int /\ 0 - k \in Int
  OBVIOUS
<1>8. InSound(ibuf', typed', isem', tcall', icursor' + uncounted')
  BY <1>3, <1>4, <1>5, <1>6, <1>7, InChange
<1> QED
  BY <1>5, <1>8 DEF InDone

LEMMA EchoCh ==
    ASSUME TtySound, NEW ch, echoch(ch), written' = written
    PROVE  EchoDone
<1> DEFINE n == IF ~iecho THEN 0 ELSE IF ch = "a" THEN 1 ELSE 2
<1>1. eputc(n)
  BY DEF echoch
<1>2. n \in Nat
  OBVIOUS
<1> HIDE DEF n
<1> QED
  BY <1>1, <1>2, EchoMoves

LEMMA RawStep ==
    ASSUME TtySound, tcall' = tcall, thalted' = "no", written' = written, NEW ch \in Char, raw(ch)
    PROVE  InDone /\ EchoDone
<1>1. EchoDone
  <2>1. ebuf \in EchoBuf /\ uart \in Uart /\ oheld \in BOOLEAN /\ missed \in BOOLEAN
        /\ (Behind => uart.etbei) /\ (Behind /\ ~oheld /\ ~missed => uart.sending \/ uart.thre)
    BY DEF TtySound, Moving
  <2>2. UNCHANGED <<oheld, ebuf, uart, missed, written>>
    BY DEF raw
  <2>3. Behind' = Behind
    BY <2>2 DEF Behind, Echoes
  <2> QED
    BY <2>1, <2>2, <2>3, Zenon DEF EchoDone, Moving
<1>2. CASE avail >= TY_IBUFLEN
  BY <1>1, <1>2, InStays DEF raw
<1>3. CASE ~(avail >= TY_IBUFLEN)
  BY <1>1, <1>3, StoreSignal DEF raw
<1> QED
  BY <1>2, <1>3

LEMMA FlowStep ==
    ASSUME TtySound, tcall' = tcall, written' = written, NEW ch, ch \in {"stop", "start"}, flow(ch)
    PROVE  InDone /\ EchoDone
<1>1. InDone
  BY InStays DEF flow
<1>2. ebuf \in EchoBuf /\ uart \in Uart /\ missed \in BOOLEAN /\ (Behind => uart.etbei)
  BY DEF TtySound, Moving
<1>3. ebuf' = ebuf /\ Behind' = Behind
  BY DEF flow, Behind, Echoes
<1>4. CASE ch = "start"
  <2>1. uart' = kicked /\ missed' = FALSE /\ oheld' = FALSE
    BY <1>4 DEF flow
  <2>2. uart' \in Uart /\ uart'.etbei /\ (uart'.sending \/ uart'.thre)
    BY <1>2, <2>1, Kicks
  <2> QED
    BY <1>1, <1>2, <1>3, <2>1, <2>2 DEF EchoDone, Moving
<1>5. CASE ch = "stop"
  <2>1. uart' = uart /\ missed' = missed /\ oheld' = TRUE
    BY <1>2, <1>5 DEF flow
  <2> QED
    BY <1>1, <1>2, <1>3, <2>1, Zenon DEF EchoDone, Moving
<1> QED
  BY <1>4, <1>5

LEMMA CbreakStep ==
    ASSUME TtySound, tcall' = tcall, thalted' = "no", written' = written, NEW ch \in Char, cbreak(ch)
    PROVE  InDone /\ EchoDone
<1>1. CASE avail >= TY_IBUFLEN
  <2>1. eputc(1) /\ nothing /\ 1 \in Nat
    BY <1>1 DEF cbreak
  <2> QED
    BY <2>1, InStays, EchoMoves
<1>2. CASE ~(avail >= TY_IBUFLEN)
  <2>1. store(ch, TRUE) /\ uncounted' = uncounted + 1 /\ echoch(ch) /\ isem' = isem /\ icursor' = icursor
    BY <1>2 DEF cbreak
  <2>2. InDone
    BY <2>1, StoreQuietly
  <2> QED
    BY <2>1, <2>2, EchoCh
<1> QED
  BY <1>1, <1>2

\* A line that would leave the pointers outside the buffer ends the run.
LEMMA KillStep ==
    ASSUME TtySound, tcall' = tcall, thalted' = "no", written' = written, killLine
    PROVE  InDone /\ EchoDone
<1>1. eputc(2) /\ 2 \in Nat
  BY DEF killLine
<1>2. ~(ibuf.tail < icursor)
  BY DEF killLine
<1>3. icursor \in Nat /\ ibuf.tail \in Nat /\ ibuf.tail <= TY_IBUFLEN
      /\ ibuf = [head |-> ibuf.head, tail |-> ibuf.tail, cell |-> ibuf.cell]
  BY InParts
<1> DEFINE t1 == ibuf.tail - icursor
<1>4. t1 \in 0..TY_IBUFLEN /\ t1 + icursor = ibuf.tail
  BY <1>2, <1>3, Lengths
<1>5. ibuf' = [ibuf EXCEPT !.tail = t1, !.head = ibuf.head]
  BY <1>2 DEF killLine
<1>6. icursor <= icursor /\ icursor' = icursor - icursor
  BY <1>3 DEF killLine
<1>7. /\ typed' = SubSeq(typed, 1, Len(typed) - icursor) /\ isem' = isem /\ uncounted' = uncounted
  BY DEF killLine
<1> HIDE DEF t1
<1>8. ibuf' = [head |-> ibuf.head, tail |-> t1, cell |-> ibuf.cell]
  BY ONLY <1>3, <1>5
<1>9. InDone
  BY <1>3, <1>4, <1>6, <1>7, <1>8, CutLine
<1> QED
  BY <1>1, <1>9, EchoMoves

LEMMA EraseStep ==
    ASSUME TtySound, tcall' = tcall, thalted' = "no", written' = written, erase
    PROVE  InDone /\ EchoDone
<1>1. CASE icursor = 0
  <2>1. eputc(0) /\ nothing /\ 0 \in Nat
    BY <1>1 DEF erase
  <2> QED
    BY <2>1, InStays, EchoMoves
<1>2. CASE icursor # 0
  <2> DEFINE t1 == IF ibuf.tail = 0 THEN TY_IBUFLEN - 1 ELSE ibuf.tail - 1
             n == IF ~iecho THEN 0 ELSE IF ibuf.cell[t1] = "a" THEN 3 ELSE 6
  <2>1. icursor \in Nat /\ ibuf.tail \in Nat /\ ibuf.tail <= TY_IBUFLEN
        /\ ibuf = [head |-> ibuf.head, tail |-> ibuf.tail, cell |-> ibuf.cell]
    BY InParts
  <2>2. t1 \in 0..TY_IBUFLEN /\ (t1 + 1 = ibuf.tail \/ (t1 + 1 = ibuf.tail + TY_IBUFLEN /\ 1 = 1 /\ ibuf.tail = 0))
    BY <2>1, Lengths
  <2>3. /\ ibuf' = [ibuf EXCEPT !.tail = t1] /\ icursor' = icursor - 1 /\ isem' = isem /\ uncounted' = uncounted
        /\ typed' = SubSeq(typed, 1, Len(typed) - 1) /\ eputc(n)
    BY <1>2, Zenon DEF erase
  <2>4. n \in Nat
    OBVIOUS
  <2> HIDE DEF t1, n
  <2>5. EchoDone
    BY <2>3, <2>4, EchoMoves
  <2>6. ibuf' = [head |-> ibuf.head, tail |-> t1, cell |-> ibuf.cell]
    BY ONLY <2>1, <2>3
  <2>7. 1 \in Nat /\ 1 <= icursor
    BY <1>2, <2>1
  <2>8. InDone
    BY <2>2, <2>3, <2>6, <2>7, CutLine
  <2> QED
    BY <2>5, <2>8
<1> QED
  BY <1>1, <1>2

LEMMA EndStep ==
    ASSUME TtySound, tcall' = tcall, thalted' = "no", written' = written, NEW ch \in Char, endLine(ch)
    PROVE  InDone /\ EchoDone
<1>1. /\ echoch(ch) /\ store(ch, TRUE) /\ isem' = SignalN(isem, icursor + 1) /\ icursor' = 0
      /\ uncounted' = uncounted
  BY DEF endLine
<1>2. InDone
  BY <1>1, StoreLine
<1> QED
  BY <1>1, <1>2, EchoCh

LEMMA OrdinaryStep ==
    ASSUME TtySound, tcall' = tcall, thalted' = "no", written' = written, NEW ch \in Char, ordinary(ch)
    PROVE  InDone /\ EchoDone
<1>1. CASE avail + icursor >= TY_IBUFLEN - 1
  <2>1. eputc(1) /\ nothing /\ 1 \in Nat
    BY <1>1 DEF ordinary
  <2> QED
    BY <2>1, InStays, EchoMoves
<1>2. CASE ~(avail + icursor >= TY_IBUFLEN - 1) /\ ch = "eof"
  <2>1. /\ echoch(ch)
        /\ \/ nothing
           \/ store(ch, FALSE) /\ isem' = Signal(isem) /\ UNCHANGED <<icursor, uncounted>>
    BY <1>2 DEF ordinary
  <2>2. InDone
    BY <2>1, InStays, StoreSignal
  <2> QED
    BY <2>1, <2>2, EchoCh
<1>3. CASE ~(avail + icursor >= TY_IBUFLEN - 1) /\ ch # "eof"
  <2>1. echoch(ch) /\ store(ch, TRUE) /\ icursor' = icursor + 1 /\ isem' = isem /\ uncounted' = uncounted
    BY <1>3 DEF ordinary
  <2>2. InDone
    BY <2>1, StoreQuietly
  <2> QED
    BY <2>1, <2>2, EchoCh
<1> QED
  BY <1>1, <1>2, <1>3

LEMMA InStep ==
    ASSUME TtySound, thalted' = "no", NEW arrived \in Keys, ttyhandle_in(arrived)
    PROVE  TtySound'
<1> DEFINE ch == IF arrived = "cr" THEN "nl" ELSE arrived
<1>1. arrived \in Char /\ ch \in Char
  BY DEF Char
<1>2. /\ \/ raw(arrived)
         \/ ch \in {"stop", "start"} /\ flow(ch)
         \/ cbreak(ch)
         \/ cooked(ch)
      /\ UNCHANGED <<imode, iecho, obuf, osem, upper, written>>
  BY Zenon DEF ttyhandle_in
<1> HIDE DEF ch
<1>3. tcall' = tcall /\ tcur' = tcur /\ written' = written
  BY <1>2 DEF upper
<1>4. cooked(ch) => killLine \/ erase \/ endLine(ch) \/ ordinary(ch)
  BY DEF cooked
<1>5. InDone /\ EchoDone
  BY <1>1, <1>2, <1>3, <1>4, RawStep, FlowStep, CbreakStep, KillStep, EraseStep, EndStep, OrdinaryStep
<1>6. CallsTyped(tcall') /\ OutSound(obuf', written', osem', tcall')
  BY <1>2, <1>3 DEF TtySound
<1>7. TtyModes'
  BY <1>2, <1>3, <1>5 DEF TtySound, TtyModes, InDone
<1>8. Moving'
  BY <1>5 DEF EchoDone
<1> QED
  BY <1>5, <1>6, <1>7, <1>8 DEF TtySound, InDone
----
\* The upper half and the output interrupt.

LEMMA MovingStays ==
    ASSUME TtySound, UNCHANGED <<ebuf, uart, oheld, missed, written>>
    PROVE  Moving'
<1>1. ebuf \in EchoBuf /\ uart \in Uart /\ oheld \in BOOLEAN /\ missed \in BOOLEAN
      /\ (Behind => uart.etbei) /\ (Behind /\ ~oheld /\ ~missed => uart.sending \/ uart.thre)
  BY DEF TtySound, Moving
<1>2. Behind' = Behind
  BY DEF Behind, Echoes
<1> QED
  BY <1>1, <1>2, Zenon DEF Moving

LEMMA ModesStay ==
    ASSUME TtySound, UNCHANGED <<icursor, uncounted, imode, iecho>>, tcur' \in TtyUser \cup {NoTtyUser}
    PROVE  TtyModes'
BY DEF TtySound, TtyModes

\* A call of p begins, and comes to a semaphore; or p's call at one ends.
LEMMA WriteStep ==
    ASSUME TtySound, NEW p \in TtyUser, NEW text \in Outputs, ttywrite(p, text)
    PROVE  TtySound'
<1> DEFINE x == [kind |-> "write", left |-> 0, text |-> text]
<1>1. /\ tcall[p].kind = "none" /\ tcall' = [tcall EXCEPT ![p] = x] /\ osem' = Wait(osem, p)
      /\ tcur' \in TtyUser \cup {NoTtyUser}
      /\ UNCHANGED <<ibuf, isem, icursor, imode, iecho, obuf, oheld, ebuf, uart, typed, uncounted, written, missed>>
  BY DEF ttywrite, await
<1>2. x \in TtyCall /\ x.kind = "write" /\ x.text # <<>> /\ x.kind \notin Readers
  BY TtyAssumption DEF TtyCall, Readers
<1> HIDE DEF x
<1>3. tcall'[p] = x /\ Others(p, tcall, tcall') /\ CallsTyped(tcall')
  BY <1>1, <1>2, CallMoves DEF Readers
<1>4. InSound(ibuf', typed', isem', tcall', icursor' + uncounted')
  BY <1>1, <1>2, <1>3, InOther DEF TtySound, Readers
<1>5. OutSound(obuf', written', osem', tcall')
  BY <1>1, <1>2, <1>3, OutWait DEF TtySound
<1> QED
  BY <1>1, <1>3, <1>4, <1>5, MovingStays, ModesStay DEF TtySound

LEMMA ReaderComes ==
    ASSUME TtySound, NEW p \in TtyUser, tcall[p].kind = "none",
           NEW x \in TtyCall, x.kind \in Readers, x.kind # "next" => x.left # 0,
           tcall' = [tcall EXCEPT ![p] = x], isem' = Wait(isem, p), tcur' \in TtyUser \cup {NoTtyUser},
           UNCHANGED <<ibuf, icursor, imode, iecho, obuf, osem, oheld, ebuf, uart, typed, uncounted, written, missed>>
    PROVE  TtySound'
<1>2. x.kind # "write" /\ (x.kind \in {"line", "rest", "chars"} => x.left # 0)
  BY DEF Readers
<1>3. tcall'[p] = x /\ Others(p, tcall, tcall') /\ CallsTyped(tcall')
  BY <1>2, CallMoves
<1>4. InSound(ibuf', typed', isem', tcall', icursor' + uncounted')
  BY <1>2, <1>3, InWait DEF TtySound, Readers
<1>5. OutSound(obuf', written', osem', tcall')
  BY <1>2, <1>3, OutOther DEF TtySound
<1> QED
  BY <1>3, <1>4, <1>5, MovingStays, ModesStay DEF TtySound

LEMMA ReadStep ==
    ASSUME TtySound, NEW p \in TtyUser, NEW count \in ReadCounts, ttyread(p, count)
    PROVE  TtySound'
<1> DEFINE here == IF isem.count > 0 THEN isem.count ELSE 0
           n == IF imode = "cooked" THEN (IF count = 0 THEN 1 ELSE count) ELSE IF count = 0 THEN here ELSE count
           x == [kind |-> IF imode = "cooked" THEN "line" ELSE "chars", left |-> n, text |-> <<>>]
<1>1. /\ tcall[p].kind = "none" /\ tcall' = [tcall EXCEPT ![p] = x] /\ isem' = Wait(isem, p)
      /\ tcur' \in TtyUser \cup {NoTtyUser} /\ n > 0
      /\ UNCHANGED <<ibuf, icursor, imode, iecho, obuf, osem, oheld, ebuf, uart, typed, uncounted, written, missed>>
  BY DEF ttyread, await
<1>2. n \in Nat
  BY SidesAre, TtyAssumption
<1> HIDE DEF n
<1>3. <<>> \in Seq(Char)
  BY EmptySeq
<1>4. x \in TtyCall /\ x.kind \in Readers /\ x.left = n
  BY <1>2, <1>3 DEF TtyCall, Readers
<1>5. x.left # 0
  BY <1>1, <1>2, <1>4
<1> HIDE DEF x
<1> QED
  BY <1>1, <1>4, <1>5, ReaderComes

LEMMA NextStep ==
    ASSUME TtySound, NEW p \in TtyUser, nextc(p)
    PROVE  TtySound'
<1> DEFINE x == [kind |-> "next", left |-> 0, text |-> <<>>]
<1>1. /\ tcall[p].kind = "none" /\ tcall' = [tcall EXCEPT ![p] = x] /\ isem' = Wait(isem, p)
      /\ tcur' \in TtyUser \cup {NoTtyUser}
      /\ UNCHANGED <<ibuf, icursor, imode, iecho, obuf, osem, oheld, ebuf, uart, typed, uncounted, written, missed>>
  BY DEF nextc, await
<1>2. x \in TtyCall /\ x.kind \in Readers /\ x.kind = "next"
  BY EmptySeq DEF TtyCall, Readers
<1> HIDE DEF x
<1> QED
  BY <1>1, <1>2, ReaderComes

LEMMA NoCallIs == NoTtyCall \in TtyCall /\ NoTtyCall.kind = "none" /\ "none" \notin Readers
BY EmptySeq DEF NoTtyCall, TtyCall, Readers

\* signal(), and the call ends.
LEMMA NextDoneStep ==
    ASSUME TtySound, NEW p \in TtyUser, nextcDone(p)
    PROVE  TtySound'
<1>1. /\ tcall[p].kind = "next" /\ ~Waits(isem, p) /\ isem' = Signal(isem)
      /\ tcall' = [tcall EXCEPT ![p] = NoTtyCall] /\ tcur' = NoTtyUser
      /\ UNCHANGED <<ibuf, icursor, imode, iecho, obuf, osem, oheld, ebuf, uart, typed, uncounted, written, missed>>
  BY DEF nextcDone, Turn, Waiting
<1>3. tcall'[p] = NoTtyCall /\ Others(p, tcall, tcall') /\ CallsTyped(tcall')
  BY <1>1, NoCallIs, CallMoves
<1>4. OutSound(obuf', written', osem', tcall')
  BY <1>1, <1>3, NoCallIs, OutOther DEF TtySound
<1>5. /\ SideSound(isem, tcall, Readers) /\ Ring(ibuf, TY_IBUFLEN, typed)
      /\ Len(typed) = Stock(isem, tcall, Readers) + (icursor + uncounted)
  BY DEF TtySound, InSound
<1>6. SideSound(isem', tcall, Readers) /\ Stock(isem', tcall, Readers) = Stock(isem, tcall, Readers) + 1
  BY <1>1, <1>5, SideSignal
<1>7. ~Waits(isem', p)
  <2>1. \A q \in TtyUser : Waits(Signal(isem), q) => Waits(isem, q)
    BY <1>5, SignalSound DEF SideSound
  <2> QED
    BY <1>1, <2>1
<1>8. SideSound(isem', tcall', Readers) /\ Stock(isem', tcall', Readers) = Stock(isem', tcall, Readers) - 1
  <2>1. tcall[p].kind \in Readers /\ tcall'[p].kind \notin Readers
    BY <1>1, <1>3, NoCallIs DEF Readers
  <2>2. SideSound(isem', tcall, Readers) /\ ~Waits(isem', p) /\ Others(p, tcall, tcall')
    BY <1>3, <1>6, <1>7
  <2> QED
    BY ONLY <2>1, <2>2, p \in TtyUser, SideMove
<1>9. Stock(isem', tcall', Readers) = Stock(isem, tcall, Readers)
  <2>1. Stock(isem, tcall, Readers) \in Nat
    BY SidesAre
  <2> QED
    BY <1>6, <1>8, <2>1
<1>10. InSound(ibuf', typed', isem', tcall', icursor' + uncounted')
  BY <1>1, <1>5, <1>8, <1>9 DEF InSound
<1> QED
  BY <1>1, <1>3, <1>4, <1>10, MovingStays, ModesStay DEF TtySound

LEMMA GetStep ==
    ASSUME TtySound, NEW p \in TtyUser, ttygetc(p)
    PROVE  TtySound'
<1> DEFINE y == [tcall[p] EXCEPT !.left = @ - 1, !.kind = IF @ = "line" THEN "rest" ELSE @]
<1>1. /\ tcall[p].kind \in {"line", "rest", "chars"} /\ ~Waits(isem, p)
      /\ ibuf' = [ibuf EXCEPT !.head = Wrap(@ + 1, TY_IBUFLEN)] /\ typed' = Tail(typed)
      /\ tcur' \in TtyUser \cup {NoTtyUser}
      /\ UNCHANGED <<icursor, imode, iecho, obuf, osem, oheld, ebuf, uart, uncounted, written, missed>>
  BY DEF ttygetc, Turn, Waiting, await
<1>2. \/ tcall' = [tcall EXCEPT ![p] = NoTtyCall] /\ isem' = isem
      \/ tcall' = [tcall EXCEPT ![p] = y] /\ isem' = Wait(isem, p) /\ tcall[p].left # 1
  BY Zenon DEF ttygetc, await
<1>3. /\ tcall[p] = [kind |-> tcall[p].kind, left |-> tcall[p].left, text |-> tcall[p].text]
      /\ tcall[p].left \in Nat /\ tcall[p].left # 0 /\ tcall[p].text \in Seq(Char)
  BY <1>1 DEF TtySound, CallsTyped, TtyCall
<1>4. y = [kind |-> IF tcall[p].kind = "line" THEN "rest" ELSE tcall[p].kind, left |-> tcall[p].left - 1,
           text |-> tcall[p].text]
  <2> DEFINE c == tcall[p]
             k == IF c.kind = "line" THEN "rest" ELSE c.kind
             l == c.left - 1
  <2>1. y = [c EXCEPT !.left = l, !.kind = k] /\ c = [kind |-> c.kind, left |-> c.left, text |-> c.text]
    BY <1>3
  <2> HIDE DEF c, k, l, y
  <2>2. y = [kind |-> k, left |-> l, text |-> c.text]
    BY ONLY <2>1
  <2> QED
    BY ONLY <2>2 DEF c, k, l
<1>5. tcall[p].left # 1 => y \in TtyCall /\ y.kind \in {"rest", "chars"} /\ y.left # 0
  BY <1>1, <1>3, <1>4 DEF TtyCall, Readers
<1> HIDE DEF y
<1> DEFINE x == tcall'[p]
<1>6. /\ Others(p, tcall, tcall') /\ CallsTyped(tcall') /\ x.kind # "write"
      /\ \/ isem' = isem /\ x.kind \notin Readers
         \/ isem' = Wait(isem, p) /\ x.kind \in Readers
  <2>1. CASE tcall' = [tcall EXCEPT ![p] = NoTtyCall] /\ isem' = isem
    <3>1. tcall'[p] = NoTtyCall /\ Others(p, tcall, tcall') /\ CallsTyped(tcall')
      BY <2>1, NoCallIs, CallMoves
    <3> QED
      BY <2>1, <3>1, NoCallIs
  <2>2. CASE tcall' = [tcall EXCEPT ![p] = y] /\ isem' = Wait(isem, p) /\ tcall[p].left # 1
    <3>1. tcall'[p] = y /\ Others(p, tcall, tcall') /\ CallsTyped(tcall')
      BY <1>5, <2>2, CallMoves
    <3> QED
      BY <1>5, <2>2, <3>1 DEF Readers
  <2> QED
    BY <1>2, <2>1, <2>2
<1>7. tcall[p].kind # "write" /\ tcall[p].kind \in Readers
  BY <1>1 DEF Readers
<1>8. OutSound(obuf', written', osem', tcall')
  BY <1>1, <1>6, <1>7, OutOther DEF TtySound
<1> DEFINE m == icursor + uncounted
<1>9. m \in Nat /\ InSound(ibuf, typed, isem, tcall, m)
  BY InParts DEF TtySound
<1> HIDE DEF m
<1>10. InSound(ibuf', Tail(typed), isem', tcall', m)
  BY <1>1, <1>6, <1>7, <1>9, InTake
<1>11. InSound(ibuf', typed', isem', tcall', icursor' + uncounted')
  BY <1>1, <1>10 DEF m
<1> QED
  BY <1>1, <1>6, <1>8, <1>11, MovingStays, ModesStay DEF TtySound

LEMMA PutStep ==
    ASSUME TtySound, NEW p \in TtyUser, ttyputc(p)
    PROVE  TtySound'
<1> DEFINE text == tcall[p].text
           y == [tcall[p] EXCEPT !.text = Tail(@)]
           ch == Head(text)
<1>1. /\ tcall[p].kind = "write" /\ ~Waits(osem, p)
      /\ obuf' = [obuf EXCEPT !.cell[obuf.tail] = ch, !.tail = Wrap(@ + 1, TY_OBUFLEN)]
      /\ uart' = kicked /\ written' = Append(written, ch) /\ missed' = FALSE
      /\ tcur' \in TtyUser \cup {NoTtyUser}
      /\ UNCHANGED <<ibuf, isem, icursor, imode, iecho, oheld, ebuf, typed, uncounted>>
  BY DEF ttyputc, Turn, Waiting, await
<1>2. \/ tcall' = [tcall EXCEPT ![p] = NoTtyCall] /\ osem' = osem
      \/ tcall' = [tcall EXCEPT ![p] = y] /\ osem' = Wait(osem, p) /\ Len(text) # 1
  BY Zenon DEF ttyputc, await
<1>3. /\ tcall[p] = [kind |-> tcall[p].kind, left |-> tcall[p].left, text |-> text]
      /\ tcall[p].left \in Nat /\ text \in Seq(Char) /\ text # <<>>
  BY <1>1 DEF TtySound, CallsTyped, TtyCall
<1>4. y = [kind |-> tcall[p].kind, left |-> tcall[p].left, text |-> Tail(text)]
  <2> DEFINE c == tcall[p]
             t == Tail(text)
  <2>1. y = [c EXCEPT !.text = t] /\ c = [kind |-> c.kind, left |-> c.left, text |-> c.text]
    BY <1>3
  <2> HIDE DEF c, t, y
  <2>2. y = [kind |-> c.kind, left |-> c.left, text |-> t]
    BY ONLY <2>1
  <2> QED
    BY ONLY <2>2 DEF c, t
<1> HIDE DEF y, text
<1>5. ch \in Char /\ Tail(text) \in Seq(Char) /\ (Len(text) # 1 => Tail(text) # <<>>)
  <2>1. ch \in Char /\ Tail(text) \in Seq(Char) /\ Len(Tail(text)) = Len(text) - 1
    BY <1>3, HeadTailProperties
  <2>2. Len(text) \in Nat /\ Len(<<>>) = 0
    BY <1>3, LenProperties, EmptySeq
  <2>3. Len(text) # 1 => Len(Tail(text)) # 0
    BY <2>1, <2>2
  <2> QED
    BY <2>1, <2>2, <2>3
<1> HIDE DEF ch
<1>6. Len(text) # 1 => y \in TtyCall /\ y.kind = "write" /\ y.text # <<>>
  BY <1>1, <1>3, <1>4, <1>5 DEF TtyCall, Readers
<1> DEFINE x == tcall'[p]
<1>7. /\ Others(p, tcall, tcall') /\ CallsTyped(tcall') /\ x.kind \notin Readers
      /\ \/ osem' = osem /\ x.kind # "write"
         \/ osem' = Wait(osem, p) /\ x.kind = "write"
  <2>1. CASE tcall' = [tcall EXCEPT ![p] = NoTtyCall] /\ osem' = osem
    <3>1. tcall'[p] = NoTtyCall /\ Others(p, tcall, tcall') /\ CallsTyped(tcall')
      BY <2>1, NoCallIs, CallMoves
    <3> QED
      BY <2>1, <3>1, NoCallIs
  <2>2. CASE tcall' = [tcall EXCEPT ![p] = y] /\ osem' = Wait(osem, p) /\ Len(text) # 1
    <3>1. tcall'[p] = y /\ Others(p, tcall, tcall') /\ CallsTyped(tcall')
      BY <1>6, <2>2, CallMoves
    <3> QED
      BY <1>6, <2>2, <3>1 DEF Readers
  <2> QED
    BY <1>2, <2>1, <2>2
<1>8. tcall[p].kind \notin Readers
  BY <1>1 DEF Readers
<1>9. InSound(ibuf', typed', isem', tcall', icursor' + uncounted')
  BY <1>1, <1>7, <1>8, InOther DEF TtySound
<1>10. OutSound(obuf, written, osem, tcall)
  BY DEF TtySound
<1>11. OutSound(obuf', Append(written, ch), osem', tcall')
  BY <1>1, <1>5, <1>7, <1>10, OutStore
<1>12. Moving'
  <2>1. uart \in Uart /\ ebuf \in EchoBuf /\ oheld \in BOOLEAN
    BY DEF TtySound, Moving
  <2>2. uart' \in Uart /\ uart'.etbei /\ (uart'.sending \/ uart'.thre)
    BY <1>1, <2>1, Kicks
  <2> QED
    BY <1>1, <2>1, <2>2 DEF Moving
<1> QED
  BY <1>1, <1>7, <1>9, <1>11, <1>12, ModesStay DEF TtySound

LEMMA ControlStep ==
    ASSUME TtySound, NEW p \in TtyUser, NEW func, ttycontrol(p, func)
    PROVE  TtySound'
<1>1. /\ imode' \in {imode, "raw", "cooked", "cbreak"} /\ iecho' \in {TRUE, FALSE, iecho}
      /\ UNCHANGED <<ibuf, isem, icursor, obuf, osem, oheld, ebuf, uart, tcall, tcur, typed, uncounted, written, missed>>
  BY DEF ttycontrol, upper
<1>2. TtyModes'
  BY <1>1 DEF TtySound, TtyModes
<1> QED
  BY <1>1, <1>2, MovingStays DEF TtySound

LEMMA SentStep ==
    ASSUME TtySound, sent
    PROVE  TtySound'
<1>1. /\ uart' = [uart EXCEPT !.sending = FALSE, !.thre = uart.etbei]
      /\ UNCHANGED <<ibuf, isem, icursor, imode, iecho, obuf, osem, oheld, ebuf, tcall, tcur, typed, uncounted, written, missed>>
  BY DEF sent, upper
<1>2. /\ uart = [etbei |-> uart.etbei, thre |-> uart.thre, sending |-> uart.sending] /\ uart.etbei \in BOOLEAN
      /\ ebuf \in EchoBuf /\ oheld \in BOOLEAN /\ missed \in BOOLEAN /\ (Behind => uart.etbei)
  BY DEF TtySound, Moving, Uart
<1>3. uart' = [etbei |-> uart.etbei, thre |-> uart.etbei, sending |-> FALSE]
  BY <1>1, <1>2
<1>4. uart' \in Uart /\ uart'.etbei = uart.etbei /\ uart'.thre = uart.etbei
  BY <1>2, <1>3 DEF Uart
<1>5. Behind' = Behind
  BY <1>1 DEF Behind, Echoes
<1>6. Moving'
  BY <1>1, <1>2, <1>4, <1>5, Zenon DEF Moving
<1>7. TtyModes'
  BY <1>1 DEF TtySound, TtyModes
<1> QED
  BY <1>1, <1>6, <1>7 DEF TtySound

\* n characters leave the buffer: no more than are there.
LEMMA SendStep ==
    ASSUME TtySound, tcall' = tcall, NEW n \in Nat, sendChars(n), thalted' = "no"
    PROVE  OutSound(obuf', written', osem', tcall')
<1>1. n <= Len(written) /\ written' = SubSeq(written, n + 1, Len(written))
      /\ obuf' = [obuf EXCEPT !.head = (@ + n) % TY_OBUFLEN] /\ osem' = SignalN(osem, n)
  BY DEF sendChars
<1> DEFINE K == {"write"}
           l == Len(written)
           q1 == SubSeq(written, n + 1, l)
           x == Stock(osem, tcall, K)
<1>2. /\ RingAt(obuf.head, obuf.tail, obuf.cell, TY_OBUFLEN, written) /\ obuf.tail < TY_OBUFLEN
      /\ obuf = [head |-> obuf.head, tail |-> obuf.tail, cell |-> obuf.cell]
      /\ SideSound(osem, tcall, K) /\ l + x = TY_OBUFLEN
  BY DEF TtySound, OutSound, Ring
<1>3. written \in Seq(Char) /\ l \in Nat /\ l <= TY_OBUFLEN /\ obuf.head \in Nat /\ obuf.head < TY_OBUFLEN
      /\ \A i \in 1..l : written[i] \in Char
  BY <1>2, LenProperties, ElementOfSeq, Lengths DEF RingAt
<1>4. SideSound(osem', tcall, K) /\ Stock(osem', tcall, K) = x + n
  BY <1>1, <1>2, SideSignalN
<1>5. x \in Nat
  BY SidesAre
<1> HIDE DEF l, q1, x, K
<1>6. q1 \in Seq(Char) /\ Len(q1) = l - n /\ \A i \in 1..(l - n) : q1[i] = written[i + n]
  <2>1. \A i \in (n + 1)..l : written[i] \in Char
    BY <1>3
  <2>2. /\ q1 \in Seq(Char) /\ Len(q1) = IF n + 1 <= l THEN l - (n + 1) + 1 ELSE 0
        /\ \A i \in 1..(l - (n + 1) + 1) : q1[i] = written[(n + 1) + i - 1]
    BY <1>3, <2>1, SubSeqProperties DEF q1
  <2>3. l - (n + 1) + 1 = l - n /\ (n + 1 <= l \/ l - n = 0)
    BY <1>1, <1>3 DEF l
  <2>4. \A i \in 1..(l - n) : (n + 1) + i - 1 = i + n
    BY <1>3
  <2> QED
    BY <2>2, <2>3, <2>4
<1> DEFINE h1 == (obuf.head + n) % TY_OBUFLEN
<1>7. h1 = Place(obuf.head, n, TY_OBUFLEN)
  <2> DEFINE y == obuf.head + n
  <2>1. y \in Nat /\ y < 2 * TY_OBUFLEN
    <3> DEFINE h == obuf.head
    <3>1. h \in Nat /\ h < TY_OBUFLEN /\ n \in Nat /\ n <= TY_OBUFLEN /\ TY_OBUFLEN \in Nat /\ y = h + n
      BY <1>1, <1>3, Lengths DEF l
    <3> HIDE DEF h, y
    <3> QED
      BY ONLY <3>1
  <2>2. y % TY_OBUFLEN = IF y < TY_OBUFLEN THEN y ELSE y - TY_OBUFLEN
    BY <2>1, ModIs, Lengths
  <2> QED
    BY <2>2 DEF Place
<1>8. RingAt(Place(obuf.head, n, TY_OBUFLEN), obuf.tail, obuf.cell, TY_OBUFLEN, q1)
  <2>1. TY_OBUFLEN \in Nat \ {0} /\ n <= Len(written) /\ Len(q1) = Len(written) - n
        /\ \A i \in 1..(Len(written) - n) : q1[i] = written[i + n]
    BY <1>1, <1>6, Lengths DEF l
  <2> QED
    BY <1>2, <1>6, <2>1, RingTake
<1> HIDE DEF h1
<1>9. obuf' = [head |-> h1, tail |-> obuf.tail, cell |-> obuf.cell]
  BY <1>1, <1>2 DEF h1
<1>10. obuf'.head = h1 /\ obuf'.tail = obuf.tail /\ obuf'.cell = obuf.cell
       /\ obuf' = [head |-> obuf'.head, tail |-> obuf'.tail, cell |-> obuf'.cell]
  BY ONLY <1>9
<1>11. Ring(obuf', TY_OBUFLEN, q1) /\ obuf'.tail < TY_OBUFLEN
  BY <1>2, <1>7, <1>8, <1>10 DEF Ring
<1>12. (l - n) + (x + n) = TY_OBUFLEN
  BY <1>2, <1>3, <1>5, Lengths
<1>13. written' = q1
  BY <1>1 DEF q1, l
<1> QED
  BY <1>4, <1>6, <1>11, <1>12, <1>13 DEF OutSound, K

LEMMA OutIntStep ==
    ASSUME TtySound, thalted' = "no", ttyhandle_out
    PROVE  TtySound'
<1>1. /\ uart.etbei /\ UNCHANGED <<ibuf, isem, icursor, imode, iecho, oheld, tcall, tcur, typed, uncounted, missed>>
  BY DEF ttyhandle_out, upper
<1>2. /\ uart = [etbei |-> uart.etbei, thre |-> uart.thre, sending |-> uart.sending] /\ uart.etbei \in BOOLEAN
      /\ uart.sending \in BOOLEAN
      /\ ebuf \in EchoBuf /\ oheld \in BOOLEAN /\ missed \in BOOLEAN
  BY DEF TtySound, Moving, Uart
<1>3. TtyModes' /\ CallsTyped(tcall') /\ InSound(ibuf', typed', isem', tcall', icursor' + uncounted')
  BY <1>1, ModesStay DEF TtySound, TtyModes
<1>4. SUFFICES OutSound(obuf', written', osem', tcall') /\ Moving'
  BY <1>3 DEF TtySound
<1>5. CASE oheld
  <2>1. uart' = [uart EXCEPT !.thre = FALSE] /\ UNCHANGED <<obuf, osem, ebuf, written>>
    BY <1>5 DEF ttyhandle_out
  <2>2. uart' = [etbei |-> uart.etbei, thre |-> FALSE, sending |-> uart.sending]
    BY <1>2, <2>1
  <2>3. uart' \in Uart /\ uart'.etbei
    BY <1>1, <1>2, <2>2 DEF Uart
  <2>4. Moving'
    BY <1>1, <1>2, <1>5, <2>1, <2>3 DEF Moving
  <2> QED
    BY <1>1, <2>1, <2>4 DEF TtySound
<1>6. CASE ~oheld /\ Echoes = 0 /\ osem.count >= TY_OBUFLEN
  <2>1. uart' = [uart EXCEPT !.thre = FALSE, !.etbei = FALSE] /\ UNCHANGED <<obuf, osem, ebuf, written>>
    BY <1>6 DEF ttyhandle_out
  <2>2. uart' = [etbei |-> FALSE, thre |-> FALSE, sending |-> uart.sending]
    BY <1>2, <2>1
  <2>3. uart' \in Uart
    BY <1>2, <2>2 DEF Uart
  <2>4. written = <<>>
    <3> DEFINE a == Cardinality(InKinds(tcall, {"write"}))
    <3>1. Len(written) + (osem.count + a) = TY_OBUFLEN
      BY DEF TtySound, OutSound, Stock
    <3>2. a \in Nat
      BY InKindsFinite
    <3> HIDE DEF a
    <3>3. Len(written) \in Nat /\ osem.count \in Int
      BY SidesAre
    <3>4. Len(written) = 0
      BY <1>6, <3>1, <3>2, <3>3, Lengths
    <3>5. written \in Seq(Char)
      BY DEF TtySound, OutSound, Ring, RingAt
    <3> QED
      BY <3>4, <3>5, EmptySeq
  <2>5. Echoes' = 0 /\ written' = <<>>
    BY <1>6, <2>1, <2>4 DEF Echoes
  <2>6. Moving'
    BY <1>1, <1>2, <2>1, <2>3, <2>5 DEF Moving, Behind
  <2> QED
    BY <1>1, <2>1, <2>6 DEF TtySound
<1>7. CASE ~oheld /\ ~(Echoes = 0 /\ osem.count >= TY_OBUFLEN)
  <2>1. /\ uart' = [uart EXCEPT !.thre = FALSE, !.sending = TRUE]
        /\ ebuf' = [ebuf EXCEPT !.head = (@ + Least(UART_FIFO_SIZE, Echoes)) % TY_EBUFLEN]
        /\ sendChars(ochars)
    BY <1>7 DEF ttyhandle_out
  <2>2. uart' = [etbei |-> uart.etbei, thre |-> FALSE, sending |-> TRUE]
    BY <1>2, <2>1
  <2>3. uart' \in Uart /\ uart'.etbei /\ uart'.sending
    BY <1>1, <1>2, <2>2 DEF Uart
  <2>4. ebuf = [head |-> ebuf.head, tail |-> ebuf.tail] /\ ebuf.head \in 0..(TY_EBUFLEN - 1) /\ ebuf.tail \in 0..(TY_EBUFLEN - 1)
    BY <1>2 DEF EchoBuf
  <2>5. Echoes \in Nat
    <3> DEFINE y == ebuf.tail - ebuf.head
    <3>1. y \in Int
      BY <2>4, Lengths
    <3> HIDE DEF y
    <3>2. y % TY_EBUFLEN \in Nat
      BY <3>1, Lengths
    <3> QED
      BY <3>2 DEF Echoes, y
  <2> DEFINE e == Least(UART_FIFO_SIZE, Echoes)
  <2>6. e \in Nat /\ e <= UART_FIFO_SIZE
    BY <2>5, Lengths DEF Least
  <2> DEFINE h1 == (ebuf.head + e) % TY_EBUFLEN
  <2>7. h1 \in 0..(TY_EBUFLEN - 1)
    <3>1. ebuf.head + e \in Nat
      BY <2>4, <2>6, Lengths
    <3> HIDE DEF e
    <3> QED
      BY <3>1, Lengths
  <2> HIDE DEF h1
  <2>8. ebuf' \in EchoBuf
    <3>1. ebuf' = [head |-> h1, tail |-> ebuf.tail]
      BY <2>1, <2>4 DEF h1
    <3> QED
      BY <2>4, <2>7, <3>1 DEF EchoBuf
  <2>9. ochars \in Nat
    <3> DEFINE u == UART_FIFO_SIZE - e
               v == TY_OBUFLEN - osem.count
    <3>1. u \in Nat /\ v \in Nat
      BY <2>6, SidesAre, Lengths
    <3>2. ochars = Least(u, v)
      BY DEF ochars
    <3> HIDE DEF u, v
    <3> QED
      BY <3>1, <3>2 DEF Least
  <2>10. OutSound(obuf', written', osem', tcall')
    BY <1>1, <2>1, <2>9, SendStep
  <2>11. Moving'
    BY <1>1, <1>2, <2>3, <2>8 DEF Moving
  <2> QED
    BY <2>10, <2>11
<1> QED
  BY <1>5, <1>6, <1>7

LEMMA TtyStep == TtyInv /\ [TtyNext]_tvars => TtyInv'
<1> SUFFICES ASSUME TtyInv, [TtyNext]_tvars, thalted' = "no" PROVE TtySound'
  BY DEF TtyInv
<1>1. CASE UNCHANGED tvars
  <2>1. TtySound
    BY <1>1 DEF TtyInv, tvars
  <2>2. UNCHANGED <<ibuf, isem, icursor, imode, iecho, obuf, osem, oheld, ebuf, uart, tcall, tcur, typed, uncounted, written, missed>>
    BY <1>1 DEF tvars
  <2> QED
    BY <2>1, <2>2, MovingStays DEF TtySound, TtyModes
<1>2. TtyNext => TtySound
  BY DEF TtyInv, TtyNext, ttywrite, ttyread, ttycontrol, ttyputc, ttygetc, nextc, nextcDone, ttyhandle_out, sent,
         ttyhandle_in, Quiet, Turn
<1>3. ASSUME NEW p \in TtyUser,
             \/ \E text \in Outputs : ttywrite(p, text)
             \/ \E count \in ReadCounts : ttyread(p, count)
             \/ \E func \in Functions \ {"NEXTC"} : ttycontrol(p, func)
             \/ ttyputc(p) \/ ttygetc(p) \/ nextc(p) \/ nextcDone(p)
      PROVE  TtySound'
  <2>1. TtySound
    BY <1>2, <1>3 DEF TtyNext
  <2> QED
    BY <1>3, <2>1, WriteStep, ReadStep, ControlStep, PutStep, GetStep, NextStep, NextDoneStep
<1>4. CASE ttyhandle_out \/ sent
  BY <1>2, <1>4, OutIntStep, SentStep DEF TtyNext
<1>5. CASE \E ch \in Keys : ttyhandle_in(ch)
  BY <1>2, <1>5, InStep DEF TtyNext
<1> QED
  BY <1>1, <1>3, <1>4, <1>5 DEF TtyNext

LEMMA TtyTyped == TtyInv => TtyTypeOK
<1> SUFFICES ASSUME TtyInv, thalted = "no" PROVE TtySound => TtyTypeOK
  BY DEF TtyInv, TtyTypeOK
<1> SUFFICES ASSUME TtySound PROVE TtyTypeOK
  OBVIOUS
<1>1. ibuf \in [head : 0..(TY_IBUFLEN - 1), tail : 0..TY_IBUFLEN, cell : [0..(TY_IBUFLEN - 1) -> Char]]
      /\ typed \in Seq(Char)
  BY DEF TtySound, InSound, Ring, RingAt
<1>2. /\ obuf \in [head : 0..(TY_OBUFLEN - 1), tail : 0..(TY_OBUFLEN - 1), cell : [0..(TY_OBUFLEN - 1) -> Char]]
      /\ written \in Seq(Char)
  <2>1. RingAt(obuf.head, obuf.tail, obuf.cell, TY_OBUFLEN, written) /\ obuf.tail < TY_OBUFLEN
        /\ obuf = [head |-> obuf.head, tail |-> obuf.tail, cell |-> obuf.cell]
    BY DEF TtySound, OutSound, Ring
  <2>2. obuf.head \in 0..(TY_OBUFLEN - 1) /\ obuf.tail \in 0..TY_OBUFLEN /\ obuf.cell \in [0..(TY_OBUFLEN - 1) -> Char]
        /\ written \in Seq(Char)
    BY <2>1 DEF RingAt
  <2>3. obuf.tail \in 0..(TY_OBUFLEN - 1)
    BY <2>1, <2>2, Lengths
  <2> QED
    BY <2>1, <2>2, <2>3
<1>3. isem \in [used : {TRUE}, count : Int, queue : Seq(TtyUser)] /\ osem \in [used : {TRUE}, count : Int, queue : Seq(TtyUser)]
  BY SidesAre DEF SideSound, SemSound
<1>4. tcall \in [TtyUser -> [kind : {"none", "write", "line", "rest", "chars", "next"}, left : Nat, text : Seq(Char)]]
  BY DEF TtySound, CallsTyped, TtyCall, Readers
<1>5. ebuf \in [head : 0..(TY_EBUFLEN - 1), tail : 0..(TY_EBUFLEN - 1)]
      /\ uart \in [etbei : BOOLEAN, thre : BOOLEAN, sending : BOOLEAN] /\ {oheld, missed} \subseteq BOOLEAN
  BY DEF TtySound, Moving, EchoBuf, Uart
<1>6. icursor \in Nat /\ uncounted \in Nat /\ imode \in {"raw", "cooked", "cbreak"} /\ iecho \in BOOLEAN
      /\ tcur \in TtyUser \cup {NoTtyUser}
  BY DEF TtySound, TtyModes
<1> QED
  BY <1>1, <1>2, <1>3, <1>4, <1>5, <1>6 DEF TtyTypeOK

LEMMA InputIs == TtyInv => InputExact
<1> SUFFICES ASSUME thalted = "no", TtySound
             PROVE  /\ Len(typed) = avail + Admitted({"line", "rest", "chars", "next"}) + icursor + uncounted
                    /\ (ibuf.tail - ibuf.head - Len(typed)) % TY_IBUFLEN = 0
                    /\ Unread = typed
                    /\ CountIsQueue(isem)
  BY DEF TtyInv, InputExact
<1> DEFINE g == Cardinality({p \in TtyUser : tcall[p].kind \in Readers /\ ~Waits(isem, p)})
           x == Stock(isem, tcall, Readers)
<1>1. Admitted({"line", "rest", "chars", "next"}) = g
  <2>1. {"line", "rest", "chars", "next"} = Readers
    BY DEF Readers
  <2>2. \A p \in TtyUser : tcall[p].kind \in Readers => ~Waits(osem, p)
    BY SidesAre DEF Readers
  <2>3. {p \in TtyUser : tcall[p].kind \in Readers /\ ~Waiting(p)}
        = {p \in TtyUser : tcall[p].kind \in Readers /\ ~Waits(isem, p)}
    BY <2>2 DEF Waiting
  <2> QED
    BY <2>1, <2>3 DEF Admitted
<1>2. SideSound(isem, tcall, Readers) /\ CountIsQueue(isem)
  BY SidesAre DEF SideSound, SemSound
<1>3. x = isem.count + Len(isem.queue) + g /\ g \in Nat /\ isem.count \in Int /\ Len(isem.queue) \in Nat
  BY <1>2, StockIs
<1>4. Len(typed) = x + (icursor + uncounted) /\ icursor \in Nat /\ uncounted \in Nat /\ x \in Nat
  BY InParts
<1>5. isem.count + Len(isem.queue) = avail /\ avail \in Nat
  BY <1>2, <1>3 DEF CountIsQueue, avail
<1>6. Len(typed) = avail + g + icursor + uncounted
  <2> HIDE DEF x, g
  <2>1. x = avail + g
    BY <1>3, <1>5
  <2> QED
    BY <1>3, <1>4, <1>5, <2>1
<1>7. RingAt(ibuf.head, ibuf.tail, ibuf.cell, TY_IBUFLEN, typed) /\ typed \in Seq(Char)
  BY InParts
<1>8. /\ (ibuf.tail - ibuf.head - Len(typed)) % TY_IBUFLEN = 0
      /\ \A i \in 1..Len(typed) : ibuf.cell[(ibuf.head + i - 1) % TY_IBUFLEN] = typed[i]
  BY <1>7, RingExact, Lengths
<1>9. Unread = typed
  <2>1. typed = [i \in 1..Len(typed) |-> typed[i]]
    BY <1>7, LenProperties
  <2>2. [i \in 1..Len(typed) |-> ibuf.cell[(ibuf.head + i - 1) % TY_IBUFLEN]] = [i \in 1..Len(typed) |-> typed[i]]
    BY <1>8
  <2> QED
    BY <2>1, <2>2 DEF Unread
<1> QED
  BY <1>1, <1>2, <1>6, <1>8, <1>9

LEMMA OutputIs == TtyInv => OutputExact
<1> SUFFICES ASSUME thalted = "no", TtySound
             PROVE  /\ Len(written) = TY_OBUFLEN - osem.count - Admitted({"write"}) - Len(osem.queue)
                    /\ (obuf.tail - obuf.head - Len(written)) % TY_OBUFLEN = 0
                    /\ \A i \in 1..Len(written) : obuf.cell[(obuf.head + i - 1) % TY_OBUFLEN] = written[i]
                    /\ CountIsQueue(osem)
  BY DEF TtyInv, OutputExact
<1> DEFINE K == {"write"}
           g == Cardinality({p \in TtyUser : tcall[p].kind \in K /\ ~Waits(osem, p)})
           x == Stock(osem, tcall, K)
<1>1. Admitted(K) = g
  <2>2. \A p \in TtyUser : tcall[p].kind \in K => ~Waits(isem, p)
    BY SidesAre DEF Readers
  <2>3. {p \in TtyUser : tcall[p].kind \in K /\ ~Waiting(p)}
        = {p \in TtyUser : tcall[p].kind \in K /\ ~Waits(osem, p)}
    BY <2>2 DEF Waiting
  <2> QED
    BY <2>3 DEF Admitted
<1>2. SideSound(osem, tcall, K) /\ CountIsQueue(osem)
  BY SidesAre DEF SideSound, SemSound
<1>3. x = osem.count + Len(osem.queue) + g /\ g \in Nat /\ osem.count \in Int /\ Len(osem.queue) \in Nat
  BY <1>2, StockIs
<1>4. Len(written) + x = TY_OBUFLEN /\ Len(written) \in Nat
  BY SidesAre DEF TtySound, OutSound
<1>6. Len(written) = TY_OBUFLEN - osem.count - g - Len(osem.queue)
  <2> DEFINE l == Len(osem.queue)
             k == osem.count
             w == Len(written)
  <2>1. x = k + l + g /\ g \in Nat /\ k \in Int /\ l \in Nat /\ w + x = TY_OBUFLEN /\ w \in Nat /\ TY_OBUFLEN \in Nat
    BY <1>3, <1>4, Lengths
  <2> HIDE DEF x, g, l, k, w
  <2>2. w = TY_OBUFLEN - k - g - l
    BY ONLY <2>1
  <2> QED
    BY ONLY <2>2 DEF w, k, l
<1>8. /\ (obuf.tail - obuf.head - Len(written)) % TY_OBUFLEN = 0
      /\ \A i \in 1..Len(written) : obuf.cell[(obuf.head + i - 1) % TY_OBUFLEN] = written[i]
  <2>1. RingAt(obuf.head, obuf.tail, obuf.cell, TY_OBUFLEN, written)
    BY DEF TtySound, OutSound, Ring
  <2> QED
    BY <2>1, RingExact, Lengths
<1> QED
  BY <1>1, <1>2, <1>6, <1>8

LEMMA MovesIs == TtyInv => OutputMoves
BY DEF TtyInv, TtySound, Moving, Behind, OutputMoves

LEMMA TtyHolds == TtySpec => []TtyInv
<1>1. ttinit => TtyInv
  BY TtyStart DEF TtyInv
<1> QED
  BY <1>1, TtyStep, PTL DEF TtySpec

\* ttyread(), ttygetc(), ttywrite(), ttyputc(), ttycontrol(), ttyhandle_in(),
\* ttyhandle_out() and the UART, for any number of processes, sizes of the buffers and of
\* the FIFO: as long as no line kill or raw character has moved a pointer outside the
\* buffer, what lies between tyihead and tyitail is what was typed, as edited, and not
\* read; and the semaphore, the readers let in, the line and cbreak mode account for it.
THEOREM TtyInputIsExact == TtySpec => [](TtyTypeOK /\ InputExact)
<1>1. TtyInv => TtyTypeOK /\ InputExact
  BY TtyTyped, InputIs
<1> QED
  BY <1>1, TtyHolds, PTL

\* The same for the output: characters leave in the order of ttyputc(), each once, and the
\* semaphore counts the places that neither a character nor a writer let in has.
THEOREM TtyOutputIsExact == TtySpec => []OutputExact
<1> QED
  BY OutputIs, TtyHolds, PTL

\* No order of kicks, output interrupts and echo leaves characters behind with the
\* interrupt off, or with no interrupt to come.
THEOREM TtyOutputMoves == TtySpec => []OutputMoves
<1> QED
  BY MovesIs, TtyHolds, PTL
===============================================================================
