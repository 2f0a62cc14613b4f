------------------------------ MODULE DiskProofs -------------------------------
(***************************************************************************)
(* The remote disk.  First, for any number of clients, blocks and buffers,  *)
(* any programs, and a network that loses and delays what it likes: every   *)
(* buffer is on one list, and rd_reqsem counts the requests.  Together they *)
(* are inductive, given who may be in which exchange: the reply to a read   *)
(* finds its request at the head of the queue because the count says that   *)
(* the queue is not empty, and because only the communication process can   *)
(* be in such an exchange.                                                  *)
(*                                                                          *)
(* Then, for one client, the remote disk is the memory that Paging takes it *)
(* for, whatever the numbers of blocks and buffers, the programs and the    *)
(* losses.  The hypotheses are the code's own: paging uses the device with  *)
(* prSem held; a message from elsewhere is taken for the address of a       *)
(* buffer; and a reply later than RD_TIMEOUT is taken for the reply to the  *)
(* next request of its type, whatever its number.                           *)
(***************************************************************************)
EXTENDS Rds, QueueProofs, FiniteSetTheorems

\* BuffersPartitioned of any three lists
Partition(r, c, f) ==
    /\ r \in Seq(Buf) /\ c \in Seq(Buf) /\ f \in Seq(Buf)
    /\ Once(r) /\ Once(c) /\ Once(f)
    /\ \A b \in Buf :
          /\ On(b, r) \/ On(b, c) \/ On(b, f)
          /\ ~(On(b, r) /\ On(b, c))
          /\ ~(On(b, r) /\ On(b, f))
          /\ ~(On(b, c) /\ On(b, f))

Lists == Partition(requests, cache, free)

IsExchange(x) == "type" \in DOMAIN x

Exchanges ==
    /\ DOMAIN xchg = Process /\ DOMAIN pc = Process
    /\ xchg = [p \in Process |-> xchg[p]] /\ pc = [p \in Process |-> pc[p]]
    /\ \A p \in Process : IsExchange(xchg[p])
    /\ \A c \in Client : xchg[c].type \in {"none", "open"}
    /\ xchg[rd_comproc].type \in {"none", "read", "write"}

RdsInv == Lists /\ Exchanges /\ reqsem \in Nat /\ RequestsCounted

InHand == pc[rd_comproc] \in {"rdscomm", "udp_recv"} /\ xchg[rd_comproc].type = "read"

-------------------------------------------------------------------------------
(***************************************************************************)
(* What becomes of the lists when a buffer moves from one to another.       *)
(***************************************************************************)
LEMMA FreeToRequests ==
    ASSUME NEW r, NEW c, NEW f, Partition(r, c, f), f # <<>>
    PROVE  /\ Partition(Append(r, Head(f)), c, Tail(f))
           /\ Len(Append(r, Head(f))) = Len(r) + 1
<1> USE DEF Partition
<1>1. /\ Head(f) \in Buf /\ On(Head(f), f) /\ Tail(f) \in Seq(Buf) /\ Once(Tail(f))
      /\ \A y \in Buf : On(y, Tail(f)) <=> y # Head(f) /\ On(y, f)
  BY TailOnce
<1>2. ~On(Head(f), r)
  BY <1>1
<1>3. /\ Append(r, Head(f)) \in Seq(Buf) /\ Len(Append(r, Head(f))) = Len(r) + 1
      /\ Once(Append(r, Head(f)))
      /\ \A y \in Buf : On(y, Append(r, Head(f))) <=> y = Head(f) \/ On(y, r)
  BY <1>1, <1>2, AppendOnce
<1> QED
  BY <1>1, <1>3

LEMMA CacheToRequests ==
    ASSUME NEW r, NEW c, NEW f, Partition(r, c, f), NEW i \in 1..Len(c)
    PROVE  /\ Partition(Append(r, c[i]), Unlink(c, c[i]), f)
           /\ Len(Append(r, c[i])) = Len(r) + 1
<1> USE DEF Partition
<1>1. c[i] \in Buf /\ On(c[i], c)
  BY ElementOfSeq DEF On
<1>2. /\ Unlink(c, c[i]) \in Seq(Buf) /\ Once(Unlink(c, c[i]))
      /\ \A y \in Buf : On(y, Unlink(c, c[i])) <=> y # c[i] /\ On(y, c)
  BY <1>1, UnlinkOnce
<1>3. ~On(c[i], r)
  BY <1>1
<1>4. /\ Append(r, c[i]) \in Seq(Buf) /\ Len(Append(r, c[i])) = Len(r) + 1
      /\ Once(Append(r, c[i]))
      /\ \A y \in Buf : On(y, Append(r, c[i])) <=> y = c[i] \/ On(y, r)
  BY <1>1, <1>3, AppendOnce
<1> QED
  BY <1>1, <1>2, <1>4

LEMMA RequestToCache ==
    ASSUME NEW r, NEW c, NEW f, Partition(r, c, f), r # <<>>
    PROVE  /\ Partition(Tail(r), <<Head(r)>> \o c, f)
           /\ Len(Tail(r)) = Len(r) - 1
<1> USE DEF Partition
<1> DEFINE h == <<Head(r)>>
<1>1. /\ Head(r) \in Buf /\ On(Head(r), r) /\ Tail(r) \in Seq(Buf) /\ Once(Tail(r))
      /\ Len(Tail(r)) = Len(r) - 1
      /\ \A y \in Buf : On(y, Tail(r)) <=> y # Head(r) /\ On(y, r)
  BY TailOnce
<1>2. h \in Seq(Buf) /\ Len(h) = 1 /\ h[1] = Head(r)
  BY <1>1
<1> HIDE DEF h
<1>3. Once(h) /\ \A y \in Buf : On(y, h) <=> y = Head(r)
  BY <1>2 DEF Once, On
<1>4. \A y \in Buf : ~(On(y, h) /\ On(y, c))
  BY <1>1, <1>3
<1>5. /\ h \o c \in Seq(Buf) /\ Once(h \o c)
      /\ \A y \in Buf : On(y, h \o c) <=> On(y, h) \/ On(y, c)
  BY <1>2, <1>3, <1>4, ConcatOnce
<1> QED
  BY <1>1, <1>3, <1>5 DEF h

LEMMA CacheToFree ==
    ASSUME NEW c, NEW f, Partition(<<>>, c, f)
    PROVE  Partition(<<>>, <<>>, Backwards(c) \o f)
<1> USE DEF Partition
<1> DEFINE t == Backwards(c)
<1>1. t \in Seq(Buf) /\ Once(t) /\ \A y \in Buf : On(y, t) <=> On(y, c)
  BY BackwardsOnce
<1> HIDE DEF t
<1>2. \A y \in Buf : ~(On(y, t) /\ On(y, f))
  BY <1>1
<1>3. /\ t \o f \in Seq(Buf) /\ Once(t \o f)
      /\ \A y \in Buf : On(y, t \o f) <=> On(y, t) \/ On(y, f)
  BY <1>1, <1>2, ConcatOnce
<1>4. \A y \in Buf : ~On(y, <<>>)
  BY DEF On
<1> QED
  BY <1>1, <1>3, <1>4 DEF t
-------------------------------------------------------------------------------
(***************************************************************************)
(* The initial state and the steps that leave lists and counts alone.       *)
(***************************************************************************)
LEMMA InitInv == Init => RdsInv
<1> SUFFICES ASSUME Init
             PROVE  RdsInv
  OBVIOUS
<1> DEFINE n == Cardinality(Buf)
<1>1. n \in Nat
  BY BufferAssumption, FS_CardinalityType
<1>2. PICK s \in [1..n -> Buf] : free = s /\ \A b \in Buf : \E i \in DOMAIN s : s[i] = b
  BY DEF Init
<1>3. s \in Surjection(1..n, Buf)
  BY <1>2 DEF Surjection
<1>4. IsFiniteSet(1..n) /\ Cardinality(1..n) = n
  BY <1>1, FS_Interval
<1>5. s \in Injection(1..n, Buf)
  BY <1>3, <1>4, FS_SurjSameCardinalityImpliesInj
<1>6. s \in Seq(Buf) /\ Len(s) = n
  BY <1>1, SeqDef, LenProperties
<1>7. Once(s) /\ \A b \in Buf : On(b, s)
  <2>1. \A i, j \in 1..n : s[i] = s[j] => i = j
    BY <1>5 DEF Injection, IsInjective
  <2>2. DOMAIN s = 1..n
    OBVIOUS
  <2> QED
    BY <1>2, <1>6, <2>1, <2>2 DEF Once, On
<1>8. requests = <<>> /\ cache = <<>> /\ Once(<<>>) /\ \A b \in Buf : ~On(b, <<>>)
  BY DEF Init, Once, On
<1>9. Lists
  BY <1>2, <1>6, <1>7, <1>8 DEF Lists, Partition
<1>10. /\ xchg = [p \in Process |-> Idle]
       /\ pc = [p \in Process |-> IF p = rd_comproc THEN "wait" ELSE "run"]
       /\ reqsem = 0 /\ Len(requests) = 0
  BY <1>8 DEF Init
<1>11. Exchanges
  BY <1>10 DEF Exchanges, IsExchange, Idle, Process
<1>12. RequestsCounted
  BY <1>10 DEF RequestsCounted, Process
<1> QED
  BY <1>9, <1>10, <1>11, <1>12 DEF RdsInv

\* A client goes on: nobody else moves, and the exchanges and the lists stay.
LEMMA ClientMoves ==
    ASSUME RdsInv, NEW c \in Client, NEW where, pc' = [pc EXCEPT ![c] = where], UNCHANGED xchg
    PROVE  /\ Exchanges'
           /\ InHand' <=> InHand
<1>1. c \in Process /\ rd_comproc \in Process /\ c # rd_comproc
  BY ProcessAssumption DEF Process
<1> QED
  BY <1>1 DEF RdsInv, Exchanges, InHand

\* Nothing that the invariant is about changes.
LEMMA QuietStep ==
    ASSUME RdsInv, halted = "no", UNCHANGED <<requests, cache, free, reqsem>>,
           Exchanges', InHand' <=> InHand
    PROVE  RdsInv'
BY DEF RdsInv, Lists, RequestsCounted, InHand

\* A request of a client enters the queue, and its signal is counted.
LEMMA RequestStep ==
    ASSUME RdsInv, halted = "no", NEW b, NEW r, NEW fl, NEW ca, NEW c \in Client,
           request(c, r, b, fl, ca),
           Partition(Append(requests, b), ca, fl), Len(Append(requests, b)) = Len(requests) + 1,
           Exchanges', InHand' <=> InHand
    PROVE  RdsInv'
<1>1. /\ requests' = Append(requests, b) /\ cache' = ca /\ free' = fl /\ reqsem' = reqsem + 1
      /\ UNCHANGED halted
  BY DEF request
<1>2. Lists'
  BY <1>1 DEF Lists
<1>3. reqsem \in Nat /\ Len(requests) \in Nat
  BY LenProperties DEF RdsInv, Lists, Partition
<1>4. reqsem + (IF InHand THEN 1 ELSE 0) = Len(requests)
  BY DEF RdsInv, RequestsCounted, InHand
<1>5. RequestsCounted'
  BY <1>1, <1>3, <1>4 DEF RequestsCounted, InHand
<1> QED
  BY <1>1, <1>2, <1>3, <1>5 DEF RdsInv

\* rdsbufalloc() takes the buffer from the free list or from the cache, or panics.
LEMMA AllocStep ==
    ASSUME RdsInv, halted = "no", NEW c \in Client, NEW r, NEW where,
           rdsbufalloc(c, r), pc' = [pc EXCEPT ![c] = where], UNCHANGED xchg
    PROVE  RdsInv'
<1>1. Exchanges' /\ (InHand' <=> InHand)
  BY ClientMoves
<1>2. Partition(requests, cache, free)
  BY DEF RdsInv, Lists
<1>3. CASE free # <<>>
  <2>1. request(c, r, Head(free), Tail(free), cache)
    BY <1>3 DEF rdsbufalloc
  <2>2. /\ Partition(Append(requests, Head(free)), cache, Tail(free))
        /\ Len(Append(requests, Head(free))) = Len(requests) + 1
    BY <1>2, <1>3, FreeToRequests
  <2> QED
    BY <1>1, <2>1, <2>2, RequestStep
<1>4. CASE free = <<>> /\ reusable # {}
  <2>1. PICK i \in reusable : request(c, r, cache[i], free, Unlink(cache, cache[i]))
    BY <1>4 DEF rdsbufalloc
  <2>2. i \in 1..Len(cache)
    BY DEF reusable, LastAt
  <2>3. /\ Partition(Append(requests, cache[i]), Unlink(cache, cache[i]), free)
        /\ Len(Append(requests, cache[i])) = Len(requests) + 1
    BY <1>2, <2>2, CacheToRequests
  <2> QED
    BY <1>1, <2>1, <2>3, RequestStep
<1>5. CASE free = <<>> /\ reusable = {}
  <2>1. UNCHANGED <<requests, cache, free, reqsem>>
    BY <1>5 DEF rdsbufalloc, listVars
  <2> QED
    BY <1>1, <2>1, QuietStep
<1> QED
  BY <1>3, <1>4, <1>5

\* The same behind wait(rd_availsem).
LEMMA WaitAvailStep ==
    ASSUME RdsInv, halted = "no", NEW c \in Client, NEW r, waitAvail(c, r), UNCHANGED xchg
    PROVE  RdsInv'
<1>1. CASE availsem.count > 0
  <2>1. rdsbufalloc(c, r) /\ pc' = [pc EXCEPT ![c] = After(r)]
    BY <1>1 DEF waitAvail
  <2> QED
    BY <2>1, AllocStep
<1>2. CASE ~(availsem.count > 0)
  <2>1. pc' = [pc EXCEPT ![c] = "waitAvail"] /\ UNCHANGED <<requests, cache, free, reqsem>>
    BY <1>2 DEF waitAvail, listVars
  <2>2. Exchanges' /\ (InHand' <=> InHand)
    BY <2>1, ClientMoves
  <2> QED
    BY <2>1, <2>2, QuietStep
<1> QED
  BY <1>1, <1>2
-------------------------------------------------------------------------------
(***************************************************************************)
(* Exchanges with the server.                                               *)
(***************************************************************************)
Kinds(p) == IF p = rd_comproc THEN {"none", "read", "write"} ELSE {"none", "open"}

\* One process's exchange changes to another of a kind it can have.
LEMMA ExchangeStep ==
    ASSUME RdsInv, NEW p \in Process, NEW x, IsExchange(x), x.type \in Kinds(p),
           xchg' = [xchg EXCEPT ![p] = x], pc' = [q \in Process |-> pc'[q]]
    PROVE  Exchanges' /\ xchg'[p] = x
<1>1. DOMAIN xchg = Process /\ xchg'[p] = x /\ \A q \in Process : q # p => xchg'[q] = xchg[q]
  BY DEF RdsInv, Exchanges
<1>2. \A q \in Process : IsExchange(xchg'[q])
  BY <1>1 DEF RdsInv, Exchanges
<1>3. \A c \in Client : xchg'[c].type \in {"none", "open"}
  <2> TAKE c \in Client
  <2>1. c \in Process /\ c # rd_comproc
    BY ProcessAssumption DEF Process
  <2>2. CASE c = p
    BY <1>1, <2>1, <2>2 DEF Kinds
  <2>3. CASE c # p
    BY <1>1, <2>1, <2>3 DEF RdsInv, Exchanges
  <2> QED
    BY <2>2, <2>3
<1>4. xchg'[rd_comproc].type \in {"none", "read", "write"}
  BY <1>1 DEF RdsInv, Exchanges, Kinds, Process
<1>5. DOMAIN xchg' = Process /\ xchg' = [q \in Process |-> xchg'[q]]
  BY DEF RdsInv, Exchanges
<1>6. DOMAIN pc' = Process
  OBVIOUS
<1> QED
  BY <1>1, <1>2, <1>3, <1>4, <1>5, <1>6 DEF Exchanges, IsExchange

LEMMA IdleIsExchange == IsExchange(Idle) /\ Idle.type = "none"
BY DEF Idle, IsExchange

\* What a process is in, and that others are not affected by its going on.
LEMMA KindOf ==
    ASSUME RdsInv, NEW p \in Process
    PROVE  /\ IsExchange(xchg[p]) /\ xchg[p].type \in Kinds(p)
           /\ \A w : [pc EXCEPT ![p] = w] = [q \in Process |-> [pc EXCEPT ![p] = w][q]]
<1>1. p # rd_comproc => p \in Client
  BY DEF Process
<1> QED
  BY <1>1 DEF RdsInv, Exchanges, Kinds

\* Another attempt is part of the same exchange.
LEMMA AgainStep ==
    ASSUME RdsInv, NEW p \in Process, NEW xmit, again(p, xmit), pc[p] = "udp_recv"
    PROVE  Exchanges' /\ (InHand' <=> InHand)
<1> DEFINE x == [xchg[p] EXCEPT !.tries = @ + 1, !.xmit = xmit]
<1>1. DOMAIN xchg = Process /\ IsExchange(xchg[p]) /\ DOMAIN pc = Process
  BY KindOf DEF RdsInv, Exchanges
<1>2. IsExchange(x) /\ x.type = xchg[p].type
  BY <1>1 DEF IsExchange
<1>3. xchg' = [xchg EXCEPT ![p] = x]
  BY <1>1 DEF again
<1>4. pc' = [pc EXCEPT ![p] = "rdscomm"]
  BY DEF again
<1> HIDE DEF x
<1>5. Exchanges' /\ xchg'[p] = x
  BY <1>2, <1>3, <1>4, KindOf, ExchangeStep
<1>6. InHand' <=> InHand
  <2>1. CASE p = rd_comproc
    BY <1>1, <1>2, <1>4, <1>5, <2>1 DEF InHand
  <2>2. CASE p # rd_comproc
    BY <1>1, <1>3, <1>4, <2>2 DEF InHand, Process
  <2> QED
    BY <2>1, <2>2
<1> QED
  BY <1>5, <1>6

\* A failed exchange ends: that of a client leaves the others as they are, that of the
\* communication process ends everything.
LEMMA FailStep ==
    ASSUME RdsInv, halted = "no", NEW p \in Process, fail(p),
           UNCHANGED <<requests, cache, free, reqsem>>
    PROVE  RdsInv'
<1>1. xchg' = [xchg EXCEPT ![p] = Idle]
  BY DEF fail
<1>2. Idle.type \in Kinds(p) /\ IsExchange(Idle)
  BY IdleIsExchange DEF Kinds
<1>3. CASE p = rd_comproc
  <2>1. pc' = pc /\ halted' = "panic"
    BY <1>3 DEF fail
  <2>2. pc' = [q \in Process |-> pc'[q]]
    BY <2>1 DEF RdsInv, Exchanges
  <2>3. Exchanges'
    BY <1>1, <1>2, <2>2, ExchangeStep
  <2>4. RequestsCounted'
    BY <2>1 DEF RequestsCounted
  <2> QED
    BY <2>3, <2>4 DEF RdsInv, Lists
<1>4. CASE p # rd_comproc
  <2>1. pc' = [pc EXCEPT ![p] = "run"]
    BY <1>4 DEF fail
  <2>2. Exchanges'
    BY <1>1, <1>2, <2>1, KindOf, ExchangeStep
  <2>3. InHand' <=> InHand
    BY <1>1, <1>4, <2>1 DEF RdsInv, Exchanges, InHand, Process
  <2> QED
    BY <2>2, <2>3, QuietStep
<1> QED
  BY <1>3, <1>4
-------------------------------------------------------------------------------
(***************************************************************************)
(* The steps, by actor.                                                     *)
(***************************************************************************)
LEMMA ClientInv ==
    ASSUME RdsInv, halted = "no", NEW c \in Client, ClientStep(c)
    PROVE  RdsInv'
<1> USE DEF listVars, semVars, procVars
<1>0. Partition(requests, cache, free)
  BY DEF RdsInv, Lists
<1>c. c \in Process /\ c # rd_comproc
  BY ProcessAssumption DEF Process
<1>s. UNCHANGED <<pc, xchg>> => Exchanges' /\ (InHand' <=> InHand)
  BY DEF RdsInv, Exchanges, InHand
<1>1. CASE rdsopen(c)
  <2>1. PICK x : x.type = "open" /\ IsExchange(x) /\ xchg' = [xchg EXCEPT ![c] = x]
    BY <1>1 DEF rdsopen, exchange, IsExchange
  <2>2. pc' = [pc EXCEPT ![c] = "rdscomm"] /\ UNCHANGED <<requests, cache, free, reqsem>>
    BY <1>1 DEF rdsopen
  <2>3. Exchanges'
    BY <1>c, <2>1, <2>2, KindOf, ExchangeStep DEF Kinds
  <2>4. InHand' <=> InHand
    BY <1>c, <2>1, <2>2 DEF RdsInv, Exchanges, InHand, Process
  <2> QED
    BY <2>2, <2>3, <2>4, QuietStep
<1>2. CASE rdsclose(c)
  <2>1. /\ requests = <<>> /\ requests' = <<>> /\ cache' = <<>> /\ free' = Backwards(cache) \o free
        /\ UNCHANGED <<pc, xchg, reqsem, halted>>
    BY <1>2 DEF rdsclose
  <2>2. Lists'
    BY <1>0, <2>1, CacheToFree DEF Lists
  <2>3. RequestsCounted'
    BY <2>1 DEF RdsInv, RequestsCounted
  <2> QED
    BY <1>s, <2>1, <2>2, <2>3 DEF RdsInv
<1>3. CASE rdsreadDone(c)
  <2>1. pc' = [pc EXCEPT ![c] = "run"] /\ UNCHANGED <<requests, cache, free, reqsem, xchg>>
    BY <1>3 DEF rdsreadDone
  <2> QED
    BY <2>1, ClientMoves, QuietStep
<1>4. CASE granted(c)
  <2>1. rdsbufalloc(c, want[c]) /\ pc' = [pc EXCEPT ![c] = After(want[c])] /\ UNCHANGED xchg
    BY <1>4 DEF granted
  <2> QED
    BY <2>1, AllocStep
<1>5. CASE notice(c)
  BY <1>5, <1>s, QuietStep DEF notice
<1>6. ASSUME NEW b \in Block, rdsreadHere(c, b)
      PROVE  RdsInv'
  BY <1>6, <1>s, QuietStep DEF rdsreadHere
<1>7. ASSUME NEW b \in Block, rdsreadMiss(c, b)
      PROVE  RdsInv'
  <2>1. PICK r : waitAvail(c, r) /\ UNCHANGED xchg
    BY <1>7 DEF rdsreadMiss
  <2> QED
    BY <2>1, WaitAvailStep
<1>8. ASSUME NEW b \in Block, NEW v \in Value, rdswriteReplace(c, b, v)
      PROVE  RdsInv'
  BY <1>8, <1>s, QuietStep DEF rdswriteReplace
<1>9. ASSUME NEW b \in Block, NEW v \in Value, rdswriteCached(c, b, v)
      PROVE  RdsInv'
  <2> DEFINE r == [op |-> "write", blk |-> b, val |-> v]
  <2>1. PICK i \in Unused(b) : request(c, r, cache[i], free, Unlink(cache, cache[i]))
    BY <1>9 DEF rdswriteCached
  <2>2. i \in 1..Len(cache)
    BY DEF Unused, cached, FirstAt
  <2>3. /\ Partition(Append(requests, cache[i]), Unlink(cache, cache[i]), free)
        /\ Len(Append(requests, cache[i])) = Len(requests) + 1
    BY <1>0, <2>2, CacheToRequests
  <2>4. UNCHANGED <<pc, xchg>>
    BY <1>9 DEF rdswriteCached
  <2> QED
    BY <1>s, <2>1, <2>3, <2>4, RequestStep
<1>10. ASSUME NEW b \in Block, NEW v \in Value, rdswriteNew(c, b, v)
       PROVE  RdsInv'
  <2>1. PICK r : waitAvail(c, r) /\ UNCHANGED xchg
    BY <1>10 DEF rdswriteNew
  <2> QED
    BY <2>1, WaitAvailStep
<1> QED
  BY <1>1, <1>2, <1>3, <1>4, <1>5, <1>6, <1>7, <1>8, <1>9, <1>10 DEF ClientStep

LEMMA ProcessInv ==
    ASSUME RdsInv, halted = "no", rdsprocess
    PROVE  RdsInv'
<1> USE DEF listVars, semVars, procVars
<1>0. /\ Partition(requests, cache, free) /\ rd_comproc \in Process
      /\ DOMAIN pc = Process /\ DOMAIN xchg = Process
      /\ reqsem \in Nat /\ Len(requests) \in Nat
      /\ reqsem + (IF InHand THEN 1 ELSE 0) = Len(requests)
  BY LenProperties DEF RdsInv, Lists, Partition, Exchanges, RequestsCounted, InHand, Process
<1>1. CASE rdsprocessRead
  <2>1. PICK x : x.type = "read" /\ IsExchange(x) /\ xchg' = [xchg EXCEPT ![rd_comproc] = x]
    BY <1>1 DEF rdsprocessRead, exchange, IsExchange
  <2>2. /\ pc[rd_comproc] = "wait" /\ pc' = [pc EXCEPT ![rd_comproc] = "rdscomm"]
        /\ reqsem > 0 /\ reqsem' = reqsem - 1
        /\ UNCHANGED <<requests, cache, free, halted>>
    BY <1>1 DEF rdsprocessRead, TakesRequest
  <2>3. Exchanges' /\ xchg'[rd_comproc] = x
    BY <1>0, <2>1, <2>2, KindOf, ExchangeStep DEF Kinds
  <2>4. InHand' /\ ~InHand
    BY <1>0, <2>1, <2>2, <2>3 DEF InHand
  <2>5. reqsem' \in Nat /\ RequestsCounted'
    BY <1>0, <2>2, <2>4 DEF RequestsCounted, InHand
  <2> QED
    BY <2>2, <2>3, <2>5 DEF RdsInv, Lists
<1>2. CASE rdsprocessWrite
  <2>1. PICK x : x.type = "write" /\ IsExchange(x) /\ xchg' = [xchg EXCEPT ![rd_comproc] = x]
    BY <1>2 DEF rdsprocessWrite, exchange, IsExchange
  <2>2. /\ pc[rd_comproc] = "wait" /\ reqsem > 0 /\ reqsem' = reqsem - 1
        /\ requests # <<>> /\ requests' = Tail(requests)
        /\ cache' = <<Head(requests)>> \o cache
        /\ UNCHANGED <<free, halted>>
    BY <1>2 DEF rdsprocessWrite, TakesRequest
  <2>3. pc' = [q \in Process |-> pc'[q]]
    BY <1>2 DEF rdsprocessWrite, signalAvail
  <2>4. Exchanges' /\ xchg'[rd_comproc] = x
    BY <1>0, <2>1, <2>3, ExchangeStep DEF Kinds
  <2>5. ~InHand' /\ ~InHand
    BY <2>1, <2>2, <2>4 DEF InHand
  <2>6. Lists' /\ Len(requests') = Len(requests) - 1
    BY <1>0, <2>2, RequestToCache DEF Lists
  <2>7. reqsem' \in Nat /\ RequestsCounted'
    BY <1>0, <2>2, <2>5, <2>6 DEF RequestsCounted, InHand
  <2> QED
    BY <2>4, <2>6, <2>7 DEF RdsInv
<1>3. CASE rdsprocessSleep
  <2>1. /\ pc[rd_comproc] = "sleep" /\ pc' = [pc EXCEPT ![rd_comproc] = "wait"]
        /\ UNCHANGED <<requests, cache, free, reqsem, xchg>>
    BY <1>3 DEF rdsprocessSleep
  <2>2. Exchanges'
    BY <2>1 DEF RdsInv, Exchanges
  <2>3. InHand' <=> InHand
    BY <1>0, <2>1 DEF InHand
  <2> QED
    BY <2>1, <2>2, <2>3, QuietStep
<1> QED
  BY <1>1, <1>2, <1>3 DEF rdsprocess

\* The reply to a read moves its request to the cache.
LEMMA ReadDoneStep ==
    ASSUME RdsInv, halted = "no", NEW p \in Process, NEW r, readDone(r),
           pc[p] = "udp_recv", xchg[p].type = "read", xchg' = [xchg EXCEPT ![p] = Idle],
           UNCHANGED reqsem
    PROVE  RdsInv'
<1>0. /\ Partition(requests, cache, free) /\ rd_comproc \in Process
      /\ DOMAIN pc = Process /\ DOMAIN xchg = Process
      /\ reqsem \in Nat /\ Len(requests) \in Nat
      /\ reqsem + (IF InHand THEN 1 ELSE 0) = Len(requests)
  BY LenProperties DEF RdsInv, Lists, Partition, Exchanges, RequestsCounted, InHand, Process
<1>1. p = rd_comproc
  BY DEF RdsInv, Exchanges, Process
<1>2. InHand /\ requests # <<>>
  <2>1. InHand
    BY <1>1 DEF InHand
  <2>2. Len(requests) # 0
    BY <1>0, <2>1
  <2> QED
    BY <1>0, <2>1, <2>2, EmptySeq DEF Partition
<1>3. /\ requests' = Tail(requests) /\ cache' = <<Head(requests)>> \o cache /\ UNCHANGED free
      /\ pc' = [q \in Process |-> pc'[q]] /\ pc'[rd_comproc] = "sleep"
  BY <1>0 DEF readDone, signalAvail
<1>4. Exchanges'
  BY <1>0, <1>1, <1>3, IdleIsExchange, ExchangeStep DEF Kinds
<1>5. Lists' /\ Len(requests') = Len(requests) - 1
  BY <1>0, <1>2, <1>3, RequestToCache DEF Lists
<1>6. ~InHand'
  BY <1>3 DEF InHand
<1>7. RequestsCounted'
  BY <1>0, <1>2, <1>5, <1>6 DEF RequestsCounted, InHand
<1> QED
  BY <1>0, <1>4, <1>5, <1>7 DEF RdsInv
LEMMA CommInv ==
    ASSUME RdsInv, halted = "no", NEW p \in Process, Comm(p)
    PROVE  RdsInv'
<1> USE DEF listVars, semVars, netVars
<1>0. DOMAIN pc = Process /\ DOMAIN xchg = Process
  BY DEF RdsInv, Exchanges
<1>1. CASE rdscommSend(p)
  <2>1. pc[p] = "rdscomm" /\ UNCHANGED <<requests, cache, free, reqsem>>
    BY <1>1 DEF rdscommSend
  <2>2. CASE Receiving
    BY <1>1, <2>1, <2>2, FailStep DEF rdscommSend
  <2>3. CASE ~Receiving
    <3>1. pc' = [pc EXCEPT ![p] = "udp_recv"] /\ UNCHANGED xchg
      BY <1>1, <2>3 DEF rdscommSend
    <3>2. Exchanges'
      BY <3>1 DEF RdsInv, Exchanges
    <3>3. InHand' <=> InHand
      BY <1>0, <2>1, <3>1 DEF InHand
    <3> QED
      BY <2>1, <3>2, <3>3, QuietStep
  <2> QED
    BY <2>2, <2>3
<1>2. CASE rdscommExhausted(p)
  BY <1>2, FailStep DEF rdscommExhausted
<1>3. CASE rdscommTimeout(p)
  BY <1>3, AgainStep, QuietStep DEF rdscommTimeout
<1>4. CASE rdscommRefuse(p)
  BY <1>4, AgainStep, QuietStep DEF rdscommRefuse
<1>5. CASE rdscommDone(p)
  <2> DEFINE r == Head(udqueue)
  <2>1. pc[p] = "udp_recv" /\ UNCHANGED reqsem
    BY <1>5 DEF rdscommDone
  <2>2. CASE ~r.ok
    BY <1>5, <2>1, <2>2, FailStep DEF rdscommDone
  <2>3. CASE r.ok
    <3>1. xchg' = [xchg EXCEPT ![p] = Idle]
      BY <1>5, <2>3 DEF rdscommDone
    <3>2. CASE xchg[p].type = "read" /\ readDone(r)
      BY <2>1, <3>1, <3>2, ReadDoneStep
    <3>3. ASSUME xchg[p].type \in {"open", "write"}, NEW where \in {"run", "sleep"},
                 pc' = [pc EXCEPT ![p] = where], UNCHANGED <<requests, cache, free>>
          PROVE  RdsInv'
      <4>1. Exchanges' /\ xchg'[p] = Idle
        BY <3>1, <3>3, IdleIsExchange, KindOf, ExchangeStep DEF Kinds
      <4>2. InHand' <=> InHand
        <5>1. CASE p = rd_comproc
          BY <1>0, <3>3, <4>1, <5>1, IdleIsExchange DEF InHand
        <5>2. CASE p # rd_comproc
          BY <1>0, <3>1, <3>3, <5>2 DEF InHand, Process
        <5> QED
          BY <5>1, <5>2
      <4> QED
        BY <2>1, <3>3, <4>1, <4>2, QuietStep
    <3>4. \/ xchg[p].type = "open" /\ pc' = [pc EXCEPT ![p] = "run"] /\ UNCHANGED <<requests, cache, free>>
          \/ xchg[p].type = "write" /\ pc' = [pc EXCEPT ![p] = "sleep"] /\ UNCHANGED <<requests, cache, free>>
          \/ xchg[p].type = "read" /\ readDone(r)
      BY <1>5, <2>3 DEF rdscommDone
    <3> QED
      BY <3>2, <3>3, <3>4
  <2> QED
    BY <2>2, <2>3
<1> QED
  BY <1>1, <1>2, <1>3, <1>4, <1>5 DEF Comm

\* The network and the server.
LEMMA NetworkInv ==
    ASSUME RdsInv, halted = "no", lose \/ udp_in \/ rdserver
    PROVE  RdsInv'
<1>1. UNCHANGED <<requests, cache, free, reqsem, pc, xchg>>
  BY DEF lose, udp_in, rdserver, listVars, semVars, procVars
<1>2. Exchanges' /\ (InHand' <=> InHand)
  BY <1>1 DEF RdsInv, Exchanges, InHand
<1> QED
  BY <1>1, <1>2, QuietStep

\* The inductive invariant of the driver.
THEOREM RdsInductive == Spec => []RdsInv
<1>1. Init => RdsInv
  BY InitInv
<1>2. RdsInv /\ [Next]_vars => RdsInv'
  <2> SUFFICES ASSUME RdsInv, [Next]_vars
               PROVE  RdsInv'
    OBVIOUS
  <2>1. CASE Next
    BY <2>1, ClientInv, CommInv, ProcessInv, NetworkInv DEF Next
  <2>2. CASE UNCHANGED vars
    BY <2>2 DEF vars, listVars, semVars, procVars, RdsInv, Lists, Exchanges, RequestsCounted
  <2> QED
    BY <2>1, <2>2
<1> QED
  BY <1>1, <1>2, PTL DEF Spec

\* Every buffer of the driver is on exactly one of the request queue, the cache and the free
\* list: rdsbufalloc(), rdsclose() and rdsprocess() never lose one nor use one twice.
THEOREM BuffersPartitionedHolds == Spec => []BuffersPartitioned
<1>1. RdsInv => BuffersPartitioned
  BY DEF RdsInv, Lists, Partition, BuffersPartitioned
<1> QED
  BY <1>1, RdsInductive, PTL

\* rd_reqsem counts the requests that rdsprocess() has not taken: it never waits while
\* there is work, and never takes the header of an empty queue for a request.
THEOREM RequestsCountedHolds == Spec => []RequestsCounted
<1>1. RdsInv => RequestsCounted
  BY DEF RdsInv
<1> QED
  BY <1>1, RdsInductive, PTL

-------------------------------------------------------------------------------

\* One client, which no other message reaches while it waits for its block, and a network
\* that loses packets but does not keep them longer than RD_TIMEOUT.
Alone ==
    /\ \A c, d \in Client : c = d
    /\ "receive" \notin NoticeAt
    /\ ~Late

Datum   == Value \cup {Hole}
Packet  ==      [type : {"open"}, seq : Nat \ {0}, blk : Block \cup {Hole}, data : Datum]
           \cup [type : {"read", "write"}, seq : Nat \ {0}, blk : Block, data : Datum]
Reply   == [type : {"open", "read", "write"}, seq : Nat \ {0}, ok : BOOLEAN, data : Datum]

Attempt == [type : {"none", "open", "read", "write"}, seq : Nat, blk : Block \cup {Hole},
            data : Datum, tries : Nat, xmit : BOOLEAN]
Buffer  == [op : {"none", "read", "write"}, refcnt : Int, blknum : Block \cup {Hole},
            status : {"VALID", "INVALID"}, pid : Process, block : Datum]

Up   == wire.up
Down == wire.down
X    == xchg[rd_comproc]

Busy(p)   == pc[p] \in {"rdscomm", "udp_recv"}
Asking(c) == pc[c] \in {"waitAvail", "granted", "receive"}

-------------------------------------------------------------------------------

DiskTyped ==
    /\ rd_state \in {"FREE", "PEND", "OPEN"} /\ rd_seq \in Nat \ {0}
    /\ buf \in [Buf -> Buffer]
    /\ availsem \in [count : Int, waiting : Seq(Client)]
    /\ pc \in [Process -> {"run", "wait", "sleep", "waitAvail", "granted", "receive",
                           "rdscomm", "udp_recv"}]
    /\ want \in [Client -> Request]
    /\ prmsg \in [Client -> Buf \cup {NoBuf, Notice}]
    /\ xchg \in [Process -> Attempt]
    /\ udqueue \in Seq(Reply)
    /\ wire \in [up : Seq(Packet), down : Seq(Reply)]
    /\ server \in [seq : Nat, open : BOOLEAN, file : [Block -> Datum]]
    /\ last \in [Block -> Datum]
    /\ answer \in [Client -> [blk : Block \cup {Hole}, val : Datum \cup {Garbage}]]

\* Who may be where.
Phases ==
    /\ pc[rd_comproc] \in {"wait", "sleep", "rdscomm", "udp_recv"}
    /\ \A p \in Process : Busy(p) <=> xchg[p].type # "none"
    /\ \A c \in Client : /\ pc[c] \notin {"wait", "sleep"}
                         /\ Busy(c) <=> rd_state = "PEND"
                         /\ Asking(c) => rd_state = "OPEN"
    /\ requests # <<>> => rd_state = "OPEN"
    /\ rd_state # "FREE" => rd_seq > 1

\* rd_availsem and the buffers that are not queued.
Available ==
    /\ \A c \in Client : pc[c] = "waitAvail" =>
          /\ availsem.count = -1 /\ availsem.waiting = <<c>>
          /\ Len(free) + Len(cache) = 0
    /\ (\A c \in Client : pc[c] # "waitAvail") =>
          /\ availsem.count >= 0 /\ availsem.waiting = <<>>
          /\ availsem.count =
                Len(free) + Len(cache) - (IF \E c \in Client : pc[c] = "granted" THEN 1 ELSE 0)

\* Each block is in the queue once: a write with the value written last, or a read, after
\* all writes, that its client waits for.
Queue ==
    \A i \in 1..Len(requests) : LET e == buf[requests[i]] IN
        /\ e.op \in {"read", "write"} /\ e.blknum \in Block
        /\ \A j \in 1..Len(requests) : j # i => buf[requests[j]].blknum # e.blknum
        /\ e.op = "write" => e.status = "VALID" /\ e.block = last[e.blknum]
        /\ e.op = "read" => /\ i = Len(requests) /\ e.status = "INVALID"
                            /\ e.pid \in Client
                            /\ pc[e.pid] = "receive" /\ prmsg[e.pid] = NoBuf
                            /\ want[e.pid].blk = e.blknum

\* A valid copy in the cache is what was written last, is the first for its block, and
\* no request for the block is queued.
Cached ==
    \A i \in 1..Len(cache) : LET e == buf[cache[i]] IN
        /\ e.refcnt <= 1
        /\ e.refcnt = 1 => \E c \in Client : pc[c] = "receive" /\ prmsg[c] = cache[i]
        /\ e.status = "VALID" =>
              /\ e.refcnt <= 0
              /\ e.blknum \in Block /\ e.block = last[e.blknum]
              /\ \A j \in 1..Len(requests) : buf[requests[j]].blknum # e.blknum
              /\ \A j \in 1..Len(cache) :
                    j # i /\ buf[cache[j]].blknum = e.blknum =>
                       i < j /\ buf[cache[j]].status = "INVALID"

\* The block of a call in progress is neither queued nor valid in the cache until the call
\* queues it; its buffer has the value once the message with its address is there.
Wanted ==
    \A c \in Client : Asking(c) => LET k == want[c].blk IN
        /\ k \in Block /\ want[c].op \in {"read", "write"}
        /\ want[c].op = "read" => last[k] # Hole
        /\ pc[c] # "receive" =>
              /\ \A j \in 1..Len(requests) : buf[requests[j]].blknum # k
              /\ \A j \in 1..Len(cache) : buf[cache[j]].blknum = k =>
                    buf[cache[j]].status = "INVALID"
        /\ pc[c] = "receive" =>
              /\ want[c].op = "read"
              /\ IF prmsg[c] = NoBuf
                 THEN /\ requests # <<>>
                      /\ LET e == buf[requests[Len(requests)]] IN e.op = "read" /\ e.pid = c
                 ELSE /\ prmsg[c] \in Buf /\ On(prmsg[c], cache)
                      /\ buf[prmsg[c]].block = last[k]

\* What the server will hold when what is queued, and what is being sent, has been written.
Content ==
    /\ \A k \in Block :
          (\A i \in 1..Len(requests) : buf[requests[i]].op = "write" =>
             buf[requests[i]].blknum # k) =>
             IF X.type = "write" /\ X.blk = k THEN X.data = last[k] ELSE server.file[k] = last[k]
    /\ X.type = "write" => X.blk \in Block
    /\ X.type = "read" => /\ requests # <<>> /\ buf[Head(requests)].op = "read"
                          /\ X.blk = buf[Head(requests)].blknum

-------------------------------------------------------------------------------
(***************************************************************************)
(* The network.  Own packets are those of the communication process.        *)
(***************************************************************************)
Own(m) == m.type \in {"read", "write"}

\* The server will answer m.
Heard(m) == Own(m) /\ m.seq >= server.seq

Numbers ==
    /\ server.seq < rd_seq
    /\ \A p \in Process : xchg[p].type # "none" => 0 < xchg[p].seq /\ xchg[p].seq < rd_seq
    /\ \A i \in 1..Len(Up) : Up[i].seq < rd_seq
    /\ \A i \in 1..Len(Down) : Down[i].seq <= server.seq
    /\ \A i \in 1..Len(udqueue) : udqueue[i].seq <= server.seq

\* Replies come in the order of their numbers.
Sorted ==
    /\ \A i, j \in 1..Len(Down) : i < j => Down[i].seq <= Down[j].seq
    /\ \A i, j \in 1..Len(udqueue) : i < j => udqueue[i].seq <= udqueue[j].seq
    /\ \A i \in 1..Len(udqueue), j \in 1..Len(Down) : udqueue[i].seq <= Down[j].seq

\* The number of the communication process's exchange is its own.
Distinct ==
    X.type # "none" =>
        /\ \A c \in Client : xchg[c].type # "none" => xchg[c].seq # X.seq
        /\ \A i \in 1..Len(Up) : Up[i].type = "open" => Up[i].seq # X.seq
        /\ \A i \in 1..Len(Down) : Down[i].type = "open" => Down[i].seq # X.seq
        /\ \A i \in 1..Len(udqueue) : udqueue[i].type = "open" => udqueue[i].seq # X.seq

\* The reply r is to the exchange in progress, and what it says is true.
Truth(r) ==
    Own(r) =>
        /\ r.type = X.type /\ r.seq = X.seq
        /\ r.ok => IF r.type = "write" THEN server.file[X.blk] = X.data
                                       ELSE r.data = server.file[X.blk]

Truthful ==
    /\ \A i \in 1..Len(Up) : Heard(Up[i]) =>
          Up[i] = [type |-> X.type, seq |-> X.seq, blk |-> X.blk, data |-> X.data]
    /\ \A i \in 1..Len(Down) : Truth(Down[i])
    /\ \A i \in 1..Len(udqueue) : Truth(udqueue[i])

\* Of the exchange in progress one packet at most is on its way, and none when it is time
\* to send it.
Single ==
    /\ \A i, j \in 1..Len(Up) : Heard(Up[i]) /\ Heard(Up[j]) => i = j
    /\ \A i, j \in 1..Len(Down) : Own(Down[i]) /\ Own(Down[j]) => i = j
    /\ \A i, j \in 1..Len(udqueue) : Own(udqueue[i]) /\ Own(udqueue[j]) => i = j
    /\ \A i \in 1..Len(Up), j \in 1..Len(Down) : ~(Heard(Up[i]) /\ Own(Down[j]))
    /\ \A i \in 1..Len(Up), j \in 1..Len(udqueue) : ~(Heard(Up[i]) /\ Own(udqueue[j]))
    /\ \A i \in 1..Len(Down), j \in 1..Len(udqueue) : ~(Own(Down[i]) /\ Own(udqueue[j]))

Nothing ==
    /\ \A i \in 1..Len(Up) : ~Heard(Up[i])
    /\ \A i \in 1..Len(Down) : ~Own(Down[i])
    /\ \A i \in 1..Len(udqueue) : ~Own(udqueue[i])

Unsent == pc[rd_comproc] = "rdscomm" /\ X.xmit => Nothing

Flying == Len(Up) + Len(Down) + Len(udqueue)

\* The number 1, which makes the server start anew, is gone with the first exchange: it
\* opens the device, and has one packet under way at most.
First ==
    IF rd_seq <= 2
    THEN /\ X.type = "none"
         /\ Flying <= 1
         /\ Flying = 1 => \E c \in Client : pc[c] = "udp_recv"
    ELSE /\ \A i \in 1..Len(Up) : Up[i].seq # 1
         /\ \A p \in Process : xchg[p].type # "none" => xchg[p].seq # 1

\* Before the server has opened the file there is no packet but requests to open it: it has
\* no reason to send an error, which the driver would not notice.
Opened ==
    ~server.open =>
        /\ rd_state # "OPEN" /\ X.type = "none"
        /\ Len(Down) = 0 /\ Len(udqueue) = 0
        /\ \A i \in 1..Len(Up) : ~Own(Up[i])

Network == Numbers /\ Sorted /\ Distinct /\ Truthful /\ Single /\ Unsent /\ First

Driver == Phases /\ Available /\ Queue /\ Cached /\ Wanted /\ Content

DiskInv ==
    /\ RdsInv
    /\ halted = "no" => DiskTyped /\ Driver /\ Network /\ Opened

-------------------------------------------------------------------------------
(***************************************************************************)
(* Sequences, by position.                                                  *)
(***************************************************************************)
LEMMA TailFacts ==
    ASSUME NEW S, NEW s \in Seq(S), s # <<>>
    PROVE  /\ Len(s) \in Nat \ {0} /\ 1 \in 1..Len(s) /\ Head(s) = s[1] /\ Head(s) \in S
           /\ Tail(s) \in Seq(S) /\ Len(Tail(s)) = Len(s) - 1
           /\ \A i \in 1..Len(Tail(s)) : i + 1 \in 1..Len(s) /\ Tail(s)[i] = s[i + 1]
<1>1. Len(s) \in Nat /\ Len(s) # 0
  BY LenProperties, EmptySeq
<1>2. Head(s) = s[1] /\ Tail(s) \in Seq(S) /\ Len(Tail(s)) = Len(s) - 1
  BY HeadTailProperties
<1>3. \A i \in 1..Len(Tail(s)) : Tail(s)[i] = s[i + 1]
  BY HeadTailProperties
<1>4. 1 \in 1..Len(s)
  BY <1>1
<1>5. s[1] \in S
  BY <1>4, ElementOfSeq
<1>6. \A i \in 1..Len(Tail(s)) : i + 1 \in 1..Len(s)
  BY <1>1, <1>2
<1> QED
  BY <1>1, <1>2, <1>3, <1>4, <1>5, <1>6

LEMMA AppendFacts ==
    ASSUME NEW S, NEW s \in Seq(S), NEW x \in S
    PROVE  /\ Len(s) \in Nat
           /\ Append(s, x) \in Seq(S) /\ Len(Append(s, x)) = Len(s) + 1
           /\ Append(s, x) # <<>>
           /\ \A i \in 1..Len(s) : i \in 1..Len(Append(s, x)) /\ Append(s, x)[i] = s[i]
           /\ Append(s, x)[Len(s) + 1] = x
           /\ \A i \in 1..Len(Append(s, x)) : i # Len(s) + 1 => i \in 1..Len(s)
<1>1. Len(s) \in Nat
  BY LenProperties
<1>2. /\ Append(s, x) \in Seq(S) /\ Len(Append(s, x)) = Len(s) + 1
      /\ \A i \in 1..Len(s) : Append(s, x)[i] = s[i]
      /\ Append(s, x)[Len(s) + 1] = x
  BY AppendProperties
<1>3. /\ \A i \in 1..Len(s) : i \in 1..Len(Append(s, x))
      /\ \A i \in 1..Len(Append(s, x)) : i # Len(s) + 1 => i \in 1..Len(s)
  BY <1>1, <1>2
<1>4. Append(s, x) # <<>>
  BY <1>1, <1>2, EmptySeq
<1> QED
  BY <1>1, <1>2, <1>3, <1>4

LEMMA PrependFacts ==
    ASSUME NEW S, NEW s \in Seq(S), NEW x \in S
    PROVE  /\ Len(s) \in Nat
           /\ <<x>> \o s \in Seq(S) /\ Len(<<x>> \o s) = Len(s) + 1
           /\ (<<x>> \o s)[1] = x
           /\ \A i \in 1..Len(<<x>> \o s) : i # 1 =>
                 i - 1 \in 1..Len(s) /\ (<<x>> \o s)[i] = s[i - 1]
<1> DEFINE h == <<x>>
           t == h \o s
<1>1. Len(s) \in Nat
  BY LenProperties
<1>2. h \in Seq(S) /\ Len(h) = 1 /\ h[1] = x
  OBVIOUS
<1> HIDE DEF h
<1>3. /\ t \in Seq(S) /\ Len(t) = Len(s) + 1
      /\ \A i \in 1..(Len(h) + Len(s)) : t[i] = IF i <= Len(h) THEN h[i] ELSE s[i - Len(h)]
  <2>1. /\ t \in Seq(S) /\ Len(t) = Len(h) + Len(s)
        /\ \A i \in 1..(Len(h) + Len(s)) : t[i] = IF i <= Len(h) THEN h[i] ELSE s[i - Len(h)]
    BY <1>2, ConcatProperties
  <2> QED
    BY <1>1, <1>2, <2>1
<1>4. t[1] = x
  BY <1>1, <1>2, <1>3
<1>5. \A i \in 1..Len(t) : i # 1 => i - 1 \in 1..Len(s) /\ t[i] = s[i - 1]
  BY <1>1, <1>2, <1>3
<1> QED
  BY <1>1, <1>3, <1>4, <1>5 DEF h

\* Unlink keeps the order of the others.
LEMMA UnlinkOrder ==
    ASSUME NEW S, NEW s \in Seq(S), NEW k \in 1..Len(s), Once(s)
    PROVE  /\ Unlink(s, s[k]) \in Seq(S) /\ Len(Unlink(s, s[k])) = Len(s) - 1
           /\ \A i \in 1..Len(Unlink(s, s[k])) : LET j == IF i < k THEN i ELSE i + 1
                 IN  j \in 1..Len(s) /\ j # k /\ Unlink(s, s[k])[i] = s[j]
<1>1. On(s[k], s) /\ Len(s) \in Nat
  BY LenProperties DEF On
<1>2. (CHOOSE i \in 1..Len(s) : s[i] = s[k]) = k
  BY DEF Once
<1>3. Unlink(s, s[k]) = DropAt(s, k)
  BY <1>1, <1>2 DEF Unlink
<1> DEFINE t == DropAt(s, k)
<1>4. /\ t \in Seq(S) /\ Len(t) = Len(s) - 1
      /\ \A i \in 1..(Len(s) - 1) : t[i] = IF i < k THEN s[i] ELSE s[i + 1]
  BY DropAtProperties
<1> HIDE DEF t
<1>5. \A i \in 1..Len(t) : LET j == IF i < k THEN i ELSE i + 1
         IN  j \in 1..Len(s) /\ j # k /\ t[i] = s[j]
  BY <1>1, <1>4
<1> QED
  BY <1>3, <1>4, <1>5 DEF t

-------------------------------------------------------------------------------
(***************************************************************************)
(* Types.                                                                   *)
(***************************************************************************)
States == {"run", "wait", "sleep", "waitAvail", "granted", "receive", "rdscomm", "udp_recv"}

LEMMA BufferFields ==
    ASSUME NEW e \in Buffer
    PROVE  /\ [e EXCEPT !.status = "INVALID"] \in Buffer
           /\ [e EXCEPT !.refcnt = @ - 1] \in Buffer
           /\ [e EXCEPT !.refcnt = 0] \in Buffer
           /\ \A v \in Datum : /\ [e EXCEPT !.block = v] \in Buffer
                               /\ [e EXCEPT !.block = v, !.refcnt = 1] \in Buffer
<1>1. e.refcnt \in Int /\ e.refcnt - 1 \in Int
  BY DEF Buffer
<1>2. [e EXCEPT !.status = "INVALID"] \in Buffer
  BY DEF Buffer
<1>3. [e EXCEPT !.refcnt = @ - 1] \in Buffer
  BY <1>1 DEF Buffer
<1>4. [e EXCEPT !.refcnt = 0] \in Buffer
  BY DEF Buffer
<1>5. ASSUME NEW v \in Datum
      PROVE  [e EXCEPT !.block = v] \in Buffer /\ [e EXCEPT !.block = v, !.refcnt = 1] \in Buffer
  <2>1. PICK g : g = [e EXCEPT !.block = v]
    OBVIOUS
  <2>2. g \in Buffer
    BY <2>1 DEF Buffer
  <2>3. [g EXCEPT !.refcnt = 1] \in Buffer
    BY <2>2 DEF Buffer
  <2> QED
    BY <2>1, <2>2, <2>3
<1> QED
  BY <1>2, <1>3, <1>4, <1>5

LEMMA RequestTyped ==
    ASSUME DiskTyped, NEW c \in Client, NEW r \in Request, r.op # "none", NEW b \in Buf,
           NEW fl, NEW ca, request(c, r, b, fl, ca), r.op = "write" => r.blk \in Block
    PROVE  /\ buf' \in [Buf -> Buffer] /\ want' \in [Client -> Request]
           /\ prmsg' \in [Client -> Buf \cup {NoBuf, Notice}]
           /\ last' \in [Block -> Datum]
<1> DEFINE e == [op     |-> r.op,
                 refcnt |-> IF r.op = "write" THEN 0 ELSE 1,
                 blknum |-> r.blk,
                 status |-> IF r.op = "write" THEN "VALID" ELSE "INVALID",
                 pid    |-> c,
                 block  |-> IF r.op = "write" THEN r.val ELSE buf[b].block]
<1>1. e \in Buffer
  BY DEF DiskTyped, Buffer, Request, Datum, Process
<1>2. buf' = [buf EXCEPT ![b] = e]
  BY DEF request
<1> HIDE DEF e
<1>3. buf' \in [Buf -> Buffer]
  BY <1>1, <1>2 DEF DiskTyped
<1>4. want' \in [Client -> Request] /\ prmsg' \in [Client -> Buf \cup {NoBuf, Notice}]
  <2>1. want' = [want EXCEPT ![c] = r]
    BY DEF request
  <2>2. prmsg' = prmsg \/ prmsg' = [prmsg EXCEPT ![c] = NoBuf]
    BY DEF request
  <2> QED
    BY <2>1, <2>2 DEF DiskTyped
<1>5. last' \in [Block -> Datum]
  <2>1. last' = last \/ last' = [last EXCEPT ![r.blk] = r.val]
    BY DEF request
  <2>2. r.val \in Datum
    BY DEF Request, Datum
  <2> QED
    BY <2>1, <2>2 DEF DiskTyped
<1> QED
  BY <1>3, <1>4, <1>5

LEMMA AllocTyped ==
    ASSUME RdsInv, DiskTyped, NEW c \in Client, NEW r \in Request, r.op # "none",
           r.op = "write" => r.blk \in Block, rdsbufalloc(c, r)
    PROVE  /\ buf' \in [Buf -> Buffer] /\ want' \in [Client -> Request]
           /\ prmsg' \in [Client -> Buf \cup {NoBuf, Notice}]
           /\ last' \in [Block -> Datum]
<1>1. cache \in Seq(Buf) /\ free \in Seq(Buf)
  BY DEF RdsInv, Lists, Partition
<1>2. CASE free # <<>>
  <2>1. request(c, r, Head(free), Tail(free), cache) /\ Head(free) \in Buf
    BY <1>1, <1>2, TailFacts DEF rdsbufalloc
  <2> QED
    BY <2>1, RequestTyped
<1>3. CASE free = <<>> /\ reusable # {}
  <2>1. PICK i \in reusable : request(c, r, cache[i], free, Unlink(cache, cache[i]))
    BY <1>3 DEF rdsbufalloc
  <2>2. cache[i] \in Buf
    BY <1>1, ElementOfSeq DEF reusable, LastAt
  <2> QED
    BY <2>1, <2>2, RequestTyped
<1>4. CASE free = <<>> /\ reusable = {}
  <2>1. UNCHANGED <<buf, prmsg, want, last>>
    BY <1>4 DEF rdsbufalloc, listVars
  <2> QED
    BY <2>1 DEF DiskTyped
<1> QED
  BY <1>2, <1>3, <1>4

LEMMA MoveTyped ==
    ASSUME DiskTyped, NEW p \in Process, NEW w \in States, pc' = [pc EXCEPT ![p] = w]
    PROVE  pc' \in [Process -> States]
BY DEF DiskTyped, States

LEMMA WaitTyped ==
    ASSUME RdsInv, DiskTyped, NEW c \in Client, NEW r \in Request, r.op # "none",
           r.op = "write" => r.blk \in Block, waitAvail(c, r)
    PROVE  /\ buf' \in [Buf -> Buffer] /\ want' \in [Client -> Request]
           /\ prmsg' \in [Client -> Buf \cup {NoBuf, Notice}]
           /\ last' \in [Block -> Datum]
           /\ pc' \in [Process -> States]
           /\ availsem' \in [count : Int, waiting : Seq(Client)]
<1>c. c \in Process
  BY DEF Process
<1>s. availsem \in [count : Int, waiting : Seq(Client)]
  BY DEF DiskTyped
<1>1. CASE availsem.count > 0
  <2>1. rdsbufalloc(c, r) /\ pc' = [pc EXCEPT ![c] = After(r)] /\ After(r) \in States
    BY <1>1 DEF waitAvail, After, States
  <2>2. availsem' = [availsem EXCEPT !.count = availsem.count - 1]
    BY <1>1 DEF waitAvail
  <2>3. availsem' \in [count : Int, waiting : Seq(Client)]
    BY <1>s, <2>2
  <2>4. pc' \in [Process -> States]
    BY <1>c, <2>1, MoveTyped
  <2> QED
    BY <2>1, <2>3, <2>4, AllocTyped
<1>2. CASE ~(availsem.count > 0)
  <2>1. /\ pc' = [pc EXCEPT ![c] = "waitAvail"] /\ "waitAvail" \in States
        /\ want' = [want EXCEPT ![c] = r] /\ UNCHANGED <<buf, prmsg, last>>
        /\ availsem' = [count |-> availsem.count - 1, waiting |-> Append(availsem.waiting, c)]
    BY <1>2 DEF waitAvail, listVars, States
  <2>2. pc' \in [Process -> States]
    BY <1>c, <2>1, MoveTyped
  <2>3. Append(availsem.waiting, c) \in Seq(Client)
    BY <1>s, AppendProperties
  <2> QED
    BY <1>s, <2>1, <2>2, <2>3 DEF DiskTyped
<1> QED
  BY <1>1, <1>2

LEMMA SignalTyped ==
    ASSUME DiskTyped, Available, NEW p \in Process, NEW w \in States, signalAvail(p, w)
    PROVE  /\ pc' \in [Process -> States]
           /\ availsem' \in [count : Int, waiting : Seq(Client)]
<1>s. availsem.count \in Int
  BY DEF DiskTyped
<1>1. pc' \in [Process -> States]
  BY DEF signalAvail, DiskTyped, States
<1>2. (IF availsem.count < 0 THEN Tail(availsem.waiting) ELSE <<>>) = <<>>
  <2>1. CASE \E c \in Client : pc[c] = "waitAvail"
    <3>1. PICK c \in Client : availsem.waiting = <<c>>
      BY <2>1 DEF Available
    <3>2. Tail(<<c>>) = <<>>
      OBVIOUS
    <3> QED
      BY <3>1, <3>2
  <2>2. CASE ~\E c \in Client : pc[c] = "waitAvail"
    BY <1>s, <2>2 DEF Available
  <2> QED
    BY <2>1, <2>2
<1>3. availsem' = [count |-> availsem.count + 1, waiting |-> <<>>]
  BY <1>2 DEF signalAvail
<1> QED
  BY <1>s, <1>1, <1>3

LEMMA AttemptTyped ==
    ASSUME DiskTyped, NEW p \in Process, NEW x \in Attempt, xchg' = [xchg EXCEPT ![p] = x]
    PROVE  xchg' \in [Process -> Attempt] /\ xchg'[p] = x
BY DEF DiskTyped

LEMMA IdleTyped == Idle \in Attempt
BY DEF Idle, Attempt, Datum

LEMMA ClientTyped ==
    ASSUME RdsInv, DiskTyped, Available, Queue, Cached, Wanted, NEW c \in Client, ClientStep(c)
    PROVE  DiskTyped'
<1> USE DEF listVars, semVars, procVars, netVars, histVars
<1>c. c \in Process
  BY DEF Process
<1>d. Hole \in Datum
  BY DEF Datum
<1>l. requests \in Seq(Buf) /\ cache \in Seq(Buf)
  BY DEF RdsInv, Lists, Partition
<1>1. CASE rdsopen(c)
  <2> DEFINE x == [type |-> "open", seq |-> rd_seq, blk |-> Hole, data |-> Hole,
                   tries |-> 0, xmit |-> TRUE]
  <2>1. x \in Attempt
    BY <1>d DEF Attempt, DiskTyped
  <2>2. xchg' = [xchg EXCEPT ![c] = x] /\ rd_seq' = rd_seq + 1 /\ rd_state' = "PEND"
    BY <1>1 DEF rdsopen, exchange
  <2>3. pc' = [pc EXCEPT ![c] = "rdscomm"] /\ "rdscomm" \in States
    BY <1>1 DEF rdsopen, States
  <2> HIDE DEF x
  <2>4. xchg' \in [Process -> Attempt] /\ pc' \in [Process -> States]
    BY <1>c, <2>1, <2>2, <2>3, AttemptTyped, MoveTyped
  <2>5. UNCHANGED <<buf, availsem, want, prmsg, udqueue, wire, server, last, answer>>
    BY <1>1 DEF rdsopen
  <2> QED
    BY <2>2, <2>4, <2>5 DEF DiskTyped, States
<1>2. CASE rdsclose(c)
  <2>1. /\ buf' = [b \in Buf |-> IF On(b, cache)
                                 THEN [buf[b] EXCEPT !.status = "INVALID"] ELSE buf[b]]
        /\ rd_state' = "FREE"
        /\ UNCHANGED <<rd_seq, availsem, pc, want, prmsg, xchg, udqueue, wire, server, last,
                       answer>>
    BY <1>2 DEF rdsclose
  <2>2. \A b \in Buf : [buf[b] EXCEPT !.status = "INVALID"] \in Buffer /\ buf[b] \in Buffer
    BY BufferFields DEF DiskTyped
  <2>3. buf' \in [Buf -> Buffer]
    BY <2>1, <2>2
  <2> QED
    BY <2>1, <2>3 DEF DiskTyped
<1>3. CASE rdsreadDone(c)
  <2>1. pc' = [pc EXCEPT ![c] = "run"] /\ "run" \in States
    BY <1>3 DEF rdsreadDone, States
  <2>2. pc' \in [Process -> States]
    BY <1>c, <2>1, MoveTyped
  <2>3. buf' = buf \/ \E b \in Buf : buf' = [buf EXCEPT ![b].refcnt = @ - 1]
    BY <1>3 DEF rdsreadDone
  <2>4. buf' \in [Buf -> Buffer]
    <3>1. ASSUME NEW b \in Buf, buf' = [buf EXCEPT ![b].refcnt = @ - 1]
          PROVE  buf' \in [Buf -> Buffer]
      <4>1. PICK e : e = [buf[b] EXCEPT !.refcnt = @ - 1]
        OBVIOUS
      <4>2. e \in Buffer
        BY <4>1, BufferFields DEF DiskTyped
      <4>3. buf' = [buf EXCEPT ![b] = e]
        BY <3>1, <4>1
      <4> QED
        BY <4>2, <4>3 DEF DiskTyped
    <3> QED
      BY <2>3, <3>1 DEF DiskTyped
  <2>5. want' \in [Client -> Request] /\ prmsg' \in [Client -> Buf \cup {NoBuf, Notice}]
    BY <1>3 DEF rdsreadDone, DiskTyped, NoRequest, Request
  <2>6. PICK v \in Datum \cup {Garbage} :
                answer' = [answer EXCEPT ![c] = [blk |-> want[c].blk, val |-> v]]
    <3>1. prmsg[c] \in Buf => buf[prmsg[c]].block \in Datum
      BY DEF DiskTyped, Buffer
    <3> QED
      BY <1>3, <3>1 DEF rdsreadDone
  <2>7. answer' \in [Client -> [blk : Block \cup {Hole}, val : Datum \cup {Garbage}]]
    BY <2>6 DEF DiskTyped, Request
  <2>8. UNCHANGED <<rd_state, rd_seq, availsem, xchg, udqueue, wire, server, last>>
    BY <1>3 DEF rdsreadDone
  <2> QED
    BY <2>2, <2>4, <2>5, <2>7, <2>8 DEF DiskTyped, States
<1>4. CASE granted(c)
  <2>1. rdsbufalloc(c, want[c]) /\ pc' = [pc EXCEPT ![c] = After(want[c])]
    BY <1>4 DEF granted
  <2>2. want[c] \in Request /\ want[c].op # "none" /\ want[c].blk \in Block
    BY <1>4 DEF granted, Wanted, Asking, DiskTyped
  <2>3. After(want[c]) \in States
    BY DEF After, States
  <2>4. pc' \in [Process -> States]
    BY <1>c, <2>1, <2>3, MoveTyped
  <2>5. UNCHANGED <<rd_state, rd_seq, availsem, xchg, udqueue, wire, server, answer>>
    BY <1>4 DEF granted
  <2> QED
    BY <2>1, <2>2, <2>4, <2>5, AllocTyped DEF DiskTyped, States
<1>5. CASE notice(c)
  <2>1. prmsg' = [prmsg EXCEPT ![c] = Notice]
    BY <1>5 DEF notice
  <2> QED
    BY <1>5, <2>1 DEF notice, DiskTyped
<1>6. ASSUME NEW b \in Block, rdsreadHere(c, b)
      PROVE  DiskTyped'
  <2>1. PICK v : answer' = [answer EXCEPT ![c] = [blk |-> b, val |-> v]] /\ v \in Datum
    <3>1. Hit(b) => buf[cache[CHOOSE i \in cached(b) : TRUE]].block \in Datum
      <4>1. \A i \in cached(b) : buf[cache[i]].block \in Datum
        BY <1>l, ElementOfSeq DEF cached, FirstAt, DiskTyped, Buffer
      <4> QED
        BY <4>1 DEF Hit
    <3>2. Queued(b) => buf[requests[CHOOSE i \in recent(b) : TRUE]].block \in Datum
      <4>1. \A i \in recent(b) : buf[requests[i]].block \in Datum
        BY <1>l, ElementOfSeq DEF recent, LastAt, DiskTyped, Buffer
      <4> QED
        BY <4>1 DEF Queued
    <3> QED
      BY <1>6, <3>1, <3>2 DEF rdsreadHere
  <2>2. answer' \in [Client -> [blk : Block \cup {Hole}, val : Datum \cup {Garbage}]]
    BY <2>1 DEF DiskTyped
  <2> QED
    BY <1>6, <2>2 DEF rdsreadHere, DiskTyped
<1>7. ASSUME NEW b \in Block, rdsreadMiss(c, b)
      PROVE  DiskTyped'
  <2> DEFINE q == [op |-> "read", blk |-> b, val |-> Hole]
  <2>1. q \in Request /\ q.op = "read"
    BY DEF Request
  <2>2. waitAvail(c, q) /\ UNCHANGED <<rd_state, rd_seq, xchg, udqueue, wire, server, answer>>
    BY <1>7 DEF rdsreadMiss
  <2> HIDE DEF q
  <2> QED
    BY <2>1, <2>2, WaitTyped DEF DiskTyped, States
<1>8. ASSUME NEW b \in Block, NEW v \in Value, rdswriteReplace(c, b, v)
      PROVE  DiskTyped'
  <2>1. PICK i \in pending(b) : buf' = [buf EXCEPT ![requests[i]].block = v]
    BY <1>8 DEF rdswriteReplace
  <2>2. buf' \in [Buf -> Buffer]
    <3>1. requests[i] \in Buf
      BY <1>l, ElementOfSeq DEF pending, FirstAt
    <3>2. PICK e : e = [buf[requests[i]] EXCEPT !.block = v]
      OBVIOUS
    <3>3. e \in Buffer
      BY <3>1, <3>2, BufferFields DEF DiskTyped, Datum
    <3>4. buf' = [buf EXCEPT ![requests[i]] = e]
      BY <2>1, <3>2
    <3> QED
      BY <3>1, <3>3, <3>4 DEF DiskTyped
  <2>3. last' \in [Block -> Datum]
    BY <1>8 DEF rdswriteReplace, DiskTyped, Datum
  <2> QED
    BY <1>8, <2>2, <2>3 DEF rdswriteReplace, DiskTyped
<1>9. ASSUME NEW b \in Block, NEW v \in Value, rdswriteCached(c, b, v)
      PROVE  DiskTyped'
  <2> DEFINE q == [op |-> "write", blk |-> b, val |-> v]
  <2>1. q \in Request /\ q.op = "write" /\ q.blk = b
    BY DEF Request
  <2>2. PICK i \in Unused(b) : request(c, q, cache[i], free, Unlink(cache, cache[i]))
    BY <1>9 DEF rdswriteCached
  <2>3. cache[i] \in Buf
    BY <1>l, ElementOfSeq DEF Unused, cached, FirstAt
  <2>4. availsem' \in [count : Int, waiting : Seq(Client)]
    <3>1. availsem' = IF availsem.count > 0 THEN [availsem EXCEPT !.count = @ - 1] ELSE availsem
      BY <1>9 DEF rdswriteCached
    <3>2. availsem \in [count : Int, waiting : Seq(Client)]
      BY DEF DiskTyped
    <3> QED
      BY <3>1, <3>2
  <2>5. UNCHANGED <<rd_state, rd_seq, pc, xchg, udqueue, wire, server, answer>>
    BY <1>9 DEF rdswriteCached
  <2> HIDE DEF q
  <2> QED
    BY <2>1, <2>2, <2>3, <2>4, <2>5, RequestTyped DEF DiskTyped
<1>10. ASSUME NEW b \in Block, NEW v \in Value, rdswriteNew(c, b, v)
       PROVE  DiskTyped'
  <2> DEFINE q == [op |-> "write", blk |-> b, val |-> v]
  <2>1. q \in Request /\ q.op = "write" /\ q.blk = b
    BY DEF Request
  <2>2. waitAvail(c, q) /\ UNCHANGED <<rd_state, rd_seq, xchg, udqueue, wire, server, answer>>
    BY <1>10 DEF rdswriteNew
  <2> HIDE DEF q
  <2> QED
    BY <2>1, <2>2, WaitTyped DEF DiskTyped, States
<1> QED
  BY <1>1, <1>2, <1>3, <1>4, <1>5, <1>6, <1>7, <1>8, <1>9, <1>10 DEF ClientStep

\* The reply to a read is taken by the communication process, with its request in the queue.
LEMMA ReaderIs ==
    ASSUME RdsInv, DiskTyped, Content, NEW p \in Process, xchg[p].type \in {"read", "write"}
    PROVE  /\ p = rd_comproc
           /\ xchg[p].type = "read" => requests # <<>> /\ Head(requests) \in Buf
<1>1. p = rd_comproc
  BY DEF RdsInv, Exchanges, Process
<1>2. xchg[p].type = "read" => requests # <<>>
  BY <1>1 DEF Content, X
<1> QED
  BY <1>1, <1>2, TailFacts DEF RdsInv, Lists, Partition

LEMMA FailTyped ==
    ASSUME DiskTyped, NEW p \in Process, fail(p)
    PROVE  /\ rd_state' \in {"FREE", "PEND", "OPEN"}
           /\ pc' \in [Process -> States] /\ xchg' \in [Process -> Attempt]
<1>1. xchg' \in [Process -> Attempt]
  BY AttemptTyped, IdleTyped DEF fail
<1>2. pc' = pc \/ pc' = [pc EXCEPT ![p] = "run"]
  BY DEF fail
<1>3. "run" \in States
  BY DEF States
<1>4. rd_state' \in {"FREE", "PEND", "OPEN"}
  BY DEF fail, DiskTyped
<1> QED
  BY <1>1, <1>2, <1>3, <1>4, MoveTyped DEF DiskTyped, States

LEMMA AgainTyped ==
    ASSUME DiskTyped, NEW p \in Process, NEW xmit \in BOOLEAN, again(p, xmit)
    PROVE  /\ pc' \in [Process -> States] /\ xchg' \in [Process -> Attempt]
           /\ xchg'[p] = [xchg[p] EXCEPT !.tries = @ + 1, !.xmit = xmit]
           /\ \A q \in Process : q # p => xchg'[q] = xchg[q]
<1>1. PICK x : x = [xchg[p] EXCEPT !.tries = @ + 1, !.xmit = xmit]
  OBVIOUS
<1>2. x \in Attempt
  <2>1. xchg[p] \in Attempt
    BY DEF DiskTyped
  <2>2. PICK y : y = [xchg[p] EXCEPT !.tries = @ + 1]
    OBVIOUS
  <2>3. y \in Attempt
    BY <2>1, <2>2 DEF Attempt
  <2>4. x = [y EXCEPT !.xmit = xmit]
    BY <1>1, <2>2
  <2> QED
    BY <2>3, <2>4 DEF Attempt
<1>3. xchg' = [xchg EXCEPT ![p] = x]
  BY <1>1 DEF again
<1>4. pc' = [pc EXCEPT ![p] = "rdscomm"] /\ "rdscomm" \in States
  BY DEF again, States
<1>5. \A q \in Process : q # p => xchg'[q] = xchg[q]
  BY <1>3 DEF DiskTyped
<1> QED
  BY <1>1, <1>2, <1>3, <1>4, <1>5, AttemptTyped, MoveTyped

LEMMA CommTyped ==
    ASSUME RdsInv, DiskTyped, Phases, Available, Queue, Content, Numbers,
           NEW p \in Process, Comm(p)
    PROVE  DiskTyped'
<1> USE DEF listVars, semVars, netVars, histVars
<1>n. udqueue # <<>> => Head(udqueue) \in Reply /\ Tail(udqueue) \in Seq(Reply)
  BY HeadTailProperties DEF DiskTyped
<1>1. CASE rdscommSend(p)
  <2>1. UNCHANGED <<rd_seq, buf, availsem, want, udqueue, server, last, answer>>
    BY <1>1 DEF rdscommSend
  <2>2. wire' \in [up : Seq(Packet), down : Seq(Reply)]
    <3>1. CASE xchg[p].xmit
      <4> DEFINE m == [type |-> xchg[p].type, seq |-> xchg[p].seq,
                       blk |-> xchg[p].blk, data |-> xchg[p].data]
      <4>1. xchg[p] \in Attempt /\ wire \in [up : Seq(Packet), down : Seq(Reply)]
        BY DEF DiskTyped
      <4>2. xchg[p].type # "none" /\ xchg[p].seq > 0
        BY <1>1 DEF rdscommSend, Phases, Busy, Numbers
      <4>3. xchg[p].type \in {"read", "write"} => xchg[p].blk \in Block
        <5>1. xchg[p].type \in {"read", "write"} => p = rd_comproc
          BY ReaderIs
        <5>2. X.type = "read" => X.blk \in Block
          <6>1. X.type = "read" => requests # <<>>
            BY DEF Content
          <6>2. requests # <<>> => 1 \in 1..Len(requests) /\ Head(requests) = requests[1]
            BY TailFacts DEF RdsInv, Lists, Partition
          <6> QED
            BY <6>1, <6>2 DEF Content, Queue
        <5> QED
          BY <5>1, <5>2 DEF Content, X
      <4>4. m \in Packet
        BY <4>1, <4>2, <4>3 DEF Packet, Attempt
      <4>5. wire' = [wire EXCEPT !.up = Append(wire.up, m)]
        BY <1>1, <3>1 DEF rdscommSend
      <4> HIDE DEF m
      <4>6. Append(wire.up, m) \in Seq(Packet)
        BY <4>1, <4>4, AppendProperties
      <4> QED
        BY <4>1, <4>5, <4>6
    <3>2. CASE ~xchg[p].xmit
      BY <1>1, <3>2 DEF rdscommSend, DiskTyped
    <3> QED
      BY <3>1, <3>2
  <2>3. CASE Receiving
    <3>1. fail(p) /\ UNCHANGED prmsg
      BY <1>1, <2>3 DEF rdscommSend
    <3> QED
      BY <2>1, <2>2, <3>1, FailTyped DEF DiskTyped, States
  <2>4. CASE ~Receiving
    <3>1. /\ pc' = [pc EXCEPT ![p] = "udp_recv"] /\ "udp_recv" \in States
          /\ prmsg' = [c \in Client |-> IF c = p /\ udqueue = <<>> THEN NoBuf ELSE prmsg[c]]
          /\ UNCHANGED <<rd_state, xchg>>
      BY <1>1, <2>4 DEF rdscommSend, States
    <3>2. prmsg' \in [Client -> Buf \cup {NoBuf, Notice}]
      BY <3>1 DEF DiskTyped
    <3> QED
      BY <2>1, <2>2, <3>1, <3>2, MoveTyped DEF DiskTyped, States
  <2> QED
    BY <2>3, <2>4
<1>2. CASE rdscommExhausted(p)
  BY <1>2, FailTyped DEF rdscommExhausted, DiskTyped, States
<1>3. CASE rdscommTimeout(p)
  BY <1>3, AgainTyped DEF rdscommTimeout, DiskTyped, States
<1>4. CASE rdscommRefuse(p)
  <2>1. PICK xmit \in BOOLEAN : again(p, xmit)
    <3>1. Head(udqueue).seq \in Int /\ xchg[p].seq \in Int
      BY <1>4, <1>n DEF rdscommRefuse, Reply, DiskTyped, Attempt
    <3>2. (Head(udqueue).seq >= xchg[p].seq) \in BOOLEAN
      BY <3>1
    <3> QED
      BY <1>4, <3>2 DEF rdscommRefuse
  <2>2. udqueue' \in Seq(Reply)
    BY <1>4, <1>n DEF rdscommRefuse
  <2>3. pc' \in [Process -> States] /\ xchg' \in [Process -> Attempt]
    BY <2>1, AgainTyped
  <2>4. UNCHANGED <<rd_state, rd_seq, buf, availsem, want, prmsg, wire, server, last, answer>>
    BY <1>4 DEF rdscommRefuse
  <2> QED
    BY <2>2, <2>3, <2>4 DEF DiskTyped, States
<1>5. CASE rdscommDone(p)
  <2> DEFINE r == Head(udqueue)
  <2>1. udqueue' \in Seq(Reply) /\ r \in Reply
    BY <1>5, <1>n DEF rdscommDone
  <2>2. UNCHANGED <<rd_seq, want, wire, server, last, answer>>
    BY <1>5 DEF rdscommDone
  <2>3. CASE ~r.ok
    <3>1. fail(p) /\ UNCHANGED <<buf, availsem, prmsg>>
      BY <1>5, <2>3 DEF rdscommDone
    <3> QED
      BY <2>1, <2>2, <3>1, FailTyped DEF DiskTyped, States
  <2>4. CASE r.ok
    <3>1. xchg' \in [Process -> Attempt]
      BY <1>5, <2>4, IdleTyped, AttemptTyped DEF rdscommDone
    <3>2. ASSUME NEW w \in {"run", "sleep"}, pc' = [pc EXCEPT ![p] = w],
                 rd_state' \in {"FREE", "PEND", "OPEN"}, UNCHANGED <<buf, availsem, prmsg>>
          PROVE  DiskTyped'
      <4>1. pc' \in [Process -> States]
        BY <3>2, MoveTyped DEF States
      <4> QED
        BY <2>1, <2>2, <3>1, <3>2, <4>1 DEF DiskTyped, States
    <3>3. CASE xchg[p].type = "read" /\ readDone(r)
      <4> DEFINE b == Head(requests)
      <4>1. b \in Buf
        BY <3>3, ReaderIs
      <4>2. buf' = [buf EXCEPT ![b].block = r.data, ![b].refcnt = 1]
        BY <3>3 DEF readDone
      <4>3. buf' \in [Buf -> Buffer]
        <5>1. PICK e : e = [buf[b] EXCEPT !.block = r.data, !.refcnt = 1]
          OBVIOUS
        <5>2. e \in Buffer
          BY <2>1, <4>1, <5>1, BufferFields DEF DiskTyped, Reply
        <5>3. buf' = [buf EXCEPT ![b] = e]
          BY <4>2, <5>1
        <5> QED
          BY <4>1, <5>2, <5>3 DEF DiskTyped
      <4>4. prmsg' \in [Client -> Buf \cup {NoBuf, Notice}]
        BY <3>3, <4>1 DEF readDone, send, DiskTyped
      <4>5. signalAvail(rd_comproc, "sleep") /\ UNCHANGED rd_state
        BY <3>3 DEF readDone
      <4>6. pc' \in [Process -> States] /\ availsem' \in [count : Int, waiting : Seq(Client)]
        BY <4>5, SignalTyped DEF States, Process
      <4> HIDE DEF b, r
      <4> QED
        BY <2>1, <2>2, <3>1, <4>3, <4>4, <4>5, <4>6 DEF DiskTyped, States
    <3>4. \/ /\ rd_state' = "OPEN" /\ pc' = [pc EXCEPT ![p] = "run"]
             /\ UNCHANGED <<buf, availsem, prmsg>>
          \/ /\ rd_state' = rd_state /\ pc' = [pc EXCEPT ![p] = "sleep"]
             /\ UNCHANGED <<buf, availsem, prmsg>>
          \/ xchg[p].type = "read" /\ readDone(r)
      BY <1>5, <2>4 DEF rdscommDone
    <3>5. rd_state \in {"FREE", "PEND", "OPEN"}
      BY DEF DiskTyped
    <3> HIDE DEF r
    <3> QED
      BY <3>2, <3>3, <3>4, <3>5
  <2> QED
    BY <2>3, <2>4
<1> QED
  BY <1>1, <1>2, <1>3, <1>4, <1>5 DEF Comm


LEMMA ProcessTyped ==
    ASSUME RdsInv, DiskTyped, Available, Queue, rdsprocess
    PROVE  DiskTyped'
<1> USE DEF listVars, semVars, procVars, netVars, histVars
<1>p. rd_comproc \in Process
  BY DEF Process
<1>h. /\ requests \in Seq(Buf)
      /\ requests # <<>> =>
            /\ Head(requests) \in Buf /\ buf[Head(requests)].blknum \in Block
            /\ buf[Head(requests)].block \in Datum
  <2>1. requests \in Seq(Buf)
    BY DEF RdsInv, Lists, Partition
  <2>2. requests # <<>> =>
           1 \in 1..Len(requests) /\ Head(requests) = requests[1] /\ Head(requests) \in Buf
    BY <2>1, TailFacts
  <2> QED
    BY <2>1, <2>2 DEF Queue, DiskTyped, Buffer
<1>1. CASE rdsprocessRead
  <2> DEFINE x == [type |-> "read", seq |-> rd_seq, blk |-> buf[Head(requests)].blknum,
                   data |-> Hole, tries |-> 0, xmit |-> TRUE]
  <2>1. x \in Attempt
    BY <1>1, <1>h DEF rdsprocessRead, TakesRequest, Attempt, DiskTyped, Datum
  <2>2. xchg' = [xchg EXCEPT ![rd_comproc] = x] /\ rd_seq' = rd_seq + 1
    BY <1>1 DEF rdsprocessRead, exchange
  <2>3. pc' = [pc EXCEPT ![rd_comproc] = "rdscomm"] /\ "rdscomm" \in States
    BY <1>1 DEF rdsprocessRead, States
  <2> HIDE DEF x
  <2>4. UNCHANGED <<rd_state, buf, availsem, want, prmsg, udqueue, wire, server, last, answer>>
    BY <1>1 DEF rdsprocessRead
  <2>5. xchg' \in [Process -> Attempt] /\ pc' \in [Process -> States]
    BY <1>p, <2>1, <2>2, <2>3, AttemptTyped, MoveTyped
  <2> QED
    BY <2>2, <2>4, <2>5 DEF DiskTyped, States
<1>2. CASE rdsprocessWrite
  <2> DEFINE b == Head(requests)
             x == [type |-> "write", seq |-> rd_seq, blk |-> buf[b].blknum, data |-> buf[b].block,
                   tries |-> 0, xmit |-> TRUE]
  <2>b. requests # <<>> /\ buf' = [buf EXCEPT ![b].refcnt = 0]
    BY <1>2 DEF rdsprocessWrite, TakesRequest
  <2>1. x \in Attempt
    BY <1>h, <2>b DEF Attempt, DiskTyped
  <2>2. xchg' = [xchg EXCEPT ![rd_comproc] = x] /\ rd_seq' = rd_seq + 1
    BY <1>2 DEF rdsprocessWrite, exchange
  <2>3. signalAvail(rd_comproc, "rdscomm") /\ "rdscomm" \in States
    BY <1>2 DEF rdsprocessWrite, States
  <2>4. buf' \in [Buf -> Buffer]
    <3>1. PICK e : e = [buf[b] EXCEPT !.refcnt = 0]
      OBVIOUS
    <3>2. e \in Buffer /\ b \in Buf
      BY <1>h, <2>b, <3>1, BufferFields DEF DiskTyped
    <3>3. buf' = [buf EXCEPT ![b] = e]
      BY <2>b, <3>1
    <3> QED
      BY <3>2, <3>3 DEF DiskTyped
  <2> HIDE DEF x, b
  <2>5. UNCHANGED <<rd_state, want, prmsg, udqueue, wire, server, last, answer>>
    BY <1>2 DEF rdsprocessWrite
  <2> QED
    BY <1>p, <2>1, <2>2, <2>3, <2>4, <2>5, AttemptTyped, SignalTyped DEF DiskTyped, States
<1>3. CASE rdsprocessSleep
  <2>1. pc' = [pc EXCEPT ![rd_comproc] = "wait"] /\ "wait" \in States
    BY <1>3 DEF rdsprocessSleep, States
  <2> QED
    BY <1>3, <1>p, <2>1, MoveTyped DEF rdsprocessSleep, DiskTyped, States
<1> QED
  BY <1>1, <1>2, <1>3 DEF rdsprocess

\* What the server makes of a message.
LEMMA ServerFacts ==
    ASSUME DiskTyped, rdserver
    PROVE  LET m == Head(wire.up) IN
           /\ Up # <<>> /\ m \in Packet /\ Up' = Tail(Up)
           /\ \/ /\ m.seq < server.seq /\ m.seq # 1
                 /\ Down' = Down /\ server' = server
              \/ /\ m.seq >= server.seq \/ m.seq = 1
                 /\ Down' = Append(Down, reply(m)) /\ reply(m) \in Reply
                 /\ server'.seq = m.seq
                 /\ server'.file = IF m.type = "write" /\ server.open
                                   THEN [server.file EXCEPT ![m.blk] = m.data] ELSE server.file
           /\ wire' \in [up : Seq(Packet), down : Seq(Reply)]
           /\ server' \in [seq : Nat, open : BOOLEAN, file : [Block -> Datum]]
<1> DEFINE m == Head(wire.up)
           s == IF m.seq = 1 THEN 0 ELSE server.seq
<1>1. wire.up # <<>> /\ wire.up \in Seq(Packet) /\ wire.down \in Seq(Reply)
  BY DEF DiskTyped, rdserver
<1>2. m \in Packet /\ Tail(wire.up) \in Seq(Packet)
  BY <1>1, HeadTailProperties
<1>3. m.seq \in Nat \ {0} /\ server.seq \in Nat /\ m.data \in Datum
  BY <1>2 DEF Packet, DiskTyped
<1>4. reply(m) \in Reply
  <2>1. m.type = "read" => m.blk \in Block
    BY <1>2 DEF Packet
  <2>2. m.type \in {"open", "read", "write"} /\ Hole \in Datum
    BY <1>2 DEF Packet, Datum
  <2>3. m.type = "read" => server.file[m.blk] \in Datum
    BY <2>1 DEF DiskTyped
  <2>4. reply(m).ok \in BOOLEAN
    BY DEF reply
  <2>5. reply(m).data \in Datum
    BY <2>2, <2>3 DEF reply
  <2>6. reply(m) = [type |-> m.type, seq |-> m.seq, ok |-> reply(m).ok, data |-> reply(m).data]
    BY DEF reply
  <2> QED
    BY <1>3, <2>2, <2>4, <2>5, <2>6 DEF Reply
<1>5. CASE m.seq < s
  <2>1. wire' = [wire EXCEPT !.up = Tail(wire.up)] /\ server' = server
    BY <1>5 DEF rdserver
  <2>2. /\ wire' \in [up : Seq(Packet), down : Seq(Reply)]
        /\ wire'.up = Tail(wire.up) /\ wire'.down = wire.down
    BY <1>1, <1>2, <2>1 DEF DiskTyped
  <2>3. m.seq < server.seq /\ m.seq # 1
    BY <1>3, <1>5
  <2> QED
    BY <1>1, <1>2, <2>1, <2>2, <2>3 DEF Up, Down, DiskTyped
<1>6. CASE ~(m.seq < s)
  <2>1. /\ wire' = [up |-> Tail(wire.up), down |-> Append(wire.down, reply(m))]
        /\ server' = [seq  |-> m.seq,
                      open |-> server.open \/ m.type = "open",
                      file |-> IF m.type = "write" /\ server.open
                               THEN [server.file EXCEPT ![m.blk] = m.data] ELSE server.file]
    BY <1>6 DEF rdserver
  <2>2. Append(wire.down, reply(m)) \in Seq(Reply)
    BY <1>1, <1>4, AppendProperties
  <2>3. server' \in [seq : Nat, open : BOOLEAN, file : [Block -> Datum]]
    <3>1. server'.file \in [Block -> Datum]
      BY <1>3, <2>1 DEF DiskTyped
    <3>2. server'.open \in BOOLEAN
      BY <2>1 DEF DiskTyped
    <3> QED
      BY <1>3, <2>1, <3>1, <3>2
  <2>4. m.seq >= server.seq \/ m.seq = 1
    BY <1>3, <1>6
  <2> HIDE DEF m
  <2>5. wire' \in [up : Seq(Packet), down : Seq(Reply)]
    BY <1>2, <2>1, <2>2
  <2> QED
    BY <1>1, <1>2, <1>4, <2>1, <2>3, <2>4, <2>5 DEF Up, Down, m
<1> QED
  BY <1>5, <1>6

LEMMA NetworkTyped ==
    ASSUME DiskTyped, lose \/ udp_in \/ rdserver
    PROVE  DiskTyped'
<1> USE DEF listVars, semVars, procVars, netVars, histVars
<1>1. /\ wire.up \in Seq(Packet) /\ wire.down \in Seq(Reply)
      /\ wire \in [up : Seq(Packet), down : Seq(Reply)]
  BY DEF DiskTyped
<1>2. UNCHANGED <<rd_state, rd_seq, buf, availsem, pc, want, prmsg, xchg, last, answer>>
  BY DEF lose, udp_in, rdserver
<1>3. CASE lose
  <2>1. \/ wire.up # <<>> /\ wire' = [wire EXCEPT !.up = Tail(wire.up)]
        \/ wire.down # <<>> /\ wire' = [wire EXCEPT !.down = Tail(wire.down)]
    BY <1>3 DEF lose
  <2>2. /\ wire.up # <<>> => Tail(wire.up) \in Seq(Packet)
        /\ wire.down # <<>> => Tail(wire.down) \in Seq(Reply)
    BY <1>1, HeadTailProperties
  <2>3. wire' \in [up : Seq(Packet), down : Seq(Reply)]
    BY <1>1, <2>1, <2>2
  <2> QED
    BY <1>2, <1>3, <2>3 DEF lose, DiskTyped
<1>4. CASE udp_in
  <2>1. wire.down # <<>> /\ wire' = [wire EXCEPT !.down = Tail(wire.down)]
    BY <1>4 DEF udp_in
  <2>2. Head(wire.down) \in Reply /\ Tail(wire.down) \in Seq(Reply)
    BY <1>1, <2>1, HeadTailProperties
  <2>3. wire' \in [up : Seq(Packet), down : Seq(Reply)]
    BY <1>1, <2>1, <2>2
  <2>4. udqueue' \in Seq(Reply)
    BY <1>4, <2>2, AppendProperties DEF udp_in, DiskTyped
  <2> QED
    BY <1>2, <1>4, <2>3, <2>4 DEF udp_in, DiskTyped
<1>5. CASE rdserver
  BY <1>2, <1>5, ServerFacts DEF rdserver, DiskTyped
<1> QED
  BY <1>3, <1>4, <1>5


-------------------------------------------------------------------------------
(***************************************************************************)
(* The network, step by step.                                               *)
(***************************************************************************)
LEMMA NetTypes ==
    ASSUME DiskTyped
    PROVE  /\ Up \in Seq(Packet) /\ Down \in Seq(Reply) /\ udqueue \in Seq(Reply)
           /\ Len(Up) \in Nat /\ Len(Down) \in Nat /\ Len(udqueue) \in Nat
           /\ server.seq \in Nat /\ rd_seq \in Nat \ {0}
           /\ \A i \in 1..Len(Up) : Up[i] \in Packet
           /\ \A i \in 1..Len(Down) : Down[i] \in Reply
           /\ \A i \in 1..Len(udqueue) : udqueue[i] \in Reply
           /\ \A p \in Process : xchg[p].seq \in Nat
<1>1. Up \in Seq(Packet) /\ Down \in Seq(Reply) /\ udqueue \in Seq(Reply)
  BY DEF DiskTyped, Up, Down
<1>2. /\ \A i \in 1..Len(Up) : Up[i] \in Packet
      /\ \A i \in 1..Len(Down) : Down[i] \in Reply
      /\ \A i \in 1..Len(udqueue) : udqueue[i] \in Reply
  BY <1>1, ElementOfSeq
<1>3. Len(Up) \in Nat /\ Len(Down) \in Nat /\ Len(udqueue) \in Nat
  BY <1>1, LenProperties
<1>4. server.seq \in Nat /\ rd_seq \in Nat \ {0} /\ \A p \in Process : xchg[p].seq \in Nat
  BY DEF DiskTyped, Attempt
<1> QED
  BY <1>1, <1>2, <1>3, <1>4

\* The oldest packets leave, and exchanges end or go on.
LEMMA Fewer ==
    ASSUME DiskTyped, DiskTyped', Network, UNCHANGED <<rd_seq, server>>,
           NEW a \in {0, 1}, NEW b \in {0, 1}, NEW d \in {0, 1},
           Len(Up)' = Len(Up) - a, \A i \in 1..Len(Up)' : Up[i]' = Up[i + a],
           Len(Down)' = Len(Down) - b, \A i \in 1..Len(Down)' : Down[i]' = Down[i + b],
           Len(udqueue)' = Len(udqueue) - d,
           \A i \in 1..Len(udqueue)' : udqueue[i]' = udqueue[i + d],
           \A p \in Process : xchg'[p].type # "none" =>
              xchg'[p].type = xchg[p].type /\ xchg'[p].seq = xchg[p].seq,
           Nothing' \/ (X.type' = X.type /\ X.seq' = X.seq /\ X.blk' = X.blk /\ X.data' = X.data),
           Unsent',
           rd_seq <= 2 /\ Flying = 1 => Flying' = 0 \/ \E c \in Client : pc'[c] = "udp_recv"
    PROVE  Network'
<1>t. /\ Len(Up) \in Nat /\ Len(Down) \in Nat /\ Len(udqueue) \in Nat
      /\ Len(Up)' \in Nat /\ Len(Down)' \in Nat /\ Len(udqueue)' \in Nat
      /\ server.seq \in Nat /\ rd_seq \in Nat
  BY NetTypes
<1>u. /\ \A i \in 1..Len(Up)' : i + a \in 1..Len(Up)
      /\ \A i \in 1..Len(Down)' : i + b \in 1..Len(Down)
      /\ \A i \in 1..Len(udqueue)' : i + d \in 1..Len(udqueue)
  BY <1>t
<1>n. server'.seq = server.seq /\ rd_comproc \in Process
  BY DEF Process
<1>1. Numbers'
  BY <1>u, <1>n DEF Network, Numbers
<1>2. Sorted'
  <2>1. ASSUME NEW i \in 1..Len(Down)', NEW j \in 1..Len(Down)', i < j
        PROVE  Down[i]'.seq <= Down[j]'.seq
    <3>1. i + b < j + b /\ i + b \in 1..Len(Down) /\ j + b \in 1..Len(Down)
      BY <1>u, <2>1
    <3> QED
      BY <3>1 DEF Network, Sorted
  <2>2. ASSUME NEW i \in 1..Len(udqueue)', NEW j \in 1..Len(udqueue)', i < j
        PROVE  udqueue[i]'.seq <= udqueue[j]'.seq
    <3>1. i + d < j + d /\ i + d \in 1..Len(udqueue) /\ j + d \in 1..Len(udqueue)
      BY <1>u, <2>2
    <3> QED
      BY <3>1 DEF Network, Sorted
  <2>3. \A i \in 1..Len(udqueue)', j \in 1..Len(Down)' : udqueue[i]'.seq <= Down[j]'.seq
    BY <1>u DEF Network, Sorted
  <2> QED
    BY <2>1, <2>2, <2>3 DEF Sorted
<1>3. Distinct'
  <2>1. SUFFICES ASSUME X.type' # "none"
                 PROVE  Distinct'
    BY DEF Distinct
  <2>2. X.type # "none" /\ X.seq' = X.seq
    BY <1>n, <2>1 DEF X
  <2>3. \A c \in Client : xchg'[c].type # "none" => xchg'[c].seq # X.seq
    BY <2>2 DEF Network, Distinct, Process
  <2>4. /\ \A i \in 1..Len(Up)' : Up[i]'.type = "open" => Up[i]'.seq # X.seq
        /\ \A i \in 1..Len(Down)' : Down[i]'.type = "open" => Down[i]'.seq # X.seq
        /\ \A i \in 1..Len(udqueue)' : udqueue[i]'.type = "open" => udqueue[i]'.seq # X.seq
    BY <1>u, <2>2 DEF Network, Distinct
  <2> QED
    BY <2>2, <2>3, <2>4 DEF Distinct
<1>4. /\ \A i \in 1..Len(Up)' : Heard(Up[i])' <=> Heard(Up[i + a])
      /\ \A i \in 1..Len(Down)' : Own(Down[i])' <=> Own(Down[i + b])
      /\ \A i \in 1..Len(udqueue)' : Own(udqueue[i])' <=> Own(udqueue[i + d])
  BY <1>n DEF Heard, Own
<1>5. Truthful'
  <2>1. CASE Nothing'
    BY <2>1 DEF Nothing, Truthful, Truth
  <2>2. CASE X.type' = X.type /\ X.seq' = X.seq /\ X.blk' = X.blk /\ X.data' = X.data
    <3>1. \A i \in 1..Len(Up)' : Heard(Up[i])' =>
             Up[i]' = [type |-> X.type, seq |-> X.seq, blk |-> X.blk, data |-> X.data]
      BY <1>u, <1>4 DEF Network, Truthful
    <3>2. \A i \in 1..Len(Down)' : Truth(Down[i])' <=> Truth(Down[i + b])
      BY <2>2 DEF Truth, Own
    <3>3. \A i \in 1..Len(udqueue)' : Truth(udqueue[i])' <=> Truth(udqueue[i + d])
      BY <2>2 DEF Truth, Own
    <3> QED
      BY <1>u, <2>2, <3>1, <3>2, <3>3 DEF Network, Truthful
  <2> QED
    BY <2>1, <2>2
<1>6. Single'
  <2>1. ASSUME NEW i \in 1..Len(Up)', NEW j \in 1..Len(Up)', Heard(Up[i])', Heard(Up[j])'
        PROVE  i = j
    <3>1. Heard(Up[i + a]) /\ Heard(Up[j + a])
      BY <1>4, <2>1
    <3>2. i + a = j + a
      BY <1>u, <3>1 DEF Network, Single
    <3> QED
      BY <3>2
  <2>2. ASSUME NEW i \in 1..Len(Down)', NEW j \in 1..Len(Down)', Own(Down[i])', Own(Down[j])'
        PROVE  i = j
    <3>1. Own(Down[i + b]) /\ Own(Down[j + b])
      BY <1>4, <2>2
    <3>2. i + b = j + b
      BY <1>u, <3>1 DEF Network, Single
    <3> QED
      BY <3>2
  <2>3. ASSUME NEW i \in 1..Len(udqueue)', NEW j \in 1..Len(udqueue)', Own(udqueue[i])',
               Own(udqueue[j])'
        PROVE  i = j
    <3>1. Own(udqueue[i + d]) /\ Own(udqueue[j + d])
      BY <1>4, <2>3
    <3>2. i + d = j + d
      BY <1>u, <3>1 DEF Network, Single
    <3> QED
      BY <3>2
  <2>4. /\ \A i \in 1..Len(Up)', j \in 1..Len(Down)' : ~(Heard(Up[i])' /\ Own(Down[j])')
        /\ \A i \in 1..Len(Up)', j \in 1..Len(udqueue)' : ~(Heard(Up[i])' /\ Own(udqueue[j])')
        /\ \A i \in 1..Len(Down)', j \in 1..Len(udqueue)' : ~(Own(Down[i])' /\ Own(udqueue[j])')
    <3>1. ASSUME NEW i \in 1..Len(Up)', NEW j \in 1..Len(Down)'
          PROVE  ~(Heard(Up[i])' /\ Own(Down[j])')
      <4>1. ~(Heard(Up[i + a]) /\ Own(Down[j + b]))
        BY <1>u, <3>1 DEF Network, Single
      <4> QED
        BY <1>4, <3>1, <4>1
    <3>2. ASSUME NEW i \in 1..Len(Up)', NEW j \in 1..Len(udqueue)'
          PROVE  ~(Heard(Up[i])' /\ Own(udqueue[j])')
      <4>1. ~(Heard(Up[i + a]) /\ Own(udqueue[j + d]))
        BY <1>u, <3>2 DEF Network, Single
      <4> QED
        BY <1>4, <3>2, <4>1
    <3>3. ASSUME NEW i \in 1..Len(Down)', NEW j \in 1..Len(udqueue)'
          PROVE  ~(Own(Down[i])' /\ Own(udqueue[j])')
      <4>1. ~(Own(Down[i + b]) /\ Own(udqueue[j + d]))
        BY <1>u, <3>3 DEF Network, Single
      <4> QED
        BY <1>4, <3>3, <4>1
    <3> QED
      BY <3>1, <3>2, <3>3
  <2> QED
    BY <2>1, <2>2, <2>3, <2>4 DEF Single
<1>7. First'
  <2>1. CASE rd_seq <= 2
    <3>1. X.type = "none" /\ Flying <= 1
      BY <2>1 DEF Network, First
    <3>2. X.type' = "none"
      BY <3>1, <1>n DEF X
    <3>3. Flying' = Flying - a - b - d /\ Flying \in Nat /\ Flying' \in Nat
      BY <1>t DEF Flying
    <3> QED
      BY <2>1, <3>1, <3>2, <3>3 DEF First
  <2>2. CASE ~(rd_seq <= 2)
    <3>1. /\ \A i \in 1..Len(Up) : Up[i].seq # 1
          /\ \A p \in Process : xchg[p].type # "none" => xchg[p].seq # 1
      BY <2>2 DEF Network, First
    <3>2. \A i \in 1..Len(Up)' : Up[i]'.seq # 1
      BY <1>u, <3>1
    <3>3. \A p \in Process : xchg'[p].type # "none" => xchg'[p].seq # 1
      BY <3>1
    <3>4. ~(rd_seq' <= 2)
      BY <2>2
    <3> QED
      BY <3>2, <3>3, <3>4 DEF First
  <2> QED
    BY <2>1, <2>2
<1> QED
  BY <1>1, <1>2, <1>3, <1>5, <1>6, <1>7 DEF Network

LEMMA NothingLeft ==
    ASSUME DiskTyped, DiskTyped', Nothing, UNCHANGED server,
           NEW a \in {0, 1}, NEW b \in {0, 1}, NEW d \in {0, 1},
           Len(Up)' = Len(Up) - a, \A i \in 1..Len(Up)' : Up[i]' = Up[i + a],
           Len(Down)' = Len(Down) - b, \A i \in 1..Len(Down)' : Down[i]' = Down[i + b],
           Len(udqueue)' = Len(udqueue) - d,
           \A i \in 1..Len(udqueue)' : udqueue[i]' = udqueue[i + d]
    PROVE  Nothing'
<1>t. Len(Up) \in Nat /\ Len(Down) \in Nat /\ Len(udqueue) \in Nat
  BY NetTypes
<1>u. /\ \A i \in 1..Len(Up)' : i + a \in 1..Len(Up)
      /\ \A i \in 1..Len(Down)' : i + b \in 1..Len(Down)
      /\ \A i \in 1..Len(udqueue)' : i + d \in 1..Len(udqueue)
  BY <1>t
<1> QED
  BY <1>u DEF Nothing, Heard, Own

\* Nothing of the network moves.
LEMMA NetStill ==
    ASSUME DiskTyped, DiskTyped', Network, UNCHANGED <<rd_seq, server, wire, udqueue, xchg>>,
           pc'[rd_comproc] = "rdscomm" => pc[rd_comproc] = "rdscomm",
           \A c \in Client : pc[c] = "udp_recv" => pc'[c] = "udp_recv"
    PROVE  Network'
<1>t. Len(Up) \in Nat /\ Len(Down) \in Nat /\ Len(udqueue) \in Nat
  BY NetTypes
<1>1. Up' = Up /\ Down' = Down /\ udqueue' = udqueue /\ X' = X /\ server' = server
  BY DEF Up, Down, X
<1>2. /\ Numbers' /\ Sorted'
  BY <1>1 DEF Network, Numbers, Sorted
<1>3. Distinct' /\ Truthful'
  BY <1>1 DEF Network, Distinct, Truthful, Truth, Heard, Own
<1>4. Single' /\ Unsent'
  BY <1>1 DEF Network, Single, Unsent, Nothing, Heard, Own
<1>5. First'
  BY <1>1 DEF Network, First, Flying
<1> QED
  BY <1>2, <1>3, <1>4, <1>5 DEF Network

\* Without an exchange the communication process has nothing on its way.
LEMMA NothingYet ==
    ASSUME DiskTyped, Network, X.type = "none"
    PROVE  Nothing
<1>1. \A i \in 1..Len(Up) : Heard(Up[i]) => Up[i].type = "none"
  BY DEF Network, Truthful
<1>2. \A i \in 1..Len(Down) : Own(Down[i]) => Down[i].type = "none"
  BY DEF Network, Truthful, Truth
<1>3. \A i \in 1..Len(udqueue) : Own(udqueue[i]) => udqueue[i].type = "none"
  BY DEF Network, Truthful, Truth
<1> QED
  BY <1>1, <1>2, <1>3 DEF Nothing, Heard, Own

\* An exchange begins.
LEMMA NetBegins ==
    ASSUME DiskTyped, DiskTyped', Phases, Network, NEW p \in Process, NEW x,
           xchg' = [xchg EXCEPT ![p] = x], x.seq = rd_seq, rd_seq' = rd_seq + 1,
           UNCHANGED <<wire, udqueue, server>>,
           ~Busy(p),
           rd_seq <= 2 => \A q \in Process : ~Busy(q),
           p = rd_comproc => rd_seq > 1,
           p # rd_comproc => pc'[rd_comproc] = pc[rd_comproc]
    PROVE  Network'
<1>t. /\ Len(Up) \in Nat /\ Len(Down) \in Nat /\ Len(udqueue) \in Nat
      /\ server.seq \in Nat /\ rd_seq \in Nat \ {0} /\ rd_comproc \in Process
      /\ \A i \in 1..Len(Up) : Up[i].seq \in Nat
      /\ \A i \in 1..Len(Down) : Down[i].seq \in Nat
      /\ \A i \in 1..Len(udqueue) : udqueue[i].seq \in Nat
      /\ \A q \in Process : xchg[q].seq \in Nat
  BY NetTypes DEF Packet, Reply, Process
<1>1. /\ Up' = Up /\ Down' = Down /\ udqueue' = udqueue /\ server' = server
      /\ xchg'[p] = x /\ \A q \in Process : q # p => xchg'[q] = xchg[q]
  BY DEF Up, Down, DiskTyped
<1>2. Numbers'
  BY <1>t, <1>1 DEF Network, Numbers
<1>3. Sorted'
  BY <1>1 DEF Network, Sorted
<1>4. /\ \A i \in 1..Len(Up) : Up[i].seq < rd_seq
      /\ \A i \in 1..Len(Down) : Down[i].seq < rd_seq
      /\ \A i \in 1..Len(udqueue) : udqueue[i].seq < rd_seq
      /\ \A q \in Process : xchg[q].type # "none" => xchg[q].seq < rd_seq
  <2>1. /\ server.seq < rd_seq
        /\ \A i \in 1..Len(Up) : Up[i].seq < rd_seq
        /\ \A q \in Process : xchg[q].type # "none" => xchg[q].seq < rd_seq
    BY DEF Network, Numbers
  <2>2. /\ \A i \in 1..Len(Down) : Down[i].seq <= server.seq
        /\ \A i \in 1..Len(udqueue) : udqueue[i].seq <= server.seq
    BY DEF Network, Numbers
  <2>3. ASSUME NEW i \in 1..Len(Down)
        PROVE  Down[i].seq < rd_seq
    BY <1>t, <2>1, <2>2
  <2>4. ASSUME NEW i \in 1..Len(udqueue)
        PROVE  udqueue[i].seq < rd_seq
    BY <1>t, <2>1, <2>2
  <2> QED
    BY <2>1, <2>3, <2>4
<1>f. rd_seq <= 2 => Len(Up) = 0 /\ Flying = 0 /\ \A q \in Process : xchg[q].type = "none"
  <2>1. SUFFICES ASSUME rd_seq <= 2
                 PROVE  Len(Up) = 0 /\ Flying = 0 /\ \A q \in Process : xchg[q].type = "none"
    OBVIOUS
  <2>2. \A q \in Process : ~Busy(q) /\ xchg[q].type = "none"
    BY <2>1 DEF Phases
  <2>3. Flying # 1 /\ Flying <= 1
    BY <2>1, <2>2 DEF Network, First, Busy, Process
  <2> QED
    BY <1>t, <2>2, <2>3 DEF Flying
<1>5. First'
  <2>1. CASE rd_seq = 1
    BY <1>t, <1>1, <1>f, <2>1 DEF First, Flying, X
  <2>2. CASE rd_seq # 1
    <3>1. rd_seq' > 2 /\ x.seq # 1
      BY <1>t, <2>2
    <3>2. \A i \in 1..Len(Up) : Up[i].seq # 1
      BY <1>t, <1>f DEF Network, First
    <3>3. \A q \in Process : xchg[q].type # "none" => xchg[q].seq # 1
      BY <1>t, <1>f DEF Network, First
    <3> QED
      BY <1>t, <1>1, <3>1, <3>2, <3>3 DEF First
  <2> QED
    BY <2>1, <2>2
<1>6. CASE p = rd_comproc
  <2>1. X' = x /\ X.type = "none"
    BY <1>1, <1>6 DEF X, Phases
  <2>2. Nothing'
    BY <1>1, <2>1, NothingYet DEF Nothing, Heard, Own
  <2>3. Truthful' /\ Single' /\ Unsent'
    BY <2>2 DEF Nothing, Truthful, Truth, Single, Unsent
  <2>4. Distinct'
    <3>1. \A c \in Client : xchg'[c] = xchg[c]
      BY <1>1, <1>6, ProcessAssumption DEF Process
    <3> QED
      BY <1>t, <1>1, <1>4, <2>1, <3>1 DEF Distinct, Process
  <2> QED
    BY <1>2, <1>3, <1>5, <2>3, <2>4 DEF Network
<1>7. CASE p # rd_comproc
  <2>1. X' = X
    BY <1>t, <1>1, <1>7 DEF X
  <2>2. Truthful' /\ Single' /\ Unsent'
    BY <1>1, <1>7, <2>1 DEF Network, Truthful, Truth, Single, Unsent, Nothing, Heard, Own
  <2>3. Distinct'
    <3>1. SUFFICES ASSUME X.type # "none"
                   PROVE  Distinct'
      BY <2>1 DEF Distinct
    <3>2. X.seq < rd_seq /\ X.seq \in Nat
      BY <1>t, <1>4, <3>1 DEF X
    <3>3. \A c \in Client : xchg'[c].type # "none" => xchg'[c].seq # X.seq
      BY <1>t, <1>1, <3>1, <3>2 DEF Network, Distinct, Process
    <3> QED
      BY <1>1, <2>1, <3>1, <3>3 DEF Network, Distinct
  <2> QED
    BY <1>2, <1>3, <1>5, <2>2, <2>3 DEF Network
<1> QED
  BY <1>6, <1>7

\* A process sends the packet of its exchange, and a client may give up at once.
LEMMA NetSends ==
    ASSUME Alone, RdsInv, DiskTyped, DiskTyped', Phases, Network, NEW p \in Process, NEW m,
           m = [type |-> xchg[p].type, seq |-> xchg[p].seq, blk |-> xchg[p].blk,
                data |-> xchg[p].data],
           wire' = [wire EXCEPT !.up = Append(@, m)], UNCHANGED <<rd_seq, server, udqueue>>,
           pc[p] = "rdscomm", xchg[p].xmit,
           \A q \in Process : q # p => xchg'[q] = xchg[q] /\ pc'[q] = pc[q],
           \/ xchg'[p] = xchg[p] /\ pc'[p] = "udp_recv"
           \/ p # rd_comproc /\ xchg'[p].type = "none" /\ rd_seq > 2
    PROVE  Network'
<1>t. /\ Len(Up) \in Nat /\ Len(Down) \in Nat /\ Len(udqueue) \in Nat
      /\ server.seq \in Nat /\ rd_seq \in Nat /\ rd_comproc \in Process
      /\ Up \in Seq(Packet)
  BY NetTypes DEF Process
<1>n. PICK n \in Nat : n = Len(Up) + 1
  BY <1>t
<1>1. /\ Up' = Append(Up, m) /\ Down' = Down /\ udqueue' = udqueue /\ server' = server
      /\ rd_seq' = rd_seq
  BY DEF Up, Down, DiskTyped
<1>2. /\ Len(Up') = n /\ Up'[n] = m /\ n \in 1..Len(Up')
      /\ \A i \in 1..Len(Up') : i # n => i \in 1..Len(Up) /\ Up'[i] = Up[i]
  <2>1. Len(Up') = Len(Up) + 1
    BY <1>t, <1>n, <1>1, AppendProperties
  <2>2. Up'[n] = m
    BY <1>t, <1>n, <1>1, AppendProperties
  <2>3. \A i \in 1..Len(Up) : Up'[i] = Up[i]
    BY <1>t, <1>n, <1>1, AppendProperties
  <2> QED
    BY <1>t, <1>n, <2>1, <2>2, <2>3
<1>3. xchg[p].type # "none" /\ xchg[p].seq < rd_seq
  BY DEF Phases, Busy, Network, Numbers
<1>4. X' = X
  BY <1>t DEF X
<1>5. p = rd_comproc <=> Own(m)
  BY <1>3 DEF RdsInv, Exchanges, Own, Process
<1>6. \A i \in 1..Len(Up') : i # n => (Heard(Up[i])' <=> Heard(Up[i]))
  BY <1>1, <1>2 DEF Heard, Own
<1>7. Heard(Up[n])' => p = rd_comproc
  BY <1>2, <1>5 DEF Heard, Own
<1>8. Numbers' /\ Sorted'
  <2>1. \A q \in Process : xchg'[q].type # "none" => 0 < xchg'[q].seq /\ xchg'[q].seq < rd_seq
    BY DEF Network, Numbers
  <2>2. \A i \in 1..Len(Up') : Up'[i].seq < rd_seq
    BY <1>2, <1>3 DEF Network, Numbers
  <2> QED
    BY <1>1, <2>1, <2>2 DEF Network, Numbers, Sorted
<1>9. Distinct'
  <2>1. SUFFICES ASSUME X.type # "none"
                 PROVE  Distinct'
    BY <1>4 DEF Distinct
  <2>2. \A c \in Client : xchg'[c].type # "none" => xchg'[c].seq # X.seq
    BY <2>1 DEF Network, Distinct, Process
  <2>3. \A i \in 1..Len(Up') : Up'[i].type = "open" => Up'[i].seq # X.seq
    <3>1. m.type = "open" => m.seq # X.seq
      BY <1>3, <1>5, <2>1 DEF Own, Network, Distinct, Process
    <3> QED
      BY <1>2, <2>1, <3>1 DEF Network, Distinct
  <2> QED
    BY <1>1, <1>4, <2>1, <2>2, <2>3 DEF Network, Distinct
<1>10. Truthful'
  <2>1. \A i \in 1..Len(Up') : Heard(Up[i])' =>
           Up'[i] = [type |-> X.type, seq |-> X.seq, blk |-> X.blk, data |-> X.data]
    <3>1. p = rd_comproc => m = [type |-> X.type, seq |-> X.seq, blk |-> X.blk, data |-> X.data]
      BY DEF X
    <3> QED
      BY <1>2, <1>6, <1>7, <3>1 DEF Network, Truthful
  <2> QED
    BY <1>1, <1>4, <2>1 DEF Network, Truthful, Truth, Own
<1>11. p = rd_comproc => Nothing
  BY DEF Network, Unsent, X
<1>12. Single'
  <2>1. CASE p = rd_comproc
    <3>1. \A i \in 1..Len(Up') : Heard(Up[i])' => i = n
      BY <1>2, <1>6, <1>11, <2>1 DEF Nothing
    <3>2. /\ \A i \in 1..Len(Down') : ~Own(Down[i])'
          /\ \A i \in 1..Len(udqueue') : ~Own(udqueue[i])'
      BY <1>1, <1>11, <2>1 DEF Nothing, Own
    <3> QED
      BY <3>1, <3>2 DEF Single
  <2>2. CASE p # rd_comproc
    <3>1. \A i \in 1..Len(Up') : Heard(Up[i])' => i \in 1..Len(Up) /\ Heard(Up[i])
      BY <1>2, <1>6, <1>7, <2>2
    <3> QED
      BY <1>1, <3>1 DEF Network, Single, Own
  <2> QED
    BY <2>1, <2>2
<1>13. Unsent'
  <2>1. SUFFICES ASSUME p # rd_comproc, Nothing
                 PROVE  Nothing'
    BY <1>t, <1>4 DEF Unsent, Network
  <2>2. \A i \in 1..Len(Up') : ~Heard(Up[i])'
    BY <1>2, <1>6, <1>7, <2>1 DEF Nothing
  <2> QED
    BY <1>1, <2>1, <2>2 DEF Nothing, Own
<1>14. First'
  <2>1. CASE rd_seq <= 2
    <3>1. X.type = "none" /\ p # rd_comproc /\ p \in Client
      BY <1>3, <2>1 DEF Network, First, X, Process
    <3>2. Flying <= 1 /\ Flying # 1 /\ Flying \in Nat
      BY <1>t, <2>1, <3>1 DEF Network, First, Alone, Flying
    <3>3. Flying' = 1
      BY <1>t, <1>n, <1>1, <1>2, <3>2 DEF Flying
    <3>4. pc'[p] = "udp_recv"
      BY <1>t, <2>1
    <3> QED
      BY <1>1, <1>4, <2>1, <3>1, <3>3, <3>4 DEF First
  <2>2. CASE ~(rd_seq <= 2)
    <3>1. \A q \in Process : xchg'[q].type # "none" => xchg'[q].seq # 1
      BY <2>2 DEF Network, First
    <3>2. \A i \in 1..Len(Up') : Up'[i].seq # 1
      BY <1>2, <1>3, <2>2 DEF Network, First
    <3> QED
      BY <1>1, <2>2, <3>1, <3>2 DEF First
  <2> QED
    BY <2>1, <2>2
<1> QED
  BY <1>8, <1>9, <1>10, <1>12, <1>13, <1>14 DEF Network

\* A reply is taken from the endpoint.
LEMMA HeadLeaves ==
    ASSUME DiskTyped, udqueue # <<>>, udqueue' = Tail(udqueue), UNCHANGED wire
    PROVE  /\ Len(Up)' = Len(Up) - 0 /\ \A i \in 1..Len(Up)' : Up[i]' = Up[i + 0]
           /\ Len(Down)' = Len(Down) - 0 /\ \A i \in 1..Len(Down)' : Down[i]' = Down[i + 0]
           /\ Len(udqueue)' = Len(udqueue) - 1
           /\ \A i \in 1..Len(udqueue)' : udqueue[i]' = udqueue[i + 1] /\ i + 1 \in 1..Len(udqueue)
           /\ 1 \in 1..Len(udqueue) /\ Head(udqueue) = udqueue[1] /\ Head(udqueue) \in Reply
           /\ Flying \in Nat /\ Flying' = Flying - 1
<1>t. Len(Up) \in Nat /\ Len(Down) \in Nat /\ Len(udqueue) \in Nat /\ udqueue \in Seq(Reply)
  BY NetTypes
<1>1. Up' = Up /\ Down' = Down
  BY DEF Up, Down
<1>2. /\ Len(udqueue') = Len(udqueue) - 1
      /\ \A i \in 1..Len(udqueue') : udqueue'[i] = udqueue[i + 1] /\ i + 1 \in 1..Len(udqueue)
      /\ 1 \in 1..Len(udqueue) /\ Head(udqueue) = udqueue[1] /\ Head(udqueue) \in Reply
  BY <1>t, TailFacts
<1>3. /\ Len(Up)' = Len(Up) - 0 /\ \A i \in 1..Len(Up)' : Up[i]' = Up[i + 0]
      /\ Len(Down)' = Len(Down) - 0 /\ \A i \in 1..Len(Down)' : Down[i]' = Down[i + 0]
  BY <1>t, <1>1
<1>4. Flying \in Nat /\ Flying' = Flying - 1
  BY <1>t, <1>1, <1>2 DEF Flying
<1> QED
  BY <1>2, <1>3, <1>4

LEMMA NetTimeout ==
    ASSUME Alone, DiskTyped, DiskTyped', Network, NEW p \in Process, rdscommTimeout(p)
    PROVE  Network'
<1>1. /\ Len(Up) = 0 /\ Len(Down) = 0 /\ Len(udqueue) = 0
      /\ Up' = Up /\ Down' = Down /\ udqueue' = udqueue
  BY DEF rdscommTimeout, Alone, Up, Down, netVars
<1>2. Nothing' /\ Flying = 0
  BY <1>1 DEF Nothing, Flying
<1>3. /\ Len(Up)' = Len(Up) - 0 /\ \A i \in 1..Len(Up)' : Up[i]' = Up[i + 0]
      /\ Len(Down)' = Len(Down) - 0 /\ \A i \in 1..Len(Down)' : Down[i]' = Down[i + 0]
      /\ Len(udqueue)' = Len(udqueue) - 0
      /\ \A i \in 1..Len(udqueue)' : udqueue[i]' = udqueue[i + 0]
  BY <1>1
<1>4. UNCHANGED <<rd_seq, server>>
  BY DEF rdscommTimeout, netVars
<1>5. \A q \in Process : xchg'[q].type # "none" =>
         xchg'[q].type = xchg[q].type /\ xchg'[q].seq = xchg[q].seq
  <2>1. /\ xchg'[p] = [xchg[p] EXCEPT !.tries = @ + 1, !.xmit = TRUE]
        /\ \A q \in Process : q # p => xchg'[q] = xchg[q]
    BY AgainTyped DEF rdscommTimeout
  <2>2. xchg[p] \in Attempt
    BY DEF DiskTyped
  <2>3. xchg'[p].type = xchg[p].type /\ xchg'[p].seq = xchg[p].seq
    BY <2>1, <2>2 DEF Attempt
  <2> QED
    BY <2>1, <2>3
<1>6. Unsent'
  BY <1>2 DEF Unsent
<1> QED
  BY <1>2, <1>3, <1>4, <1>5, <1>6, Fewer

LEMMA NetRefuse ==
    ASSUME DiskTyped, DiskTyped', Phases, Network, NEW p \in Process, rdscommRefuse(p)
    PROVE  Network'
<1> DEFINE r == Head(udqueue)
           xmit == r.seq >= xchg[p].seq
<1>1. udqueue # <<>> /\ udqueue' = Tail(udqueue) /\ UNCHANGED <<wire, rd_seq, server>>
  BY DEF rdscommRefuse
<1>2. /\ Len(Up)' = Len(Up) - 0 /\ \A i \in 1..Len(Up)' : Up[i]' = Up[i + 0]
      /\ Len(Down)' = Len(Down) - 0 /\ \A i \in 1..Len(Down)' : Down[i]' = Down[i + 0]
      /\ Len(udqueue)' = Len(udqueue) - 1
      /\ \A i \in 1..Len(udqueue)' : udqueue[i]' = udqueue[i + 1] /\ i + 1 \in 1..Len(udqueue)
      /\ 1 \in 1..Len(udqueue) /\ r = udqueue[1] /\ r \in Reply
      /\ Flying = 1 => Flying' = 0
  BY <1>1, HeadLeaves
<1>t. /\ r.seq \in Nat /\ xchg[p].seq \in Nat /\ server.seq \in Nat /\ rd_comproc \in Process
      /\ Len(udqueue) \in Nat
      /\ xchg[p] \in Attempt
  BY <1>2, NetTypes DEF Reply, Process, DiskTyped
<1>3. /\ xchg'[p] = [xchg[p] EXCEPT !.tries = @ + 1, !.xmit = xmit]
      /\ \A q \in Process : q # p => xchg'[q] = xchg[q]
  <2>1. xmit \in BOOLEAN /\ again(p, xmit)
    BY <1>t DEF rdscommRefuse
  <2> HIDE DEF xmit
  <2> QED
    BY <2>1, AgainTyped
<1>4. /\ xchg'[p].type = xchg[p].type /\ xchg'[p].seq = xchg[p].seq /\ xchg'[p].blk = xchg[p].blk
      /\ xchg'[p].data = xchg[p].data /\ xchg'[p].xmit = xmit
  BY <1>t, <1>3 DEF Attempt
<1>5. X.type' = X.type /\ X.seq' = X.seq /\ X.blk' = X.blk /\ X.data' = X.data
  BY <1>t, <1>3, <1>4 DEF X
<1>6. Unsent'
  <2>1. CASE p = rd_comproc
    <3>1. SUFFICES ASSUME r.seq >= X.seq
                   PROVE  Nothing'
      BY <1>4, <2>1 DEF Unsent, X
    <3>2. ~(r.seq <= X.seq /\ r.type = X.type) /\ X.type # "none"
      BY <2>1 DEF rdscommRefuse, Accepts, X, Phases, Busy
    <3>3. ~Own(r)
      BY <1>t, <1>2, <2>1, <3>2 DEF Network, Truthful, Truth, X
    <3>4. r.type = "open"
      BY <1>2, <3>3 DEF Own, Reply
    <3>5. r.seq # X.seq
      BY <1>2, <3>2, <3>4 DEF Network, Distinct
    <3>6. r.seq > X.seq /\ r.seq <= server.seq /\ X.seq \in Nat
      BY <1>t, <1>2, <2>1, <3>1, <3>5 DEF Network, Numbers, X
    <3>7. \A i \in 1..Len(Up) : ~Heard(Up[i])
      <4>1. ASSUME NEW i \in 1..Len(Up), Heard(Up[i])
            PROVE  FALSE
        <5>1. Up[i].seq = X.seq
          BY <4>1 DEF Network, Truthful
        <5> QED
          BY <1>t, <3>6, <4>1, <5>1 DEF Heard
      <4> QED
        BY <4>1
    <3>8. \A i \in 1..Len(Down) : ~Own(Down[i])
      <4>1. ASSUME NEW i \in 1..Len(Down), Own(Down[i])
            PROVE  FALSE
        <5>1. Down[i].seq = X.seq
          BY <4>1 DEF Network, Truthful, Truth
        <5>2. r.seq <= Down[i].seq
          BY <1>2 DEF Network, Sorted
        <5> QED
          BY <1>t, <3>6, <5>1, <5>2
      <4> QED
        BY <4>1
    <3>9. \A i \in 1..Len(udqueue) : ~Own(udqueue[i])
      <4>1. ASSUME NEW i \in 1..Len(udqueue), Own(udqueue[i])
            PROVE  FALSE
        <5>1. udqueue[i].seq = X.seq
          BY <4>1 DEF Network, Truthful, Truth
        <5>2. i # 1 /\ 1 < i
          BY <1>t, <1>2, <3>3, <4>1
        <5>3. r.seq <= udqueue[i].seq
          BY <1>2, <5>2 DEF Network, Sorted
        <5> QED
          BY <1>t, <3>6, <5>1, <5>3
      <4> QED
        BY <4>1
    <3>10. Nothing
      BY <3>7, <3>8, <3>9 DEF Nothing
    <3> HIDE DEF r, xmit
    <3> QED
      BY <1>1, <1>2, <3>10, NothingLeft
  <2>2. CASE p # rd_comproc
    <3>1. pc'[rd_comproc] = pc[rd_comproc] /\ X' = X
      BY <1>t, <1>3, <2>2 DEF rdscommRefuse, again, X, DiskTyped
    <3>2. Nothing => Nothing'
      <4> HIDE DEF r, xmit
      <4> QED
        BY <1>1, <1>2, NothingLeft
    <3> QED
      BY <3>1, <3>2 DEF Network, Unsent
  <2> QED
    BY <2>1, <2>2
<1>7. \A q \in Process : xchg'[q].type # "none" =>
         xchg'[q].type = xchg[q].type /\ xchg'[q].seq = xchg[q].seq
  BY <1>3, <1>4
<1> HIDE DEF r, xmit
<1> QED
  BY <1>1, <1>2, <1>5, <1>6, <1>7, Fewer

\* A client gives up.
LEMMA NetGivesUp ==
    ASSUME Alone, DiskTyped, DiskTyped', Network, NEW p \in Process, p # rd_comproc,
           pc[p] = "rdscomm", fail(p), UNCHANGED <<wire, udqueue, rd_seq, server>>
    PROVE  Network'
<1>t. /\ Len(Up) \in Nat /\ Len(Down) \in Nat /\ Len(udqueue) \in Nat /\ rd_comproc \in Process
      /\ p \in Client
  BY NetTypes DEF Process
<1>1. Up' = Up /\ Down' = Down /\ udqueue' = udqueue /\ UNCHANGED <<rd_seq, server>>
  BY DEF Up, Down
<1>2. /\ Len(Up)' = Len(Up) - 0 /\ \A i \in 1..Len(Up)' : Up[i]' = Up[i + 0]
      /\ Len(Down)' = Len(Down) - 0 /\ \A i \in 1..Len(Down)' : Down[i]' = Down[i + 0]
      /\ Len(udqueue)' = Len(udqueue) - 0
      /\ \A i \in 1..Len(udqueue)' : udqueue[i]' = udqueue[i + 0]
  BY <1>t, <1>1
<1>3. /\ xchg' = [xchg EXCEPT ![p] = Idle] /\ Idle.type = "none"
      /\ pc' = [pc EXCEPT ![p] = "run"] /\ pc[p] = "rdscomm"
  BY DEF fail, Idle
<1>4. X' = X /\ pc'[rd_comproc] = pc[rd_comproc]
  BY <1>t, <1>3 DEF X, DiskTyped
<1>5. \A q \in Process : xchg'[q].type # "none" =>
         xchg'[q].type = xchg[q].type /\ xchg'[q].seq = xchg[q].seq
  BY <1>3 DEF DiskTyped
<1>6. Unsent'
  BY <1>1, <1>4 DEF Network, Unsent, Nothing, Heard, Own
<1>7. ~(rd_seq <= 2 /\ Flying = 1)
  BY <1>t, <1>3 DEF Network, First, Alone
<1> QED
  BY <1>1, <1>2, <1>4, <1>5, <1>6, <1>7, Fewer

\* Of the packets of the exchange the reply is the only one.
LEMMA NetDone ==
    ASSUME RdsInv, DiskTyped, DiskTyped', Phases, Network, NEW p \in Process, rdscommDone(p),
           p = rd_comproc => Head(udqueue).ok
    PROVE  Network'
<1> DEFINE r == Head(udqueue)
<1>1. udqueue # <<>> /\ udqueue' = Tail(udqueue) /\ UNCHANGED <<wire, rd_seq, server>>
  BY DEF rdscommDone
<1>2. /\ Len(Up)' = Len(Up) - 0 /\ \A i \in 1..Len(Up)' : Up[i]' = Up[i + 0]
      /\ Len(Down)' = Len(Down) - 0 /\ \A i \in 1..Len(Down)' : Down[i]' = Down[i + 0]
      /\ Len(udqueue)' = Len(udqueue) - 1
      /\ \A i \in 1..Len(udqueue)' : udqueue[i]' = udqueue[i + 1] /\ i + 1 \in 1..Len(udqueue)
      /\ 1 \in 1..Len(udqueue) /\ r = udqueue[1] /\ r \in Reply
      /\ Flying = 1 => Flying' = 0
  BY <1>1, HeadLeaves
<1>t. rd_comproc \in Process /\ server' = server /\ Up' = Up /\ Down' = Down
      /\ Len(Up) \in Nat /\ Len(Down) \in Nat /\ Len(udqueue) \in Nat
  BY <1>1, NetTypes DEF Process, Up, Down
<1>3. xchg' = [xchg EXCEPT ![p] = Idle] /\ Idle.type = "none"
  BY DEF rdscommDone, fail, Idle
<1>4. \A q \in Process : xchg'[q].type # "none" =>
         xchg'[q].type = xchg[q].type /\ xchg'[q].seq = xchg[q].seq
  BY <1>3 DEF DiskTyped
<1>5. /\ Nothing' \/ (X.type' = X.type /\ X.seq' = X.seq /\ X.blk' = X.blk /\ X.data' = X.data)
      /\ Unsent'
  <2>1. CASE p = rd_comproc
    <3>1. r.type = X.type /\ X.type \in {"read", "write"} /\ Own(r)
      BY <2>1 DEF rdscommDone, Accepts, X, RdsInv, Exchanges, Phases, Busy, Own
    <3>2. /\ \A i \in 1..Len(Up) : ~Heard(Up[i])
          /\ \A i \in 1..Len(Down) : ~Own(Down[i])
      BY <1>2, <3>1 DEF Network, Single
    <3>3. \A i \in 1..Len(udqueue)' : ~Own(udqueue[i + 1])
      <4>1. ASSUME NEW i \in 1..Len(udqueue)', Own(udqueue[i + 1])
            PROVE  FALSE
        <5>1. i + 1 \in 1..Len(udqueue) /\ i + 1 # 1
          BY <1>2
        <5> QED
          BY <1>2, <3>1, <4>1, <5>1 DEF Network, Single
      <4> QED
        BY <4>1
    <3>4. Nothing'
      BY <1>t, <1>2, <3>2, <3>3 DEF Nothing, Heard, Own
    <3> QED
      BY <3>4 DEF Unsent
  <2>2. CASE p # rd_comproc
    <3>1. xchg[p].type = "open" /\ p \in Client
      BY <2>2 DEF rdscommDone, RdsInv, Exchanges, Phases, Busy, Process
    <3>2. pc' = [pc EXCEPT ![p] = "run"]
      BY <2>2, <3>1 DEF rdscommDone, fail
    <3>3. X' = X /\ pc'[rd_comproc] = pc[rd_comproc]
      BY <1>t, <1>3, <2>2, <3>2 DEF X, DiskTyped
    <3>4. Nothing => Nothing'
      <4> HIDE DEF r
      <4> QED
        BY <1>1, <1>2, NothingLeft
    <3> QED
      BY <3>3, <3>4 DEF Network, Unsent
  <2> QED
    BY <2>1, <2>2
<1> HIDE DEF r
<1> QED
  BY <1>1, <1>2, <1>4, <1>5, Fewer

LEMMA NetLose ==
    ASSUME DiskTyped, DiskTyped', Network, lose
    PROVE  Network'
<1>t. /\ Up \in Seq(Packet) /\ Down \in Seq(Reply)
      /\ Len(Up) \in Nat /\ Len(Down) \in Nat /\ Len(udqueue) \in Nat /\ rd_comproc \in Process
  BY NetTypes DEF Process
<1>1. /\ udqueue' = udqueue /\ UNCHANGED <<rd_seq, server>> /\ xchg' = xchg /\ X' = X /\ pc' = pc
      /\ X.type' = X.type /\ X.seq' = X.seq /\ X.blk' = X.blk /\ X.data' = X.data
  BY DEF lose, procVars, X
<1>2. PICK a \in {0, 1}, b \in {0, 1} :
         /\ Len(Up)' = Len(Up) - a /\ \A i \in 1..Len(Up)' : Up[i]' = Up[i + a]
         /\ Len(Down)' = Len(Down) - b /\ \A i \in 1..Len(Down)' : Down[i]' = Down[i + b]
         /\ a = 1 \/ b = 1
  <2>1. CASE Up # <<>> /\ Up' = Tail(Up) /\ Down' = Down
    <3>1. Len(Up') = Len(Up) - 1 /\ \A i \in 1..Len(Up') : Up'[i] = Up[i + 1]
      BY <1>t, <2>1, TailFacts
    <3>2. Len(Down)' = Len(Down) - 0 /\ \A i \in 1..Len(Down)' : Down[i]' = Down[i + 0]
      BY <1>t, <2>1
    <3> QED
      BY <3>1, <3>2
  <2>2. CASE Down # <<>> /\ Down' = Tail(Down) /\ Up' = Up
    <3>1. Len(Down') = Len(Down) - 1 /\ \A i \in 1..Len(Down') : Down'[i] = Down[i + 1]
      BY <1>t, <2>2, TailFacts
    <3>2. Len(Up)' = Len(Up) - 0 /\ \A i \in 1..Len(Up)' : Up[i]' = Up[i + 0]
      BY <1>t, <2>2
    <3> QED
      BY <3>1, <3>2
  <2> QED
    BY <2>1, <2>2 DEF lose, Up, Down, DiskTyped
<1>3. Len(udqueue)' = Len(udqueue) - 0 /\ \A i \in 1..Len(udqueue)' : udqueue[i]' = udqueue[i + 0]
  BY <1>t, <1>1
<1>4. Unsent'
  <2>1. Nothing => Nothing'
    BY <1>1, <1>2, <1>3, NothingLeft
  <2> QED
    BY <1>1, <2>1 DEF Network, Unsent
<1>5. Flying = 1 => Flying' = 0
  <2>1. Len(Up)' \in Nat /\ Len(Down)' \in Nat /\ Len(udqueue)' \in Nat
    BY NetTypes
  <2> QED
    BY <1>t, <1>2, <1>3, <2>1 DEF Flying
<1>6. \A q \in Process : xchg'[q].type # "none" =>
         xchg'[q].type = xchg[q].type /\ xchg'[q].seq = xchg[q].seq
  BY <1>1
<1> QED
  BY <1>1, <1>2, <1>3, <1>4, <1>5, <1>6, Fewer

LEMMA NetIn ==
    ASSUME DiskTyped, DiskTyped', Network, udp_in
    PROVE  Network'
<1>t. /\ Down \in Seq(Reply) /\ udqueue \in Seq(Reply)
      /\ Len(Up) \in Nat /\ Len(Down) \in Nat /\ Len(udqueue) \in Nat
  BY NetTypes DEF Process
<1>1. /\ Up' = Up /\ UNCHANGED <<rd_seq, server>> /\ xchg' = xchg /\ X' = X /\ pc' = pc
      /\ X.type' = X.type /\ X.seq' = X.seq /\ X.blk' = X.blk /\ X.data' = X.data
      /\ Down # <<>> /\ Down' = Tail(Down)
  BY DEF udp_in, procVars, X, Up, Down, DiskTyped
<1>2. /\ Len(Down') = Len(Down) - 1 /\ 1 \in 1..Len(Down) /\ Head(Down) = Down[1]
      /\ Down[1] \in Reply
      /\ \A i \in 1..Len(Down') : i + 1 \in 1..Len(Down) /\ 1 < i + 1 /\ Down'[i] = Down[i + 1]
  BY <1>t, <1>1, TailFacts
<1>3. CASE udqueue' = udqueue
  <2>1. /\ Len(Up)' = Len(Up) - 0 /\ \A i \in 1..Len(Up)' : Up[i]' = Up[i + 0]
        /\ Len(udqueue)' = Len(udqueue) - 0
        /\ \A i \in 1..Len(udqueue)' : udqueue[i]' = udqueue[i + 0]
    BY <1>t, <1>1, <1>3
  <2>2. Unsent'
    BY <1>1, <1>2, <1>3 DEF Network, Unsent, Nothing, Heard, Own
  <2>3. Flying = 1 => Flying' = 0
    BY <1>t, <1>1, <1>2, <1>3 DEF Flying
  <2>4. \A q \in Process : xchg'[q].type # "none" =>
           xchg'[q].type = xchg[q].type /\ xchg'[q].seq = xchg[q].seq
    BY <1>1
  <2>5. Len(Down)' = Len(Down) - 1 /\ \A i \in 1..Len(Down)' : Down[i]' = Down[i + 1]
    BY <1>2
  <2> QED
    BY <1>1, <2>1, <2>2, <2>3, <2>4, <2>5, Fewer
<1>4. CASE udqueue' = Append(udqueue, Down[1])
  <2>n. PICK n \in Nat : n = Len(udqueue) + 1
    BY <1>t
  <2>1. /\ Len(udqueue') = n
        /\ \A i \in 1..Len(udqueue') :
              \/ i = n /\ udqueue'[i] = Down[1]
              \/ i \in 1..Len(udqueue) /\ i < n /\ udqueue'[i] = udqueue[i]
    BY <1>t, <1>2, <1>4, <2>n, AppendFacts
  <2>2. Numbers'
    BY <1>1, <1>2, <2>1 DEF Network, Numbers
  <2>3. Sorted'
    <3>1. ASSUME NEW i \in 1..Len(Down'), NEW j \in 1..Len(Down'), i < j
          PROVE  Down'[i].seq <= Down'[j].seq
      <4>1. i + 1 < j + 1
        BY <3>1
      <4> QED
        BY <1>2, <4>1 DEF Network, Sorted
    <3>2. ASSUME NEW i \in 1..Len(udqueue'), NEW j \in 1..Len(udqueue'), i < j
          PROVE  udqueue'[i].seq <= udqueue'[j].seq
      <4>1. i \in 1..Len(udqueue) /\ udqueue'[i] = udqueue[i]
        BY <2>1, <3>2
      <4> QED
        BY <1>2, <2>1, <3>2, <4>1 DEF Network, Sorted
    <3>3. ASSUME NEW i \in 1..Len(udqueue'), NEW j \in 1..Len(Down')
          PROVE  udqueue'[i].seq <= Down'[j].seq
      BY <1>2, <2>1 DEF Network, Sorted
    <3> QED
      BY <3>1, <3>2, <3>3 DEF Sorted
  <2>4. Distinct'
    BY <1>1, <1>2, <2>1 DEF Network, Distinct
  <2>5. Truthful'
    <3>1. \A i \in 1..Len(Down') : Truth(Down[i])'
      BY <1>1, <1>2 DEF Network, Truthful, Truth, Own
    <3>2. \A i \in 1..Len(udqueue') : Truth(udqueue[i])'
      BY <1>1, <1>2, <2>1 DEF Network, Truthful, Truth, Own
    <3>3. \A i \in 1..Len(Up') : Heard(Up[i])' =>
            Up'[i] = [type |-> X.type, seq |-> X.seq, blk |-> X.blk, data |-> X.data]
      BY <1>1 DEF Network, Truthful, Heard, Own
    <3> QED
      BY <1>1, <3>1, <3>2, <3>3 DEF Truthful
  <2>6. Single'
    <3>1. ASSUME NEW i \in 1..Len(Down'), NEW j \in 1..Len(Down'), Own(Down[i])', Own(Down[j])'
          PROVE  i = j
      <4>1. i + 1 = j + 1
        BY <1>2, <3>1 DEF Network, Single, Own
      <4> QED
        BY <4>1
    <3>2. ASSUME NEW i \in 1..Len(udqueue'), NEW j \in 1..Len(udqueue'),
                 Own(udqueue[i])', Own(udqueue[j])'
          PROVE  i = j
      BY <1>2, <2>1, <3>2 DEF Network, Single, Own
    <3>3. ASSUME NEW i \in 1..Len(Up'), NEW j \in 1..Len(Down')
          PROVE  ~(Heard(Up[i])' /\ Own(Down[j])')
      BY <1>1, <1>2 DEF Network, Single, Own, Heard
    <3>4. ASSUME NEW i \in 1..Len(Up'), NEW j \in 1..Len(udqueue')
          PROVE  ~(Heard(Up[i])' /\ Own(udqueue[j])')
      BY <1>1, <1>2, <2>1 DEF Network, Single, Own, Heard
    <3>5. ASSUME NEW i \in 1..Len(Down'), NEW j \in 1..Len(udqueue'), Own(Down[i])',
                 Own(udqueue[j])'
          PROVE  FALSE
      <4>1. i + 1 \in 1..Len(Down) /\ i + 1 # 1 /\ Own(Down[i + 1])
        BY <1>2, <3>5 DEF Own
      <4>2. Own(Down[1]) \/ \E k \in 1..Len(udqueue) : Own(udqueue[k])
        BY <2>1, <3>5 DEF Own
      <4> QED
        BY <1>2, <4>1, <4>2 DEF Network, Single
    <3>6. \A i, j \in 1..Len(Up') : Heard(Up[i])' /\ Heard(Up[j])' => i = j
      BY <1>1 DEF Network, Single, Heard, Own
    <3> QED
      BY <3>1, <3>2, <3>3, <3>4, <3>5, <3>6 DEF Single
  <2>7. Unsent'
    <3>1. Nothing => Nothing'
      BY <1>1, <1>2, <2>1 DEF Nothing, Heard, Own
    <3> QED
      BY <1>1, <3>1 DEF Network, Unsent
  <2>8. First'
    <3>1. Flying' = Flying
      BY <1>t, <1>1, <1>2, <2>n, <2>1 DEF Flying
    <3> QED
      BY <1>1, <3>1 DEF Network, First
  <2> QED
    BY <2>2, <2>3, <2>4, <2>5, <2>6, <2>7, <2>8 DEF Network
<1> QED
  BY <1>1, <1>2, <1>3, <1>4 DEF udp_in, Down

LEMMA NetServer ==
    ASSUME DiskTyped, DiskTyped', Network, Opened, rdserver
    PROVE  Network'
<1>t. /\ Up \in Seq(Packet) /\ Down \in Seq(Reply) /\ udqueue \in Seq(Reply)
      /\ Len(Up) \in Nat /\ Len(Down) \in Nat /\ Len(udqueue) \in Nat /\ server.seq \in Nat
      /\ rd_seq \in Nat
      /\ \A i \in 1..Len(Up) : Up[i].seq \in Nat
      /\ \A i \in 1..Len(Down) : Down[i].seq \in Nat
      /\ \A i \in 1..Len(udqueue) : udqueue[i].seq \in Nat
  BY NetTypes DEF Packet, Reply
<1>1. /\ udqueue' = udqueue /\ rd_seq' = rd_seq /\ xchg' = xchg /\ X' = X /\ pc' = pc
      /\ X.type' = X.type /\ X.seq' = X.seq /\ X.blk' = X.blk /\ X.data' = X.data
  BY DEF rdserver, procVars, X
<1>2. PICK m \in Packet :
         /\ m = Head(wire.up) /\ Up # <<>> /\ Up' = Tail(Up)
         /\ \/ Down' = Down /\ server' = server
            \/ /\ m.seq >= server.seq \/ m.seq = 1
               /\ Down' = Append(Down, reply(m)) /\ reply(m) \in Reply
               /\ server'.seq = m.seq
               /\ server'.file = IF m.type = "write" /\ server.open
                                 THEN [server.file EXCEPT ![m.blk] = m.data] ELSE server.file
  BY ServerFacts
<1>3. /\ Len(Up') = Len(Up) - 1 /\ 1 \in 1..Len(Up) /\ Up[1] = m
      /\ \A i \in 1..Len(Up') : i + 1 \in 1..Len(Up) /\ i + 1 # 1 /\ Up'[i] = Up[i + 1]
  BY <1>t, <1>2, TailFacts DEF Up
<1>4. CASE Down' = Down /\ server' = server
  <2>1. /\ Len(Down)' = Len(Down) - 0 /\ \A i \in 1..Len(Down)' : Down[i]' = Down[i + 0]
        /\ Len(udqueue)' = Len(udqueue) - 0
        /\ \A i \in 1..Len(udqueue)' : udqueue[i]' = udqueue[i + 0]
    BY <1>t, <1>1, <1>4
  <2>2. Unsent'
    BY <1>1, <1>3, <1>4 DEF Network, Unsent, Nothing, Heard, Own
  <2>3. Flying = 1 => Flying' = 0
    BY <1>t, <1>1, <1>3, <1>4 DEF Flying
  <2>4. \A q \in Process : xchg'[q].type # "none" =>
           xchg'[q].type = xchg[q].type /\ xchg'[q].seq = xchg[q].seq
    BY <1>1
  <2>5. Len(Up)' = Len(Up) - 1 /\ \A i \in 1..Len(Up)' : Up[i]' = Up[i + 1]
    BY <1>3
  <2> QED
    BY <1>1, <1>4, <2>1, <2>2, <2>3, <2>4, <2>5, Fewer
<1>5. ASSUME m.seq >= server.seq \/ m.seq = 1,
             NEW r \in Reply, r = reply(m), Down' = Append(Down, r),
             server'.seq = m.seq,
             server'.file = IF m.type = "write" /\ server.open
                            THEN [server.file EXCEPT ![m.blk] = m.data] ELSE server.file
      PROVE  Network'
  <2>n. PICK n \in Nat : n = Len(Down) + 1
    BY <1>t
  <2>1. /\ Len(Down') = n
        /\ \A i \in 1..Len(Down') :
              \/ i = n /\ Down'[i] = r
              \/ i \in 1..Len(Down) /\ i < n /\ Down'[i] = Down[i]
    BY <1>t, <1>5, <2>n, AppendFacts
  <2>2. r.type = m.type /\ r.seq = m.seq
    BY <1>5 DEF reply
  <2>3. m.seq >= server.seq /\ m.seq \in Nat /\ m.seq < rd_seq
    <3>1. m.seq < rd_seq /\ server.seq < rd_seq /\ m.seq \in Nat
      BY <1>t, <1>3 DEF Network, Numbers
    <3>2. m.seq = 1 => rd_seq <= 2
      BY <1>3 DEF Network, First
    <3> QED
      BY <1>t, <1>5, <3>1, <3>2
  <2>4. Own(m) => Heard(Up[1])
    BY <1>3, <2>3 DEF Heard
  <2>5. /\ \A i \in 1..Len(Down) : Down[i].seq <= m.seq
        /\ \A i \in 1..Len(udqueue) : udqueue[i].seq <= m.seq
    <3>1. ASSUME NEW i \in 1..Len(Down)
          PROVE  Down[i].seq <= m.seq
      <4>1. Down[i].seq <= server.seq
        BY DEF Network, Numbers
      <4> QED
        BY <1>t, <2>3, <4>1
    <3>2. ASSUME NEW i \in 1..Len(udqueue)
          PROVE  udqueue[i].seq <= m.seq
      <4>1. udqueue[i].seq <= server.seq
        BY DEF Network, Numbers
      <4> QED
        BY <1>t, <2>3, <4>1
    <3> QED
      BY <3>1, <3>2
  <2>6. \A i \in 1..Len(Up') : Heard(Up[i])' =>
           Heard(Up[i + 1]) /\ i + 1 \in 1..Len(Up) /\ i + 1 # 1
    <3>1. ASSUME NEW i \in 1..Len(Up'), Heard(Up[i])'
          PROVE  Heard(Up[i + 1])
      <4>1. Own(Up[i + 1]) /\ Up[i + 1].seq >= m.seq /\ i + 1 \in 1..Len(Up)
        BY <1>3, <1>5, <3>1 DEF Heard, Own
      <4>2. Up[i + 1].seq >= server.seq
        BY <1>t, <2>3, <4>1
      <4> QED
        BY <4>1, <4>2 DEF Heard
    <3> QED
      BY <1>3, <3>1
  <2>7. Own(m) => /\ \A i \in 1..Len(Up') : ~Heard(Up[i])'
                  /\ \A i \in 1..Len(Down) : ~Own(Down[i])
                  /\ \A i \in 1..Len(udqueue) : ~Own(udqueue[i])
                  /\ m = [type |-> X.type, seq |-> X.seq, blk |-> X.blk, data |-> X.data]
    <3>1. SUFFICES ASSUME Heard(Up[1])
                   PROVE  /\ \A i \in 1..Len(Up') : ~Heard(Up[i])'
                          /\ \A i \in 1..Len(Down) : ~Own(Down[i])
                          /\ \A i \in 1..Len(udqueue) : ~Own(udqueue[i])
                          /\ m = [type |-> X.type, seq |-> X.seq, blk |-> X.blk, data |-> X.data]
      BY <2>4
    <3>2. \A i \in 1..Len(Up') : ~Heard(Up[i])'
      BY <1>3, <2>6, <3>1 DEF Network, Single
    <3>3. /\ \A i \in 1..Len(Down) : ~Own(Down[i])
          /\ \A i \in 1..Len(udqueue) : ~Own(udqueue[i])
      BY <1>3, <3>1 DEF Network, Single
    <3>4. m = [type |-> X.type, seq |-> X.seq, blk |-> X.blk, data |-> X.data]
      BY <1>3, <3>1 DEF Network, Truthful
    <3> QED
      BY <3>2, <3>3, <3>4
  <2>8. Numbers'
    <3>1. /\ \A i \in 1..Len(Up') : Up'[i].seq < rd_seq
          /\ \A i \in 1..Len(Down') : Down'[i].seq <= m.seq
      BY <1>3, <2>1, <2>2, <2>3, <2>5 DEF Network, Numbers
    <3> QED
      BY <1>1, <1>5, <2>3, <2>5, <3>1 DEF Network, Numbers
  <2>9. Sorted'
    <3>1. ASSUME NEW i \in 1..Len(Down'), NEW j \in 1..Len(Down'), i < j
          PROVE  Down'[i].seq <= Down'[j].seq
      <4>1. i \in 1..Len(Down) /\ Down'[i] = Down[i]
        BY <2>1, <3>1
      <4> QED
        BY <2>1, <2>2, <2>5, <3>1, <4>1 DEF Network, Sorted
    <3>2. ASSUME NEW i \in 1..Len(udqueue), NEW j \in 1..Len(Down')
          PROVE  udqueue[i].seq <= Down'[j].seq
      BY <2>1, <2>2, <2>5 DEF Network, Sorted
    <3> QED
      BY <1>1, <3>1, <3>2 DEF Network, Sorted
  <2>10. Distinct'
    <3>1. SUFFICES ASSUME X.type # "none"
                   PROVE  Distinct'
      BY <1>1 DEF Distinct
    <3>2. r.type = "open" => r.seq # X.seq
      BY <1>3, <2>2, <3>1 DEF Network, Distinct
    <3>3. \A i \in 1..Len(Down') : Down'[i].type = "open" => Down'[i].seq # X.seq
      BY <2>1, <3>1, <3>2 DEF Network, Distinct
    <3>4. \A i \in 1..Len(Up') : Up'[i].type = "open" => Up'[i].seq # X.seq
      BY <1>3, <3>1 DEF Network, Distinct
    <3> QED
      BY <1>1, <3>1, <3>3, <3>4 DEF Network, Distinct
  <2>11. Truthful'
    <3>1. \A i \in 1..Len(Up') : Heard(Up[i])' =>
             Up'[i] = [type |-> X.type, seq |-> X.seq, blk |-> X.blk, data |-> X.data]
      BY <1>3, <2>6 DEF Network, Truthful
    <3>2. ~Own(m) => server'.file = server.file
      BY <1>5 DEF Own
    <3>3. ASSUME NEW x, Truth(x), Own(m) => ~Own(x)
          PROVE  Truth(x)'
      BY <1>1, <3>2, <3>3 DEF Truth, Own
    <3>4. Truth(r)'
      <4>1. SUFFICES ASSUME Own(m)
                     PROVE  Truth(r)'
        BY <2>2 DEF Truth, Own
      <4>2. /\ m.type = X.type /\ m.seq = X.seq /\ m.blk = X.blk /\ m.data = X.data
            /\ m.blk \in Block
        BY <2>7, <4>1 DEF Own, Packet
      <4>3. server.open
        BY <1>3, <4>1 DEF Opened
      <4>4. CASE m.type = "write"
        <5>1. r.ok => server'.file[m.blk] = m.data
          BY <1>5, <4>2, <4>3, <4>4 DEF DiskTyped
        <5> QED
          BY <1>1, <2>2, <4>2, <4>4, <5>1 DEF Truth
      <4>5. CASE m.type = "read"
        <5>1. r.ok => r.data = server.file[m.blk]
          BY <1>5, <4>3, <4>5 DEF reply, DiskTyped
        <5>2. server'.file = server.file
          BY <1>5, <4>5
        <5> QED
          BY <1>1, <2>2, <4>2, <4>5, <5>1, <5>2 DEF Truth
      <4> QED
        BY <4>1, <4>4, <4>5 DEF Own
    <3>5. \A i \in 1..Len(Down) : Truth(Down[i]) /\ (Own(m) => ~Own(Down[i]))
      BY <2>7 DEF Network, Truthful
    <3>6. \A i \in 1..Len(Down') : Truth(Down[i])'
      <4>1. ASSUME NEW i \in 1..Len(Down)
            PROVE  \A x : x = Down[i] => Truth(x)'
        BY <3>3, <3>5
      <4> QED
        BY <2>1, <3>4, <4>1 DEF Truth, Own
    <3>7. \A i \in 1..Len(udqueue') : Truth(udqueue[i])'
      <4>1. ASSUME NEW i \in 1..Len(udqueue)
            PROVE  \A x : x = udqueue[i] => Truth(x)'
        BY <2>7, <3>3 DEF Network, Truthful
      <4> QED
        BY <1>1, <4>1 DEF Truth, Own
    <3> QED
      BY <1>1, <3>1, <3>6, <3>7 DEF Truthful
  <2>12. Single'
    <3>1. CASE Own(m)
      <4>1. \A i \in 1..Len(Down') : Own(Down[i])' => i = n
        BY <2>1, <2>7, <3>1 DEF Own
      <4>2. \A i \in 1..Len(udqueue') : ~Own(udqueue[i])'
        BY <1>1, <2>7, <3>1 DEF Own
      <4> QED
        BY <2>7, <3>1, <4>1, <4>2 DEF Single
    <3>2. CASE ~Own(m)
      <4>1. \A i \in 1..Len(Down') : Own(Down[i])' => i \in 1..Len(Down) /\ Own(Down[i])
        BY <2>1, <2>2, <3>2 DEF Own
      <4>2. \A i \in 1..Len(udqueue') : Own(udqueue[i])' => i \in 1..Len(udqueue) /\ Own(udqueue[i])
        BY <1>1 DEF Own
      <4>3. ASSUME NEW i \in 1..Len(Up'), NEW j \in 1..Len(Up'), Heard(Up[i])', Heard(Up[j])'
            PROVE  i = j
        <5>1. i + 1 = j + 1
          BY <2>6, <4>3 DEF Network, Single
        <5> QED
          BY <5>1
      <4> QED
        BY <2>6, <4>1, <4>2, <4>3 DEF Network, Single
    <3> QED
      BY <3>1, <3>2
  <2>13. Unsent'
    <3>1. SUFFICES ASSUME Nothing
                   PROVE  Nothing'
      BY <1>1 DEF Network, Unsent
    <3>2. ~Own(m)
      BY <1>3, <2>4, <3>1 DEF Nothing
    <3>3. \A i \in 1..Len(Up') : ~Heard(Up[i])'
      BY <2>6, <3>1 DEF Nothing
    <3>4. \A i \in 1..Len(Down') : ~Own(Down[i])'
      BY <2>1, <2>2, <3>1, <3>2 DEF Nothing, Own
    <3> QED
      BY <1>1, <3>1, <3>3, <3>4 DEF Nothing, Own
  <2>14. First'
    <3>1. Flying' = Flying
      BY <1>t, <1>1, <1>3, <2>n, <2>1 DEF Flying
    <3>2. \A i \in 1..Len(Up') : Up'[i] = Up[i + 1] /\ i + 1 \in 1..Len(Up)
      BY <1>3
    <3> QED
      BY <1>1, <3>1, <3>2 DEF Network, First
  <2> QED
    BY <2>8, <2>9, <2>10, <2>11, <2>12, <2>13, <2>14 DEF Network
<1> QED
  BY <1>2, <1>4, <1>5

-------------------------------------------------------------------------------
(***************************************************************************)
(* The driver, step by step.                                                *)
(***************************************************************************)
LEMMA DriverTypes ==
    ASSUME RdsInv, DiskTyped
    PROVE  /\ requests \in Seq(Buf) /\ cache \in Seq(Buf) /\ free \in Seq(Buf)
           /\ Len(requests) \in Nat /\ Len(cache) \in Nat /\ Len(free) \in Nat
           /\ \A i \in 1..Len(requests) : requests[i] \in Buf /\ buf[requests[i]] \in Buffer
           /\ \A i \in 1..Len(cache) : cache[i] \in Buf /\ buf[cache[i]] \in Buffer
           /\ \A i \in 1..Len(requests), j \in 1..Len(cache) : requests[i] # cache[j]
           /\ availsem.count \in Int
           /\ rd_comproc \in Process
           /\ \A c \in Client : c \in Process /\ c # rd_comproc
<1>1. requests \in Seq(Buf) /\ cache \in Seq(Buf) /\ free \in Seq(Buf)
  BY DEF RdsInv, Lists, Partition
<1>2. Len(requests) \in Nat /\ Len(cache) \in Nat /\ Len(free) \in Nat
  BY <1>1, LenProperties
<1>3. /\ \A i \in 1..Len(requests) : requests[i] \in Buf
      /\ \A i \in 1..Len(cache) : cache[i] \in Buf
  BY <1>1, ElementOfSeq
<1>4. \A b \in Buf : buf[b] \in Buffer
  BY DEF DiskTyped
<1>5. \A i \in 1..Len(requests), j \in 1..Len(cache) : requests[i] # cache[j]
  BY <1>3 DEF RdsInv, Lists, Partition, On
<1>6. availsem.count \in Int
  BY DEF DiskTyped
<1>7. rd_comproc \in Process /\ \A c \in Client : c \in Process /\ c # rd_comproc
  BY ProcessAssumption DEF Process
<1> QED
  BY <1>1, <1>2, <1>3, <1>4, <1>5, <1>6, <1>7

\* A client that does not wait for a block has no read in the queue and no buffer.
LEMMA NotReceiving ==
    ASSUME Alone, RdsInv, DiskTyped, Queue, Cached, NEW c \in Client
    PROVE  /\ pc[c] # "receive" \/ prmsg[c] # NoBuf =>
                 \A i \in 1..Len(requests) : buf[requests[i]].op = "write"
           /\ pc[c] # "receive" => \A i \in 1..Len(cache) : buf[cache[i]].refcnt <= 0
<1>1. \A d \in Client : d = c
  BY DEF Alone
<1>2. ASSUME pc[c] # "receive" \/ prmsg[c] # NoBuf, NEW i \in 1..Len(requests)
      PROVE  buf[requests[i]].op = "write"
  BY <1>1, <1>2 DEF Queue
<1>3. ASSUME pc[c] # "receive", NEW i \in 1..Len(cache)
      PROVE  buf[cache[i]].refcnt <= 0
  <2>1. buf[cache[i]].refcnt \in Int
    BY DriverTypes DEF Buffer
  <2>2. buf[cache[i]].refcnt <= 1 /\ buf[cache[i]].refcnt # 1
    BY <1>1, <1>3 DEF Cached
  <2> QED
    BY <2>1, <2>2
<1> QED
  BY <1>2, <1>3

\* The lists rest, and the client keeps or makes a call that needs no buffer.
LEMMA Resting ==
    ASSUME Available, Queue, Cached, Wanted,
           UNCHANGED <<requests, cache, free, buf, availsem, want, last>>,
           \A c \in Client :
              \/ pc'[c] = pc[c] /\ (prmsg'[c] = prmsg[c] \/ pc[c] # "receive")
              \/ /\ pc[c] \in {"run", "rdscomm", "udp_recv"}
                 /\ pc'[c] \in {"run", "rdscomm", "udp_recv"}
    PROVE  Available' /\ Queue' /\ Cached' /\ Wanted'
<1>1. /\ \A c \in Client : Asking(c)' <=> Asking(c)
      /\ \A c \in Client, s \in {"waitAvail", "granted", "receive"} : pc'[c] = s <=> pc[c] = s
      /\ \A c \in Client : pc[c] = "receive" => prmsg'[c] = prmsg[c]
  BY DEF Asking
<1>2. Available'
  BY <1>1 DEF Available
<1>3. Queue'
  BY <1>1 DEF Queue
<1>4. Cached'
  BY <1>1 DEF Cached
<1>5. Wanted'
  BY <1>1 DEF Wanted
<1> QED
  BY <1>2, <1>3, <1>4, <1>5

\* What the server will hold is the same.
LEMMA ContentStill ==
    ASSUME Content, UNCHANGED <<requests, buf, last>>, server'.file = server.file,
           X.type' = X.type, X.blk' = X.blk, X.data' = X.data
    PROVE  Content'
BY DEF Content

LEMMA DriverOpen ==
    ASSUME Alone, RdsInv, DiskTyped, Driver, NEW c \in Client, rdsopen(c)
    PROVE  Driver'
<1>t. c \in Process /\ rd_comproc \in Process /\ c # rd_comproc /\ \A d \in Client : d = c
  BY DriverTypes DEF Alone
<1>1. /\ pc[c] = "run" /\ rd_state = "FREE" /\ rd_state' = "PEND" /\ rd_seq' = rd_seq + 1
      /\ pc' = [pc EXCEPT ![c] = "rdscomm"]
      /\ UNCHANGED <<requests, cache, free, buf, availsem, want, prmsg, server, last>>
  BY DEF rdsopen, Calls, exchange, listVars, semVars, netVars, histVars
<1>2. PICK x : x.type = "open" /\ xchg' = [xchg EXCEPT ![c] = x]
  BY DEF rdsopen, exchange
<1>3. /\ pc'[c] = "rdscomm" /\ xchg'[c] = x
      /\ \A q \in Process : q # c => pc'[q] = pc[q] /\ xchg'[q] = xchg[q]
  BY <1>t, <1>1, <1>2 DEF DiskTyped
<1>4. X' = X
  BY <1>t, <1>3 DEF X
<1>5. Phases'
  <2>1. \A p \in Process : Busy(p)' <=> xchg'[p].type # "none"
    BY <1>2, <1>3 DEF Driver, Phases, Busy
  <2>2. requests' = <<>> /\ rd_seq' > 1
    BY <1>1 DEF Driver, Phases, DiskTyped
  <2> QED
    BY <1>t, <1>1, <1>3, <2>1, <2>2 DEF Driver, Phases, Busy, Asking
<1>6. Available' /\ Queue' /\ Cached' /\ Wanted'
  BY <1>t, <1>1, <1>3, Resting DEF Driver
<1>7. Content'
  BY <1>1, <1>4, ContentStill DEF Driver
<1> QED
  BY <1>5, <1>6, <1>7 DEF Driver

LEMMA DriverClose ==
    ASSUME Alone, RdsInv, DiskTyped, Driver, NEW c \in Client, rdsclose(c)
    PROVE  Driver'
<1>t. /\ c \in Process /\ rd_comproc \in Process /\ c # rd_comproc /\ \A d \in Client : d = c
      /\ cache \in Seq(Buf) /\ free \in Seq(Buf) /\ Len(cache) \in Nat /\ Len(free) \in Nat
  BY DriverTypes DEF Alone
<1>1. /\ pc[c] = "run" /\ rd_state = "OPEN" /\ rd_state' = "FREE"
      /\ requests = <<>> /\ requests' = <<>> /\ cache' = <<>> /\ free' = Backwards(cache) \o free
      /\ pc' = pc /\ xchg' = xchg
      /\ UNCHANGED <<rd_seq, availsem, want, prmsg, server, last>>
  BY DEF rdsclose, Calls, semVars, procVars, netVars, histVars
<1>2. Len(cache') = 0 /\ Len(requests') = 0
  BY <1>1
<1>3. Len(free') = Len(free) + Len(cache)
  <2>1. PICK s : s = Backwards(cache)
    OBVIOUS
  <2>2. s \in Seq(Buf)
    BY <1>t, <2>1, BackwardsOnce DEF RdsInv, Lists, Partition
  <2>3. DOMAIN s = 1..Len(cache)
    BY <2>1 DEF Backwards
  <2>4. Len(s) = Len(cache)
    BY <1>t, <2>2, <2>3, LenProperties
  <2>5. free' = s \o free
    BY <1>1, <2>1
  <2>6. Len(s \o free) = Len(s) + Len(free)
    BY <1>t, <2>2, ConcatProperties
  <2> QED
    BY <1>t, <2>4, <2>5, <2>6
<1>4. Phases'
  BY <1>t, <1>1 DEF Driver, Phases, Busy, Asking
<1>5. Available'
  <2>1. pc' = pc /\ availsem' = availsem /\ Len(free') + Len(cache') = Len(free) + Len(cache)
    BY <1>t, <1>1, <1>2, <1>3
  <2> QED
    BY <2>1 DEF Driver, Available
<1>6. Queue' /\ Cached'
  BY <1>2 DEF Queue, Cached
<1>7. Wanted'
  BY <1>t, <1>1 DEF Wanted, Asking
<1>8. Content'
  <2>1. X' = X
    BY <1>1 DEF X
  <2>2. X.type # "read"
    BY <1>1 DEF Driver, Content
  <2>3. Len(requests) = 0
    BY <1>1
  <2> QED
    BY <1>1, <1>2, <2>1, <2>2, <2>3 DEF Driver, Content
<1> QED
  BY <1>4, <1>5, <1>6, <1>7, <1>8 DEF Driver

\* rdsread() has its block.
LEMMA DriverReadDone ==
    ASSUME Alone, RdsInv, DiskTyped, Driver, NEW c \in Client, rdsreadDone(c)
    PROVE  Driver'
<1>t. c \in Process /\ rd_comproc \in Process /\ c # rd_comproc /\ \A d \in Client : d = c
  BY DriverTypes DEF Alone
<1>1. /\ pc[c] = "receive" /\ prmsg[c] # NoBuf /\ pc' = [pc EXCEPT ![c] = "run"]
      /\ UNCHANGED <<rd_state, rd_seq, requests, cache, free, availsem, server, last>>
      /\ xchg' = xchg
  BY DEF rdsreadDone, semVars, netVars
<1>2. pc'[c] = "run" /\ \A q \in Process : q # c => pc'[q] = pc[q]
  BY <1>t, <1>1 DEF DiskTyped
<1>3. prmsg[c] \in Buf
  BY <1>1 DEF Driver, Wanted, Asking
<1>4. buf' = [buf EXCEPT ![prmsg[c]].refcnt = @ - 1]
  BY <1>3 DEF rdsreadDone
<1>5. ASSUME NEW b \in Buf
      PROVE  /\ buf'[b].op = buf[b].op /\ buf'[b].blknum = buf[b].blknum
             /\ buf'[b].status = buf[b].status /\ buf'[b].block = buf[b].block
             /\ buf'[b].refcnt = IF b = prmsg[c] THEN buf[b].refcnt - 1 ELSE buf[b].refcnt
             /\ buf[b].refcnt \in Int
  BY <1>3, <1>4 DEF DiskTyped, Buffer
<1>6. \A i \in 1..Len(requests) : buf[requests[i]].op = "write" /\ requests[i] \in Buf
  BY <1>1, NotReceiving, DriverTypes DEF Driver
<1>7. Phases'
  BY <1>t, <1>1, <1>2 DEF Driver, Phases, Busy, Asking
<1>8. Available'
  BY <1>t, <1>1, <1>2 DEF Driver, Available
<1>9. Queue'
  <2>1. ASSUME NEW i \in 1..Len(requests)
        PROVE  /\ buf'[requests[i]].op = "write"
               /\ buf'[requests[i]].blknum = buf[requests[i]].blknum
               /\ buf'[requests[i]].status = buf[requests[i]].status
               /\ buf'[requests[i]].block = buf[requests[i]].block
    BY <1>5, <1>6
  <2> QED
    BY <1>1, <1>6, <2>1 DEF Driver, Queue
<1>10. Cached'
  <2>1. \A i \in 1..Len(cache) : cache[i] \in Buf
    BY DriverTypes
  <2>2. \A i \in 1..Len(cache) : buf'[cache[i]].refcnt <= 0
    <3>1. ASSUME NEW i \in 1..Len(cache)
          PROVE  buf'[cache[i]].refcnt <= 0
      <4>1. buf[cache[i]].refcnt <= 1
        BY DEF Driver, Cached
      <4>2. buf[cache[i]].refcnt = 1 => cache[i] = prmsg[c]
        BY <1>t DEF Driver, Cached
      <4> QED
        BY <1>5, <2>1, <4>1, <4>2
    <3> QED
      BY <3>1
  <2>3. \A i \in 1..Len(requests) : buf'[requests[i]].blknum = buf[requests[i]].blknum
    BY <1>5, <1>6
  <2>4. ASSUME NEW i \in 1..Len(cache)
        PROVE  /\ buf'[cache[i]].refcnt <= 1 /\ buf'[cache[i]].refcnt # 1
               /\ buf'[cache[i]].blknum = buf[cache[i]].blknum
               /\ buf'[cache[i]].status = buf[cache[i]].status
               /\ buf'[cache[i]].block = buf[cache[i]].block
    BY <1>5, <2>1, <2>2
  <2> QED
    BY <1>1, <2>2, <2>3, <2>4 DEF Driver, Cached
<1>11. Wanted'
  BY <1>t, <1>2 DEF Wanted, Asking
<1>12. Content'
  <2>1. /\ \A i \in 1..Len(requests) : /\ buf'[requests[i]].op = buf[requests[i]].op
                                       /\ buf'[requests[i]].blknum = buf[requests[i]].blknum
        /\ requests # <<>> => 1 \in 1..Len(requests) /\ Head(requests) = requests[1]
    BY <1>5, <1>6, DriverTypes, TailFacts
  <2>2. X' = X
    BY <1>1 DEF X
  <2> QED
    BY <1>1, <2>1, <2>2 DEF Driver, Content
<1> QED
  BY <1>7, <1>8, <1>9, <1>10, <1>11, <1>12 DEF Driver

LEMMA DriverNotice ==
    ASSUME Alone, RdsInv, DiskTyped, Driver, NEW c \in Client, notice(c)
    PROVE  Driver'
<1>t. \A d \in Client : d = c
  BY DEF Alone
<1>1. /\ pc[c] # "receive" /\ pc' = pc /\ xchg' = xchg /\ server' = server
      /\ UNCHANGED <<rd_state, rd_seq, requests, cache, free, buf, availsem, want, last>>
  BY DEF notice, Alone, listVars, semVars, netVars, histVars
<1>2. Phases'
  BY <1>1 DEF Driver, Phases, Busy, Asking
<1>3. Available' /\ Queue' /\ Cached' /\ Wanted'
  BY <1>t, <1>1, Resting DEF Driver
<1>4. Content'
  BY <1>1, ContentStill DEF Driver, X
<1> QED
  BY <1>2, <1>3, <1>4 DEF Driver

\* The network, a read that finds its block, the sleep of the communication process.
LEMMA DriverStill ==
    ASSUME RdsInv, DiskTyped, Driver, server' = server, xchg' = xchg,
           UNCHANGED <<rd_state, rd_seq, requests, cache, free, buf, availsem, want, prmsg, last>>,
           \/ pc' = pc
           \/ pc[rd_comproc] = "sleep" /\ pc' = [pc EXCEPT ![rd_comproc] = "wait"]
    PROVE  Driver'
<1>t. rd_comproc \in Process /\ \A c \in Client : c \in Process /\ c # rd_comproc
  BY DriverTypes
<1>1. /\ \A c \in Client : pc'[c] = pc[c]
      /\ \A p \in Process : Busy(p)' <=> Busy(p)
      /\ pc'[rd_comproc] = pc[rd_comproc] \/ pc'[rd_comproc] = "wait"
  BY <1>t DEF Busy, DiskTyped
<1>2. Phases'
  BY <1>t, <1>1 DEF Driver, Phases, Asking
<1>3. Available' /\ Queue' /\ Cached' /\ Wanted'
  BY <1>1, Resting DEF Driver
<1>4. Content'
  BY ContentStill DEF Driver, X
<1> QED
  BY <1>2, <1>3, <1>4 DEF Driver

\* The server writes what is being written.
LEMMA DriverServer ==
    ASSUME RdsInv, DiskTyped, Driver, Network, rdserver
    PROVE  Driver'
<1>1. /\ xchg' = xchg /\ pc' = pc
      /\ UNCHANGED <<rd_state, rd_seq, requests, cache, free, buf, availsem, want, prmsg, last>>
  BY DEF rdserver, listVars, semVars, procVars, histVars
<1>2. Phases'
  BY <1>1 DEF Driver, Phases, Busy, Asking
<1>3. Available' /\ Queue' /\ Cached' /\ Wanted'
  BY <1>1, Resting DEF Driver
<1>4. server'.file = server.file \/ \E v \in Datum :
         X.type = "write" /\ server'.file = [server.file EXCEPT ![X.blk] = v]
  <2>1. PICK m : /\ m = Head(wire.up) /\ Up # <<>>
                 /\ \/ server' = server
                    \/ /\ m.seq >= server.seq \/ m.seq = 1
                       /\ server'.file = IF m.type = "write" /\ server.open
                                         THEN [server.file EXCEPT ![m.blk] = m.data]
                                         ELSE server.file
    BY ServerFacts
  <2>2. m = Up[1] /\ 1 \in 1..Len(Up) /\ m \in Packet
    BY <2>1, TailFacts, NetTypes DEF Up
  <2>3. CASE m.type = "write" /\ server' # server
    <3>1. m.seq >= server.seq
      <4>1. m.seq = 1 => rd_seq <= 2
        BY <2>2 DEF Network, First
      <4>2. server.seq < rd_seq /\ server.seq \in Nat /\ rd_seq \in Nat /\ m.seq \in Nat
        BY <2>2, NetTypes DEF Network, Numbers, Packet
      <4> QED
        BY <2>1, <2>3, <4>1, <4>2
    <3>2. Heard(Up[1])
      BY <2>2, <2>3, <3>1 DEF Heard, Own
    <3>3. m.type = X.type /\ m.blk = X.blk
      BY <2>2, <3>2 DEF Network, Truthful
    <3>4. m.data \in Datum
      BY <2>2 DEF Packet
    <3> QED
      BY <2>1, <2>3, <3>3, <3>4
  <2>4. CASE ~(m.type = "write" /\ server' # server)
    BY <2>1, <2>4
  <2> QED
    BY <2>3, <2>4
<1>5. Content'
  <2>1. X' = X
    BY <1>1 DEF X
  <2>2. \A k \in Block : (X.type = "write" /\ X.blk = k) \/ server'.file[k] = server.file[k]
    BY <1>4 DEF DiskTyped
  <2> QED
    BY <1>1, <2>1, <2>2 DEF Driver, Content
<1> QED
  BY <1>2, <1>3, <1>5 DEF Driver

\* An exchange goes on.
LEMMA DriverGoesOn ==
    ASSUME RdsInv, DiskTyped, Driver, NEW p \in Process, Busy(p),
           pc'[p] \in {"rdscomm", "udp_recv"}, \A q \in Process : q # p => pc'[q] = pc[q],
           xchg'[p].type = xchg[p].type, xchg'[p].blk = xchg[p].blk, xchg'[p].data = xchg[p].data,
           \A q \in Process : q # p => xchg'[q] = xchg[q],
           \A c \in Client : c # p => prmsg'[c] = prmsg[c],
           UNCHANGED <<rd_state, rd_seq, requests, cache, free, buf, availsem, want, last, server>>
    PROVE  Driver'
<1>t. rd_comproc \in Process /\ \A c \in Client : c \in Process /\ c # rd_comproc
  BY DriverTypes
<1>1. \A q \in Process : xchg'[q].type = xchg[q].type /\ (Busy(q)' <=> Busy(q))
  BY DEF Busy
<1>2. Phases'
  BY <1>t, <1>1 DEF Driver, Phases, Busy, Asking
<1>3. Available' /\ Queue' /\ Cached' /\ Wanted'
  <2>1. \A c \in Client :
           \/ pc'[c] = pc[c] /\ (prmsg'[c] = prmsg[c] \/ pc[c] # "receive")
           \/ pc[c] \in {"run", "rdscomm", "udp_recv"} /\ pc'[c] \in {"run", "rdscomm", "udp_recv"}
    BY <1>t DEF Busy
  <2> QED
    BY <2>1, Resting DEF Driver
<1>4. X'.type = X.type /\ X'.blk = X.blk /\ X'.data = X.data
  BY <1>t DEF X
<1>5. Content'
  BY <1>4, ContentStill DEF Driver
<1> QED
  BY <1>2, <1>3, <1>5 DEF Driver

\* A client's exchange ends, with the device open or not.
LEMMA DriverOpened ==
    ASSUME Alone, RdsInv, DiskTyped, Driver, NEW c \in Client, Busy(c), xchg[c].type = "open",
           pc' = [pc EXCEPT ![c] = "run"], xchg' = [xchg EXCEPT ![c] = Idle],
           rd_state' \in {"FREE", "OPEN"},
           UNCHANGED <<rd_seq, requests, cache, free, buf, availsem, want, prmsg, last, server>>
    PROVE  Driver'
<1>t. c \in Process /\ rd_comproc \in Process /\ c # rd_comproc /\ \A d \in Client : d = c
  BY DriverTypes DEF Alone
<1>1. /\ pc'[c] = "run" /\ xchg'[c].type = "none"
      /\ \A q \in Process : q # c => pc'[q] = pc[q] /\ xchg'[q] = xchg[q]
  BY <1>t DEF DiskTyped, Idle
<1>2. rd_state = "PEND" /\ requests = <<>>
  BY DEF Driver, Phases
<1>3. Phases'
  <2>1. \A q \in Process : Busy(q)' <=> xchg'[q].type # "none"
    BY <1>1 DEF Driver, Phases, Busy
  <2>2. rd_seq > 1
    BY <1>2 DEF Driver, Phases
  <2> QED
    BY <1>t, <1>1, <1>2, <2>1, <2>2 DEF Driver, Phases, Busy, Asking
<1>4. Available' /\ Queue' /\ Cached' /\ Wanted'
  <2>1. pc[c] \in {"run", "rdscomm", "udp_recv"} /\ pc'[c] \in {"run", "rdscomm", "udp_recv"}
    BY <1>1 DEF Busy
  <2> QED
    BY <1>t, <2>1, Resting DEF Driver
<1>5. Content'
  <2>1. X' = X
    BY <1>t, <1>1 DEF X
  <2> QED
    BY <2>1, ContentStill DEF Driver
<1> QED
  BY <1>3, <1>4, <1>5 DEF Driver

\* s is t with elements left out.
Within(s, t) ==
    /\ \A i \in 1..Len(s) : \E k \in 1..Len(t) : s[i] = t[k]
    /\ \A i, j \in 1..Len(s) : i < j =>
          \E k, l \in 1..Len(t) : k < l /\ s[i] = t[k] /\ s[j] = t[l]

LEMMA UnlinkWithin ==
    ASSUME NEW S, NEW s \in Seq(S), NEW k \in 1..Len(s), Once(s)
    PROVE  /\ Within(Unlink(s, s[k]), s)
           /\ \A i \in 1..Len(Unlink(s, s[k])) :
                 \E j \in 1..Len(s) : j # k /\ Unlink(s, s[k])[i] = s[j]
           /\ Len(Unlink(s, s[k])) = Len(s) - 1
<1>1. PICK u : u = Unlink(s, s[k])
  OBVIOUS
<1>2. /\ u \in Seq(S) /\ Len(u) = Len(s) - 1
      /\ \A i \in 1..Len(u) : LET j == IF i < k THEN i ELSE i + 1
            IN  j \in 1..Len(s) /\ j # k /\ u[i] = s[j]
  <2>1. /\ Unlink(s, s[k]) \in Seq(S) /\ Len(Unlink(s, s[k])) = Len(s) - 1
        /\ \A i \in 1..Len(Unlink(s, s[k])) : LET j == IF i < k THEN i ELSE i + 1
              IN  j \in 1..Len(s) /\ j # k /\ Unlink(s, s[k])[i] = s[j]
    BY UnlinkOrder
  <2> QED
    BY <1>1, <2>1, Zenon
<1>3. Len(u) \in Nat /\ Len(s) \in Nat
  BY <1>2, LenProperties
<1>4. ASSUME NEW i \in 1..Len(u), NEW j \in 1..Len(u), i < j
      PROVE  \E m, n \in 1..Len(s) : m < n /\ u[i] = s[m] /\ u[j] = s[n]
  <2>1. PICK m \in Nat : m = IF i < k THEN i ELSE i + 1
    BY <1>3
  <2>2. PICK n \in Nat : n = IF j < k THEN j ELSE j + 1
    BY <1>3
  <2>3. m \in 1..Len(s) /\ n \in 1..Len(s) /\ u[i] = s[m] /\ u[j] = s[n]
    BY <1>2, <2>1, <2>2
  <2>4. m < n
    BY <1>3, <1>4, <2>1, <2>2
  <2> QED
    BY <2>3, <2>4
<1>5. \A i \in 1..Len(u) : \E j \in 1..Len(s) : j # k /\ u[i] = s[j]
  BY <1>2
<1>6. Within(u, s)
  BY <1>4, <1>5 DEF Within
<1> QED
  BY <1>1, <1>2, <1>5, <1>6, Zenon

\* A request enters the queue: a write is done with for the client, a read is waited for.
LEMMA DriverRequest ==
    ASSUME Alone, RdsInv, DiskTyped, Driver, NEW c \in Client, pc[c] \in {"run", "granted"},
           rd_state = "OPEN",
           NEW r \in Request, r.op \in {"read", "write"}, r.blk \in Block,
           r.op = "read" => last[r.blk] # Hole,
           NEW b \in Buf, NEW fl, NEW ca, request(c, r, b, fl, ca),
           pc' = [pc EXCEPT ![c] = After(r)], UNCHANGED <<rd_state, rd_seq, xchg, server>>,
           availsem'.waiting = <<>>, availsem'.count = Len(fl) + Len(ca),
           Len(fl) + Len(ca) \in Nat,
           ~On(b, requests), Within(ca, cache), \A i \in 1..Len(ca) : ca[i] # b,
           \A i \in 1..Len(requests) : buf[requests[i]].blknum # r.blk,
           \A i \in 1..Len(ca) : buf[ca[i]].blknum = r.blk => buf[ca[i]].status = "INVALID"
    PROVE  Driver'
<1>t. /\ c \in Process /\ rd_comproc \in Process /\ c # rd_comproc /\ \A d \in Client : d = c
      /\ requests \in Seq(Buf) /\ Len(requests) \in Nat
      /\ \A i \in 1..Len(requests) : requests[i] \in Buf
      /\ \A i \in 1..Len(cache) : cache[i] \in Buf /\ buf[cache[i]].refcnt \in Int
  BY DriverTypes DEF Alone, Buffer
<1>n. PICK n \in Nat : n = Len(requests) + 1
  BY <1>t
<1>1. /\ requests' = Append(requests, b) /\ cache' = ca /\ free' = fl
      /\ want' = [want EXCEPT ![c] = r]
      /\ last' = IF r.op = "write" THEN [last EXCEPT ![r.blk] = r.val] ELSE last
      /\ prmsg' = IF r.op = "write" THEN prmsg ELSE [prmsg EXCEPT ![c] = NoBuf]
  BY DEF request
<1>2. PICK e : e = [op     |-> r.op,
                    refcnt |-> IF r.op = "write" THEN 0 ELSE 1,
                    blknum |-> r.blk,
                    status |-> IF r.op = "write" THEN "VALID" ELSE "INVALID",
                    pid    |-> c,
                    block  |-> IF r.op = "write" THEN r.val ELSE buf[b].block]
  OBVIOUS
<1>3. buf' = [buf EXCEPT ![b] = e]
  BY <1>2 DEF request
<1>4. buf'[b] = e /\ \A x \in Buf : x # b => buf'[x] = buf[x]
  BY <1>3 DEF DiskTyped
<1>5. /\ Len(requests') = n /\ requests'[n] = b /\ requests' # <<>> /\ n \in 1..n
      /\ \A i \in 1..n : i # n => i \in 1..Len(requests) /\ requests'[i] = requests[i] /\ i < n
  <2>1. /\ Len(requests') = Len(requests) + 1 /\ requests'[Len(requests) + 1] = b
        /\ requests' # <<>>
        /\ \A i \in 1..Len(requests) : requests'[i] = requests[i]
    BY <1>t, <1>1, AppendFacts
  <2> QED
    BY <1>t, <1>n, <2>1
<1>6. /\ \A i \in 1..Len(requests) : requests[i] # b /\ buf'[requests[i]] = buf[requests[i]]
      /\ \A i \in 1..Len(ca) : ca[i] # b /\ ca[i] \in Buf /\ buf'[ca[i]] = buf[ca[i]]
  <2>1. \A i \in 1..Len(requests) : requests[i] # b
    BY DEF On
  <2>2. \A i \in 1..Len(ca) : ca[i] \in Buf
    BY <1>t DEF Within
  <2> QED
    BY <1>t, <1>4, <2>1, <2>2
<1>7. /\ pc'[c] = After(r) /\ \A q \in Process : q # c => pc'[q] = pc[q]
      /\ After(r) \in {"run", "receive"} /\ (After(r) = "receive" <=> r.op = "read")
      /\ pc[c] # "receive" /\ ~Busy(c)
  BY <1>t DEF DiskTyped, After, Busy
<1>8. /\ \A i \in 1..Len(requests) : buf[requests[i]].op = "write"
      /\ \A i \in 1..Len(cache) : buf[cache[i]].refcnt <= 0
  BY <1>7, NotReceiving DEF Driver
<1>9. \A k \in Block : k # r.blk => last'[k] = last[k]
  BY <1>1 DEF DiskTyped
<1>10. r.op = "write" => last'[r.blk] = r.val
  BY <1>1 DEF DiskTyped
<1>11. r.op = "read" => last' = last /\ prmsg'[c] = NoBuf
  BY <1>1 DEF DiskTyped
<1>12. Phases'
  <2>1. \A p \in Process : Busy(p)' <=> Busy(p)
    BY <1>7 DEF Busy
  <2>2. \A d \in Client : pc'[d] \in {"run", "receive"} /\ ~Busy(d)' /\ rd_state # "PEND"
    BY <1>t, <1>7 DEF Busy
  <2> QED
    BY <1>t, <1>7, <2>1, <2>2 DEF Driver, Phases
<1>13. Available'
  BY <1>t, <1>1, <1>7 DEF Available
<1>14. Queue'
  <2>1. ASSUME NEW i \in 1..n, i # n
        PROVE  LET f == buf'[requests'[i]] IN
                  /\ f.op = "write" /\ f.blknum \in Block /\ f.blknum # r.blk
                  /\ f.status = "VALID" /\ f.block = last'[f.blknum]
    <3>1. i \in 1..Len(requests) /\ buf'[requests'[i]] = buf[requests[i]]
      BY <1>5, <1>6, <2>1
    <3>2. LET f == buf[requests[i]] IN
             /\ f.op = "write" /\ f.blknum \in Block /\ f.blknum # r.blk
             /\ f.status = "VALID" /\ f.block = last[f.blknum]
      BY <1>8, <3>1 DEF Driver, Queue
    <3> QED
      BY <1>9, <3>1, <3>2
  <2>2. ASSUME NEW i \in 1..n, NEW j \in 1..n, i # j
        PROVE  buf'[requests'[i]].blknum # buf'[requests'[j]].blknum
    <3>1. CASE i = n \/ j = n
      <4>1. buf'[requests'[n]].blknum = r.blk
        BY <1>2, <1>4, <1>5
      <4> QED
        BY <2>1, <2>2, <3>1, <4>1
    <3>2. CASE i # n /\ j # n
      <4>1. /\ i \in 1..Len(requests) /\ buf'[requests'[i]] = buf[requests[i]]
            /\ j \in 1..Len(requests) /\ buf'[requests'[j]] = buf[requests[j]]
        BY <1>5, <1>6, <3>2
      <4> QED
        BY <2>2, <4>1 DEF Driver, Queue
    <3> QED
      BY <3>1, <3>2
  <2>3. LET f == buf'[requests'[n]] IN
           /\ f.op \in {"read", "write"} /\ f.blknum \in Block
           /\ f.op = "write" => f.status = "VALID" /\ f.block = last'[f.blknum]
           /\ f.op = "read" => /\ f.status = "INVALID" /\ f.pid \in Client
                               /\ pc'[f.pid] = "receive" /\ prmsg'[f.pid] = NoBuf
                               /\ want'[f.pid].blk = f.blknum
    <3>1. buf'[requests'[n]] = e
      BY <1>4, <1>5
    <3>2. want'[c] = r
      BY <1>1 DEF DiskTyped
    <3>3. /\ e.op = r.op /\ e.blknum = r.blk /\ e.pid = c
          /\ e.status = (IF r.op = "write" THEN "VALID" ELSE "INVALID")
          /\ r.op = "write" => e.block = r.val
      BY <1>2
    <3> QED
      BY <1>7, <1>10, <1>11, <3>1, <3>2, <3>3
  <2> QED
    BY <1>5, <2>1, <2>2, <2>3 DEF Queue
<1>15. Cached'
  <2>1. ASSUME NEW i \in 1..Len(ca)
        PROVE  buf'[ca[i]].refcnt <= 1 /\ buf'[ca[i]].refcnt # 1 /\ buf'[ca[i]].refcnt <= 0
    <3>1. buf[ca[i]].refcnt \in Int /\ buf[ca[i]].refcnt <= 0
      BY <1>t, <1>8 DEF Within
    <3> QED
      BY <1>6, <3>1
  <2>2. ASSUME NEW i \in 1..Len(ca), buf[ca[i]].status = "VALID"
        PROVE  /\ buf[ca[i]].blknum \in Block /\ buf[ca[i]].block = last'[buf[ca[i]].blknum]
               /\ \A j \in 1..n : buf'[requests'[j]].blknum # buf[ca[i]].blknum
               /\ \A j \in 1..Len(ca) : j # i /\ buf[ca[j]].blknum = buf[ca[i]].blknum =>
                     i < j /\ buf[ca[j]].status = "INVALID"
    <3>1. PICK k \in 1..Len(cache) : ca[i] = cache[k]
      BY DEF Within
    <3>2. /\ buf[cache[k]].blknum \in Block /\ buf[cache[k]].block = last[buf[cache[k]].blknum]
          /\ \A j \in 1..Len(requests) : buf[requests[j]].blknum # buf[cache[k]].blknum
      BY <2>2, <3>1 DEF Driver, Cached
    <3>3. buf[ca[i]].blknum # r.blk
      BY <2>2
    <3>4. \A j \in 1..n : buf'[requests'[j]].blknum # buf[ca[i]].blknum
      <4>1. buf'[requests'[n]].blknum = r.blk
        BY <1>2, <1>4, <1>5
      <4> QED
        BY <1>5, <1>6, <3>1, <3>2, <3>3, <4>1
    <3>5. ASSUME NEW j \in 1..Len(ca), j # i, buf[ca[j]].blknum = buf[ca[i]].blknum
          PROVE  i < j /\ buf[ca[j]].status = "INVALID"
      <4>1. CASE i < j
        <5>1. PICK x \in 1..Len(cache), y \in 1..Len(cache) :
                      x < y /\ ca[i] = cache[x] /\ ca[j] = cache[y]
          BY <4>1 DEF Within
        <5> QED
          BY <2>2, <3>5, <4>1, <5>1 DEF Driver, Cached
      <4>2. CASE j < i
        <5>1. PICK x \in 1..Len(cache), y \in 1..Len(cache) :
                      x < y /\ ca[j] = cache[x] /\ ca[i] = cache[y]
          BY <4>2 DEF Within
        <5>2. y < x
          BY <2>2, <3>5, <5>1 DEF Driver, Cached
        <5> QED
          BY <5>1, <5>2
      <4> QED
        BY <3>5, <4>1, <4>2
    <3> QED
      BY <1>9, <3>1, <3>2, <3>3, <3>4, <3>5
  <2>3. ASSUME NEW i \in 1..Len(cache')
        PROVE  /\ i \in 1..Len(ca) /\ cache'[i] = ca[i] /\ buf'[cache'[i]] = buf[ca[i]]
               /\ \A j \in 1..Len(cache') : j \in 1..Len(ca) /\ buf'[cache'[j]] = buf[ca[j]]
    BY <1>1, <1>6
  <2>4. Len(requests') = n
    BY <1>5
  <2>5. ASSUME NEW i \in 1..Len(cache'), buf'[cache'[i]].status = "VALID"
        PROVE  LET f == buf'[cache'[i]] IN
                  /\ f.blknum \in Block /\ f.block = last'[f.blknum]
                  /\ \A j \in 1..Len(requests') : buf'[requests'[j]].blknum # f.blknum
                  /\ \A j \in 1..Len(cache') :
                        j # i /\ buf'[cache'[j]].blknum = f.blknum =>
                           i < j /\ buf'[cache'[j]].status = "INVALID"
    <3>1. i \in 1..Len(ca) /\ buf'[cache'[i]] = buf[ca[i]] /\ buf[ca[i]].status = "VALID"
      BY <2>3, <2>5
    <3>2. /\ buf[ca[i]].blknum \in Block /\ buf[ca[i]].block = last'[buf[ca[i]].blknum]
          /\ \A j \in 1..n : buf'[requests'[j]].blknum # buf[ca[i]].blknum
          /\ \A j \in 1..Len(ca) : j # i /\ buf[ca[j]].blknum = buf[ca[i]].blknum =>
                i < j /\ buf[ca[j]].status = "INVALID"
      BY <2>2, <3>1
    <3>3. \A j \in 1..Len(cache') : j \in 1..Len(ca) /\ buf'[cache'[j]] = buf[ca[j]]
      BY <2>3
    <3> QED
      BY <2>4, <3>1, <3>2, <3>3
  <2>6. ASSUME NEW i \in 1..Len(cache')
        PROVE  /\ buf'[cache'[i]].refcnt <= 1 /\ buf'[cache'[i]].refcnt # 1
               /\ buf'[cache'[i]].refcnt <= 0
    BY <2>1, <2>3
  <2> QED
    BY <2>5, <2>6 DEF Cached
<1>16. Wanted'
  <2>1. CASE r.op = "write"
    BY <1>t, <1>7, <2>1 DEF Wanted, Asking
  <2>2. CASE r.op = "read"
    <3>1. want'[c] = r
      BY <1>1 DEF DiskTyped
    <3>2. buf'[requests'[Len(requests')]].op = "read" /\ buf'[requests'[Len(requests')]].pid = c
      BY <1>2, <1>4, <1>5, <2>2
    <3> QED
      BY <1>t, <1>5, <1>7, <1>11, <2>2, <3>1, <3>2 DEF Wanted, Asking
  <2> QED
    BY <2>1, <2>2
<1>17. Content'
  <2>1. X' = X
    BY DEF X
  <2>2. X.type # "read"
    <3>1. requests # <<>> => 1 \in 1..Len(requests) /\ Head(requests) = requests[1]
      BY <1>t, TailFacts
    <3> QED
      BY <1>8, <3>1 DEF Driver, Content
  <2>3. ASSUME NEW k \in Block, \A i \in 1..n : buf'[requests'[i]].op = "write" =>
                  buf'[requests'[i]].blknum # k
        PROVE  IF X.type = "write" /\ X.blk = k THEN X.data = last'[k]
               ELSE server.file[k] = last'[k]
    <3>1. \A i \in 1..Len(requests) : i \in 1..n /\ requests'[i] = requests[i]
      BY <1>t, <1>n, <1>1, AppendFacts
    <3>2. \A i \in 1..Len(requests) : buf[requests[i]].op = "write" => buf[requests[i]].blknum # k
      BY <1>6, <2>3, <3>1
    <3>3. last'[k] = last[k]
      <4>1. CASE r.op = "read"
        BY <1>11, <4>1
      <4>2. CASE r.op = "write"
        <5>1. k # r.blk
          BY <1>2, <1>4, <1>5, <2>3, <4>2
        <5> QED
          BY <1>9, <5>1
      <4> QED
        BY <4>1, <4>2
    <3> QED
      BY <3>2, <3>3 DEF Driver, Content
  <2> QED
    BY <1>5, <2>1, <2>2, <2>3 DEF Driver, Content
<1> QED
  BY <1>12, <1>13, <1>14, <1>15, <1>16, <1>17 DEF Driver

\* rdsbufalloc(): from the free list, or from the cache.
LEMMA DriverAlloc ==
    ASSUME Alone, RdsInv, DiskTyped, Driver, halted' = "no",
           NEW c \in Client, pc[c] \in {"run", "granted"}, rd_state = "OPEN",
           NEW r \in Request, r.op \in {"read", "write"}, r.blk \in Block,
           r.op = "read" => last[r.blk] # Hole,
           rdsbufalloc(c, r),
           pc' = [pc EXCEPT ![c] = After(r)], UNCHANGED <<rd_state, rd_seq, xchg, server>>,
           availsem'.waiting = <<>>, availsem'.count = Len(free) + Len(cache) - 1,
           \A i \in 1..Len(requests) : buf[requests[i]].blknum # r.blk,
           \A i \in 1..Len(cache) : buf[cache[i]].blknum = r.blk => buf[cache[i]].status = "INVALID"
    PROVE  Driver'
<1>t. /\ free \in Seq(Buf) /\ cache \in Seq(Buf) /\ Len(free) \in Nat /\ Len(cache) \in Nat
      /\ \A i \in 1..Len(cache) : cache[i] \in Buf
      /\ Partition(requests, cache, free)
  BY DriverTypes DEF RdsInv, Lists
<1>1. CASE free # <<>>
  <2>1. PICK b, fl : b \in Buf /\ b = Head(free) /\ fl = Tail(free) /\ request(c, r, b, fl, cache)
    BY <1>t, <1>1, TailFacts DEF rdsbufalloc
  <2>2. Len(fl) = Len(free) - 1 /\ Len(fl) \in Nat /\ On(b, free)
    BY <1>t, <1>1, <2>1, TailFacts DEF On
  <2>3. ~On(b, requests) /\ \A i \in 1..Len(cache) : cache[i] # b
    <3>1. ~(On(b, requests) /\ On(b, free)) /\ ~(On(b, cache) /\ On(b, free))
      BY <1>t, <2>1 DEF Partition
    <3>2. ~On(b, requests) /\ ~On(b, cache)
      BY <2>2, <3>1
    <3> QED
      BY <3>2 DEF On
  <2>4. Within(cache, cache)
    BY DEF Within
  <2>5. availsem'.count = Len(fl) + Len(cache) /\ Len(fl) + Len(cache) \in Nat
    BY <1>t, <2>2
  <2> QED
    BY <2>1, <2>3, <2>4, <2>5, DriverRequest
<1>2. CASE free = <<>> /\ reusable # {}
  <2>1. PICK i \in reusable : request(c, r, cache[i], free, Unlink(cache, cache[i]))
    BY <1>2 DEF rdsbufalloc
  <2>2. i \in 1..Len(cache)
    BY <2>1 DEF reusable, LastAt
  <2>3. PICK b, ca :
                /\ b \in Buf /\ b = cache[i] /\ ca = Unlink(cache, cache[i])
                /\ request(c, r, b, free, ca)
    BY <1>t, <2>1, <2>2
  <2>4. Once(cache) /\ On(b, cache)
    BY <1>t, <2>2, <2>3 DEF Partition, On
  <2>9. ~On(b, requests)
    <3>1. ~(On(b, requests) /\ On(b, cache))
      BY <1>t, <2>3 DEF Partition
    <3> QED
      BY <2>4, <3>1
  <2>5. /\ Within(ca, cache) /\ Len(ca) = Len(cache) - 1
        /\ \A j \in 1..Len(ca) : \E k \in 1..Len(cache) : k # i /\ ca[j] = cache[k]
    BY <1>t, <2>2, <2>3, <2>4, UnlinkWithin
  <2>6. ASSUME NEW j \in 1..Len(ca)
        PROVE  ca[j] # b
    <3>1. PICK k \in 1..Len(cache) : k # i /\ ca[j] = cache[k]
      BY <2>5
    <3> QED
      BY <2>2, <2>3, <2>4, <3>1 DEF Once
  <2>7. availsem'.count = Len(free) + Len(ca) /\ Len(free) + Len(ca) \in Nat
    BY <1>t, <2>2, <2>5
  <2>8. \A j \in 1..Len(ca) : buf[ca[j]].blknum = r.blk => buf[ca[j]].status = "INVALID"
    BY <2>5
  <2> QED
    BY <2>3, <2>5, <2>6, <2>7, <2>8, <2>9, DriverRequest
<1>3. CASE free = <<>> /\ reusable = {}
  BY <1>3 DEF rdsbufalloc
<1> QED
  BY <1>1, <1>2, <1>3

\* wait(rd_availsem): the client goes on with a buffer, or waits for one.
LEMMA DriverWait ==
    ASSUME Alone, RdsInv, DiskTyped, Driver, halted' = "no",
           NEW c \in Client, pc[c] = "run", rd_state = "OPEN",
           NEW r \in Request, r.op \in {"read", "write"}, r.blk \in Block,
           r.op = "read" => last[r.blk] # Hole,
           waitAvail(c, r), UNCHANGED <<rd_state, rd_seq, xchg, server>>,
           \A i \in 1..Len(requests) : buf[requests[i]].blknum # r.blk,
           \A i \in 1..Len(cache) : buf[cache[i]].blknum = r.blk => buf[cache[i]].status = "INVALID"
    PROVE  Driver'
<1>t. /\ c \in Process /\ rd_comproc \in Process /\ c # rd_comproc /\ \A d \in Client : d = c
      /\ Len(free) \in Nat /\ Len(cache) \in Nat
      /\ availsem \in [count : Int, waiting : Seq(Client)]
  BY DriverTypes DEF Alone, DiskTyped
<1>1. availsem.count = Len(free) + Len(cache) /\ availsem.waiting = <<>>
  BY <1>t DEF Driver, Available
<1>2. CASE availsem.count > 0
  <2>1. /\ availsem' = [availsem EXCEPT !.count = availsem.count - 1]
        /\ rdsbufalloc(c, r) /\ pc' = [pc EXCEPT ![c] = After(r)]
    BY <1>2 DEF waitAvail
  <2>2. availsem'.waiting = <<>> /\ availsem'.count = Len(free) + Len(cache) - 1
    BY <1>t, <1>1, <2>1
  <2> QED
    BY <2>1, <2>2, DriverAlloc
<1>3. CASE ~(availsem.count > 0)
  <2>1. /\ availsem' = [count |-> availsem.count - 1, waiting |-> Append(availsem.waiting, c)]
        /\ pc' = [pc EXCEPT ![c] = "waitAvail"] /\ want' = [want EXCEPT ![c] = r]
        /\ UNCHANGED <<requests, cache, free, buf, prmsg, last>>
    BY <1>3 DEF waitAvail, listVars
  <2>2. availsem'.count = -1 /\ availsem'.waiting = <<c>> /\ Len(free) + Len(cache) = 0
    BY <1>t, <1>1, <1>3, <2>1
  <2>3. /\ pc'[c] = "waitAvail" /\ \A q \in Process : q # c => pc'[q] = pc[q]
        /\ want'[c] = r
    BY <1>t, <2>1 DEF DiskTyped
  <2>4. /\ \A i \in 1..Len(requests) : buf[requests[i]].op = "write"
        /\ \A i \in 1..Len(cache) : buf[cache[i]].refcnt <= 0
    BY NotReceiving DEF Driver
  <2>5. Phases'
    BY <1>t, <2>1, <2>3 DEF Driver, Phases, Busy, Asking
  <2>6. Available'
    BY <1>t, <2>1, <2>2, <2>3 DEF Available
  <2>7. Queue'
    BY <2>1, <2>4 DEF Driver, Queue
  <2>8. Cached'
    <3>1. \A i \in 1..Len(cache) : buf[cache[i]].refcnt # 1
      BY <2>4
    <3>2. UNCHANGED <<requests, cache, buf, last>>
      BY <2>1
    <3> QED
      BY <3>1, <3>2 DEF Driver, Cached
  <2>9. Wanted'
    BY <1>t, <2>1, <2>3 DEF Wanted, Asking
  <2>10. Content'
    BY <2>1, ContentStill DEF Driver, X
  <2> QED
    BY <2>5, <2>6, <2>7, <2>8, <2>9, <2>10 DEF Driver
<1> QED
  BY <1>2, <1>3

\* What the walks through the queue and the cache find.
LEMMA Walks ==
    ASSUME Alone, RdsInv, DiskTyped, Driver, NEW c \in Client, pc[c] = "run", NEW b \in Block
    PROVE  /\ \A i \in 1..Len(cache) :
                 buf[cache[i]].status = "VALID" /\ buf[cache[i]].blknum = b => i \in cached(b)
           /\ \A i, j \in cached(b) : i = j
           /\ \A i \in 1..Len(requests) : buf[requests[i]].blknum = b =>
                 i \in recent(b) /\ i \in pending(b) /\ buf[requests[i]].op = "write"
<1>t. Len(requests) \in Nat /\ Len(cache) \in Nat
  BY DriverTypes
<1>1. ASSUME NEW i \in 1..Len(cache), buf[cache[i]].status = "VALID", buf[cache[i]].blknum = b
      PROVE  i \in cached(b)
  <2>1. ASSUME NEW j \in 1..(i - 1)
        PROVE  buf[cache[j]].blknum # b
    <3>1. j \in 1..Len(cache) /\ j # i /\ ~(i < j)
      BY <1>t
    <3> QED
      BY <1>1, <3>1 DEF Driver, Cached
  <2> QED
    BY <1>1, <2>1 DEF cached, FirstAt
<1>2. ASSUME NEW i \in cached(b), NEW j \in cached(b)
      PROVE  i = j
  <2>1. /\ i \in 1..Len(cache) /\ buf[cache[i]].blknum = b
        /\ \A k \in 1..(i - 1) : buf[cache[k]].blknum # b
        /\ j \in 1..Len(cache) /\ buf[cache[j]].blknum = b
        /\ \A k \in 1..(j - 1) : buf[cache[k]].blknum # b
    BY DEF cached, FirstAt
  <2>2. i \notin 1..(j - 1) /\ j \notin 1..(i - 1)
    BY <2>1
  <2> QED
    BY <1>t, <2>1, <2>2
<1>3. ASSUME NEW i \in 1..Len(requests), buf[requests[i]].blknum = b
      PROVE  i \in recent(b) /\ i \in pending(b) /\ buf[requests[i]].op = "write"
  <2>1. buf[requests[i]].op = "write"
    BY NotReceiving DEF Driver
  <2>2. \A j \in 1..Len(requests) : j # i => buf[requests[j]].blknum # b
    BY <1>3 DEF Driver, Queue
  <2>3. \A j \in (i + 1)..Len(requests) : j \in 1..Len(requests) /\ j # i
    BY <1>t
  <2>4. \A j \in 1..(i - 1) : j \in 1..Len(requests) /\ j # i
    BY <1>t
  <2> QED
    BY <1>3, <2>1, <2>2, <2>3, <2>4 DEF recent, LastAt, pending, FirstAt
<1> QED
  BY <1>1, <1>2, <1>3

LEMMA DriverCalls ==
    ASSUME Alone, RdsInv, DiskTyped, Driver, halted' = "no", NEW c \in Client, NEW b \in Block,
           \/ rdsreadMiss(c, b)
           \/ \E v \in Value : rdswriteCached(c, b, v) \/ rdswriteNew(c, b, v)
    PROVE  Driver'
<1>t. /\ c \in Process /\ \A d \in Client : d = c
      /\ cache \in Seq(Buf) /\ free \in Seq(Buf) /\ Len(cache) \in Nat /\ Len(free) \in Nat
      /\ \A i \in 1..Len(cache) : cache[i] \in Buf /\ buf[cache[i]] \in Buffer
      /\ availsem \in [count : Int, waiting : Seq(Client)]
      /\ Partition(requests, cache, free)
  BY DriverTypes DEF Alone, DiskTyped, RdsInv, Lists
<1>1. pc[c] = "run" /\ rd_state = "OPEN"
  BY DEF rdsreadMiss, rdswriteCached, rdswriteNew, mayRead, mayWrite, Calls
<1>2. UNCHANGED <<rd_state, rd_seq, xchg, server>>
  BY DEF rdsreadMiss, rdswriteCached, rdswriteNew, netVars
<1>w. /\ \A i \in 1..Len(cache) :
            buf[cache[i]].status = "VALID" /\ buf[cache[i]].blknum = b => i \in cached(b)
      /\ \A i, j \in cached(b) : i = j
      /\ \A i \in 1..Len(requests) : buf[requests[i]].blknum = b =>
            i \in recent(b) /\ i \in pending(b) /\ buf[requests[i]].op = "write"
      /\ \A i \in 1..Len(cache) : buf[cache[i]].status \in {"VALID", "INVALID"}
  BY <1>t, <1>1, Walks DEF Buffer
<1>3. CASE rdsreadMiss(c, b)
  <2>1. PICK r \in Request : r = [op |-> "read", blk |-> b, val |-> Hole]
    BY DEF Request
  <2>2. r.op = "read" /\ r.blk = b /\ waitAvail(c, r) /\ last[b] # Hole /\ ~Hit(b) /\ ~Queued(b)
    BY <1>3, <2>1 DEF rdsreadMiss, mayRead
  <2>3. \A i \in 1..Len(requests) : buf[requests[i]].blknum # r.blk
    BY <1>w, <2>2 DEF Queued
  <2>4. \A i \in 1..Len(cache) : buf[cache[i]].blknum = r.blk => buf[cache[i]].status = "INVALID"
    BY <1>w, <2>2 DEF Hit
  <2> QED
    BY <1>1, <1>2, <2>2, <2>3, <2>4, DriverWait
<1>4. ASSUME NEW v \in Value, rdswriteNew(c, b, v)
      PROVE  Driver'
  <2>1. PICK r \in Request : r = [op |-> "write", blk |-> b, val |-> v]
    BY DEF Request
  <2>2. r.op = "write" /\ r.blk = b /\ waitAvail(c, r) /\ pending(b) = {} /\ Unused(b) = {}
    BY <1>4, <2>1 DEF rdswriteNew
  <2>3. \A i \in 1..Len(requests) : buf[requests[i]].blknum # r.blk
    BY <1>w, <2>2
  <2>4. \A i \in 1..Len(cache) : buf[cache[i]].refcnt <= 0
    BY <1>1, NotReceiving DEF Driver
  <2>5. \A i \in 1..Len(cache) : buf[cache[i]].blknum = r.blk => buf[cache[i]].status = "INVALID"
    BY <1>w, <2>2, <2>4 DEF Unused
  <2> QED
    BY <1>1, <1>2, <2>2, <2>3, <2>5, DriverWait
<1>5. ASSUME NEW v \in Value, rdswriteCached(c, b, v)
      PROVE  Driver'
  <2>1. PICK r \in Request : r = [op |-> "write", blk |-> b, val |-> v]
    BY DEF Request
  <2>2. r.op = "write" /\ r.blk = b /\ pending(b) = {}
    BY <1>5, <2>1 DEF rdswriteCached
  <2>3. PICK i \in Unused(b) : request(c, r, cache[i], free, Unlink(cache, cache[i]))
    BY <1>5, <2>1 DEF rdswriteCached
  <2>4. i \in 1..Len(cache) /\ i \in cached(b)
    BY DEF Unused, cached, FirstAt
  <2>5. PICK x, ca :
                /\ x \in Buf /\ x = cache[i] /\ ca = Unlink(cache, cache[i])
                /\ request(c, r, x, free, ca)
    BY <1>t, <2>3, <2>4
  <2>6. Once(cache) /\ On(x, cache)
    BY <1>t, <2>4, <2>5 DEF Partition, On
  <2>7. /\ Within(ca, cache) /\ Len(ca) = Len(cache) - 1
        /\ \A j \in 1..Len(ca) : \E k \in 1..Len(cache) : k # i /\ ca[j] = cache[k]
    <3>1. cache \in Seq(Buf) /\ i \in 1..Len(cache) /\ Once(cache)
      BY <1>t, <2>4, <2>6
    <3>2. /\ Within(Unlink(cache, cache[i]), cache) /\ Len(Unlink(cache, cache[i])) = Len(cache) - 1
          /\ \A j \in 1..Len(Unlink(cache, cache[i])) :
                \E k \in 1..Len(cache) : k # i /\ Unlink(cache, cache[i])[j] = cache[k]
      BY <3>1, UnlinkWithin
    <3> QED
      BY <2>5, <3>2
  <2>8. ~On(x, requests) /\ \A j \in 1..Len(ca) : ca[j] # x
    BY <1>t, <2>4, <2>5, <2>6, <2>7 DEF Partition, Once
  <2>9. \A j \in 1..Len(ca) : buf[ca[j]].blknum = r.blk => buf[ca[j]].status = "INVALID"
    <3>1. SUFFICES ASSUME NEW j \in 1..Len(ca), buf[ca[j]].blknum = r.blk
                   PROVE  buf[ca[j]].status = "INVALID"
      OBVIOUS
    <3>2. PICK k \in 1..Len(cache) : k # i /\ ca[j] = cache[k]
      BY <2>7
    <3>3. buf[cache[k]].status # "VALID"
      BY <1>w, <2>2, <2>4, <3>1, <3>2
    <3> QED
      BY <1>w, <3>2, <3>3
  <2>10. \A j \in 1..Len(requests) : buf[requests[j]].blknum # r.blk
    BY <1>w, <2>2
  <2>11. /\ availsem'.waiting = <<>> /\ availsem'.count = Len(free) + Len(ca)
         /\ Len(free) + Len(ca) \in Nat
    <3>1. availsem.count = Len(free) + Len(cache) /\ availsem.waiting = <<>>
      BY <1>t, <1>1 DEF Driver, Available
    <3>2. Len(cache) > 0
      BY <1>t, <2>4
    <3>3. availsem' = IF availsem.count > 0 THEN [availsem EXCEPT !.count = availsem.count - 1]
                      ELSE availsem
      BY <1>5 DEF rdswriteCached
    <3>4. availsem' = [availsem EXCEPT !.count = availsem.count - 1]
      BY <1>t, <3>1, <3>2, <3>3
    <3>5. availsem'.count = availsem.count - 1 /\ availsem'.waiting = availsem.waiting
      BY <1>t, <3>4
    <3> QED
      BY <1>t, <2>7, <3>1, <3>2, <3>5
  <2>12. pc' = [pc EXCEPT ![c] = After(r)]
    BY <1>t, <1>1, <1>5, <2>2 DEF rdswriteCached, After, DiskTyped
  <2> QED
    BY <1>1, <1>2, <2>2, <2>5, <2>7, <2>8, <2>9, <2>10, <2>11, <2>12, DriverRequest
<1> QED
  BY <1>3, <1>4, <1>5

LEMMA DriverGranted ==
    ASSUME Alone, RdsInv, DiskTyped, Driver, halted' = "no", NEW c \in Client, granted(c)
    PROVE  Driver'
<1>t. \A d \in Client : d = c
  BY DEF Alone
<1>1. /\ pc[c] = "granted" /\ rdsbufalloc(c, want[c]) /\ pc' = [pc EXCEPT ![c] = After(want[c])]
      /\ UNCHANGED <<rd_state, rd_seq, xchg, server, availsem>>
  BY DEF granted, netVars
<1>2. rd_state = "OPEN"
  BY <1>1 DEF Driver, Phases, Asking
<1>3. PICK r \in Request : r = want[c]
  BY DEF DiskTyped
<1>4. /\ r.blk \in Block /\ r.op \in {"read", "write"}
      /\ r.op = "read" => last[r.blk] # Hole
      /\ \A i \in 1..Len(requests) : buf[requests[i]].blknum # r.blk
      /\ \A i \in 1..Len(cache) : buf[cache[i]].blknum = r.blk => buf[cache[i]].status = "INVALID"
  BY <1>1, <1>3 DEF Driver, Wanted, Asking
<1>5. availsem'.waiting = <<>> /\ availsem'.count = Len(free) + Len(cache) - 1
  BY <1>t, <1>1 DEF Driver, Available
<1>6. rdsbufalloc(c, r) /\ pc' = [pc EXCEPT ![c] = After(r)] /\ pc[c] \in {"run", "granted"}
  BY <1>1, <1>3
<1>7. UNCHANGED <<rd_state, rd_seq, xchg, server>>
  BY <1>1
<1> QED
  BY <1>2, <1>4, <1>5, <1>6, <1>7, DriverAlloc

\* A write to a block with a write in the queue.
LEMMA DriverReplace ==
    ASSUME Alone, RdsInv, DiskTyped, Driver, NEW c \in Client, NEW b \in Block, NEW v \in Value,
           rdswriteReplace(c, b, v)
    PROVE  Driver'
<1>t. /\ \A d \in Client : d = c
      /\ \A i \in 1..Len(requests) : requests[i] \in Buf /\ buf[requests[i]] \in Buffer
      /\ \A i \in 1..Len(cache) : cache[i] \in Buf
      /\ \A i \in 1..Len(requests), j \in 1..Len(cache) : requests[i] # cache[j]
      /\ requests # <<>> => 1 \in 1..Len(requests) /\ Head(requests) = requests[1]
  BY DriverTypes, TailFacts DEF Alone
<1>1. /\ pc[c] = "run" /\ pc' = pc /\ xchg' = xchg /\ last' = [last EXCEPT ![b] = v]
      /\ UNCHANGED <<rd_state, rd_seq, requests, cache, free, availsem, want, prmsg, server>>
  BY DEF rdswriteReplace, mayWrite, Calls, semVars, procVars, netVars
<1>2. PICK i \in pending(b) : buf' = [buf EXCEPT ![requests[i]].block = v]
  BY DEF rdswriteReplace
<1>3. i \in 1..Len(requests) /\ buf[requests[i]].blknum = b /\ buf[requests[i]].op = "write"
  BY DEF pending, FirstAt
<1>4. PICK x \in Buf :
         x = requests[i] /\ x \in Buf /\ buf[x] \in Buffer /\ buf' = [buf EXCEPT ![x].block = v]
  BY <1>t, <1>2, <1>3
<1>5. /\ \A y \in Buf : y # x => buf'[y] = buf[y]
      /\ buf'[x].block = v
      /\ buf'[x].op = buf[x].op /\ buf'[x].blknum = buf[x].blknum /\ buf'[x].status = buf[x].status
  BY <1>4 DEF DiskTyped, Buffer
<1>6. \A k \in Block : last'[k] = IF k = b THEN v ELSE last[k]
  BY <1>1 DEF DiskTyped
<1>7. /\ \A j \in 1..Len(requests) : buf[requests[j]].op = "write"
      /\ \A j \in 1..Len(requests) : j # i => buf[requests[j]].blknum # b
      /\ \A j \in 1..Len(requests) : j # i => requests[j] # x
  <2>1. \A j \in 1..Len(requests) : buf[requests[j]].op = "write"
    BY <1>1, NotReceiving DEF Driver
  <2>2. \A j \in 1..Len(requests) : j # i => buf[requests[j]].blknum # b
    BY <1>3 DEF Driver, Queue
  <2> QED
    BY <1>3, <1>4, <2>1, <2>2
<1>8. ASSUME NEW j \in 1..Len(requests)
      PROVE  /\ buf'[requests[j]].op = "write" /\ buf'[requests[j]].blknum = buf[requests[j]].blknum
             /\ buf'[requests[j]].status = buf[requests[j]].status
             /\ buf'[requests[j]].block = IF j = i THEN v ELSE buf[requests[j]].block
  BY <1>t, <1>4, <1>5, <1>7
<1>9. Phases'
  BY <1>1 DEF Driver, Phases, Busy, Asking
<1>10. Available'
  BY <1>1 DEF Driver, Available
<1>11. Queue'
  <2>1. ASSUME NEW j \in 1..Len(requests)
        PROVE  /\ buf'[requests[j]].blknum \in Block /\ buf'[requests[j]].status = "VALID"
               /\ buf'[requests[j]].block = last'[buf'[requests[j]].blknum]
    <3>1. /\ buf[requests[j]].blknum \in Block /\ buf[requests[j]].status = "VALID"
          /\ buf[requests[j]].block = last[buf[requests[j]].blknum]
      BY <1>7 DEF Driver, Queue
    <3> QED
      BY <1>3, <1>6, <1>7, <1>8, <3>1
  <2>2. \A j, k \in 1..Len(requests) : k # j => buf'[requests[k]].blknum # buf'[requests[j]].blknum
    BY <1>8 DEF Driver, Queue
  <2> QED
    BY <1>1, <1>8, <2>1, <2>2 DEF Queue
<1>12. Cached'
  <2>1. \A j \in 1..Len(cache) : buf'[cache[j]] = buf[cache[j]]
    BY <1>t, <1>3, <1>4, <1>5
  <2>2. \A j \in 1..Len(requests) : buf'[requests[j]].blknum = buf[requests[j]].blknum
    BY <1>8
  <2>3. \A j \in 1..Len(cache) : buf[cache[j]].status = "VALID" =>
           buf[cache[j]].blknum # b /\ last'[buf[cache[j]].blknum] = last[buf[cache[j]].blknum]
    BY <1>3, <1>6 DEF Driver, Cached
  <2> QED
    BY <1>1, <2>1, <2>2, <2>3 DEF Driver, Cached
<1>13. Wanted'
  BY <1>t, <1>1 DEF Wanted, Asking
<1>14. Content'
  <2>1. X' = X
    BY <1>1 DEF X
  <2>2. X.type # "read"
    BY <1>t, <1>7 DEF Driver, Content
  <2>3. ASSUME NEW k \in Block,
               \A j \in 1..Len(requests) : buf'[requests[j]].op = "write" =>
                  buf'[requests[j]].blknum # k
        PROVE  IF X.type = "write" /\ X.blk = k THEN X.data = last'[k]
               ELSE server.file[k] = last'[k]
    <3>1. \A j \in 1..Len(requests) : buf[requests[j]].op = "write" => buf[requests[j]].blknum # k
      BY <1>8, <2>3
    <3>2. k # b
      BY <1>3, <3>1
    <3> QED
      BY <1>6, <3>1, <3>2 DEF Driver, Content
  <2> QED
    BY <1>1, <2>1, <2>2, <2>3 DEF Driver, Content
<1> QED
  BY <1>9, <1>10, <1>11, <1>12, <1>13, <1>14 DEF Driver

-------------------------------------------------------------------------------
(***************************************************************************)
(* The communication process.                                               *)
(***************************************************************************)
\* Nothing is in the queue behind a read.
LEMMA HeadRequest ==
    ASSUME RdsInv, DiskTyped, Driver, requests # <<>>
    PROVE  /\ 1 \in 1..Len(requests) /\ Head(requests) = requests[1]
           /\ Head(requests) \in Buf /\ buf[Head(requests)] \in Buffer
           /\ buf[Head(requests)].blknum \in Block
           /\ buf[Head(requests)].op = "read" => Len(requests) = 1
           /\ Tail(requests) \in Seq(Buf) /\ Len(Tail(requests)) = Len(requests) - 1
           /\ \A i \in 1..Len(Tail(requests)) : /\ i + 1 \in 1..Len(requests) /\ i + 1 # 1
                                                /\ Tail(requests)[i] = requests[i + 1]
                                                /\ Tail(requests)[i] # Head(requests)
           /\ rd_state = "OPEN"
<1>1. requests \in Seq(Buf)
  BY DriverTypes
<1>2. /\ 1 \in 1..Len(requests) /\ Head(requests) = requests[1] /\ Head(requests) \in Buf
      /\ Tail(requests) \in Seq(Buf) /\ Len(Tail(requests)) = Len(requests) - 1
      /\ \A i \in 1..Len(Tail(requests)) :
            i + 1 \in 1..Len(requests) /\ Tail(requests)[i] = requests[i + 1]
  BY <1>1, TailFacts
<1>3. /\ buf[Head(requests)].blknum \in Block
      /\ buf[Head(requests)].op = "read" => Len(requests) = 1
  BY <1>2 DEF Driver, Queue
<1>4. buf[Head(requests)] \in Buffer /\ rd_state = "OPEN"
  BY <1>2 DEF DiskTyped, Driver, Phases
<1>5. ASSUME NEW i \in 1..Len(Tail(requests))
      PROVE  i + 1 # 1 /\ Tail(requests)[i] # Head(requests)
  <2>1. i + 1 # 1
    BY <1>2
  <2> QED
    BY <1>2, <2>1 DEF RdsInv, Lists, Partition, Once
<1> QED
  BY <1>2, <1>3, <1>4, <1>5

LEMMA DriverRead ==
    ASSUME RdsInv, DiskTyped, Driver, rdsprocessRead
    PROVE  Driver'
<1>t. rd_comproc \in Process /\ \A c \in Client : c \in Process /\ c # rd_comproc
  BY DriverTypes
<1>1. /\ pc[rd_comproc] = "wait" /\ requests # <<>> /\ buf[Head(requests)].op = "read"
      /\ pc' = [pc EXCEPT ![rd_comproc] = "rdscomm"] /\ rd_seq' = rd_seq + 1
      /\ UNCHANGED <<rd_state, requests, cache, free, buf, availsem, want, prmsg, server, last>>
  BY DEF rdsprocessRead, TakesRequest, exchange, listVars, netVars, histVars
<1>2. PICK x : /\ x.type = "read" /\ x.blk = buf[Head(requests)].blknum
               /\ xchg' = [xchg EXCEPT ![rd_comproc] = x]
  BY DEF rdsprocessRead, exchange
<1>3. /\ pc'[rd_comproc] = "rdscomm" /\ X' = x
      /\ \A q \in Process : q # rd_comproc => pc'[q] = pc[q] /\ xchg'[q] = xchg[q]
  BY <1>t, <1>1, <1>2 DEF DiskTyped, X
<1>4. X.type = "none"
  BY <1>t, <1>1 DEF Driver, Phases, Busy, X
<1>5. Phases'
  <2>1. \A p \in Process : Busy(p)' <=> xchg'[p].type # "none"
    BY <1>2, <1>3 DEF Driver, Phases, Busy, X
  <2>2. rd_state = "OPEN" /\ rd_seq' > 1
    BY <1>1 DEF Driver, Phases, DiskTyped
  <2> QED
    BY <1>t, <1>1, <1>3, <2>1, <2>2 DEF Driver, Phases, Busy, Asking
<1>6. Available' /\ Queue' /\ Cached' /\ Wanted'
  BY <1>t, <1>1, <1>3, Resting DEF Driver
<1>7. Content'
  BY <1>1, <1>2, <1>3, <1>4 DEF Driver, Content
<1> QED
  BY <1>5, <1>6, <1>7 DEF Driver

\* What signal(rd_availsem) does: the client that waits has the buffer.
LEMMA SignalFacts ==
    ASSUME Alone, RdsInv, DiskTyped, Driver, NEW w \in {"rdscomm", "sleep"},
           signalAvail(rd_comproc, w),
           free' = free, Len(cache') = Len(cache) + 1
    PROVE  /\ Available'
           /\ pc'[rd_comproc] = w
           /\ \A c \in Client : pc'[c] = IF pc[c] = "waitAvail" THEN "granted" ELSE pc[c]
<1>t. /\ rd_comproc \in Process /\ \A c \in Client : c \in Process /\ c # rd_comproc
      /\ Len(free) \in Nat /\ Len(cache) \in Nat /\ availsem.count \in Int
      /\ \A c, d \in Client : c = d
  BY DriverTypes DEF Alone
<1>1. CASE \E c \in Client : pc[c] = "waitAvail"
  <2>1. PICK c \in Client : pc[c] = "waitAvail"
    BY <1>1
  <2>2. availsem.count = -1 /\ availsem.waiting = <<c>> /\ Len(free) + Len(cache) = 0
    BY <2>1 DEF Driver, Available
  <2>3. Head(<<c>>) = c /\ Tail(<<c>>) = <<>>
    OBVIOUS
  <2>4. availsem.count < 0 /\ availsem.count + 1 = 0
    BY <2>2
  <2>5. availsem' = [count |-> 0, waiting |-> <<>>]
    BY <2>2, <2>3, <2>4 DEF signalAvail
  <2>6. pc' = [q \in Process |-> IF q = rd_comproc THEN w ELSE IF q = c THEN "granted" ELSE pc[q]]
    BY <2>2, <2>3, <2>4 DEF signalAvail
  <2>7. pc'[rd_comproc] = w /\ pc'[c] = "granted"
    BY <1>t, <2>6
  <2>8. Available'
    BY <1>t, <2>2, <2>5, <2>7 DEF Available
  <2> QED
    BY <1>t, <2>1, <2>7, <2>8
<1>2. CASE ~\E c \in Client : pc[c] = "waitAvail"
  <2>1. /\ availsem.count >= 0 /\ availsem.waiting = <<>>
        /\ availsem.count = Len(free) + Len(cache) -
                             (IF \E c \in Client : pc[c] = "granted" THEN 1 ELSE 0)
    BY <1>2 DEF Driver, Available
  <2>2. ~(availsem.count < 0)
    BY <1>t, <2>1
  <2>3. availsem' = [count |-> availsem.count + 1, waiting |-> <<>>]
    BY <2>2 DEF signalAvail
  <2>4. pc' = [q \in Process |-> IF q = rd_comproc THEN w ELSE pc[q]]
    BY <2>2 DEF signalAvail
  <2>5. pc'[rd_comproc] = w /\ \A c \in Client : pc'[c] = pc[c]
    BY <1>t, <2>4
  <2>6. availsem'.count = availsem.count + 1 /\ availsem'.waiting = <<>>
    BY <2>3
  <2>7. Available'
    BY <1>t, <1>2, <2>1, <2>5, <2>6 DEF Available
  <2> QED
    BY <1>2, <2>5, <2>7
<1> QED
  BY <1>1, <1>2

\* A write goes to the cache, and to the server.
LEMMA DriverWrite ==
    ASSUME Alone, RdsInv, DiskTyped, Driver, rdsprocessWrite
    PROVE  Driver'
<1> DEFINE rest == Tail(requests)
<1>t. /\ rd_comproc \in Process /\ \A d \in Client : d \in Process /\ d # rd_comproc
      /\ cache \in Seq(Buf) /\ Len(cache) \in Nat /\ Len(requests) \in Nat
      /\ \A i \in 1..Len(cache) : cache[i] \in Buf
      /\ \A i \in 1..Len(requests), j \in 1..Len(cache) : requests[i] # cache[j]
  BY DriverTypes
<1>1. /\ pc[rd_comproc] = "wait" /\ requests # <<>> /\ requests' = rest
      /\ cache' = <<Head(requests)>> \o cache
      /\ rd_seq' = rd_seq + 1 /\ signalAvail(rd_comproc, "rdscomm")
      /\ UNCHANGED <<rd_state, free, want, prmsg, server, last>>
  BY DEF rdsprocessWrite, TakesRequest, exchange, netVars, histVars
<1>b. PICK b \in Buf : b = Head(requests)
  BY <1>1, HeadRequest
<1>2. /\ buf[b].op = "write" /\ buf' = [buf EXCEPT ![b].refcnt = 0]
  BY <1>b DEF rdsprocessWrite, TakesRequest
<1>3. PICK x : /\ x.type = "write" /\ x.blk = buf[b].blknum /\ x.data = buf[b].block
               /\ xchg' = [xchg EXCEPT ![rd_comproc] = x]
  BY <1>b DEF rdsprocessWrite, exchange
<1>4. /\ 1 \in 1..Len(requests) /\ b = requests[1] /\ buf[b] \in Buffer /\ buf[b].blknum \in Block
      /\ Len(rest) = Len(requests) - 1 /\ rd_state = "OPEN"
      /\ \A i \in 1..Len(rest) : /\ i + 1 \in 1..Len(requests) /\ i + 1 # 1
                                 /\ rest[i] = requests[i + 1] /\ rest[i] # b
  BY <1>1, <1>b, HeadRequest
<1>5. /\ buf[b].status = "VALID" /\ buf[b].block = last[buf[b].blknum]
      /\ \A i \in 1..Len(rest) : buf[rest[i]].blknum # buf[b].blknum
  BY <1>2, <1>4 DEF Driver, Queue
<1>6. /\ Len(cache') = Len(cache) + 1 /\ cache'[1] = b
      /\ \A i \in 1..Len(cache') : i # 1 => i - 1 \in 1..Len(cache) /\ cache'[i] = cache[i - 1]
  BY <1>t, <1>1, <1>b, PrependFacts
<1>7. ASSUME NEW y \in Buf
      PROVE  /\ buf'[y].op = buf[y].op /\ buf'[y].blknum = buf[y].blknum
             /\ buf'[y].status = buf[y].status
             /\ buf'[y].block = buf[y].block /\ buf'[y].pid = buf[y].pid
             /\ buf'[y].refcnt = IF y = b THEN 0 ELSE buf[y].refcnt
  BY <1>2 DEF DiskTyped, Buffer
<1>8. /\ Available'
      /\ pc'[rd_comproc] = "rdscomm"
      /\ \A c \in Client : pc'[c] = IF pc[c] = "waitAvail" THEN "granted" ELSE pc[c]
  BY <1>1, <1>6, SignalFacts
<1>9. /\ \A c \in Client : (Asking(c)' <=> Asking(c)) /\ (Busy(c)' <=> Busy(c))
      /\ \A c \in Client : pc'[c] = "receive" <=> pc[c] = "receive"
  BY <1>8 DEF Asking, Busy
<1>10. /\ X' = x /\ \A q \in Process : q # rd_comproc => xchg'[q] = xchg[q]
  BY <1>t, <1>3 DEF DiskTyped, X
<1>11. X.type = "none"
  BY <1>t, <1>1 DEF Driver, Phases, Busy, X
<1>r. \A i \in 1..Len(rest) : rest[i] \in Buf
  BY <1>1, HeadRequest, ElementOfSeq
<1>12. Phases'
  <2>1. \A p \in Process : Busy(p)' <=> xchg'[p].type # "none"
    <3>1. ASSUME NEW p \in Process, p # rd_comproc
          PROVE  Busy(p)' <=> xchg'[p].type # "none"
      <4>1. p \in Client
        BY <3>1 DEF Process
      <4> QED
        BY <1>9, <1>10, <3>1, <4>1 DEF Driver, Phases
    <3>2. Busy(rd_comproc)' /\ xchg'[rd_comproc].type # "none"
      BY <1>3, <1>8, <1>10 DEF Busy, X
    <3> QED
      BY <3>1, <3>2
  <2>2. rd_seq' > 1
    BY <1>1, <1>4 DEF Driver, Phases, DiskTyped
  <2>3. \A c \in Client : pc'[c] \notin {"wait", "sleep"}
    BY <1>8 DEF Driver, Phases
  <2> QED
    BY <1>1, <1>4, <1>8, <1>9, <2>1, <2>2, <2>3 DEF Driver, Phases
<1>13. Queue'
  <2>1. ASSUME NEW i \in 1..Len(rest)
        PROVE  LET e == buf'[rest[i]] IN
                /\ e.op \in {"read", "write"} /\ e.blknum \in Block
                /\ \A j \in 1..Len(rest) : j # i => buf'[rest[j]].blknum # e.blknum
                /\ e.op = "write" => e.status = "VALID" /\ e.block = last[e.blknum]
                /\ e.op = "read" => /\ i = Len(rest) /\ e.status = "INVALID"
                                    /\ e.pid \in Client
                                    /\ pc'[e.pid] = "receive" /\ prmsg[e.pid] = NoBuf
                                    /\ want[e.pid].blk = e.blknum
    <3>1. PICK k \in 1..Len(requests) : k = i + 1 /\ rest[i] = requests[k]
      BY <1>4
    <3>2. \A j \in 1..Len(rest) : j # i => buf[rest[j]].blknum # buf[rest[i]].blknum
      <4>1. ASSUME NEW j \in 1..Len(rest), j # i
            PROVE  buf[rest[j]].blknum # buf[rest[i]].blknum
        <5>1. j + 1 \in 1..Len(requests) /\ j + 1 # k /\ rest[j] = requests[j + 1]
          BY <1>4, <3>1, <4>1
        <5> QED
          BY <3>1, <5>1 DEF Driver, Queue
      <4> QED
        BY <4>1
    <3>3. \A j \in 1..Len(rest) : buf'[rest[j]].blknum = buf[rest[j]].blknum
      BY <1>7, <1>r
    <3>4. \A j \in 1..Len(rest) : j # i => buf'[rest[j]].blknum # buf'[rest[i]].blknum
      BY <3>2, <3>3
    <3>5. PICK e : e = buf'[rest[i]]
      OBVIOUS
    <3>6. /\ e.op = buf[requests[k]].op /\ e.blknum = buf[requests[k]].blknum
          /\ e.status = buf[requests[k]].status /\ e.block = buf[requests[k]].block
          /\ e.pid = buf[requests[k]].pid
      BY <1>7, <1>r, <3>1, <3>5
    <3>7. /\ e.op \in {"read", "write"} /\ e.blknum \in Block
          /\ e.op = "write" => e.status = "VALID" /\ e.block = last[e.blknum]
      BY <3>6 DEF Driver, Queue
    <3>8. e.op = "read" => /\ k = Len(requests) /\ e.status = "INVALID"
                           /\ e.pid \in Client
                           /\ pc[e.pid] = "receive" /\ prmsg[e.pid] = NoBuf
                           /\ want[e.pid].blk = e.blknum
      BY <3>6 DEF Driver, Queue
    <3>9. k = Len(requests) => i = Len(rest)
      BY <1>t, <1>4, <3>1
    <3> HIDE DEF rest
    <3> QED
      BY <1>9, <3>4, <3>5, <3>7, <3>8, <3>9
  <2>2. requests' = rest /\ UNCHANGED <<last, prmsg, want>>
    BY <1>1
  <2> QED
    BY <2>1, <2>2 DEF Queue
<1>14. \A j \in 1..Len(cache) : buf[cache[j]].blknum = buf[b].blknum =>
          buf[cache[j]].status = "INVALID"
  <2>1. ASSUME NEW j \in 1..Len(cache), buf[cache[j]].blknum = buf[b].blknum
        PROVE  buf[cache[j]].status # "VALID"
    BY <1>4, <2>1 DEF Driver, Cached
  <2>2. \A j \in 1..Len(cache) : buf[cache[j]].status \in {"VALID", "INVALID"}
    BY DriverTypes DEF Buffer
  <2> QED
    BY <2>1, <2>2
<1>15. \A i \in 1..Len(cache') : cache'[i] \in Buf
  BY <1>t, <1>6
<1>16. Cached'
  <2>1. ASSUME NEW i \in 1..Len(cache')
        PROVE  LET e == buf'[cache'[i]] IN
                /\ e.refcnt <= 1
                /\ e.refcnt = 1 => \E c \in Client : pc'[c] = "receive" /\ prmsg[c] = cache'[i]
                /\ e.status = "VALID" =>
                      /\ e.refcnt <= 0
                      /\ e.blknum \in Block /\ e.block = last[e.blknum]
                      /\ \A j \in 1..Len(rest) : buf'[rest[j]].blknum # e.blknum
                      /\ \A j \in 1..Len(cache') :
                            j # i /\ buf'[cache'[j]].blknum = e.blknum =>
                               i < j /\ buf'[cache'[j]].status = "INVALID"
    <3>0. \A j \in 1..Len(rest) : buf'[rest[j]].blknum = buf[rest[j]].blknum
      BY <1>7, <1>r
    <3>1. CASE i = 1
      <4>1. PICK e : e = buf'[cache'[i]]
        OBVIOUS
      <4>2. e.refcnt = 0 /\ e.blknum = buf[b].blknum /\ e.block = last[buf[b].blknum]
        BY <1>5, <1>6, <1>7, <3>1, <4>1
      <4>3. \A j \in 1..Len(rest) : buf'[rest[j]].blknum # e.blknum
        BY <1>5, <3>0, <4>2
      <4>4. \A j \in 1..Len(cache') : j # i /\ buf'[cache'[j]].blknum = e.blknum =>
                 i < j /\ buf'[cache'[j]].status = "INVALID"
        <5>1. ASSUME NEW j \in 1..Len(cache'), j # i, buf'[cache'[j]].blknum = e.blknum
              PROVE  i < j /\ buf'[cache'[j]].status = "INVALID"
          <6>1. j - 1 \in 1..Len(cache) /\ cache'[j] = cache[j - 1] /\ i < j
            BY <1>t, <1>6, <3>1, <5>1
          <6>2. /\ buf'[cache'[j]].blknum = buf[cache[j - 1]].blknum
                /\ buf'[cache'[j]].status = buf[cache[j - 1]].status
            BY <1>7, <1>15, <6>1
          <6> QED
            BY <1>14, <4>2, <5>1, <6>1, <6>2
        <5> QED
          BY <5>1
      <4> HIDE DEF rest
      <4> QED
        BY <1>4, <4>1, <4>2, <4>3, <4>4
    <3>2. CASE i # 1
      <4>k. PICK k \in 1..Len(cache) : k = i - 1 /\ cache'[i] = cache[k]
        BY <1>6, <3>2
      <4>1. PICK e : e = buf'[cache'[i]]
        OBVIOUS
      <4>2. PICK f : f = buf[cache[k]]
        OBVIOUS
      <4>3. /\ e.op = f.op /\ e.blknum = f.blknum /\ e.status = f.status /\ e.block = f.block
            /\ e.refcnt = f.refcnt
        BY <1>t, <1>4, <1>7, <4>k, <4>1, <4>2
      <4>4. /\ f.refcnt <= 1
            /\ f.refcnt = 1 => \E c \in Client : pc[c] = "receive" /\ prmsg[c] = cache[k]
            /\ f.status = "VALID" =>
                  /\ f.refcnt <= 0
                  /\ f.blknum \in Block /\ f.block = last[f.blknum]
                  /\ \A j \in 1..Len(requests) : buf[requests[j]].blknum # f.blknum
                  /\ \A j \in 1..Len(cache) :
                        j # k /\ buf[cache[j]].blknum = f.blknum =>
                           k < j /\ buf[cache[j]].status = "INVALID"
        BY <4>2 DEF Driver, Cached
      <4>5. e.refcnt = 1 => \E c \in Client : pc'[c] = "receive" /\ prmsg[c] = cache'[i]
        BY <1>9, <4>k, <4>3, <4>4
      <4>6. ASSUME e.status = "VALID", NEW j \in 1..Len(rest)
            PROVE  buf'[rest[j]].blknum # e.blknum
        BY <1>4, <3>0, <4>3, <4>4, <4>6
      <4>7. ASSUME e.status = "VALID", NEW j \in 1..Len(cache'), j # i,
                   buf'[cache'[j]].blknum = e.blknum
            PROVE  i < j /\ buf'[cache'[j]].status = "INVALID"
        <5>1. /\ buf'[cache'[j]].blknum = buf[cache'[j]].blknum
              /\ buf'[cache'[j]].status = buf[cache'[j]].status
          BY <1>7, <1>15
        <5>2. CASE j = 1
          <6>1. buf[b].blknum # f.blknum
            BY <1>4, <4>3, <4>4, <4>7
          <6> QED
            BY <1>6, <4>3, <4>7, <5>1, <5>2, <6>1
        <5>3. CASE j # 1
          <6>1. PICK l \in 1..Len(cache) : l = j - 1 /\ cache'[j] = cache[l]
            BY <1>6, <5>3
          <6>2. l # k /\ buf[cache[l]].blknum = f.blknum
            BY <1>t, <4>k, <4>3, <4>7, <5>1, <6>1
          <6>3. k < l /\ buf[cache[l]].status = "INVALID"
            BY <4>3, <4>4, <4>7, <6>2
          <6> QED
            BY <1>t, <4>k, <5>1, <6>1, <6>3
        <5> QED
          BY <5>2, <5>3
      <4> HIDE DEF rest
      <4> QED
        BY <4>1, <4>3, <4>4, <4>5, <4>6, <4>7
    <3> QED
      BY <3>1, <3>2
  <2>2. UNCHANGED <<prmsg, last>> /\ requests' = rest
    BY <1>1
  <2> HIDE DEF rest
  <2> QED
    BY <2>1, <2>2 DEF Cached
<1>17. Wanted'
  <2>1. ASSUME NEW c \in Client, Asking(c)
        PROVE  LET k == want[c].blk IN
                /\ k \in Block /\ want[c].op \in {"read", "write"}
                /\ want[c].op = "read" => last[k] # Hole
                /\ pc'[c] # "receive" =>
                      /\ \A j \in 1..Len(rest) : buf'[rest[j]].blknum # k
                      /\ \A j \in 1..Len(cache') : buf'[cache'[j]].blknum = k =>
                            buf'[cache'[j]].status = "INVALID"
                /\ pc'[c] = "receive" =>
                      /\ want[c].op = "read"
                      /\ IF prmsg[c] = NoBuf
                         THEN /\ rest # <<>>
                              /\ LET e == buf'[rest[Len(rest)]] IN e.op = "read" /\ e.pid = c
                         ELSE /\ prmsg[c] \in Buf /\ On(prmsg[c], cache')
                              /\ buf'[prmsg[c]].block = last[k]
    <3>1. PICK k \in Block : k = want[c].blk
      BY <2>1 DEF Driver, Wanted
    <3>2. /\ want[c].op \in {"read", "write"}
          /\ want[c].op = "read" => last[k] # Hole
      BY <2>1, <3>1 DEF Driver, Wanted
    <3>3. ASSUME pc'[c] # "receive", NEW j \in 1..Len(rest)
          PROVE  buf'[rest[j]].blknum # k
      <4>1. \A i \in 1..Len(requests) : buf[requests[i]].blknum # k
        BY <1>9, <2>1, <3>1, <3>3 DEF Driver, Wanted
      <4>2. buf'[rest[j]].blknum = buf[rest[j]].blknum
        BY <1>7, <1>r
      <4> QED
        BY <1>4, <4>1, <4>2
    <3>4. ASSUME pc'[c] # "receive", NEW j \in 1..Len(cache'), buf'[cache'[j]].blknum = k
          PROVE  buf'[cache'[j]].status = "INVALID"
      <4>1. /\ \A i \in 1..Len(requests) : buf[requests[i]].blknum # k
            /\ \A i \in 1..Len(cache) : buf[cache[i]].blknum = k => buf[cache[i]].status = "INVALID"
        BY <1>9, <2>1, <3>1, <3>4 DEF Driver, Wanted
      <4>2. /\ buf'[cache'[j]].blknum = buf[cache'[j]].blknum
            /\ buf'[cache'[j]].status = buf[cache'[j]].status
        BY <1>7, <1>15
      <4>3. j # 1
        BY <1>4, <1>6, <3>4, <4>1, <4>2
      <4> QED
        BY <1>6, <3>4, <4>1, <4>2, <4>3
    <3>5. ASSUME pc'[c] = "receive"
          PROVE  want[c].op = "read"
      BY <1>9, <2>1, <3>5 DEF Driver, Wanted
    <3>6. ASSUME pc'[c] = "receive", prmsg[c] = NoBuf
          PROVE  rest # <<>> /\ buf'[rest[Len(rest)]].op = "read" /\ buf'[rest[Len(rest)]].pid = c
      <4>1. buf[requests[Len(requests)]].op = "read" /\ buf[requests[Len(requests)]].pid = c
        BY <1>9, <2>1, <3>6 DEF Driver, Wanted
      <4>2. Len(requests) # 1
        BY <1>2, <1>4, <4>1
      <4> HIDE DEF rest
      <4>n. PICK n \in Nat : n = Len(requests) /\ n > 1 /\ Len(rest) = n - 1
        BY <1>t, <1>4, <4>2
      <4>3. Len(rest) \in 1..Len(rest)
        BY <4>n
      <4>4. rest[Len(rest)] = requests[Len(requests)] /\ rest[Len(rest)] \in Buf
        BY <1>t, <1>4, <1>r, <4>3
      <4>5. rest # <<>>
        BY <4>n
      <4> QED
        BY <1>7, <4>1, <4>4, <4>5
    <3>7. ASSUME pc'[c] = "receive", prmsg[c] # NoBuf
          PROVE  prmsg[c] \in Buf /\ On(prmsg[c], cache') /\ buf'[prmsg[c]].block = last[k]
      <4>1. prmsg[c] \in Buf /\ On(prmsg[c], cache) /\ buf[prmsg[c]].block = last[k]
        BY <1>9, <2>1, <3>1, <3>7 DEF Driver, Wanted
      <4>2. PICK i \in 1..Len(cache) : cache[i] = prmsg[c]
        BY <4>1 DEF On
      <4>3. i + 1 \in 1..Len(cache') /\ i + 1 # 1
        BY <1>t, <1>6
      <4>4. cache'[i + 1] = cache[(i + 1) - 1] /\ (i + 1) - 1 = i
        BY <1>t, <1>6, <4>3
      <4> QED
        BY <1>7, <4>1, <4>2, <4>3, <4>4 DEF On
    <3> HIDE DEF rest
    <3> QED
      BY <3>1, <3>2, <3>3, <3>4, <3>5, <3>6, <3>7
  <2>2. UNCHANGED <<prmsg, want, last>> /\ requests' = rest
    BY <1>1
  <2> HIDE DEF rest
  <2> QED
    BY <1>9, <2>1, <2>2 DEF Wanted
<1>18. Content'
  <2>1. ASSUME NEW k \in Block,
               \A j \in 1..Len(rest) : buf'[rest[j]].op = "write" => buf'[rest[j]].blknum # k
        PROVE  IF x.type = "write" /\ x.blk = k THEN x.data = last[k] ELSE server.file[k] = last[k]
    <3>1. CASE k = buf[b].blknum
      BY <1>3, <1>5, <3>1
    <3>2. CASE k # buf[b].blknum
      <4>1. ASSUME NEW i \in 1..Len(requests), buf[requests[i]].op = "write"
            PROVE  buf[requests[i]].blknum # k
        <5>1. CASE i = 1
          BY <1>4, <3>2, <5>1
        <5>2. CASE i # 1
          <6>1. i - 1 \in 1..Len(rest) /\ (i - 1) + 1 = i
            BY <1>t, <1>4, <5>2
          <6>2. rest[i - 1] = requests[i]
            BY <1>4, <6>1
          <6> HIDE DEF rest
          <6> QED
            BY <1>7, <1>r, <2>1, <4>1, <6>1, <6>2
        <5> QED
          BY <5>1, <5>2
      <4>2. server.file[k] = last[k]
        BY <1>11, <4>1 DEF Driver, Content
      <4> QED
        BY <1>3, <3>2, <4>2
    <3> QED
      BY <3>1, <3>2
  <2> HIDE DEF rest
  <2> QED
    BY <1>1, <1>3, <1>4, <1>10, <2>1 DEF Content
<1> QED
  BY <1>8, <1>12, <1>13, <1>16, <1>17, <1>18 DEF Driver

\* A write has been answered.
LEMMA DriverWritten ==
    ASSUME RdsInv, DiskTyped, Driver, X.type = "write", server.file[X.blk] = X.data,
           Busy(rd_comproc),
           pc' = [pc EXCEPT ![rd_comproc] = "sleep"], xchg' = [xchg EXCEPT ![rd_comproc] = Idle],
           UNCHANGED <<rd_state, rd_seq, requests, cache, free, buf, availsem, want, prmsg, last,
                       server>>
    PROVE  Driver'
<1>t. rd_comproc \in Process /\ \A c \in Client : c \in Process /\ c # rd_comproc
  BY DriverTypes
<1>1. /\ pc'[rd_comproc] = "sleep" /\ X'.type = "none" /\ xchg'[rd_comproc].type = "none"
      /\ \A q \in Process : q # rd_comproc => pc'[q] = pc[q] /\ xchg'[q] = xchg[q]
  BY <1>t DEF DiskTyped, Idle, X
<1>2. Phases'
  <2>1. \A p \in Process : Busy(p)' <=> xchg'[p].type # "none"
    BY <1>1 DEF Driver, Phases, Busy
  <2> QED
    BY <1>t, <1>1, <2>1 DEF Driver, Phases, Busy, Asking
<1>3. Available' /\ Queue' /\ Cached' /\ Wanted'
  BY <1>t, <1>1, Resting DEF Driver
<1>4. Content'
  BY <1>1 DEF Driver, Content
<1> QED
  BY <1>2, <1>3, <1>4 DEF Driver

\* The reply to a read: its request is the only one, and its client waits for it.
LEMMA ReadFacts ==
    ASSUME Alone, RdsInv, DiskTyped, Driver, NEW b, b = Head(requests), X.type = "read"
    PROVE  /\ requests # <<>> /\ b \in Buf /\ Tail(requests) = <<>> /\ Len(requests) = 1
           /\ b = requests[1]
           /\ buf[b].pid \in Client /\ buf[b].blknum = X.blk /\ X.blk \in Block
           /\ buf[b].status = "INVALID"
           /\ \A c \in Client : /\ c = buf[b].pid /\ pc[c] = "receive" /\ prmsg[c] = NoBuf
                                /\ want[c].blk = X.blk
           /\ \A k \in Block : server.file[k] = last[k]
           /\ \A j \in 1..Len(cache) : /\ buf[cache[j]].refcnt <= 0
                                       /\ buf[cache[j]].status = "VALID" =>
                                             buf[cache[j]].blknum # X.blk
<1>1. requests # <<>> /\ buf[b].op = "read" /\ buf[b].blknum = X.blk
  BY DEF Driver, Content
<1>2. /\ 1 \in 1..Len(requests) /\ b = requests[1] /\ b \in Buf /\ Len(requests) = 1
      /\ Tail(requests) \in Seq(Buf) /\ Len(Tail(requests)) = 0
      /\ X.blk \in Block
  BY <1>1, HeadRequest
<1>3. Tail(requests) = <<>>
  BY <1>2, EmptySeq
<1>4. /\ buf[b].status = "INVALID" /\ buf[b].pid \in Client /\ pc[buf[b].pid] = "receive"
      /\ prmsg[buf[b].pid] = NoBuf /\ want[buf[b].pid].blk = X.blk
  BY <1>1, <1>2 DEF Driver, Queue
<1>5. \A c \in Client : c = buf[b].pid
  BY <1>4 DEF Alone
<1>6. \A k \in Block : server.file[k] = last[k]
  BY <1>1, <1>2 DEF Driver, Content
<1>7. ASSUME NEW j \in 1..Len(cache)
      PROVE  /\ buf[cache[j]].refcnt <= 0
             /\ buf[cache[j]].status = "VALID" => buf[cache[j]].blknum # X.blk
  <2>1. cache[j] \in Buf /\ buf[cache[j]].refcnt \in Int
    BY DriverTypes DEF Buffer
  <2>2. buf[cache[j]].refcnt # 1 /\ buf[cache[j]].refcnt <= 1
    BY <1>4, <1>5, <2>1, BufferAssumption DEF Driver, Cached
  <2>3. buf[cache[j]].status = "VALID" => buf[cache[j]].blknum # X.blk
    BY <1>1, <1>2 DEF Driver, Cached
  <2> QED
    BY <2>1, <2>2, <2>3
<1> QED
  BY <1>1, <1>2, <1>3, <1>4, <1>5, <1>6, <1>7

LEMMA DriverReadReply ==
    ASSUME Alone, RdsInv, DiskTyped, Driver, X.type = "read", Busy(rd_comproc),
           NEW r, r.data = server.file[X.blk], readDone(r),
           xchg' = [xchg EXCEPT ![rd_comproc] = Idle],
           UNCHANGED <<rd_seq, want, last, server>>
    PROVE  Driver'
<1>t. /\ rd_comproc \in Process /\ \A d \in Client : d \in Process /\ d # rd_comproc
      /\ cache \in Seq(Buf) /\ Len(cache) \in Nat
      /\ \A i \in 1..Len(cache) : cache[i] \in Buf
      /\ \A i \in 1..Len(requests), j \in 1..Len(cache) : requests[i] # cache[j]
  BY DriverTypes
<1>b. PICK b \in Buf : b = Head(requests)
  BY ReadFacts
<1>f. /\ requests # <<>> /\ Tail(requests) = <<>> /\ Len(requests) = 1 /\ b = requests[1]
      /\ buf[b].pid \in Client /\ buf[b].blknum = X.blk /\ X.blk \in Block
      /\ buf[b].status = "INVALID"
      /\ \A c \in Client : /\ c = buf[b].pid /\ pc[c] = "receive" /\ prmsg[c] = NoBuf
                           /\ want[c].blk = X.blk
      /\ \A k \in Block : server.file[k] = last[k]
      /\ \A j \in 1..Len(cache) : /\ buf[cache[j]].refcnt <= 0
                                  /\ buf[cache[j]].status = "VALID" => buf[cache[j]].blknum # X.blk
  BY <1>b, ReadFacts
<1>1. /\ requests' = <<>> /\ cache' = <<b>> \o cache
      /\ buf' = [buf EXCEPT ![b].block = r.data, ![b].refcnt = 1]
      /\ signalAvail(rd_comproc, "sleep") /\ prmsg' = [prmsg EXCEPT ![buf[b].pid] = b]
      /\ UNCHANGED <<rd_state, free>>
  BY <1>b, <1>f DEF readDone, send
<1>2. Len(requests') = 0
  BY <1>1
<1>6. /\ Len(cache') = Len(cache) + 1 /\ cache'[1] = b
      /\ \A i \in 1..Len(cache') : i # 1 => i - 1 \in 1..Len(cache) /\ cache'[i] = cache[i - 1]
  BY <1>t, <1>1, PrependFacts
<1>7. /\ buf'[b].blknum = X.blk /\ buf'[b].status = "INVALID" /\ buf'[b].block = last[X.blk]
      /\ buf'[b].refcnt = 1
      /\ \A y \in Buf : y # b => buf'[y] = buf[y]
  <2>1. PICK e : e = [buf[b] EXCEPT !.block = r.data, !.refcnt = 1]
    OBVIOUS
  <2>2. buf' = [buf EXCEPT ![b] = e]
    BY <1>1, <2>1
  <2>3. buf'[b] = e /\ \A y \in Buf : y # b => buf'[y] = buf[y]
    BY <2>2 DEF DiskTyped
  <2>4. buf[b] \in Buffer
    BY DEF DiskTyped
  <2>5. e.blknum = buf[b].blknum /\ e.status = buf[b].status /\ e.block = r.data /\ e.refcnt = 1
    BY <2>1, <2>4 DEF Buffer
  <2> QED
    BY <1>f, <2>3, <2>5
<1>8. /\ Available'
      /\ pc'[rd_comproc] = "sleep"
      /\ \A c \in Client : pc'[c] = IF pc[c] = "waitAvail" THEN "granted" ELSE pc[c]
  BY <1>1, <1>6, SignalFacts
<1>9. \A c \in Client : pc'[c] = pc[c] /\ prmsg'[c] = b
  BY <1>f, <1>1, <1>8 DEF DiskTyped
<1>10. X'.type = "none" /\ \A q \in Process : q # rd_comproc => xchg'[q] = xchg[q]
  BY <1>t DEF DiskTyped, X, Idle
<1>11. Phases'
  <2>1. \A p \in Process : Busy(p)' <=> xchg'[p].type # "none"
    <3>1. ASSUME NEW p \in Process, p # rd_comproc
          PROVE  Busy(p)' <=> xchg'[p].type # "none"
      <4>1. p \in Client
        BY <3>1 DEF Process
      <4> QED
        BY <1>9, <1>10, <3>1, <4>1 DEF Driver, Phases, Busy
    <3>2. ~Busy(rd_comproc)' /\ xchg'[rd_comproc].type = "none"
      BY <1>8, <1>10 DEF Busy, X
    <3> QED
      BY <3>1, <3>2
  <2> QED
    BY <1>1, <1>8, <1>9, <2>1 DEF Driver, Phases, Busy, Asking
<1>12. Queue'
  BY <1>2 DEF Queue
<1>13. Cached'
  <2>1. ASSUME NEW i \in 1..Len(cache'), i # 1
        PROVE  LET e == buf'[cache'[i]] IN
                /\ e.refcnt <= 1 /\ e.refcnt # 1
                /\ e.status = "VALID" =>
                      /\ e.refcnt <= 0
                      /\ e.blknum \in Block /\ e.block = last[e.blknum]
                      /\ \A j \in 1..Len(cache') :
                            j # i /\ buf'[cache'[j]].blknum = e.blknum =>
                               i < j /\ buf'[cache'[j]].status = "INVALID"
    <3>1. PICK k \in 1..Len(cache) : k = i - 1 /\ cache'[i] = cache[k]
      BY <1>6, <2>1
    <3>2. PICK e : e = buf'[cache'[i]] /\ e = buf[cache[k]]
      BY <1>t, <1>f, <1>7, <3>1
    <3>3. /\ e.status = "VALID" =>
              /\ e.refcnt <= 0
              /\ e.blknum \in Block /\ e.block = last[e.blknum]
              /\ \A j \in 1..Len(cache) :
                    j # k /\ buf[cache[j]].blknum = e.blknum =>
                       k < j /\ buf[cache[j]].status = "INVALID"
          /\ e.refcnt <= 1 /\ e.refcnt # 1
      <4>1. e.refcnt \in Int /\ e.refcnt <= 0
        BY <1>f, <3>2, DriverTypes DEF Buffer
      <4> QED
        BY <3>2, <4>1 DEF Driver, Cached
    <3>4. ASSUME e.status = "VALID", NEW j \in 1..Len(cache'), j # i,
                 buf'[cache'[j]].blknum = e.blknum
          PROVE  i < j /\ buf'[cache'[j]].status = "INVALID"
      <4>1. j # 1
        BY <1>f, <1>6, <1>7, <3>2, <3>4
      <4>2. PICK l \in 1..Len(cache) : l = j - 1 /\ cache'[j] = cache[l]
        BY <1>6, <4>1
      <4>3. buf'[cache'[j]] = buf[cache[l]]
        BY <1>t, <1>f, <1>7, <4>2
      <4>4. l # k
        BY <1>t, <1>6, <3>1, <3>4, <4>2
      <4>5. k < l /\ buf[cache[l]].status = "INVALID"
        BY <3>3, <3>4, <4>3, <4>4
      <4> QED
        BY <1>t, <1>6, <3>1, <4>2, <4>3, <4>5
    <3> QED
      BY <3>2, <3>3, <3>4
  <2>2. /\ buf'[cache'[1]].refcnt = 1 /\ buf'[cache'[1]].status = "INVALID"
        /\ \E c \in Client : pc'[c] = "receive" /\ prmsg'[c] = cache'[1]
    <3>1. cache'[1] = b /\ buf'[b].refcnt = 1 /\ buf'[b].status = "INVALID"
      BY <1>6, <1>7
    <3>2. PICK c \in Client : c = buf[b].pid
      BY <1>f
    <3>3. pc'[c] = "receive" /\ prmsg'[c] = b
      BY <1>f, <1>9, <3>2
    <3> QED
      BY <3>1, <3>3
  <2> QED
    BY <1>2, <2>1, <2>2 DEF Cached
<1>14. Wanted'
  <2>1. ASSUME NEW c \in Client
        PROVE  /\ X.blk = want[c].blk /\ want[c].op = "read" /\ last[X.blk] # Hole
               /\ pc'[c] = "receive" /\ prmsg'[c] = b /\ b # NoBuf
    BY <1>f, <1>9, BufferAssumption DEF Driver, Wanted, Asking
  <2>2. On(b, cache')
    <3>1. 1 \in 1..Len(cache')
      BY <1>t, <1>6
    <3> QED
      BY <1>6, <3>1 DEF On
  <2> QED
    BY <1>f, <1>7, <2>1, <2>2 DEF Wanted
<1>15. Content'
  BY <1>f, <1>2, <1>10 DEF Content
<1> QED
  BY <1>8, <1>11, <1>12, <1>13, <1>14, <1>15 DEF Driver

-------------------------------------------------------------------------------
(***************************************************************************)
(* The steps of an exchange.                                                *)
(***************************************************************************)
LEMMA BusyKind ==
    ASSUME RdsInv, Phases, NEW p \in Process, Busy(p)
    PROVE  /\ p = rd_comproc => xchg[p].type \in {"read", "write"}
           /\ p # rd_comproc => p \in Client /\ xchg[p].type = "open"
BY DEF RdsInv, Exchanges, Phases, Process

\* If the communication process failed, it would panic.
LEMMA DriverFails ==
    ASSUME Alone, RdsInv, DiskTyped, Driver, NEW p \in Process, Busy(p), fail(p), halted' = "no",
           UNCHANGED <<rd_seq, requests, cache, free, buf, availsem, want, prmsg, last, server>>
    PROVE  Driver'
<1>1. p # rd_comproc
  BY DEF fail
<1>2. p \in Client /\ xchg[p].type = "open"
  BY <1>1, BusyKind DEF Driver
<1>3. /\ rd_state' \in {"FREE", "OPEN"}
      /\ pc' = [pc EXCEPT ![p] = "run"] /\ xchg' = [xchg EXCEPT ![p] = Idle]
  BY <1>1 DEF fail
<1> QED
  BY <1>2, <1>3, DriverOpened

LEMMA DriverSend ==
    ASSUME Alone, RdsInv, DiskTyped, Driver, NEW p \in Process, rdscommSend(p), halted' = "no"
    PROVE  Driver'
<1>1. /\ Busy(p) /\ pc[p] = "rdscomm"
      /\ UNCHANGED <<rd_seq, requests, cache, free, buf, availsem, want, last, server>>
  BY DEF rdscommSend, Busy, listVars, semVars, histVars
<1>2. CASE Receiving
  <2>1. fail(p) /\ UNCHANGED prmsg
    BY <1>2 DEF rdscommSend
  <2> QED
    BY <1>1, <2>1, DriverFails
<1>3. CASE ~Receiving
  <2>1. /\ pc' = [pc EXCEPT ![p] = "udp_recv"]
        /\ prmsg' = [c \in Client |-> IF c = p /\ udqueue = <<>> THEN NoBuf ELSE prmsg[c]]
        /\ rd_state' = rd_state /\ xchg' = xchg
    BY <1>3 DEF rdscommSend
  <2>2. pc'[p] \in {"rdscomm", "udp_recv"} /\ \A q \in Process : q # p => pc'[q] = pc[q]
    BY <2>1 DEF DiskTyped
  <2>3. \A c \in Client : c # p => prmsg'[c] = prmsg[c]
    BY <2>1
  <2> QED
    BY <1>1, <2>1, <2>2, <2>3, DriverGoesOn
<1> QED
  BY <1>2, <1>3

LEMMA DriverAgain ==
    ASSUME RdsInv, DiskTyped, Driver, NEW p \in Process, pc[p] = "udp_recv",
           NEW xmit \in BOOLEAN, again(p, xmit),
           UNCHANGED <<rd_state, rd_seq, listVars, semVars, want, prmsg, server, histVars>>
    PROVE  Driver'
<1>1. /\ xchg'[p] = [xchg[p] EXCEPT !.tries = @ + 1, !.xmit = xmit]
      /\ \A q \in Process : q # p => xchg'[q] = xchg[q]
  BY AgainTyped
<1>2. xchg[p] \in Attempt
  BY DEF DiskTyped
<1>3. xchg'[p].type = xchg[p].type /\ xchg'[p].blk = xchg[p].blk /\ xchg'[p].data = xchg[p].data
  BY <1>1, <1>2 DEF Attempt
<1>4. pc'[p] \in {"rdscomm", "udp_recv"} /\ \A q \in Process : q # p => pc'[q] = pc[q]
  BY DEF again, DiskTyped
<1>5. UNCHANGED <<rd_state, rd_seq, requests, cache, free, buf, availsem, want, last, server,
                  prmsg>>
  BY DEF listVars, semVars, histVars
<1> QED
  BY <1>1, <1>3, <1>4, <1>5, DriverGoesOn DEF Busy

LEMMA DriverDone ==
    ASSUME Alone, RdsInv, DiskTyped, Driver, Network, NEW p \in Process, rdscommDone(p),
           halted' = "no"
    PROVE  Driver'
<1> DEFINE r == Head(udqueue)
<1>1. /\ Busy(p) /\ udqueue # <<>> /\ r.type = xchg[p].type
      /\ UNCHANGED <<rd_seq, want, last, server>>
  BY DEF rdscommDone, Accepts, Busy, histVars
<1>2. CASE ~r.ok
  <2>1. fail(p) /\ UNCHANGED <<requests, cache, free, buf, availsem, prmsg>>
    BY <1>2 DEF rdscommDone, listVars
  <2> QED
    BY <1>1, <2>1, DriverFails
<1>3. CASE r.ok
  <2>1. xchg' = [xchg EXCEPT ![p] = Idle]
    BY <1>3 DEF rdscommDone
  <2>2. CASE xchg[p].type = "open"
    <3>1. p \in Client
      BY <1>1, <2>2, BusyKind DEF Driver
    <3>2. /\ rd_state' = "OPEN" /\ pc' = [pc EXCEPT ![p] = "run"]
          /\ UNCHANGED <<requests, cache, free, buf, availsem, prmsg>>
      BY <1>3, <2>2 DEF rdscommDone, listVars
    <3> QED
      BY <1>1, <2>1, <2>2, <3>1, <3>2, DriverOpened
  <2>3. CASE xchg[p].type # "open"
    <3>1. p = rd_comproc /\ X.type \in {"read", "write"} /\ X = xchg[p]
      BY <1>1, <2>3, BusyKind DEF Driver, X
    <3>2. Own(r) /\ Truth(r)
      <4>1. 1 \in 1..Len(udqueue) /\ r = udqueue[1]
        BY <1>1, TailFacts DEF DiskTyped
      <4> QED
        BY <1>1, <3>1, <4>1 DEF Network, Truthful, Own
    <3>3. CASE X.type = "write"
      <4>1. server.file[X.blk] = X.data
        BY <1>1, <1>3, <3>1, <3>2, <3>3 DEF Truth
      <4>2. /\ pc' = [pc EXCEPT ![rd_comproc] = "sleep"]
            /\ UNCHANGED <<rd_state, requests, cache, free, buf, availsem, prmsg>>
        BY <1>3, <3>1, <3>3 DEF rdscommDone, listVars
      <4> QED
        BY <1>1, <2>1, <3>1, <3>3, <4>1, <4>2, DriverWritten
    <3>4. CASE X.type = "read"
      <4>1. r.data = server.file[X.blk]
        BY <1>1, <1>3, <3>1, <3>2, <3>4 DEF Truth
      <4>2. readDone(r)
        BY <1>3, <3>1, <3>4 DEF rdscommDone
      <4> QED
        BY <1>1, <2>1, <3>1, <3>4, <4>1, <4>2, DriverReadReply
    <3> QED
      BY <3>1, <3>3, <3>4
  <2> QED
    BY <2>2, <2>3
<1> QED
  BY <1>2, <1>3

LEMMA DriverComm ==
    ASSUME Alone, RdsInv, DiskTyped, Driver, Network, NEW p \in Process, Comm(p), halted' = "no"
    PROVE  Driver'
<1>1. CASE rdscommSend(p)
  BY <1>1, DriverSend
<1>2. CASE rdscommExhausted(p)
  <2>1. /\ Busy(p) /\ fail(p)
        /\ UNCHANGED <<rd_seq, requests, cache, free, buf, availsem, want, prmsg, last, server>>
    BY <1>2 DEF rdscommExhausted, Busy, listVars, semVars, netVars, histVars
  <2> QED
    BY <2>1, DriverFails
<1>3. CASE rdscommTimeout(p)
  <2>1. /\ pc[p] = "udp_recv" /\ again(p, TRUE)
        /\ UNCHANGED <<rd_state, rd_seq, listVars, semVars, want, prmsg, server, histVars>>
    BY <1>3 DEF rdscommTimeout, netVars
  <2> QED
    BY <2>1, DriverAgain
<1>4. CASE rdscommRefuse(p)
  <2>1. PICK xmit \in BOOLEAN : xmit = (Head(udqueue).seq >= xchg[p].seq)
    <3>1. Head(udqueue) \in Reply /\ xchg[p].seq \in Nat
      BY <1>4, TailFacts, NetTypes DEF rdscommRefuse, DiskTyped
    <3>2. (Head(udqueue).seq >= xchg[p].seq) \in BOOLEAN
      BY <3>1 DEF Reply
    <3> QED
      BY <3>2
  <2>2. /\ pc[p] = "udp_recv" /\ again(p, xmit)
        /\ UNCHANGED <<rd_state, rd_seq, listVars, semVars, want, prmsg, server, histVars>>
    BY <1>4, <2>1 DEF rdscommRefuse
  <2> QED
    BY <2>2, DriverAgain
<1>5. CASE rdscommDone(p)
  BY <1>5, DriverDone
<1> QED
  BY <1>1, <1>2, <1>3, <1>4, <1>5 DEF Comm

LEMMA NetSend ==
    ASSUME Alone, RdsInv, DiskTyped, DiskTyped', Phases, Network,
           NEW p \in Process, rdscommSend(p), halted' = "no"
    PROVE  Network'
<1>1. /\ pc[p] = "rdscomm" /\ Busy(p) /\ rd_comproc \in Process
      /\ UNCHANGED <<rd_seq, udqueue, server>>
  BY DEF rdscommSend, Busy, Process
<1>2. PICK m : m = [type |-> xchg[p].type, seq |-> xchg[p].seq, blk |-> xchg[p].blk,
                    data |-> xchg[p].data]
  OBVIOUS
<1>3. wire' = IF xchg[p].xmit THEN [wire EXCEPT !.up = Append(@, m)] ELSE wire
  BY <1>2 DEF rdscommSend
<1>4. CASE Receiving
  <2>1. fail(p) /\ p # rd_comproc
    BY <1>4 DEF rdscommSend, fail
  <2>2. pc' = [pc EXCEPT ![p] = "run"] /\ xchg' = [xchg EXCEPT ![p] = Idle] /\ Idle.type = "none"
    BY <2>1 DEF fail, Idle
  <2>3. p \in Client /\ pc[rd_comproc] = "udp_recv"
    BY <1>1, <1>4, <2>1 DEF Receiving, Process, Alone
  <2>4. rd_seq > 2
    <3>1. ~(rd_seq <= 2) /\ rd_seq \in Nat
      BY <1>1, <2>3 DEF Network, First, Phases, Busy, X, DiskTyped
    <3> QED
      BY <3>1
  <2>5. /\ \A q \in Process : q # p => xchg'[q] = xchg[q] /\ pc'[q] = pc[q]
        /\ xchg'[p].type = "none"
    BY <2>2 DEF DiskTyped
  <2>6. CASE xchg[p].xmit
    <3>1. wire' = [wire EXCEPT !.up = Append(@, m)]
      BY <1>3, <2>6
    <3> QED
      BY <1>1, <1>2, <2>1, <2>4, <2>5, <2>6, <3>1, NetSends
  <2>7. CASE ~xchg[p].xmit
    BY <1>1, <1>3, <2>1, <2>7, NetGivesUp
  <2> QED
    BY <2>6, <2>7
<1>5. CASE ~Receiving
  <2>1. pc' = [pc EXCEPT ![p] = "udp_recv"] /\ xchg' = xchg
    BY <1>5 DEF rdscommSend
  <2>2. pc'[p] = "udp_recv" /\ \A q \in Process : q # p => pc'[q] = pc[q]
    BY <2>1 DEF DiskTyped
  <2>3. CASE xchg[p].xmit
    <3>1. wire' = [wire EXCEPT !.up = Append(@, m)]
      BY <1>3, <2>3
    <3> QED
      BY <1>1, <1>2, <2>1, <2>2, <2>3, <3>1, NetSends
  <2>4. CASE ~xchg[p].xmit
    <3>1. wire' = wire
      BY <1>3, <2>4
    <3>2. /\ pc'[rd_comproc] = "rdscomm" => pc[rd_comproc] = "rdscomm"
          /\ \A c \in Client : pc[c] = "udp_recv" => pc'[c] = "udp_recv"
      BY <1>1, <2>2 DEF Process
    <3> QED
      BY <1>1, <2>1, <3>1, <3>2, NetStill
  <2> QED
    BY <2>3, <2>4
<1> QED
  BY <1>4, <1>5

LEMMA NetComm ==
    ASSUME Alone, RdsInv, DiskTyped, DiskTyped', Phases, Network,
           NEW p \in Process, Comm(p), halted' = "no"
    PROVE  Network'
<1>1. CASE rdscommSend(p)
  BY <1>1, NetSend
<1>2. CASE rdscommExhausted(p)
  <2>1. /\ pc[p] = "rdscomm" /\ fail(p) /\ p # rd_comproc
        /\ UNCHANGED <<wire, udqueue, rd_seq, server>>
    BY <1>2 DEF rdscommExhausted, fail, netVars
  <2> QED
    BY <2>1, NetGivesUp
<1>3. CASE rdscommTimeout(p)
  BY <1>3, NetTimeout
<1>4. CASE rdscommRefuse(p)
  BY <1>4, NetRefuse
<1>5. CASE rdscommDone(p)
  <2>1. p = rd_comproc => Head(udqueue).ok
    BY <1>5 DEF rdscommDone, fail
  <2> QED
    BY <1>5, <2>1, NetDone
<1> QED
  BY <1>1, <1>2, <1>3, <1>4, <1>5 DEF Comm

\* The other steps of clients send and receive nothing.
LEMMA NetClient ==
    ASSUME Alone, DiskTyped, DiskTyped', Phases, Network, NEW c \in Client, ClientStep(c)
    PROVE  Network'
<1>t. /\ c \in Process /\ rd_comproc \in Process /\ c # rd_comproc
      /\ \A d \in Client : d = c
  BY ProcessAssumption DEF Process, Alone
<1>1. CASE rdsopen(c)
  <2>1. /\ rd_state = "FREE" /\ pc[c] = "run" /\ pc' = [pc EXCEPT ![c] = "rdscomm"]
        /\ exchange(c, "open", Hole, Hole) /\ UNCHANGED <<wire, udqueue, server>>
    BY <1>1 DEF rdsopen, Calls, netVars
  <2>2. PICK x : /\ x = [type |-> "open", seq |-> rd_seq, blk |-> Hole, data |-> Hole,
                         tries |-> 0, xmit |-> TRUE]
                 /\ xchg' = [xchg EXCEPT ![c] = x] /\ rd_seq' = rd_seq + 1
    BY <2>1 DEF exchange
  <2>3. x.seq = rd_seq
    BY <2>2
  <2>4. ~Busy(c) /\ pc'[rd_comproc] = pc[rd_comproc]
    BY <1>t, <2>1 DEF Busy, DiskTyped
  <2>5. rd_seq <= 2 => \A q \in Process : ~Busy(q)
    BY <1>t, <2>4 DEF Process, Phases, Network, First, X
  <2> QED
    BY <1>t, <2>1, <2>2, <2>3, <2>4, <2>5, NetBegins
<1>2. CASE ~rdsopen(c)
  <2>1. /\ UNCHANGED <<rd_seq, server, wire, udqueue, xchg>>
        /\ pc' = pc \/ (pc[c] # "udp_recv" /\ \E w : pc' = [pc EXCEPT ![c] = w])
    <3>1. CASE rdsclose(c) \/ rdsreadDone(c) \/ notice(c) \/ \E b \in Block : rdsreadHere(c, b)
      BY <3>1 DEF rdsclose, rdsreadDone, notice, rdsreadHere, netVars, procVars
    <3>2. CASE granted(c)
      BY <3>2 DEF granted, netVars
    <3>3. CASE \E b \in Block : rdsreadMiss(c, b) \/ \E v \in Value : rdswriteNew(c, b, v)
      BY <3>3 DEF rdsreadMiss, rdswriteNew, mayRead, mayWrite, Calls, waitAvail, netVars
    <3>4. CASE \E b \in Block, v \in Value : rdswriteReplace(c, b, v) \/ rdswriteCached(c, b, v)
      BY <3>4 DEF rdswriteReplace, rdswriteCached, netVars, procVars
    <3> QED
      BY <1>2, <3>1, <3>2, <3>3, <3>4 DEF ClientStep
  <2>2. pc'[rd_comproc] = pc[rd_comproc] /\ (pc[c] = "udp_recv" => pc'[c] = "udp_recv")
    BY <1>t, <2>1 DEF DiskTyped
  <2> QED
    BY <1>t, <2>1, <2>2, NetStill
<1> QED
  BY <1>1, <1>2

LEMMA NetProcess ==
    ASSUME Alone, RdsInv, DiskTyped, DiskTyped', Driver, Network, rdsprocess
    PROVE  Network'
<1>t. rd_comproc \in Process /\ \A d \in Client : d \in Process /\ d # rd_comproc
  BY DriverTypes
<1>1. CASE rdsprocessRead \/ rdsprocessWrite
  <2>1. /\ pc[rd_comproc] = "wait" /\ requests # <<>> /\ UNCHANGED <<wire, udqueue, server>>
        /\ \E t, b, v : exchange(rd_comproc, t, b, v)
    BY <1>1 DEF rdsprocessRead, rdsprocessWrite, TakesRequest, netVars
  <2>2. PICK x : xchg' = [xchg EXCEPT ![rd_comproc] = x] /\ x.seq = rd_seq /\ rd_seq' = rd_seq + 1
    <3>1. PICK t, b, v : exchange(rd_comproc, t, b, v)
      BY <2>1
    <3>2. PICK x : /\ x = [type |-> t, seq |-> rd_seq, blk |-> b, data |-> v, tries |-> 0,
                           xmit |-> TRUE]
                   /\ xchg' = [xchg EXCEPT ![rd_comproc] = x] /\ rd_seq' = rd_seq + 1
      BY <3>1 DEF exchange
    <3>3. x.seq = rd_seq
      BY <3>2
    <3> QED
      BY <3>2, <3>3
  <2>3. ~Busy(rd_comproc)
    BY <2>1 DEF Busy
  <2>4. rd_state = "OPEN" /\ rd_seq > 1
    BY <2>1, HeadRequest DEF Driver, Phases
  <2>5. \A q \in Process : ~Busy(q)
    BY <2>3, <2>4 DEF Driver, Phases, Process
  <2> QED
    BY <1>t, <2>1, <2>2, <2>3, <2>4, <2>5, NetBegins DEF Driver
<1>2. CASE rdsprocessSleep
  <2>1. /\ UNCHANGED <<rd_seq, server, wire, udqueue, xchg>>
        /\ pc' = [pc EXCEPT ![rd_comproc] = "wait"]
    BY <1>2 DEF rdsprocessSleep, netVars
  <2>2. pc'[rd_comproc] = "wait" /\ \A c \in Client : pc'[c] = pc[c]
    BY <1>t, <2>1 DEF DiskTyped
  <2> QED
    BY <2>1, <2>2, NetStill
<1> QED
  BY <1>1, <1>2 DEF rdsprocess

-------------------------------------------------------------------------------
(***************************************************************************)
(* The invariant is inductive.                                              *)
(***************************************************************************)
LEMMA DiskInit == Init => DiskInv
<1> SUFFICES ASSUME Init
             PROVE  DiskInv
  OBVIOUS
<1>0. RdsInv
  BY InitInv
<1>1. /\ rd_state = "FREE" /\ rd_seq = 1 /\ requests = <<>> /\ cache = <<>>
      /\ udqueue = <<>> /\ Up = <<>> /\ Down = <<>>
      /\ xchg = [p \in Process |-> Idle]
      /\ pc = [p \in Process |-> IF p = rd_comproc THEN "wait" ELSE "run"]
      /\ server = [seq |-> 0, open |-> FALSE, file |-> File] /\ last = File
  BY DEF Init, Up, Down
<1>2. rd_comproc \in Process /\ \A c \in Client : c \in Process /\ c # rd_comproc
  BY ProcessAssumption DEF Process
<1>3. /\ Len(requests) = 0 /\ Len(cache) = 0 /\ Len(udqueue) = 0 /\ Len(Up) = 0 /\ Len(Down) = 0
  BY <1>1
<1>4. /\ \A c \in Client : pc[c] = "run"
      /\ pc[rd_comproc] = "wait"
      /\ \A p \in Process : xchg[p].type = "none"
      /\ X.type = "none"
  BY <1>1, <1>2 DEF Idle, X
<1>5. Cardinality(Buf) \in Nat /\ Len(free) = Cardinality(Buf)
  <2>1. Cardinality(Buf) \in Nat
    BY BufferAssumption, FS_CardinalityType
  <2>2. PICK s \in [1..Cardinality(Buf) -> Buf] : free = s
    BY DEF Init
  <2>3. s \in Seq(Buf) /\ Len(s) = Cardinality(Buf)
    BY <2>1, SeqDef, LenProperties
  <2> QED
    BY <2>1, <2>2, <2>3
<1>6. DiskTyped
  <2>1. xchg \in [Process -> Attempt]
    BY <1>1, IdleTyped
  <2>2. PICK e : /\ e = [op |-> "none", refcnt |-> 0, blknum |-> Hole, status |-> "INVALID",
                         pid |-> rd_comproc, block |-> Hole]
                 /\ buf = [b \in Buf |-> e]
    BY DEF Init
  <2>3. e \in Buffer
    BY <1>2, <2>2 DEF Buffer, Datum
  <2>4. buf \in [Buf -> Buffer]
    BY <2>2, <2>3
  <2>5. availsem \in [count : Int, waiting : Seq(Client)]
    BY <1>5 DEF Init
  <2>6. pc \in [Process -> {"run", "wait", "sleep", "waitAvail", "granted", "receive",
                            "rdscomm", "udp_recv"}]
    BY <1>1
  <2>7. want \in [Client -> Request] /\ prmsg \in [Client -> Buf \cup {NoBuf, Notice}]
    BY DEF Init, NoRequest, Request
  <2>8. udqueue \in Seq(Reply) /\ wire \in [up : Seq(Packet), down : Seq(Reply)]
    BY DEF Init
  <2>9. server \in [seq : Nat, open : BOOLEAN, file : [Block -> Datum]] /\ last \in [Block -> Datum]
    BY <1>1, ValueAssumption DEF Datum
  <2>10. answer \in [Client -> [blk : Block \cup {Hole}, val : Datum \cup {Garbage}]]
    BY DEF Init, Datum
  <2> QED
    BY <1>1, <2>1, <2>4, <2>5, <2>6, <2>7, <2>8, <2>9, <2>10 DEF DiskTyped
<1>7. Driver
  <2>1. Phases
    BY <1>1, <1>2, <1>4 DEF Phases, Busy, Asking, Process
  <2>2. Available
    <3>1. availsem.count = Cardinality(Buf) /\ availsem.waiting = <<>>
      BY DEF Init
    <3>2. /\ \A c \in Client : pc[c] # "waitAvail" /\ pc[c] # "granted"
          /\ Len(free) + Len(cache) - 0 = Cardinality(Buf)
      BY <1>3, <1>4, <1>5
    <3> HIDE DEF Init
    <3> QED
      BY <1>5, <3>1, <3>2 DEF Available
  <2>3. Queue /\ Cached /\ Wanted
    BY <1>3, <1>4 DEF Queue, Cached, Wanted, Asking
  <2>4. Content
    BY <1>1, <1>3, <1>4 DEF Content
  <2> QED
    BY <2>1, <2>2, <2>3, <2>4 DEF Driver
<1>8. Network /\ Opened
  <2>1. Numbers /\ Sorted /\ Distinct
    BY <1>1, <1>3, <1>4 DEF Numbers, Sorted, Distinct
  <2>2. Truthful /\ Single /\ Unsent
    BY <1>3, <1>4 DEF Truthful, Single, Unsent
  <2>3. First
    BY <1>1, <1>3, <1>4 DEF First, Flying
  <2>4. Opened
    BY <1>1, <1>3, <1>4 DEF Opened
  <2> QED
    BY <2>1, <2>2, <2>3, <2>4 DEF Network
<1> QED
  BY <1>0, <1>6, <1>7, <1>8 DEF DiskInv

LEMMA DriverClient ==
    ASSUME Alone, RdsInv, DiskTyped, Driver, NEW c \in Client, ClientStep(c), halted' = "no"
    PROVE  Driver'
<1>1. CASE rdsopen(c)
  BY <1>1, DriverOpen
<1>2. CASE rdsclose(c)
  BY <1>2, DriverClose
<1>3. CASE rdsreadDone(c)
  BY <1>3, DriverReadDone
<1>4. CASE granted(c)
  BY <1>4, DriverGranted
<1>5. CASE notice(c)
  BY <1>5, DriverNotice
<1>6. ASSUME NEW b \in Block, rdsreadHere(c, b)
      PROVE  Driver'
  <2>1. /\ server' = server /\ xchg' = xchg /\ pc' = pc
        /\ UNCHANGED <<rd_state, rd_seq, requests, cache, free, buf, availsem, want, prmsg, last>>
    BY <1>6 DEF rdsreadHere, listVars, semVars, procVars, netVars
  <2> QED
    BY <2>1, DriverStill
<1>7. ASSUME NEW b \in Block,
             \/ rdsreadMiss(c, b)
             \/ \E v \in Value : rdswriteCached(c, b, v) \/ rdswriteNew(c, b, v)
      PROVE  Driver'
  BY <1>7, DriverCalls
<1>8. ASSUME NEW b \in Block, NEW v \in Value, rdswriteReplace(c, b, v)
      PROVE  Driver'
  BY <1>8, DriverReplace
<1> QED
  BY <1>1, <1>2, <1>3, <1>4, <1>5, <1>6, <1>7, <1>8 DEF ClientStep

LEMMA DriverProcess ==
    ASSUME Alone, RdsInv, DiskTyped, Driver, rdsprocess
    PROVE  Driver'
<1>1. CASE rdsprocessSleep
  <2>1. /\ server' = server /\ xchg' = xchg
        /\ pc[rd_comproc] = "sleep" /\ pc' = [pc EXCEPT ![rd_comproc] = "wait"]
        /\ UNCHANGED <<rd_state, rd_seq, requests, cache, free, buf, availsem, want, prmsg, last>>
    BY <1>1 DEF rdsprocessSleep, listVars, semVars, netVars, histVars
  <2> QED
    BY <2>1, DriverStill
<1> QED
  BY <1>1, DriverRead, DriverWrite DEF rdsprocess

LEMMA DriverNetwork ==
    ASSUME RdsInv, DiskTyped, Driver, Network, lose \/ udp_in \/ rdserver
    PROVE  Driver'
<1>1. CASE lose \/ udp_in
  <2>1. /\ server' = server /\ xchg' = xchg /\ pc' = pc
        /\ UNCHANGED <<rd_state, rd_seq, requests, cache, free, buf, availsem, want, prmsg, last>>
    BY <1>1 DEF lose, udp_in, listVars, semVars, procVars, histVars
  <2> QED
    BY <2>1, DriverStill
<1> QED
  BY <1>1, DriverServer

\* The server opens the file before anybody asks it for blocks.
LEMMA OpenedNext ==
    ASSUME RdsInv, DiskTyped, DiskTyped', Phases, Opened, Next
    PROVE  Opened'
<1>1. CASE server'.open
  BY <1>1 DEF Opened
<1>2. CASE ~server'.open /\ server.open
  <2>1. server' = server \/ rdserver
    <3>1. \A c \in Client : ClientStep(c) => server' = server
      <4> SUFFICES ASSUME NEW c \in Client, ClientStep(c)
                   PROVE  server' = server
        OBVIOUS
      <4>1. CASE rdsopen(c) \/ rdsclose(c) \/ rdsreadDone(c) \/ granted(c) \/ notice(c)
        BY <4>1 DEF rdsopen, rdsclose, rdsreadDone, granted, notice, netVars
      <4>2. ASSUME NEW b \in Block, rdsreadHere(c, b) \/ rdsreadMiss(c, b)
            PROVE  server' = server
        BY <4>2 DEF rdsreadHere, rdsreadMiss, netVars
      <4>3. ASSUME NEW b \in Block, NEW v \in Value,
                   rdswriteReplace(c, b, v) \/ rdswriteCached(c, b, v) \/ rdswriteNew(c, b, v)
            PROVE  server' = server
        BY <4>3 DEF rdswriteReplace, rdswriteCached, rdswriteNew, netVars
      <4> QED
        BY <4>1, <4>2, <4>3 DEF ClientStep
    <3>2. \A p \in Process : Comm(p) => server' = server
      BY DEF Comm, rdscommSend, rdscommExhausted, rdscommTimeout, rdscommRefuse, rdscommDone,
             netVars
    <3>3. rdsprocess => server' = server
      BY DEF rdsprocess, rdsprocessRead, rdsprocessWrite, rdsprocessSleep, netVars
    <3>4. lose \/ udp_in => server' = server
      BY DEF lose, udp_in
    <3> QED
      BY <3>1, <3>2, <3>3, <3>4 DEF Next
  <2>2. rdserver => server' = server \/ server'.open
    <3> SUFFICES ASSUME rdserver
                 PROVE  server' = server \/ server'.open
      OBVIOUS
    <3>1. PICK o \in BOOLEAN : o = (server.open \/ Head(wire.up).type = "open")
      OBVIOUS
    <3>2. server' = server \/ \E q, f : server' = [seq |-> q, open |-> o, file |-> f]
      BY <3>1 DEF rdserver
    <3>3. o = TRUE
      BY <1>2, <3>1
    <3>4. ASSUME NEW q, NEW f, server' = [seq |-> q, open |-> o, file |-> f]
          PROVE  FALSE
      <4>1. server'.open = o
        BY <3>4
      <4> QED
        BY <1>2, <3>3, <4>1
    <3> QED
      BY <3>2, <3>4
  <2> QED
    BY <1>2, <2>1, <2>2
<1>3. CASE ~server'.open /\ ~server.open
  <2>t. /\ Up \in Seq(Packet) /\ Len(Up) \in Nat
        /\ \A c \in Client : c \in Process /\ c # rd_comproc
        /\ rd_comproc \in Process
    BY NetTypes, ProcessAssumption DEF Process
  <2>1. /\ rd_state # "OPEN" /\ X.type = "none" /\ requests = <<>> /\ ~Busy(rd_comproc)
        /\ wire.down = <<>> /\ udqueue = <<>>
        /\ \A i \in 1..Len(Up) : ~Own(Up[i])
    <3>1. Len(wire.down) = 0 /\ Len(udqueue) = 0
      BY <1>3 DEF Opened, Down
    <3>2. wire.down \in Seq(Reply) /\ udqueue \in Seq(Reply)
      BY DEF DiskTyped
    <3>3. wire.down = <<>> /\ udqueue = <<>>
      BY <3>1, <3>2, EmptySeq
    <3> QED
      BY <1>3, <2>t, <3>3 DEF Opened, Phases, X
  <2> SUFFICES /\ rd_state' # "OPEN" /\ X'.type = "none"
               /\ wire'.down = <<>> /\ udqueue' = <<>>
               /\ \A i \in 1..Len(Up') : ~Own(Up'[i])
    BY DEF Opened, Own, Down, X
  <2>2. ASSUME NEW c \in Client, ClientStep(c)
        PROVE  /\ rd_state' # "OPEN" /\ wire' = wire /\ udqueue' = udqueue
               /\ xchg' = xchg \/ \E x : xchg' = [xchg EXCEPT ![c] = x]
    <3>1. CASE rdsopen(c)
      BY <3>1 DEF rdsopen, exchange, netVars
    <3>2. CASE rdsreadDone(c) \/ granted(c) \/ notice(c)
      BY <2>1, <3>2 DEF rdsreadDone, granted, notice, netVars
    <3> QED
      BY <2>1, <2>2, <3>1, <3>2
      DEF ClientStep, rdsclose, rdsreadHere, rdsreadMiss, mayRead, rdswriteReplace, rdswriteCached,
          rdswriteNew, mayWrite
  <2>3. ASSUME NEW p \in Process, Comm(p)
        PROVE  /\ rd_state' # "OPEN" /\ udqueue' = udqueue /\ p # rd_comproc
               /\ \E x : xchg' = [xchg EXCEPT ![p] = x]
               /\ \/ wire' = wire
                  \/ \E m : m.type = "open" /\ wire' = [wire EXCEPT !.up = Append(@, m)]
    <3>1. pc[p] \in {"rdscomm", "udp_recv"} /\ p # rd_comproc
      BY <2>1, <2>3
      DEF Comm, rdscommSend, rdscommExhausted, rdscommTimeout, rdscommRefuse, rdscommDone, Busy
    <3>2. xchg[p].type = "open"
      BY <3>1 DEF RdsInv, Exchanges, Process, Phases, Busy
    <3>3. xchg = [xchg EXCEPT ![p] = xchg[p]]
      BY DEF DiskTyped
    <3>4. fail(p) => rd_state' # "OPEN" /\ \E x : xchg' = [xchg EXCEPT ![p] = x]
      BY <3>1 DEF fail
    <3>5. CASE rdscommSend(p)
      <4>1. udqueue' = udqueue
        BY <3>5 DEF rdscommSend
      <4>2. rd_state' # "OPEN" /\ \E x : xchg' = [xchg EXCEPT ![p] = x]
        BY <2>1, <3>3, <3>4, <3>5 DEF rdscommSend
      <4>3. PICK m : m = [type |-> xchg[p].type, seq |-> xchg[p].seq, blk |-> xchg[p].blk,
                          data |-> xchg[p].data]
        OBVIOUS
      <4>4. wire' = wire \/ wire' = [wire EXCEPT !.up = Append(@, m)]
        BY <3>5, <4>3 DEF rdscommSend
      <4> QED
        BY <3>1, <3>2, <4>1, <4>2, <4>3, <4>4
    <3>6. CASE rdscommExhausted(p)
      BY <3>1, <3>4, <3>6 DEF rdscommExhausted, netVars
    <3>7. CASE rdscommTimeout(p)
      BY <2>1, <3>1, <3>7 DEF rdscommTimeout, again, netVars
    <3> QED
      BY <2>1, <2>3, <3>5, <3>6, <3>7 DEF Comm, rdscommRefuse, rdscommDone
  <2>4. CASE \E c \in Client : ClientStep(c)
    <3>1. PICK c \in Client : ClientStep(c)
      BY <2>4
    <3>2. X' = X
      <4>1. xchg' = xchg \/ \E x : xchg' = [xchg EXCEPT ![c] = x]
        BY <2>2, <3>1
      <4>2. c # rd_comproc
        BY <2>t
      <4> QED
        BY <2>t, <4>1, <4>2 DEF X, DiskTyped
    <3>3. Up' = Up
      BY <2>2, <3>1 DEF Up
    <3>4. \A i \in 1..Len(Up') : ~Own(Up'[i])
      BY <2>1, <3>3
    <3> QED
      BY <2>1, <2>2, <3>1, <3>2, <3>4
  <2>5. ASSUME NEW p \in Process, Comm(p)
        PROVE  /\ rd_state' # "OPEN" /\ X'.type = "none"
               /\ wire'.down = <<>> /\ udqueue' = <<>>
               /\ \A i \in 1..Len(Up') : ~Own(Up'[i])
    <3>1. X' = X
      BY <2>t, <2>3, <2>5 DEF X, DiskTyped
    <3>2. CASE wire' = wire
      BY <2>1, <2>3, <2>5, <3>1, <3>2 DEF Up
    <3>3. ASSUME NEW m, m.type = "open", wire' = [wire EXCEPT !.up = Append(@, m)]
          PROVE  wire'.down = <<>> /\ \A i \in 1..Len(Up') : ~Own(Up'[i])
      <4>1. wire'.down = wire.down /\ Up' = Append(Up, m)
        BY <3>3 DEF Up, DiskTyped
      <4> QED
        BY <2>t, <2>1, <3>3, <4>1 DEF Own
    <3> QED
      BY <2>1, <2>3, <2>5, <3>1, <3>2, <3>3
  <2>6. CASE rdsprocess
    BY <2>1, <2>6
    DEF rdsprocess, rdsprocessRead, rdsprocessWrite, TakesRequest, rdsprocessSleep, netVars, X, Up
  <2>7. ASSUME lose \/ udp_in \/ rdserver
        PROVE  /\ rd_state' # "OPEN" /\ X'.type = "none"
               /\ wire'.down = <<>> /\ udqueue' = <<>>
               /\ \A i \in 1..Len(Up') : ~Own(Up'[i])
    <3>1. rd_state' = rd_state /\ xchg' = xchg /\ udqueue' = udqueue
      BY <2>1, <2>7 DEF lose, udp_in, rdserver
    <3>2. Up # <<>> /\ Up' = Tail(Up) /\ wire'.down = <<>>
      <4>1. CASE lose
        BY <2>1, <4>1 DEF lose, Up, DiskTyped
      <4>2. CASE rdserver
        <5>1. PICK m \in Packet : m = Head(wire.up) /\ Up # <<>> /\ Up' = Tail(Up)
          BY <4>2, ServerFacts
        <5>2. m.type = "open"
          BY <2>t, <2>1, <5>1 DEF Own, Packet, Up
        <5>3. PICK n : n = IF m.seq = 1 THEN 0 ELSE server.seq
          OBVIOUS
        <5>4. CASE m.seq < n
          <6>1. wire' = [wire EXCEPT !.up = Tail(wire.up)]
            BY <4>2, <5>1, <5>3, <5>4 DEF rdserver
          <6> QED
            BY <2>1, <5>1, <6>1 DEF DiskTyped
        <5>5. CASE ~(m.seq < n)
          <6>1. PICK o \in BOOLEAN : o = (server.open \/ m.type = "open")
            OBVIOUS
          <6>2. \E q, f : server' = [seq |-> q, open |-> o, file |-> f]
            BY <4>2, <5>1, <5>3, <5>5, <6>1 DEF rdserver
          <6>3. o = TRUE
            BY <5>2, <6>1
          <6> QED
            BY <1>3, <6>2, <6>3
        <5> QED
          BY <5>4, <5>5
      <4> QED
        BY <2>1, <2>7, <4>1, <4>2 DEF udp_in
    <3>3. \A i \in 1..Len(Up') : i + 1 \in 1..Len(Up) /\ Up'[i] = Up[i + 1]
      BY <2>t, <3>2, TailFacts
    <3> QED
      BY <2>1, <3>1, <3>2, <3>3 DEF X
  <2> QED
    BY <2>4, <2>5, <2>6, <2>7 DEF Next
<1> QED
  BY <1>1, <1>2, <1>3

LEMMA DiskNext ==
    ASSUME Alone, DiskInv, Next
    PROVE  DiskInv'
<1>0. RdsInv /\ halted = "no" /\ DiskTyped /\ Driver /\ Network /\ Opened
  BY DEF DiskInv, Next
<1>d. Phases /\ Available /\ Queue /\ Cached /\ Wanted /\ Content /\ Numbers
  BY <1>0 DEF Driver, Network
<1>1. ASSUME NEW c \in Client, ClientStep(c)
      PROVE  DiskInv'
  <2>1. RdsInv' /\ DiskTyped'
    BY <1>0, <1>d, <1>1, ClientInv, ClientTyped
  <2>2. halted' = "no" => Driver'
    BY <1>0, <1>1, DriverClient
  <2>3. Network'
    BY <1>0, <1>d, <1>1, <2>1, NetClient
  <2>4. Opened'
    BY <1>0, <1>d, <2>1, OpenedNext
  <2> QED
    BY <2>1, <2>2, <2>3, <2>4 DEF DiskInv
<1>2. ASSUME NEW p \in Process, Comm(p)
      PROVE  DiskInv'
  <2>1. RdsInv' /\ DiskTyped'
    BY <1>0, <1>d, <1>2, CommInv, CommTyped
  <2>2. halted' = "no" => Driver' /\ Network'
    BY <1>0, <1>d, <1>2, <2>1, DriverComm, NetComm
  <2>3. Opened'
    BY <1>0, <1>d, <2>1, OpenedNext
  <2> QED
    BY <2>1, <2>2, <2>3 DEF DiskInv
<1>3. CASE rdsprocess
  <2>1. RdsInv' /\ DiskTyped'
    BY <1>0, <1>d, <1>3, ProcessInv, ProcessTyped
  <2>2. Driver' /\ Network'
    BY <1>0, <1>3, <2>1, DriverProcess, NetProcess
  <2>3. Opened'
    BY <1>0, <1>d, <2>1, OpenedNext
  <2> QED
    BY <2>1, <2>2, <2>3 DEF DiskInv
<1>4. CASE lose \/ udp_in \/ rdserver
  <2>1. RdsInv' /\ DiskTyped'
    BY <1>0, <1>4, NetworkInv, NetworkTyped
  <2>2. Driver' /\ Network'
    BY <1>0, <1>4, <2>1, DriverNetwork, NetLose, NetIn, NetServer
  <2>3. Opened'
    BY <1>0, <1>d, <2>1, OpenedNext
  <2> QED
    BY <2>1, <2>2, <2>3 DEF DiskInv
<1> QED
  BY <1>1, <1>2, <1>3, <1>4 DEF Next

\* The remote disk of one client: who is where, what the queue, the cache and the server
\* have of each block, and which packets are on their way.
THEOREM DiskInductive ==
    ASSUME Alone
    PROVE  Spec => []DiskInv
<1>1. DiskInv /\ [Next]_vars => DiskInv'
  <2>1. DiskInv /\ UNCHANGED vars => DiskInv'
    <3> SUFFICES ASSUME DiskInv, UNCHANGED vars
                 PROVE  DiskInv'
      OBVIOUS
    <3>1. UNCHANGED <<rd_state, rd_seq, requests, cache, free, buf, availsem, reqsem, pc, want,
                      prmsg, xchg, udqueue, wire, server, halted, last, answer>>
      BY DEF vars, listVars, semVars, procVars, netVars, histVars
    <3>2. RdsInv' /\ halted' = halted
      BY <3>1 DEF DiskInv, RdsInv, Lists, Exchanges, RequestsCounted
    <3>3. DiskTyped => DiskTyped'
      BY <3>1 DEF DiskTyped
    <3>4. Driver => Driver'
      <4>1. Phases /\ Available => Phases' /\ Available'
        BY <3>1 DEF Phases, Available, Busy, Asking
      <4>2. Queue /\ Cached => Queue' /\ Cached'
        BY <3>1 DEF Queue, Cached
      <4>3. Wanted /\ Content => Wanted' /\ Content'
        BY <3>1 DEF Wanted, Content, X, Asking
      <4> QED
        BY <4>1, <4>2, <4>3 DEF Driver
    <3>5. Network /\ Opened => Network' /\ Opened'
      <4>1. Up' = Up /\ Down' = Down /\ X' = X
        BY <3>1 DEF Up, Down, X
      <4>2. Numbers /\ Sorted /\ Distinct => Numbers' /\ Sorted' /\ Distinct'
        BY <3>1, <4>1 DEF Numbers, Sorted, Distinct
      <4>3. Truthful /\ Single /\ Unsent => Truthful' /\ Single' /\ Unsent'
        BY <3>1, <4>1 DEF Truthful, Truth, Single, Unsent, Nothing, Heard, Own
      <4>4. First => First'
        BY <3>1, <4>1 DEF First, Flying
      <4>5. Opened => Opened'
        BY <3>1, <4>1 DEF Opened, Own
      <4> QED
        BY <4>2, <4>3, <4>4, <4>5 DEF Network
    <3> QED
      BY <3>2, <3>3, <3>4, <3>5 DEF DiskInv
  <2> QED
    BY <2>1, DiskNext
<1> QED
  BY <1>1, DiskInit, PTL DEF Spec

\* rd_availsem counts the buffers that can be taken, less those promised to a client that
\* signal() has made ready: rdsbufalloc() finds one whenever the semaphore lets it in.
THEOREM AvailAlwaysExact ==
    ASSUME Alone
    PROVE  Spec => []AvailExact
<1> DEFINE ready == {c \in Client : pc[c] = "granted"}
<1>1. ASSUME DiskInv
      PROVE  AvailExact
  <2> SUFFICES ASSUME halted = "no"
               PROVE  availsem.count + Len(availsem.waiting) =
                         Len(free) + Len(cache) - Cardinality(ready)
    BY DEF AvailExact
  <2>t. /\ RdsInv /\ DiskTyped /\ Available
        /\ Len(free) \in Nat /\ Len(cache) \in Nat /\ availsem.count \in Int
    <3>1. RdsInv /\ DiskTyped /\ Available
      BY <1>1 DEF DiskInv, Driver
    <3> QED
      BY <3>1, DriverTypes
  <2>1. CASE \E c \in Client : pc[c] = "waitAvail"
    <3>1. PICK c \in Client : pc[c] = "waitAvail"
      BY <2>1
    <3>2. availsem.count = -1 /\ Len(availsem.waiting) = 1 /\ Len(free) + Len(cache) = 0
      <4>1. availsem.count = -1 /\ availsem.waiting = <<c>> /\ Len(free) + Len(cache) = 0
        BY <2>t, <3>1 DEF Available
      <4>2. Len(<<c>>) = 1
        OBVIOUS
      <4> QED
        BY <4>1, <4>2
    <3>3. ready = {}
      BY <3>1 DEF Alone
    <3>4. Cardinality(ready) = 0
      BY <3>3, FS_EmptySet
    <3> HIDE DEF ready
    <3> QED
      BY <3>2, <3>4
  <2>2. CASE \A c \in Client : pc[c] # "waitAvail"
    <3>1. /\ Len(availsem.waiting) = 0
          /\ availsem.count = Len(free) + Len(cache) -
                               (IF \E c \in Client : pc[c] = "granted" THEN 1 ELSE 0)
      BY <2>t, <2>2 DEF Available
    <3>2. CASE \E c \in Client : pc[c] = "granted"
      <4>1. PICK c \in Client : pc[c] = "granted"
        BY <3>2
      <4>2. ready = {c}
        BY <4>1 DEF Alone
      <4>3. Cardinality(ready) = 1
        BY <4>2, FS_Singleton
      <4> HIDE DEF ready
      <4> QED
        BY <2>t, <3>1, <3>2, <4>3
    <3>3. CASE ~\E c \in Client : pc[c] = "granted"
      <4>1. ready = {}
        BY <3>3
      <4>2. Cardinality(ready) = 0
        BY <4>1, FS_EmptySet
      <4> HIDE DEF ready
      <4> QED
        BY <2>t, <3>1, <3>3, <4>2
    <3> QED
      BY <3>2, <3>3
  <2> QED
    BY <2>1, <2>2
<1> QED
  BY <1>1, DiskInductive, PTL

\* A client that waits for its block has its request in the queue, and the communication
\* process is at work or has been signalled: no wake-up is lost.
THEOREM ReaderAlwaysQueued ==
    ASSUME Alone
    PROVE  Spec => []ReaderQueued
<1>1. ASSUME DiskInv
      PROVE  ReaderQueued
  <2> SUFFICES ASSUME NEW c \in Client, halted = "no", pc[c] = "receive", prmsg[c] = NoBuf
               PROVE  /\ \E i \in 1..Len(requests) :
                            buf[requests[i]].pid = c /\ buf[requests[i]].op = "read"
                      /\ pc[rd_comproc] = "wait" => reqsem > 0
    BY DEF ReaderQueued
  <2>1. RdsInv /\ DiskTyped /\ Driver
    BY <1>1 DEF DiskInv
  <2>2. /\ requests # <<>>
        /\ buf[requests[Len(requests)]].pid = c /\ buf[requests[Len(requests)]].op = "read"
    BY <2>1 DEF Driver, Wanted, Asking
  <2>3. Len(requests) \in 1..Len(requests) /\ Len(requests) > 0
    BY <2>1, <2>2, DriverTypes, EmptySeq
  <2>4. pc[rd_comproc] = "wait" => reqsem + 0 = Len(requests) /\ reqsem \in Nat
    BY <2>1 DEF RdsInv, RequestsCounted
  <2> QED
    BY <2>2, <2>3, <2>4
<1> QED
  BY <1>1, DiskInductive, PTL

\* When the queue is drained, the file on the server is what the programs wrote.
THEOREM AlwaysDurable ==
    ASSUME Alone
    PROVE  Spec => []Durable
<1>1. ASSUME DiskInv
      PROVE  Durable
  <2> SUFFICES ASSUME halted = "no", requests = <<>>, pc[rd_comproc] \in {"wait", "sleep"}
               PROVE  server.file = last
    BY DEF Durable
  <2>1. DiskTyped /\ Phases /\ Content /\ rd_comproc \in Process /\ Len(requests) = 0
    BY <1>1 DEF DiskInv, Driver, Process
  <2>2. X.type = "none"
    BY <2>1 DEF Phases, Busy, X
  <2>3. \A k \in Block : server.file[k] = last[k]
    BY <2>1, <2>2 DEF Content
  <2>4. server.file \in [Block -> Datum] /\ last \in [Block -> Datum]
    BY <2>1 DEF DiskTyped
  <2> QED
    BY <2>3, <2>4
<1> QED
  BY <1>1, DiskInductive, PTL

-------------------------------------------------------------------------------
(***************************************************************************)
(* The driver implements the disk.                                          *)
(***************************************************************************)
\* A request that waits for a buffer is to read, or to write a value.
WantTyped == want \in [Client -> {r \in Request : r.op = "write" => r.val \in Value}]

LEMMA WantAlwaysTyped == Spec => []WantTyped
<1> DEFINE R == {r \in Request : r.op = "write" => r.val \in Value}
<1>1. Init => WantTyped
  BY DEF Init, WantTyped, NoRequest, Request
<1>2. WantTyped /\ [Next]_vars => WantTyped'
  <2> SUFFICES ASSUME WantTyped, [Next]_vars
               PROVE  WantTyped'
    OBVIOUS
  <2> USE DEF procVars
  <2>1. \A c \in Client, r \in R : \A b, fl, ca : request(c, r, b, fl, ca) => WantTyped'
    BY DEF request, WantTyped
  <2>2. \A c \in Client, r \in R : rdsbufalloc(c, r) => WantTyped'
    BY <2>1 DEF rdsbufalloc, WantTyped
  <2>3. \A c \in Client, r \in R : waitAvail(c, r) => WantTyped'
    BY <2>2 DEF waitAvail, WantTyped
  <2>4. ASSUME NEW c \in Client, ClientStep(c)
        PROVE  WantTyped'
    <3>1. CASE rdsopen(c) \/ rdsclose(c) \/ notice(c) \/ \E b \in Block : rdsreadHere(c, b)
      BY <3>1 DEF rdsopen, rdsclose, notice, rdsreadHere, WantTyped
    <3>2. CASE rdsreadDone(c)
      BY <3>2 DEF rdsreadDone, WantTyped, NoRequest, Request
    <3>3. CASE granted(c)
      BY <2>2, <3>3 DEF granted, WantTyped
    <3>4. ASSUME NEW b \in Block, rdsreadMiss(c, b)
          PROVE  WantTyped'
      <4>1. [op |-> "read", blk |-> b, val |-> Hole] \in R
        BY DEF Request
      <4> QED
        BY <2>3, <3>4, <4>1 DEF rdsreadMiss
    <3>5. ASSUME NEW b \in Block, NEW v \in Value,
                 rdswriteReplace(c, b, v) \/ rdswriteCached(c, b, v) \/ rdswriteNew(c, b, v)
          PROVE  WantTyped'
      <4>1. [op |-> "write", blk |-> b, val |-> v] \in R
        BY DEF Request
      <4>2. CASE rdswriteReplace(c, b, v)
        BY <4>2 DEF rdswriteReplace, WantTyped
      <4>3. CASE rdswriteCached(c, b, v)
        BY <2>1, <4>1, <4>3 DEF rdswriteCached
      <4>4. CASE rdswriteNew(c, b, v)
        BY <2>3, <4>1, <4>4 DEF rdswriteNew
      <4> QED
        BY <3>5, <4>2, <4>3, <4>4
    <3> QED
      BY <2>4, <3>1, <3>2, <3>3, <3>4, <3>5 DEF ClientStep
  <2>5. ASSUME NEW p \in Process, Comm(p)
        PROVE  WantTyped'
    BY <2>5 DEF Comm, rdscommSend, rdscommExhausted, rdscommTimeout, rdscommRefuse, rdscommDone,
                WantTyped
  <2>6. CASE rdsprocess \/ lose \/ udp_in \/ rdserver
    BY <2>6 DEF rdsprocess, rdsprocessRead, rdsprocessWrite, rdsprocessSleep, lose, udp_in,
                rdserver, WantTyped
  <2>7. CASE UNCHANGED vars
    BY <2>7 DEF vars, WantTyped
  <2> QED
    BY <2>4, <2>5, <2>6, <2>7 DEF Next
<1> QED
  BY <1>1, <1>2, PTL DEF Spec

\* What a request does to the disk.
LEMMA RequestWrites ==
    ASSUME NEW c \in Client, NEW r, r.blk \in Block, r.op = "write" => r.val \in Value,
           rdsbufalloc(c, r) \/ \E b, fl, ca : request(c, r, b, fl, ca)
    PROVE  \/ last' = last
           \/ \E v \in Value : last' = [last EXCEPT ![r.blk] = v]
BY DEF rdsbufalloc, request

LEMMA DiskClient ==
    ASSUME Alone, RdsInv, DiskTyped, Driver, WantTyped, NEW c \in Client, ClientStep(c)
    PROVE  AbstractDisk!Next \/ UNCHANGED <<last, answer>>
<1> USE DEF AbstractDisk!Next, AbstractDisk!Read, AbstractDisk!Write
<1>1. CASE rdsopen(c) \/ rdsclose(c) \/ notice(c)
  BY <1>1 DEF rdsopen, rdsclose, notice, histVars
<1>2. CASE rdsreadDone(c)
  <2>1. /\ prmsg[c] \in Buf /\ buf[prmsg[c]].block = last[want[c].blk]
        /\ want[c].blk \in Block /\ last[want[c].blk] # Hole
    BY <1>2 DEF rdsreadDone, Driver, Wanted, Asking
  <2>2. /\ answer' = [answer EXCEPT ![c] = [blk |-> want[c].blk, val |-> last[want[c].blk]]]
        /\ last' = last
    BY <1>2, <2>1 DEF rdsreadDone
  <2> QED
    BY <2>1, <2>2
<1>3. CASE granted(c)
  <2>1. /\ want[c].op = "write" => want[c].val \in Value
        /\ rdsbufalloc(c, want[c]) /\ answer' = answer
    BY <1>3 DEF granted, WantTyped
  <2>2. want[c].blk \in Block
    BY <1>3 DEF granted, Driver, Wanted, Asking
  <2>3. last' = last \/ \E v \in Value : last' = [last EXCEPT ![want[c].blk] = v]
    BY <2>1, <2>2, RequestWrites
  <2> QED
    BY <2>1, <2>2, <2>3
<1>4. ASSUME NEW b \in Block, rdsreadHere(c, b)
      PROVE  AbstractDisk!Read(c, b)
  <2>1. pc[c] = "run" /\ last[b] # Hole /\ last' = last /\ (Hit(b) \/ Queued(b))
    BY <1>4 DEF rdsreadHere, mayRead, Calls
  <2>w. /\ \A i, j \in cached(b) : i = j
        /\ \A i \in 1..Len(requests) : buf[requests[i]].blknum = b => buf[requests[i]].op = "write"
    BY <2>1, Walks
  <2>2. CASE Hit(b)
    <3>1. PICK i \in cached(b) : buf[cache[i]].status = "VALID"
      BY <2>2 DEF Hit
    <3>2. (CHOOSE j \in cached(b) : TRUE) = i
      BY <2>w, <3>1
    <3>3. i \in 1..Len(cache) /\ buf[cache[i]].blknum = b
      BY <3>1 DEF cached, FirstAt
    <3>4. buf[cache[i]].block = last[b]
      BY <3>1, <3>3 DEF Driver, Cached
    <3>5. answer' = [answer EXCEPT ![c] = [blk |-> b, val |-> last[b]]]
      BY <1>4, <2>2, <3>2, <3>4 DEF rdsreadHere
    <3> QED
      BY <2>1, <3>5
  <2>3. CASE ~Hit(b)
    <3>1. PICK i \in recent(b) : buf[requests[i]].op = "write"
      BY <2>1, <2>3 DEF Queued
    <3>2. \A j \in recent(b) : j \in 1..Len(requests) /\ buf[requests[j]].blknum = b
      BY DEF recent, LastAt
    <3>3. \A j \in recent(b) : j = i
      BY <3>1, <3>2 DEF Driver, Queue
    <3>4. (CHOOSE j \in recent(b) : TRUE) = i
      BY <3>1, <3>3
    <3>5. buf[requests[i]].block = last[b]
      BY <3>1, <3>2 DEF Driver, Queue
    <3>6. answer' = [answer EXCEPT ![c] = [blk |-> b, val |-> last[b]]]
      BY <1>4, <2>3, <3>4, <3>5 DEF rdsreadHere
    <3> QED
      BY <2>1, <3>6
  <2> QED
    BY <2>2, <2>3
<1>5. ASSUME NEW b \in Block, rdsreadMiss(c, b)
      PROVE  UNCHANGED <<last, answer>>
  BY <1>5 DEF rdsreadMiss, waitAvail, rdsbufalloc, request
<1>6. ASSUME NEW b \in Block, NEW v \in Value, rdswriteReplace(c, b, v)
      PROVE  AbstractDisk!Write(b, v)
  BY <1>6 DEF rdswriteReplace
<1>7. ASSUME NEW b \in Block, NEW v \in Value, rdswriteCached(c, b, v)
      PROVE  AbstractDisk!Write(b, v)
  BY <1>7 DEF rdswriteCached, request
<1>8. ASSUME NEW b \in Block, NEW v \in Value, rdswriteNew(c, b, v)
      PROVE  AbstractDisk!Write(b, v) \/ UNCHANGED <<last, answer>>
  BY <1>8 DEF rdswriteNew, waitAvail, rdsbufalloc, request
<1> QED
  BY <1>1, <1>2, <1>3, <1>4, <1>5, <1>6, <1>7, <1>8 DEF ClientStep

\* The driver, its process, the network and the server implement the disk: a read returns
\* what was written last, whether it comes from the cache, the queue or the server.
THEOREM DiskImplemented ==
    ASSUME Alone
    PROVE  Spec => ImplementsDisk
<1>1. Init => AbstractDisk!Init
  BY ValueAssumption DEF Init, AbstractDisk!Init, AbstractDisk!Nothing
<1>2. DiskInv /\ WantTyped /\ [Next]_vars => [AbstractDisk!Next]_<<last, answer>>
  <2> SUFFICES ASSUME DiskInv, WantTyped, [Next]_vars
               PROVE  AbstractDisk!Next \/ UNCHANGED <<last, answer>>
    OBVIOUS
  <2>1. ASSUME NEW c \in Client, ClientStep(c), halted = "no"
        PROVE  AbstractDisk!Next \/ UNCHANGED <<last, answer>>
    BY <2>1, DiskClient DEF DiskInv
  <2>2. ASSUME NEW p \in Process, Comm(p)
        PROVE  UNCHANGED <<last, answer>>
    BY <2>2 DEF Comm, rdscommSend, rdscommExhausted, rdscommTimeout, rdscommRefuse, rdscommDone,
                histVars
  <2>3. CASE rdsprocess \/ lose \/ udp_in \/ rdserver \/ UNCHANGED vars
    BY <2>3 DEF rdsprocess, rdsprocessRead, rdsprocessWrite, rdsprocessSleep, lose, udp_in,
                rdserver, histVars, vars
  <2> QED
    BY <2>1, <2>2, <2>3 DEF Next
<1> QED
  BY <1>1, <1>2, DiskInductive, WantAlwaysTyped, PTL DEF Spec, ImplementsDisk, AbstractDisk!Spec
===============================================================================
