----------------------------- MODULE FifoProofs -------------------------------
(***************************************************************************)
(* For any number of frames and owners, and whatever is taken, replaced and *)
(* given back in any order, the linked list of frame.c is the sequence that *)
(* Paging works with.                                                       *)
(***************************************************************************)
EXTENDS FrameFifo, QueueProofs, FiniteSetTheorems

\* w are the nodes from fifoHead to the end of the list that nx and pv link.
Chain(w, nx, pv) ==
    /\ w \in Seq(ListNode) /\ w # <<>> /\ w[1] = fifoHead
    /\ Once(w)
    /\ \A i \in 1..(Len(w) - 1) : nx[w[i]] = w[i + 1] /\ pv[w[i + 1]] = w[i]
    /\ nx[w[Len(w)]] = NULL

\* Walk, for any next pointers.
WalkOf(nx) ==
    LET step[k \in 1..(Cardinality(Frame) + 1)] ==
            IF k = 1 THEN <<fifoHead>>
            ELSE LET w == step[k - 1]
                 IN  IF nx[Last(w)] = NULL THEN w ELSE Append(w, nx[Last(w)])
    IN  step[Cardinality(Frame) + 1]

LEMMA WalkIs == Walk = WalkOf(next) /\ Walk' = WalkOf(next')
BY DEF Walk, WalkOf

\* A list that visits no node twice is no longer than there are nodes.
LEMMA ChainFits ==
    ASSUME Placed, NEW w \in Seq(ListNode), Once(w)
    PROVE  Cardinality(Frame) \in Nat /\ Len(w) <= Cardinality(Frame) + 1
<1>1. Len(w) \in Nat /\ w \in [1..Len(w) -> ListNode]
  BY LenProperties
<1>2. /\ IsFiniteSet(ListNode) /\ Cardinality(Frame) \in Nat
      /\ Cardinality(ListNode) = Cardinality(Frame) + 1
  BY FS_CardinalityType, FS_AddElement DEF Placed, ListNode
<1>3. w \in Injection(1..Len(w), ListNode)
  BY <1>1 DEF Injection, IsInjective, Once
<1>4. Cardinality(1..Len(w)) <= Cardinality(ListNode)
  BY <1>2, <1>3, FS_Injection
<1>5. Cardinality(1..Len(w)) = Len(w)
  BY <1>1, FS_Interval
<1> QED
  BY <1>2, <1>4, <1>5

\* The walk finds the nodes of the list.
LEMMA WalkIsChain ==
    ASSUME Placed, NEW w, NEW nx, NEW pv, Chain(w, nx, pv)
    PROVE  WalkOf(nx) = w
<1> DEFINE m == Cardinality(Frame) + 1
           n == Len(w)
           pre(k) == [j \in 1..(IF k <= n THEN k ELSE n) |-> w[j]]
           f == [k \in 1..m |-> pre(k)]
           more(v) == IF nx[Last(v)] = NULL THEN v ELSE Append(v, nx[Last(v)])
           g == CHOOSE g : g = [k \in 1..m |-> IF k = 1 THEN <<fifoHead>> ELSE more(g[k - 1])]
<1>1. /\ w \in Seq(ListNode) /\ w[1] = fifoHead /\ n \in Nat /\ n >= 1 /\ m \in Nat /\ n <= m
      /\ nx[w[n]] = NULL
      /\ \A i \in 1..(n - 1) : nx[w[i]] = w[i + 1]
      /\ NULL \notin ListNode /\ Cardinality(Frame) \in Nat
  BY ChainFits, LenProperties, EmptySeq DEF Chain, Placed
<1>2. \A k \in 1..m : pre(k) \in Seq(ListNode) /\ Len(pre(k)) = IF k <= n THEN k ELSE n
  <2> SUFFICES ASSUME NEW k \in 1..m
               PROVE  pre(k) \in Seq(ListNode) /\ Len(pre(k)) = IF k <= n THEN k ELSE n
    OBVIOUS
  <2> DEFINE l == IF k <= n THEN k ELSE n
  <2>1. l \in Nat /\ l >= 1 /\ l <= n
    BY <1>1
  <2>2. \A j \in 1..n : w[j] \in ListNode
    BY <1>1, ElementOfSeq
  <2> HIDE DEF l
  <2>3. [j \in 1..l |-> w[j]] \in [1..l -> ListNode]
    BY <1>1, <2>1, <2>2
  <2>4. [j \in 1..l |-> w[j]] \in Seq(ListNode) /\ Len([j \in 1..l |-> w[j]]) = l
    BY <2>1, <2>3, SeqDef, LenProperties
  <2> QED
    BY <2>4 DEF l
<1>3. pre(1) = <<fifoHead>>
  <2>1. pre(1) = [j \in 1..1 |-> w[j]]
    BY <1>1
  <2>2. \A j \in 1..1 : w[j] = fifoHead
    BY <1>1
  <2> QED
    BY <2>1, <2>2
<1>4. ASSUME NEW k \in 2..m
      PROVE  pre(k) = more(pre(k - 1))
  <2>0. k - 1 \in 1..m /\ k \in 1..m
    BY <1>1
  <2>1. CASE k <= n
    <3>1. k - 1 <= n /\ k - 1 \in 1..(n - 1) /\ k - 1 \in 1..(k - 1) /\ (k - 1) + 1 = k
      BY <1>1, <2>0, <2>1
    <3>2. Len(pre(k - 1)) = k - 1 /\ pre(k - 1) \in Seq(ListNode)
      BY <1>2, <2>0, <3>1
    <3>3. Last(pre(k - 1)) = w[k - 1]
      BY <3>1, <3>2 DEF Last
    <3>4. nx[w[k - 1]] = w[k] /\ w[k] \in ListNode
      BY <1>1, <2>1, <3>1, ElementOfSeq
    <3>5. more(pre(k - 1)) = Append(pre(k - 1), w[k])
      BY <1>1, <3>3, <3>4
    <3>6. pre(k) = Append(pre(k - 1), w[k])
      <4>1. /\ Append(pre(k - 1), w[k]) \in Seq(ListNode)
            /\ Len(Append(pre(k - 1), w[k])) = k
            /\ \A j \in 1..(k - 1) : Append(pre(k - 1), w[k])[j] = pre(k - 1)[j]
            /\ Append(pre(k - 1), w[k])[k] = w[k]
        BY <3>1, <3>2, <3>4, AppendProperties
      <4>2. pre(k) \in Seq(ListNode) /\ Len(pre(k)) = k
        BY <1>2, <2>0, <2>1
      <4>3. \A j \in 1..k : pre(k)[j] = w[j]
        BY <2>1
      <4>4. \A j \in 1..(k - 1) : pre(k - 1)[j] = w[j]
        BY <3>1
      <4> HIDE DEF pre
      <4>5. \A j \in 1..k : pre(k)[j] = Append(pre(k - 1), w[k])[j]
        <5>1. \A j \in 1..k : j \in 1..(k - 1) \/ j = k
          BY <2>0
        <5> QED
          BY <4>1, <4>3, <4>4, <5>1
      <4> QED
        BY <4>1, <4>2, <4>5, SeqEqual
    <3> QED
      BY <3>5, <3>6
  <2>2. CASE ~(k <= n)
    <3>1. n <= k - 1 /\ n \in 1..n
      BY <1>1, <2>0, <2>2
    <3>2. pre(k - 1) = [j \in 1..n |-> w[j]] /\ pre(k) = [j \in 1..n |-> w[j]]
      BY <1>1, <2>0, <2>2, <3>1
    <3>3. Len(pre(k - 1)) = n
      BY <1>1, <1>2, <2>0, <3>1
    <3>4. Last(pre(k - 1)) = w[n]
      BY <3>1, <3>2, <3>3 DEF Last
    <3> QED
      BY <1>1, <3>2, <3>4
  <2> QED
    BY <2>1, <2>2
<1>5. pre(m) = w
  <2>1. pre(m) = [j \in 1..n |-> w[j]]
    BY <1>1
  <2>2. w = [j \in 1..n |-> w[j]]
    BY <1>1, LenProperties
  <2> QED
    BY <2>1, <2>2
<1> HIDE DEF pre, more
<1>6. f = [k \in 1..m |-> IF k = 1 THEN <<fifoHead>> ELSE more(f[k - 1])]
  <2>1. \A k \in 1..m : f[k] = IF k = 1 THEN <<fifoHead>> ELSE more(f[k - 1])
    <3> SUFFICES ASSUME NEW k \in 1..m
                 PROVE  f[k] = IF k = 1 THEN <<fifoHead>> ELSE more(f[k - 1])
      OBVIOUS
    <3>1. CASE k = 1
      BY <1>3, <3>1
    <3>2. CASE k # 1
      <4>1. k \in 2..m /\ k - 1 \in 1..m
        BY <1>1, <3>2
      <4> QED
        BY <1>4, <3>2, <4>1
    <3> QED
      BY <3>1, <3>2
  <2> HIDE DEF f
  <2>2. DOMAIN f = 1..m
    BY DEF f
  <2>3. f = [k \in 1..m |-> f[k]]
    BY DEF f
  <2> QED
    BY <2>1, <2>3
<1> HIDE DEF f
<1>7. g = [k \in 1..m |-> IF k = 1 THEN <<fifoHead>> ELSE more(g[k - 1])]
  BY <1>6
<1>8. WalkOf(nx) = g[m]
  BY DEF WalkOf, more
<1> HIDE DEF g, m
<1>9. \A i \in 0..(m - 1) : g[i + 1] = f[i + 1]
  <2> DEFINE T == {i \in 0..(m - 1) : g[i + 1] = f[i + 1]}
  <2>0. m - 1 \in Nat /\ 0 \in 0..(m - 1) /\ 1 \in 1..m
    BY <1>1
  <2>1. 0 \in T
    BY <1>6, <1>7, <2>0
  <2>2. ASSUME NEW i \in 0..((m - 1) - 1), i \in T
        PROVE  i + 1 \in T
    <3>1. /\ i + 1 \in 0..(m - 1) /\ (i + 1) + 1 \in 1..m /\ (i + 1) + 1 # 1
          /\ ((i + 1) + 1) - 1 = i + 1
      BY <1>1, <2>0
    <3>2. g[(i + 1) + 1] = more(g[((i + 1) + 1) - 1]) /\ f[(i + 1) + 1] = more(f[((i + 1) + 1) - 1])
      BY <1>6, <1>7, <3>1
    <3> QED
      BY <2>2, <3>1, <3>2
  <2> HIDE DEF T
  <2>3. \A i \in 0..(m - 1) : i \in T
    BY <2>0, <2>1, <2>2, Induction
  <2> QED
    BY <2>3 DEF T
<1>10. f[m] = pre(m)
  BY <1>1 DEF f
<1>11. m - 1 \in 0..(m - 1) /\ (m - 1) + 1 = m
  BY <1>1
<1> QED
  BY <1>5, <1>8, <1>9, <1>10, <1>11

(***************************************************************************)
(* Sequences.                                                               *)
(***************************************************************************)

\* The place of an element that is there once is the place Unlink takes it from.
LEMMA UnlinkAt ==
    ASSUME NEW S, NEW s \in Seq(S), Once(s), NEW i \in 1..Len(s)
    PROVE  /\ s[i] \in S /\ On(s[i], s)
           /\ Unlink(s, s[i]) = DropAt(s, i)
<1> DEFINE k == CHOOSE j \in 1..Len(s) : s[j] = s[i]
<1>1. s[i] \in S /\ On(s[i], s)
  BY ElementOfSeq DEF On
<1>2. k \in 1..Len(s) /\ s[k] = s[i]
  OBVIOUS
<1>3. k = i
  BY <1>2 DEF Once
<1>4. Unlink(s, s[i]) = DropAt(s, k)
  BY <1>1 DEF Unlink
<1> HIDE DEF k
<1> QED
  BY <1>1, <1>3, <1>4

\* What is put at the end of a queue is put at the end of what comes after its first.
LEMMA TailOfAppend ==
    ASSUME NEW S, NEW s \in Seq(S), s # <<>>, NEW x \in S
    PROVE  /\ Tail(s) \in Seq(S)
           /\ Tail(Append(s, x)) = Append(Tail(s), x)
<1> DEFINE n == Len(s)
           a == Append(s, x)
           l == Tail(a)
           r == Append(Tail(s), x)
<1>1. n \in Nat /\ n >= 1
  BY LenProperties, EmptySeq
<1>2. /\ a \in Seq(S) /\ Len(a) = n + 1 /\ a # <<>>
      /\ \A j \in 1..n : a[j] = s[j]
      /\ a[n + 1] = x
  BY <1>1, AppendProperties
<1>3. /\ Tail(s) \in Seq(S) /\ Len(Tail(s)) = n - 1
      /\ \A j \in 1..(n - 1) : Tail(s)[j] = s[j + 1]
  BY <1>1, HeadTailProperties
<1> HIDE DEF a
<1>4. /\ l \in Seq(S) /\ Len(l) = (n + 1) - 1
      /\ \A j \in 1..((n + 1) - 1) : l[j] = a[j + 1]
  BY <1>2, HeadTailProperties
<1>5. /\ r \in Seq(S) /\ Len(r) = (n - 1) + 1
      /\ \A j \in 1..(n - 1) : r[j] = Tail(s)[j]
      /\ r[(n - 1) + 1] = x
  BY <1>3, AppendProperties
<1>6. (n + 1) - 1 = n /\ (n - 1) + 1 = n
  BY <1>1
<1> HIDE DEF l, r
<1>7. \A j \in 1..n : l[j] = r[j]
  <2> SUFFICES ASSUME NEW j \in 1..n PROVE l[j] = r[j]
    OBVIOUS
  <2>1. l[j] = a[j + 1]
    BY <1>4, <1>6
  <2>2. CASE j = n
    BY <1>2, <1>5, <1>6, <2>1, <2>2
  <2>3. CASE j # n
    <3>1. j \in 1..(n - 1) /\ j + 1 \in 1..n
      BY <1>1, <2>3
    <3> QED
      BY <1>2, <1>3, <1>5, <2>1, <3>1
  <2> QED
    BY <2>2, <2>3
<1>8. l = r
  BY <1>4, <1>5, <1>6, <1>7, SeqEqual
<1> QED
  BY <1>3, <1>8 DEF l, r, a

\* What is taken out behind the first of a queue is taken out of what comes after it.
LEMMA TailOfDropAt ==
    ASSUME NEW S, NEW s \in Seq(S), NEW i \in 2..Len(s)
    PROVE  /\ Tail(s) \in Seq(S) /\ i - 1 \in 1..Len(Tail(s))
           /\ Tail(s)[i - 1] = s[i]
           /\ Tail(DropAt(s, i)) = DropAt(Tail(s), i - 1)
<1> DEFINE n == Len(s)
           d == DropAt(s, i)
           t == Tail(s)
           l == Tail(d)
           r == DropAt(t, i - 1)
<1>0. n \in Nat /\ n >= 2 /\ i \in 1..n /\ i - 1 \in 1..(n - 1) /\ (i - 1) + 1 = i
  BY LenProperties
<1>1. s # <<>>
  BY <1>0, EmptySeq
<1>2. /\ t \in Seq(S) /\ Len(t) = n - 1
      /\ \A j \in 1..(n - 1) : t[j] = s[j + 1]
  BY <1>1, HeadTailProperties
<1>3. /\ d \in Seq(S) /\ Len(d) = n - 1
      /\ \A j \in 1..(n - 1) : d[j] = IF j < i THEN s[j] ELSE s[j + 1]
  BY <1>0, DropAtProperties
<1>4. d # <<>>
  BY <1>0, <1>3, EmptySeq
<1> HIDE DEF d, t
<1>5. /\ l \in Seq(S) /\ Len(l) = (n - 1) - 1
      /\ \A j \in 1..((n - 1) - 1) : l[j] = d[j + 1]
  BY <1>3, <1>4, HeadTailProperties
<1>6. /\ r \in Seq(S) /\ Len(r) = (n - 1) - 1
      /\ \A j \in 1..((n - 1) - 1) : r[j] = IF j < i - 1 THEN t[j] ELSE t[j + 1]
  BY <1>0, <1>2, DropAtProperties
<1> HIDE DEF l, r
<1>7. \A j \in 1..((n - 1) - 1) : l[j] = r[j]
  <2> SUFFICES ASSUME NEW j \in 1..((n - 1) - 1) PROVE l[j] = r[j]
    OBVIOUS
  <2>1. j \in 1..(n - 1) /\ j + 1 \in 1..(n - 1) /\ (j < i - 1 <=> j + 1 < i)
    BY <1>0
  <2>2. l[j] = IF j + 1 < i THEN s[j + 1] ELSE s[(j + 1) + 1]
    BY <1>3, <1>5, <2>1
  <2>3. r[j] = IF j + 1 < i THEN s[j + 1] ELSE s[(j + 1) + 1]
    BY <1>2, <1>6, <2>1
  <2> QED
    BY <2>2, <2>3
<1>8. l = r
  BY <1>5, <1>6, <1>7, SeqEqual
<1> QED
  BY <1>0, <1>2, <1>8 DEF d, t, l, r

LEMMA NotEmpty ==
    ASSUME NEW S, NEW s \in Seq(S), NEW i \in 1..Len(s)
    PROVE  s # <<>>
<1>1. Len(s) \in Nat /\ Len(s) # 0
  BY LenProperties
<1> QED
  BY <1>1, EmptySeq

\* Taking out the first leaves the tail.
LEMMA DropFirst ==
    ASSUME NEW S, NEW s \in Seq(S), s # <<>>
    PROVE  DropAt(s, 1) = Tail(s)
<1> DEFINE n == Len(s)
<1>0. n \in Nat /\ n >= 1 /\ 1 \in 1..n
  BY LenProperties, EmptySeq
<1>2. /\ Tail(s) \in Seq(S) /\ Len(Tail(s)) = n - 1
      /\ \A j \in 1..(n - 1) : Tail(s)[j] = s[j + 1]
  BY HeadTailProperties
<1>3. /\ DropAt(s, 1) \in Seq(S) /\ Len(DropAt(s, 1)) = n - 1
      /\ \A j \in 1..(n - 1) : DropAt(s, 1)[j] = IF j < 1 THEN s[j] ELSE s[j + 1]
  BY <1>0, DropAtProperties
<1>4. \A j \in 1..(n - 1) : ~(j < 1)
  BY <1>0
<1>5. \A j \in 1..(n - 1) : DropAt(s, 1)[j] = Tail(s)[j]
  BY <1>2, <1>3, <1>4
<1> QED
  BY <1>2, <1>3, <1>5, SeqEqual

(***************************************************************************)
(* The list.                                                                *)
(***************************************************************************)

\* The pointers after addFifo(f): the end of the list and f point to each other, f to nothing.
Added(w, f, nx, pv, nx2, pv2) ==
    /\ nx2[w[Len(w)]] = f /\ nx2[f] = NULL
    /\ \A y \in ListNode : y # w[Len(w)] /\ y # f => nx2[y] = nx[y]
    /\ pv2[f] = w[Len(w)]
    /\ \A y \in ListNode : y # f => pv2[y] = pv[y]

\* The pointers after the i-th node was taken out: what was before it and what was behind
\* it, if anything, point to each other.
Removed(w, i, nx, pv, nx2, pv2) ==
    /\ nx2[w[i - 1]] = nx[w[i]]
    /\ \A y \in ListNode : y # w[i - 1] /\ y # w[i] => nx2[y] = nx[y]
    /\ nx[w[i]] # NULL => pv2[nx[w[i]]] = w[i - 1]
    /\ \A y \in ListNode : y # nx[w[i]] /\ y # w[i] => pv2[y] = pv[y]

\* addFifo() adds behind the end.
LEMMA ChainAdded ==
    ASSUME Placed, NEW w, NEW nx, NEW pv, Chain(w, nx, pv), NEW f \in ListNode, ~On(f, w),
           NEW nx2, NEW pv2, Added(w, f, nx, pv, nx2, pv2)
    PROVE  Chain(Append(w, f), nx2, pv2)
<1> DEFINE n == Len(w)
           a == Append(w, f)
<1>1. /\ w \in Seq(ListNode) /\ w # <<>> /\ w[1] = fifoHead /\ Once(w)
      /\ n \in Nat /\ n >= 1 /\ 1 \in 1..n /\ n \in 1..n
      /\ \A i \in 1..(n - 1) : nx[w[i]] = w[i + 1] /\ pv[w[i + 1]] = w[i]
  BY LenProperties, EmptySeq DEF Chain
<1>2. /\ a \in Seq(ListNode) /\ Len(a) = n + 1 /\ a # <<>>
      /\ \A j \in 1..n : a[j] = w[j]
      /\ a[n + 1] = f
  BY <1>1, AppendProperties
<1>3. Once(a)
  BY <1>1, AppendOnce
<1>4. \A j \in 1..n : w[j] \in ListNode /\ w[j] # f /\ (w[j] = w[n] => j = n)
  BY <1>1, ElementOfSeq DEF On, Once
<1>5. /\ nx2[w[n]] = f /\ nx2[f] = NULL
      /\ \A y \in ListNode : y # w[n] /\ y # f => nx2[y] = nx[y]
      /\ pv2[f] = w[n]
      /\ \A y \in ListNode : y # f => pv2[y] = pv[y]
  BY DEF Added
<1> HIDE DEF a, n
<1>6. ASSUME NEW i \in 1..n
      PROVE  nx2[a[i]] = a[i + 1] /\ pv2[a[i + 1]] = a[i]
  <2>1. CASE i = n
    BY <1>1, <1>2, <1>5, <2>1
  <2>2. CASE i # n
    <3>1. i \in 1..(n - 1) /\ i + 1 \in 1..n
      BY <1>1, <2>2
    <3>2. a[i] = w[i] /\ a[i + 1] = w[i + 1]
      BY <1>2, <3>1
    <3>3. nx2[w[i]] = nx[w[i]]
      BY <1>4, <1>5, <2>2
    <3>4. pv2[w[i + 1]] = pv[w[i + 1]]
      BY <1>4, <1>5, <3>1
    <3> QED
      BY <1>1, <3>1, <3>2, <3>3, <3>4
  <2> QED
    BY <2>1, <2>2
<1>7. (n + 1) - 1 = n
  BY <1>1
<1>8. \A i \in 1..(Len(a) - 1) : nx2[a[i]] = a[i + 1] /\ pv2[a[i + 1]] = a[i]
  BY <1>2, <1>6, <1>7
<1>9. a[1] = fifoHead /\ nx2[a[Len(a)]] = NULL
  BY <1>1, <1>2, <1>5
<1> QED
  BY <1>2, <1>3, <1>8, <1>9 DEF Chain, a

\* removeFifo() and deleteFifo() take out any node but the first.
LEMMA ChainRemoved ==
    ASSUME Placed, NEW w, NEW nx, NEW pv, Chain(w, nx, pv), NEW i \in 2..Len(w),
           NEW nx2, NEW pv2, Removed(w, i, nx, pv, nx2, pv2)
    PROVE  Chain(DropAt(w, i), nx2, pv2)
<1> DEFINE n == Len(w)
           d == DropAt(w, i)
<1>1. /\ w \in Seq(ListNode) /\ w # <<>> /\ w[1] = fifoHead /\ Once(w)
      /\ n \in Nat /\ n >= 2
      /\ \A j \in 1..(n - 1) : nx[w[j]] = w[j + 1] /\ pv[w[j + 1]] = w[j]
      /\ nx[w[n]] = NULL
  BY LenProperties DEF Chain
<1>2. /\ i \in 1..n /\ i - 1 \in 1..(n - 1) /\ i \in Nat /\ i >= 2 /\ (i - 1) + 1 = i
      /\ i - 1 \in 1..n
  BY <1>1
<1>3. /\ d \in Seq(ListNode) /\ Len(d) = n - 1
      /\ \A j \in 1..(n - 1) : d[j] = IF j < i THEN w[j] ELSE w[j + 1]
  BY <1>1, <1>2, DropAtProperties
<1>4. Once(d)
  <2>1. w[i] \in ListNode /\ Unlink(w, w[i]) = d
    BY <1>1, <1>2, UnlinkAt
  <2> HIDE DEF d
  <2> QED
    BY <1>1, <2>1, UnlinkOnce
<1>5. /\ \A j \in 1..n : w[j] \in ListNode
      /\ \A j, k \in 1..n : w[j] = w[k] => j = k
  BY <1>1, ElementOfSeq DEF Once
<1>6. /\ nx2[w[i - 1]] = nx[w[i]]
      /\ \A y \in ListNode : y # w[i - 1] /\ y # w[i] => nx2[y] = nx[y]
      /\ nx[w[i]] # NULL => pv2[nx[w[i]]] = w[i - 1]
      /\ \A y \in ListNode : y # nx[w[i]] /\ y # w[i] => pv2[y] = pv[y]
  BY DEF Removed
<1>7. NULL \notin ListNode
  BY DEF Placed
<1> HIDE DEF d, n
<1>8. ASSUME NEW j \in 1..((n - 1) - 1)
      PROVE  nx2[d[j]] = d[j + 1] /\ pv2[d[j + 1]] = d[j]
  <2>0. /\ j \in 1..(n - 1) /\ j + 1 \in 1..(n - 1) /\ j \in 1..n /\ j + 1 \in 1..n
        /\ (j + 1) + 1 \in 1..n
    BY <1>1
  <2>1. CASE j + 1 < i
    <3>1. j < i /\ j # i - 1 /\ j # i /\ j + 1 # i
      BY <1>2, <2>0, <2>1
    <3>2. d[j] = w[j] /\ d[j + 1] = w[j + 1]
      BY <1>3, <2>0, <2>1, <3>1
    <3>3. nx2[w[j]] = nx[w[j]]
      BY <1>2, <1>5, <1>6, <2>0, <3>1
    <3>4. w[j + 1] # nx[w[i]]
      <4>1. CASE i = n
        BY <1>1, <1>5, <1>7, <2>0, <4>1
      <4>2. CASE i # n
        <5>1. i \in 1..(n - 1) /\ i + 1 \in 1..n /\ j + 1 # i + 1
          BY <1>1, <1>2, <2>0, <3>1, <4>2
        <5> QED
          BY <1>1, <1>5, <2>0, <5>1
      <4> QED
        BY <4>1, <4>2
    <3>5. pv2[w[j + 1]] = pv[w[j + 1]]
      BY <1>2, <1>5, <1>6, <2>0, <3>1, <3>4
    <3> QED
      BY <1>1, <2>0, <3>2, <3>3, <3>5
  <2>2. CASE j + 1 = i
    <3>1. j < i /\ j = i - 1 /\ ~(j + 1 < i) /\ i \in 1..(n - 1) /\ i + 1 \in 1..n
      BY <1>2, <2>0, <2>2
    <3>2. d[j] = w[i - 1] /\ d[j + 1] = w[i + 1]
      BY <1>3, <2>0, <2>2, <3>1
    <3>3. nx[w[i]] = w[i + 1] /\ w[i + 1] # NULL
      BY <1>1, <1>5, <1>7, <3>1
    <3> QED
      BY <1>6, <3>2, <3>3
  <2>3. CASE j + 1 > i
    <3>1. /\ ~(j < i) /\ ~(j + 1 < i) /\ j + 1 # i - 1 /\ j + 1 # i
          /\ (j + 1) + 1 # i /\ (j + 1) + 1 # i + 1 /\ j + 1 \in 1..(n - 1)
      BY <1>2, <2>0, <2>3
    <3>2. d[j] = w[j + 1] /\ d[j + 1] = w[(j + 1) + 1]
      BY <1>3, <2>0, <3>1
    <3>3. nx2[w[j + 1]] = nx[w[j + 1]]
      BY <1>2, <1>5, <1>6, <2>0, <3>1
    <3>4. w[(j + 1) + 1] # nx[w[i]]
      <4>1. CASE i = n
        BY <1>1, <1>5, <1>7, <2>0, <4>1
      <4>2. CASE i # n
        <5>1. i \in 1..(n - 1) /\ i + 1 \in 1..n
          BY <1>1, <1>2, <4>2
        <5> QED
          BY <1>1, <1>5, <2>0, <3>1, <5>1
      <4> QED
        BY <4>1, <4>2
    <3>5. pv2[w[(j + 1) + 1]] = pv[w[(j + 1) + 1]]
      BY <1>2, <1>5, <1>6, <2>0, <3>1, <3>4
    <3> QED
      BY <1>1, <2>0, <3>2, <3>3, <3>5
  <2>4. j + 1 < i \/ j + 1 = i \/ j + 1 > i
    BY <1>2, <2>0
  <2> QED
    BY <2>1, <2>2, <2>3, <2>4
<1>9. /\ 1 \in 1..(n - 1) /\ 1 < i /\ n - 1 \in 1..(n - 1)
      /\ n - 1 \in 1..n /\ n \in 1..n /\ n - 1 # n /\ (n - 1) + 1 = n
  BY <1>1, <1>2
<1>10. d[1] = fifoHead
  BY <1>1, <1>3, <1>9
<1>11. nx2[d[n - 1]] = NULL
  <2>1. CASE i = n
    <3>1. n - 1 < i /\ d[n - 1] = w[n - 1]
      <4>1. n - 1 < i
        BY <1>1, <2>1
      <4> QED
        BY <1>3, <1>9, <4>1
    <3> QED
      BY <1>1, <1>6, <2>1, <3>1
  <2>2. CASE i # n
    <3>1. ~(n - 1 < i) /\ n # i - 1
      BY <1>1, <1>2, <2>2
    <3>2. d[n - 1] = w[n]
      BY <1>3, <1>9, <3>1
    <3>3. nx2[w[n]] = nx[w[n]]
      BY <1>2, <1>5, <1>6, <1>9, <2>2, <3>1
    <3> QED
      BY <1>1, <3>2, <3>3
  <2> QED
    BY <2>1, <2>2
<1>12. d # <<>>
  BY <1>3, <1>9, EmptySeq
<1>13. \A j \in 1..(Len(d) - 1) : nx2[d[j]] = d[j + 1] /\ pv2[d[j + 1]] = d[j]
  BY <1>3, <1>8
<1>14. nx2[d[Len(d)]] = NULL
  BY <1>3, <1>11
<1> QED
  BY <1>3, <1>4, <1>10, <1>12, <1>13, <1>14 DEF Chain, d

(***************************************************************************)
(* The invariant and the steps.                                             *)
(***************************************************************************)

LinkTypes ==
    /\ next \in [ListNode -> ListNode \cup {NULL}]
    /\ prev \in [ListNode \cup {NULL} -> ListNode \cup {NULL}]
    /\ pid \in [Frame -> Owner \cup {NoOwner}]
    /\ victim \in Frame \cup {NULL}

\* The frames in the list are those in use but the one that is being written to its store.
\* Of a free frame addFifo() relies on the pointer it does not set.
Listing ==
    /\ \A f \in Frame : On(f, Walk) <=> pid[f] # NoOwner /\ f # victim
    /\ \A f \in Frame : pid[f] = NoOwner => next[f] = NULL

FifoInv == LinkTypes /\ Chain(Walk, next, prev) /\ Listing

LEMMA WalkFollows ==
    ASSUME Placed, NEW w, Chain(w, next', prev')
    PROVE  Walk' = w
<1>1. WalkOf(next') = w
  BY WalkIsChain
<1> QED
  BY <1>1, WalkIs

\* Where addFifo() adds a frame, the sequence gets it at its end.
LEMMA Adding ==
    ASSUME Placed, FifoInv, NEW f \in Frame, ~On(f, Walk),
           Added(Walk, f, next, prev, next', prev')
    PROVE  /\ Chain(Walk', next', prev')
           /\ \A y \in ListNode : On(y, Walk') <=> y = f \/ On(y, Walk)
           /\ List!addFifo(f)
<1>1. Chain(Walk, next, prev) /\ f \in ListNode
  BY DEF FifoInv, ListNode
<1>2. Chain(Append(Walk, f), next', prev')
  BY <1>1, ChainAdded
<1>3. Walk' = Append(Walk, f)
  BY <1>2, WalkFollows
<1>4. Walk \in Seq(ListNode) /\ Walk # <<>> /\ Once(Walk)
  BY <1>1 DEF Chain
<1>5. \A y \in ListNode : On(y, Append(Walk, f)) <=> y = f \/ On(y, Walk)
  BY <1>1, <1>4, AppendOnce
<1>6. Tail(Append(Walk, f)) = Append(Tail(Walk), f)
  BY <1>1, <1>4, TailOfAppend
<1>7. ~On(f, Tail(Walk))
  BY <1>1, <1>4, TailOnce
<1>8. List!addFifo(f)
  BY <1>3, <1>6, <1>7 DEF List!addFifo, List!On, On
<1> QED
  BY <1>2, <1>3, <1>5, <1>8

\* Where the code takes out a node, the sequence loses it, at its head or anywhere.
LEMMA Removing ==
    ASSUME Placed, FifoInv, NEW i \in 2..Len(Walk),
           Removed(Walk, i, next, prev, next', prev')
    PROVE  /\ Chain(Walk', next', prev')
           /\ \A y \in ListNode : On(y, Walk') <=> y # Walk[i] /\ On(y, Walk)
           /\ List!deleteFifo(Walk[i])
           /\ i = 2 => List!removeFifo
<1> DEFINE w == Walk
           f == w[i]
<1>1. Chain(w, next, prev)
  BY DEF FifoInv
<1>2. w \in Seq(ListNode) /\ w # <<>> /\ Once(w) /\ Len(w) \in Nat /\ i \in 1..Len(w) /\ i \in Nat
  BY <1>1, LenProperties DEF Chain
<1>3. Chain(DropAt(w, i), next', prev')
  BY <1>1, ChainRemoved
<1>4. Walk' = DropAt(w, i)
  BY <1>3, WalkFollows
<1> HIDE DEF w
<1>5. f \in ListNode /\ On(f, w) /\ Unlink(w, f) = DropAt(w, i)
  BY <1>2, UnlinkAt
<1>6. \A y \in ListNode : On(y, DropAt(w, i)) <=> y # f /\ On(y, w)
  <2>1. \A y \in ListNode : On(y, Unlink(w, f)) <=> y # f /\ On(y, w)
    BY <1>2, <1>5, UnlinkOnce
  <2> QED
    BY <1>5, <2>1
<1>7. /\ Tail(w) \in Seq(ListNode) /\ i - 1 \in 1..Len(Tail(w))
      /\ Tail(w)[i - 1] = f
      /\ Tail(DropAt(w, i)) = DropAt(Tail(w), i - 1)
  <2>1. i \in 2..Len(w)
    BY DEF w
  <2> QED
    BY <1>2, <2>1, TailOfDropAt
<1>8. Once(Tail(w))
  BY <1>2, TailOnce
<1>9. On(f, Tail(w)) /\ Unlink(Tail(w), f) = DropAt(Tail(w), i - 1)
  BY <1>7, <1>8, UnlinkAt
<1>10. List!deleteFifo(f)
  <2>1. On(f, Tail(w)) /\ Tail(Walk)' = Unlink(Tail(w), f)
    BY <1>4, <1>7, <1>9
  <2>2. List!On(f, Tail(w)) /\ List!Unlink(Tail(w), f) = Unlink(Tail(w), f)
    BY <1>9 DEF List!On, On, List!Unlink, Unlink, List!DropAt, DropAt
  <2> HIDE DEF f
  <2> QED
    BY <2>1, <2>2 DEF List!deleteFifo, w
<1>11. ASSUME i = 2
       PROVE  List!removeFifo
  <2>1. i - 1 = 1
    BY <1>11
  <2>2. Tail(w) # <<>> /\ Tail(Walk') = Tail(Tail(w))
    <3>2. Tail(w) # <<>>
      BY <1>7, NotEmpty
    <3> QED
      BY <1>4, <1>7, <2>1, <3>2, DropFirst
  <2> QED
    BY <2>2 DEF List!removeFifo, w
<1> QED
  BY <1>3, <1>4, <1>6, <1>10, <1>11 DEF w

LEMMA InitLinks ==
    ASSUME Placed, Init
    PROVE  FifoInv /\ List!Init
<1> DEFINE w == <<fifoHead>>
<1>1. /\ w \in Seq(ListNode) /\ w # <<>> /\ Len(w) = 1 /\ w[1] = fifoHead
      /\ fifoHead \in ListNode
  BY DEF ListNode
<1>2. /\ next = [f \in ListNode |-> NULL]
      /\ prev = [f \in ListNode \cup {NULL} |-> NULL]
      /\ pid = [f \in Frame |-> NoOwner]
      /\ victim = NULL
  BY DEF Init
<1>3. Chain(w, next, prev)
  <2>1. next[w[1]] = NULL
    BY <1>1, <1>2
  <2>2. Once(w)
    BY <1>1 DEF Once
  <2>3. \A i \in 1..(Len(w) - 1) : FALSE
    BY <1>1
  <2> QED
    BY <1>1, <2>1, <2>2, <2>3 DEF Chain
<1>4. Walk = w
  BY <1>3, WalkIsChain, WalkIs
<1>5. \A f \in Frame : ~On(f, w)
  BY <1>1 DEF On, Placed
<1>6. LinkTypes
  BY <1>2 DEF LinkTypes
<1>7. Listing
  <2>1. \A f \in Frame : pid[f] = NoOwner /\ next[f] = NULL
    BY <1>2 DEF ListNode
  <2> HIDE DEF w
  <2> QED
    BY <1>4, <1>5, <2>1 DEF Listing
<1>8. Tail(w) = <<>>
  BY <1>1
<1> QED
  BY <1>3, <1>4, <1>6, <1>7, <1>8 DEF FifoInv, List!Init

LEMMA KeepsLinks ==
    ASSUME Placed, FifoInv, UNCHANGED ffvars
    PROVE  FifoInv' /\ Tail(Walk)' = Tail(Walk)
<1>1. next' = next /\ prev' = prev /\ pid' = pid /\ victim' = victim
  BY DEF ffvars
<1>2. Walk' = Walk
  BY <1>1, WalkIs
<1> QED
  BY <1>1, <1>2 DEF FifoInv, LinkTypes, Listing

\* Facts about the end and about the nodes of the list.
LEMMA ListEnds ==
    ASSUME Placed, FifoInv
    PROVE  /\ Walk \in Seq(ListNode) /\ Len(Walk) \in Nat /\ Len(Walk) >= 1
           /\ Last(Walk) = Walk[Len(Walk)] /\ Walk[Len(Walk)] \in ListNode
           /\ On(Walk[Len(Walk)], Walk)
<1>1. Walk \in Seq(ListNode) /\ Walk # <<>> /\ Once(Walk)
  BY DEF FifoInv, Chain
<1>2. Len(Walk) \in Nat /\ Len(Walk) >= 1 /\ Len(Walk) \in 1..Len(Walk)
  BY <1>1, LenProperties, EmptySeq
<1>3. Walk[Len(Walk)] \in ListNode /\ On(Walk[Len(Walk)], Walk)
  BY <1>1, <1>2, ElementOfSeq DEF On
<1> QED
  BY <1>1, <1>2, <1>3 DEF Last

\* getPFrame() with a free frame.
LEMMA TakesFree ==
    ASSUME Placed, FifoInv, NEW p \in Owner, getPFrame(p)
    PROVE  FifoInv' /\ List!Next
<1>1. PICK f \in First(Free) : addFifo(f) /\ pid' = [pid EXCEPT ![f] = p]
  BY DEF getPFrame
<1> DEFINE e == Walk[Len(Walk)]
<1>2. /\ f \in Frame /\ f \in ListNode /\ pid[f] = NoOwner
      /\ victim = NULL /\ victim' = victim /\ p # NoOwner /\ NULL \notin Frame
  BY DEF First, Free, getPFrame, Between, Placed, ListNode
<1>3. LinkTypes /\ Listing
  BY DEF FifoInv
<1>4. ~On(f, Walk) /\ next[f] = NULL
  BY <1>2, <1>3 DEF Listing
<1>5. Last(Walk) = e /\ e \in ListNode /\ e # f
  BY <1>4, ListEnds
<1> HIDE DEF e
<1>6. next' = [next EXCEPT ![e] = f] /\ prev' = [prev EXCEPT ![f] = e]
  BY <1>1, <1>5 DEF addFifo
<1>7. /\ next'[e] = f /\ next'[f] = NULL /\ prev'[f] = e
      /\ \A y \in ListNode : y # e /\ y # f => next'[y] = next[y]
      /\ \A y \in ListNode : y # f => prev'[y] = prev[y]
  BY <1>2, <1>3, <1>4, <1>5, <1>6 DEF LinkTypes
<1>8. Added(Walk, f, next, prev, next', prev')
  BY <1>7 DEF Added, e
<1>9. /\ Chain(Walk', next', prev')
      /\ \A y \in ListNode : On(y, Walk') <=> y = f \/ On(y, Walk)
      /\ List!addFifo(f)
  BY <1>2, <1>4, <1>8, Adding
<1>10. LinkTypes'
  BY <1>1, <1>2, <1>3, <1>5, <1>6 DEF LinkTypes
<1>11. pid'[f] = p /\ \A y \in Frame : y # f => pid'[y] = pid[y]
  BY <1>1, <1>2, <1>3 DEF LinkTypes
<1>12. Listing'
  <2>1. ASSUME NEW y \in Frame
        PROVE  /\ On(y, Walk') <=> pid'[y] # NoOwner /\ y # victim'
               /\ pid'[y] = NoOwner => next'[y] = NULL
    <3>0. y \in ListNode /\ y # victim'
      BY <1>2 DEF ListNode
    <3>1. CASE y = f
      BY <1>2, <1>9, <1>11, <3>0, <3>1
    <3>2. CASE y # f
      <4>1. pid'[y] = pid[y] /\ (On(y, Walk') <=> On(y, Walk))
        BY <1>9, <1>11, <3>0, <3>2
      <4>2. On(y, Walk) <=> pid[y] # NoOwner
        BY <1>2, <1>3 DEF Listing
      <4>3. pid[y] = NoOwner => y # e /\ next[y] = NULL
        <5>1. On(e, Walk)
          BY ListEnds DEF e
        <5> QED
          BY <1>3, <4>2, <5>1 DEF Listing
      <4> QED
        BY <1>7, <3>0, <3>2, <4>1, <4>2, <4>3
    <3> QED
      BY <3>1, <3>2
  <2> QED
    BY <2>1 DEF Listing
<1> QED
  BY <1>2, <1>9, <1>10, <1>12 DEF FifoInv, List!Next

\* The rest of removeFifo() and of getPFrame(): the victim is added as a new frame.
LEMMA PutsBack ==
    ASSUME Placed, FifoInv, NEW p \in Owner, replaced(p)
    PROVE  FifoInv' /\ List!Next
<1> DEFINE f == victim
           e == Walk[Len(Walk)]
<1>3. LinkTypes /\ Listing
  BY DEF FifoInv
<1>2. /\ f \in Frame /\ f \in ListNode
      /\ victim' = NULL /\ p # NoOwner /\ NULL \notin Frame
      /\ pid' = [pid EXCEPT ![f] = p]
  BY <1>3 DEF replaced, Placed, ListNode, LinkTypes
<1>4. ~On(f, Walk)
  BY <1>2, <1>3 DEF Listing
<1>5. Last(Walk) = e /\ e \in ListNode /\ e # f
  BY <1>4, ListEnds
<1> HIDE DEF e
<1>6. next' = [next EXCEPT ![f] = NULL, ![e] = f] /\ prev' = [prev EXCEPT ![f] = e]
  BY <1>5 DEF replaced
<1> HIDE DEF f
<1>7. /\ next'[e] = f /\ next'[f] = NULL /\ prev'[f] = e
      /\ \A y \in ListNode : y # e /\ y # f => next'[y] = next[y]
      /\ \A y \in ListNode : y # f => prev'[y] = prev[y]
  BY <1>2, <1>3, <1>5, <1>6 DEF LinkTypes
<1>8. Added(Walk, f, next, prev, next', prev')
  BY <1>7 DEF Added, e
<1>9. /\ Chain(Walk', next', prev')
      /\ \A y \in ListNode : On(y, Walk') <=> y = f \/ On(y, Walk)
      /\ List!addFifo(f)
  BY <1>2, <1>4, <1>8, Adding
<1>10. LinkTypes'
  BY <1>2, <1>3, <1>5, <1>6 DEF LinkTypes
<1>11. pid'[f] = p /\ \A y \in Frame : y # f => pid'[y] = pid[y]
  BY <1>2, <1>3 DEF LinkTypes
<1>12. Listing'
  <2>1. ASSUME NEW y \in Frame
        PROVE  /\ On(y, Walk') <=> pid'[y] # NoOwner /\ y # victim'
               /\ pid'[y] = NoOwner => next'[y] = NULL
    <3>0. y \in ListNode /\ y # victim'
      BY <1>2 DEF ListNode
    <3>1. CASE y = f
      BY <1>2, <1>9, <1>11, <3>0, <3>1
    <3>2. CASE y # f
      <4>1. pid'[y] = pid[y] /\ (On(y, Walk') <=> On(y, Walk))
        BY <1>9, <1>11, <3>0, <3>2
      <4>2. On(y, Walk) <=> pid[y] # NoOwner
        BY <1>3, <3>2 DEF Listing, f
      <4>3. pid[y] = NoOwner => y # e /\ next[y] = NULL
        <5>1. On(e, Walk)
          BY ListEnds DEF e
        <5> QED
          BY <1>3, <4>2, <5>1 DEF Listing
      <4> QED
        BY <1>7, <3>0, <3>2, <4>1, <4>2, <4>3
    <3> QED
      BY <3>1, <3>2
  <2> QED
    BY <2>1 DEF Listing
<1> QED
  BY <1>2, <1>9, <1>10, <1>12 DEF FifoInv, List!Next

\* The frame behind the i-th node, if there is one.
LEMMA ListPlaces ==
    ASSUME Placed, FifoInv, NEW f \in Frame, On(f, Walk)
    PROVE  \E i \in 2..Len(Walk) : Walk[i] = f /\ prev[f] = Walk[i - 1] /\ next[Walk[i - 1]] = f
<1>1. /\ Len(Walk) \in Nat /\ Walk[1] = fifoHead
      /\ \A i \in 1..(Len(Walk) - 1) : next[Walk[i]] = Walk[i + 1] /\ prev[Walk[i + 1]] = Walk[i]
  BY LenProperties DEF FifoInv, Chain
<1>2. PICK i \in 1..Len(Walk) : Walk[i] = f
  BY DEF On
<1>3. i # 1
  BY <1>1, <1>2 DEF Placed
<1>4. i \in 2..Len(Walk) /\ i - 1 \in 1..(Len(Walk) - 1) /\ (i - 1) + 1 = i
  BY <1>1, <1>3
<1>5. prev[f] = Walk[i - 1] /\ next[Walk[i - 1]] = f
  BY <1>1, <1>2, <1>4
<1> QED
  BY <1>2, <1>4, <1>5

\* deleteFifo() and freeFrames().
LEMMA GivesUp ==
    ASSUME Placed, FifoInv, NEW p \in Owner, freeFrames(p)
    PROVE  FifoInv' /\ List!Next
<1>1. PICK f \in First({g \in Frame : pid[g] = p}) :
            deleteFifo(f) /\ pid' = [pid EXCEPT ![f] = NoOwner]
  BY DEF freeFrames
<1>3. LinkTypes /\ Listing /\ Chain(Walk, next, prev)
  BY DEF FifoInv
<1>2. /\ f \in Frame /\ f \in ListNode /\ pid[f] = p /\ p # NoOwner
      /\ victim = NULL /\ victim' = NULL /\ NULL \notin ListNode /\ NULL \notin Frame
  BY DEF First, freeFrames, Placed, ListNode
<1>4. On(f, Walk)
  BY <1>2, <1>3 DEF Listing
<1>5. PICK i \in 2..Len(Walk) :
            Walk[i] = f /\ prev[f] = Walk[i - 1] /\ next[Walk[i - 1]] = f
  BY <1>2, <1>4, ListPlaces
<1> DEFINE b == Walk[i - 1]
           n == next[f]
<1>6. b \in ListNode /\ b # f /\ n \in ListNode \cup {NULL} /\ n # f
  <2>1. Len(Walk) \in Nat /\ Walk \in Seq(ListNode)
    BY ListEnds
  <2>2. i - 1 \in 1..Len(Walk) /\ i \in 1..Len(Walk) /\ i - 1 # i
    BY <2>1
  <2>3. b \in ListNode /\ b # Walk[i]
    <3>1. Once(Walk)
      BY <1>3 DEF Chain
    <3> QED
      BY <2>1, <2>2, <3>1, ElementOfSeq DEF Once
  <2>4. n # f
    <3>1. CASE i = Len(Walk)
      BY <1>2, <1>3, <1>5, <3>1 DEF Chain
    <3>2. CASE i # Len(Walk)
      <4>1. i \in 1..(Len(Walk) - 1) /\ i + 1 \in 1..Len(Walk) /\ i + 1 # i
        BY <2>1, <3>2
      <4>2. n = Walk[i + 1]
        BY <1>3, <1>5, <4>1 DEF Chain
      <4> QED
        BY <1>3, <1>5, <2>2, <4>1, <4>2 DEF Chain, Once
    <3> QED
      BY <3>1, <3>2
  <2>5. n \in ListNode \cup {NULL}
    BY <1>2, <1>3 DEF LinkTypes
  <2> QED
    BY <1>5, <2>3, <2>4, <2>5
<1>7. /\ next' = [next EXCEPT ![b] = n, ![f] = NULL]
      /\ prev' = IF n = NULL THEN [prev EXCEPT ![f] = NULL]
                 ELSE [prev EXCEPT ![n] = b, ![f] = NULL]
  BY <1>1, <1>5 DEF deleteFifo
<1> HIDE DEF b, n
<1>8. /\ next'[b] = n /\ next'[f] = NULL
      /\ \A y \in ListNode : y # b /\ y # f => next'[y] = next[y]
  BY <1>2, <1>3, <1>6, <1>7 DEF LinkTypes
<1>9. /\ n # NULL => prev'[n] = b
      /\ \A y \in ListNode : y # n /\ y # f => prev'[y] = prev[y]
      /\ prev' \in [ListNode \cup {NULL} -> ListNode \cup {NULL}]
  <2>0. prev \in [ListNode \cup {NULL} -> ListNode \cup {NULL}]
    BY <1>3 DEF LinkTypes
  <2>1. CASE n = NULL
    BY <1>2, <1>7, <2>0, <2>1
  <2>2. CASE n # NULL
    BY <1>2, <1>6, <1>7, <2>0, <2>2
  <2> QED
    BY <2>1, <2>2
<1>10. Removed(Walk, i, next, prev, next', prev')
  BY <1>5, <1>8, <1>9 DEF Removed, b, n
<1>11. /\ Chain(Walk', next', prev')
       /\ \A y \in ListNode : On(y, Walk') <=> y # f /\ On(y, Walk)
       /\ List!deleteFifo(f)
  BY <1>5, <1>10, Removing
<1>12. LinkTypes'
  BY <1>1, <1>2, <1>3, <1>6, <1>7, <1>9 DEF LinkTypes
<1>13. pid'[f] = NoOwner /\ \A y \in Frame : y # f => pid'[y] = pid[y]
  BY <1>1, <1>2, <1>3 DEF LinkTypes
<1>14. Listing'
  <2>1. ASSUME NEW y \in Frame
        PROVE  /\ On(y, Walk') <=> pid'[y] # NoOwner /\ y # victim'
               /\ pid'[y] = NoOwner => next'[y] = NULL
    <3>0. y \in ListNode /\ y # victim'
      BY <1>2 DEF ListNode
    <3>1. CASE y = f
      BY <1>8, <1>11, <1>13, <3>0, <3>1
    <3>2. CASE y # f
      <4>1. pid'[y] = pid[y] /\ (On(y, Walk') <=> On(y, Walk))
        BY <1>11, <1>13, <3>0, <3>2
      <4>2. On(y, Walk) <=> pid[y] # NoOwner
        BY <1>2, <1>3 DEF Listing
      <4>3. pid[y] = NoOwner => y # b /\ next[y] = NULL
        <5>1. pid[y] = NoOwner => next[y] = NULL
          BY <1>3 DEF Listing
        <5>2. next[b] = f
          BY <1>5 DEF b
        <5> QED
          BY <1>2, <5>1, <5>2
      <4> QED
        BY <1>8, <3>0, <3>2, <4>1, <4>2, <4>3
    <3> QED
      BY <3>1, <3>2
  <2> QED
    BY <2>1 DEF Listing
<1> QED
  BY <1>2, <1>11, <1>12, <1>14 DEF FifoInv, List!Next

\* removeFifo(), when all frames are in use: also of a list of one.
LEMMA TakesVictim ==
    ASSUME Placed, FifoInv, removeFifo
    PROVE  FifoInv' /\ List!Next
<1>3. LinkTypes /\ Listing /\ Chain(Walk, next, prev)
  BY DEF FifoInv
<1>1. /\ victim = NULL /\ pid' = pid /\ victim' = next[fifoHead]
      /\ next' = [next EXCEPT ![fifoHead] = next[victim']]
      /\ prev' = [prev EXCEPT ![next[victim']] = fifoHead]
      /\ \A y \in Frame : pid[y] # NoOwner
      /\ NULL \notin ListNode /\ NULL \notin Frame /\ fifoHead \in ListNode
  BY DEF removeFifo, Between, Free, Placed, ListNode
<1>2. \A y \in Frame : On(y, Walk)
  BY <1>1, <1>3 DEF Listing
<1>4. /\ Len(Walk) \in Nat /\ Len(Walk) >= 2 /\ Walk \in Seq(ListNode)
      /\ Walk[1] = fifoHead /\ Walk[2] = next[fifoHead] /\ Walk[2] \in Frame
  <2>1. PICK y \in Frame : TRUE
    BY DEF Placed
  <2>2. \E i \in 2..Len(Walk) : Walk[i] = y
    BY <1>2, ListPlaces
  <2>3. Len(Walk) \in Nat /\ Walk \in Seq(ListNode)
    BY ListEnds
  <2>4. Len(Walk) >= 2 /\ 1 \in 1..(Len(Walk) - 1) /\ 1 + 1 = 2 /\ 1 \in 1..Len(Walk)
        /\ 2 \in 1..Len(Walk) /\ 1 # 2
    BY <2>2, <2>3
  <2>5. Walk[1] = fifoHead /\ next[Walk[1]] = Walk[1 + 1] /\ Walk[1] # Walk[2]
    <3>1. Walk[1] = fifoHead /\ next[Walk[1]] = Walk[1 + 1]
      BY <1>3, <2>4 DEF Chain
    <3>2. Walk[1] # Walk[2]
      BY <1>3, <2>4 DEF Chain, Once
    <3> QED
      BY <3>1, <3>2
  <2>6. Walk[2] \in ListNode
    BY <2>3, <2>4, ElementOfSeq
  <2> QED
    BY <2>3, <2>4, <2>5, <2>6 DEF ListNode
<1> DEFINE v == Walk[2]
           n == next[v]
<1>5. /\ v \in Frame /\ v \in ListNode /\ v # fifoHead /\ victim' = v
      /\ next' = [next EXCEPT ![fifoHead] = n]
      /\ prev' = [prev EXCEPT ![n] = fifoHead]
      /\ n \in ListNode \cup {NULL}
  BY <1>1, <1>3, <1>4 DEF LinkTypes, ListNode, Placed
<1> HIDE DEF v, n
<1>6. /\ next'[fifoHead] = n
      /\ \A y \in ListNode : y # fifoHead => next'[y] = next[y]
      /\ n # NULL => prev'[n] = fifoHead
      /\ \A y \in ListNode : y # n => prev'[y] = prev[y]
  BY <1>1, <1>3, <1>5 DEF LinkTypes
<1>7. Removed(Walk, 2, next, prev, next', prev')
  <2>1. 2 - 1 = 1
    OBVIOUS
  <2> QED
    BY <1>4, <1>6, <2>1 DEF Removed, v, n
<1>8. 2 \in 2..Len(Walk)
  BY <1>4
<1>9. /\ Chain(Walk', next', prev')
      /\ \A y \in ListNode : On(y, Walk') <=> y # v /\ On(y, Walk)
      /\ List!removeFifo
  BY <1>7, <1>8, Removing DEF v
<1>10. LinkTypes'
  BY <1>1, <1>3, <1>5 DEF LinkTypes
<1>11. Listing'
  BY <1>1, <1>2, <1>5, <1>9 DEF Listing, ListNode
<1> QED
  BY <1>9, <1>10, <1>11 DEF FifoInv, List!Next

LEMMA FifoStep ==
    ASSUME Placed, FifoInv, [Next]_ffvars
    PROVE  FifoInv' /\ [List!Next]_(Tail(Walk))
<1>1. CASE UNCHANGED ffvars
  BY <1>1, KeepsLinks
<1>2. CASE removeFifo
  BY <1>2, TakesVictim
<1>3. ASSUME NEW p \in Owner, getPFrame(p)
      PROVE  FifoInv' /\ List!Next
  BY <1>3, TakesFree
<1>4. ASSUME NEW p \in Owner, replaced(p)
      PROVE  FifoInv' /\ List!Next
  BY <1>4, PutsBack
<1>5. ASSUME NEW p \in Owner, freeFrames(p)
      PROVE  FifoInv' /\ List!Next
  BY <1>5, GivesUp
<1> QED
  BY <1>1, <1>2, <1>3, <1>4, <1>5 DEF Next

\* The list of frame.c, reached from fifoHead through the next pointers, is at all times the
\* sequence that Paging takes it for, for any number of frames and processes: addFifo() puts
\* the frame at the end, removeFifo() takes the oldest, deleteFifo() takes the one it is
\* told, and none of them cuts off, repeats or loses another, the writes through the null
\* pointer included.
THEOREM FifoImplemented == Spec => ImplementsList
<1>1. Init => FifoInv /\ List!Init
  BY FramesPlaced, InitLinks
<1>2. FifoInv /\ [Next]_ffvars => FifoInv' /\ [Tail(Walk)' = Tail(Walk) \/ List!Next]_(Tail(Walk))
  BY FramesPlaced, FifoStep
<1> QED
  BY <1>1, <1>2, PTL DEF Spec, ImplementsList, List!Spec
===============================================================================
