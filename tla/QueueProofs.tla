----------------------------- MODULE QueueProofs ------------------------------
(***************************************************************************)
(* What the operations on queues do to the set of elements, to their being  *)
(* there once, and to the order of the keys: a ready list whose keys        *)
(* descend, and a delta list whose keys are the steps between the delays.   *)
(* What the operations on semaphores do to their counts and their queues,   *)
(* and where the cells of a ring are.                                       *)
(***************************************************************************)
EXTENDS Queues, Semaphores, SequenceTheorems, FiniteSetTheorems, TLAPS

\* Removing the element at one position keeps the others, in order.
LEMMA DropAtProperties ==
    ASSUME NEW S, NEW s \in Seq(S), NEW i \in 1..Len(s)
    PROVE  /\ DropAt(s, i) \in Seq(S)
           /\ Len(DropAt(s, i)) = Len(s) - 1
           /\ \A j \in 1..(Len(s) - 1) :
                 DropAt(s, i)[j] = IF j < i THEN s[j] ELSE s[j + 1]
<1>1. Len(s) \in Nat /\ Len(s) - 1 \in Nat
  BY LenProperties
<1>2. \A j \in 1..(Len(s) - 1) : (IF j < i THEN s[j] ELSE s[j + 1]) \in S
  BY <1>1, ElementOfSeq
<1>3. DropAt(s, i) \in [1..(Len(s) - 1) -> S]
  BY <1>2 DEF DropAt
<1>4. DropAt(s, i) \in Seq(S)
  BY <1>1, <1>3, SeqDef
<1> QED
  BY <1>1, <1>3, <1>4, LenProperties DEF DropAt

\* In a queue without repetitions, Unlink takes out exactly the element asked for.
LEMMA UnlinkProperties ==
    ASSUME NEW S, NEW s \in Seq(S), NEW x \in S,
           Once(s), On(x, s)
    PROVE  /\ Unlink(s, x) \in Seq(S)
           /\ Len(Unlink(s, x)) = Len(s) - 1
           /\ Once(Unlink(s, x))
           /\ \A y \in S : On(y, Unlink(s, x)) <=> y # x /\ On(y, s)
<1> USE DEF Once, On
<1> DEFINE k == CHOOSE i \in 1..Len(s) : s[i] = x
           t == DropAt(s, k)
<1>1. k \in 1..Len(s) /\ s[k] = x
  OBVIOUS
<1>2. Unlink(s, x) = t
  BY DEF Unlink
<1>3. Len(s) \in Nat
  BY LenProperties
<1> HIDE DEF k
<1>4. /\ t \in Seq(S)
      /\ Len(t) = Len(s) - 1
      /\ \A j \in 1..(Len(s) - 1) : t[j] = IF j < k THEN s[j] ELSE s[j + 1]
  BY <1>1, DropAtProperties
<1> HIDE DEF t
<1>5. ASSUME NEW i \in 1..Len(t), NEW j \in 1..Len(t), t[i] = t[j]
      PROVE  i = j
  <2> DEFINE u(n) == IF n < k THEN n ELSE n + 1
  <2>1. u(i) \in 1..Len(s) /\ u(j) \in 1..Len(s) /\ s[u(i)] = s[u(j)]
    BY <1>1, <1>3, <1>4, <1>5
  <2>2. u(i) = u(j)
    BY <2>1
  <2> QED
    BY <1>1, <1>3, <2>2
<1>6. ASSUME NEW y \in S
      PROVE  (\E i \in 1..Len(t) : t[i] = y) <=> y # x /\ \E i \in 1..Len(s) : s[i] = y
  <2>1. ASSUME NEW i \in 1..Len(t), t[i] = y
        PROVE  y # x /\ \E j \in 1..Len(s) : s[j] = y
    BY <1>1, <1>3, <1>4, <2>1
  <2>2. ASSUME y # x, NEW i \in 1..Len(s), s[i] = y
        PROVE  \E j \in 1..Len(t) : t[j] = y
    <3>1. i < k \/ i > k
      BY <1>1, <1>3, <2>2
    <3>2. CASE i < k
      BY <1>1, <1>3, <1>4, <2>2, <3>2
    <3>3. CASE i > k
      <4>1. i - 1 \in 1..Len(t) /\ t[i - 1] = s[i]
        BY <1>1, <1>3, <1>4, <3>3
      <4> QED
        BY <4>1, <2>2
    <3> QED
      BY <3>1, <3>2, <3>3
  <2> QED
    BY <2>1, <2>2
<1> QED
  BY <1>2, <1>4, <1>5, <1>6

\* So it does in a queue where the element is not.
LEMMA UnlinkOnce ==
    ASSUME NEW S, NEW s \in Seq(S), NEW x \in S, Once(s)
    PROVE  /\ Unlink(s, x) \in Seq(S)
           /\ Once(Unlink(s, x))
           /\ \A y \in S : On(y, Unlink(s, x)) <=> y # x /\ On(y, s)
<1>1. CASE On(x, s)
  BY <1>1, UnlinkProperties
<1>2. CASE ~On(x, s)
  <2>1. Unlink(s, x) = s
    BY <1>2 DEF Unlink
  <2> QED
    BY <1>2, <2>1
<1> QED
  BY <1>1, <1>2

\* A queue takes in an element that is not on it, anywhere.
LEMMA InsertAfterOnce ==
    ASSUME NEW S, NEW s \in Seq(S), NEW x \in S, NEW i \in 0..Len(s), Once(s), ~On(x, s)
    PROVE  /\ InsertAfter(s, i, x) \in Seq(S)
           /\ Once(InsertAfter(s, i, x))
           /\ \A y \in S : On(y, InsertAfter(s, i, x)) <=> y = x \/ On(y, s)
<1> DEFINE t == InsertAfter(s, i, x)
           n == Len(s)
<1>1. n \in Nat /\ i \in Nat /\ i <= n
  BY LenProperties
<1>2. \A j \in 1..(n + 1) : (IF j <= i THEN s[j] ELSE IF j = i + 1 THEN x ELSE s[j - 1]) \in S
  BY <1>1, ElementOfSeq
<1>3. t \in [1..(n + 1) -> S]
  BY <1>2 DEF InsertAfter
<1>4. t \in Seq(S) /\ Len(t) = n + 1
  <2>1. n + 1 \in Nat
    BY <1>1
  <2> QED
    BY <1>3, <2>1, SeqDef, LenProperties
<1>5. \A j \in 1..(n + 1) : t[j] = IF j <= i THEN s[j] ELSE IF j = i + 1 THEN x ELSE s[j - 1]
  BY DEF InsertAfter
<1> HIDE DEF t
<1>6. ASSUME NEW a \in 1..Len(t), NEW b \in 1..Len(t), t[a] = t[b]
      PROVE  a = b
  <2> DEFINE u(m) == IF m <= i THEN m ELSE m - 1
  <2>1. a # i + 1 => u(a) \in 1..n /\ t[a] = s[u(a)]
    BY <1>1, <1>4, <1>5
  <2>2. b # i + 1 => u(b) \in 1..n /\ t[b] = s[u(b)]
    BY <1>1, <1>4, <1>5
  <2>3. t[i + 1] = x
    BY <1>1, <1>5
  <2>4. CASE a # i + 1 /\ b # i + 1
    <3>1. u(a) = u(b)
      BY <1>6, <2>1, <2>2, <2>4 DEF Once
    <3> QED
      BY <1>1, <1>4, <2>4, <3>1
  <2>5. CASE a = i + 1 \/ b = i + 1
    BY <1>6, <2>1, <2>2, <2>3, <2>5 DEF On
  <2> QED
    BY <2>4, <2>5
<1>7. ASSUME NEW y \in S
      PROVE  On(y, t) <=> y = x \/ On(y, s)
  <2>1. ASSUME NEW a \in 1..Len(t), t[a] = y
        PROVE  y = x \/ On(y, s)
    <3>1. CASE a <= i
      <4>1. a \in 1..n /\ s[a] = y
        BY <1>1, <1>4, <1>5, <2>1, <3>1
      <4> QED
        BY <4>1 DEF On
    <3>2. CASE a = i + 1
      BY <1>1, <1>4, <1>5, <2>1, <3>2
    <3>3. CASE a > i + 1
      <4>1. a - 1 \in 1..n /\ s[a - 1] = y
        BY <1>1, <1>4, <1>5, <2>1, <3>3
      <4> QED
        BY <4>1 DEF On
    <3> QED
      BY <1>1, <1>4, <3>1, <3>2, <3>3
  <2>2. ASSUME y = x
        PROVE  On(y, t)
    <3>1. i + 1 \in 1..Len(t) /\ t[i + 1] = x
      BY <1>1, <1>4, <1>5
    <3> QED
      BY <2>2, <3>1 DEF On
  <2>3. ASSUME NEW a \in 1..n, s[a] = y
        PROVE  On(y, t)
    <3>1. CASE a <= i
      <4>1. a \in 1..Len(t) /\ t[a] = y
        BY <1>1, <1>4, <1>5, <2>3, <3>1
      <4> QED
        BY <4>1 DEF On
    <3>2. CASE a > i
      <4>1. a + 1 \in 1..Len(t) /\ t[a + 1] = y
        BY <1>1, <1>4, <1>5, <2>3, <3>2
      <4> QED
        BY <4>1 DEF On
    <3> QED
      BY <1>1, <3>1, <3>2
  <2> QED
    BY <2>1, <2>2, <2>3 DEF On
<1> QED
  BY <1>4, <1>6, <1>7 DEF Once, t

\* enqueue() is the insertion at the end.
LEMMA AppendOnce ==
    ASSUME NEW S, NEW s \in Seq(S), NEW x \in S, Once(s), ~On(x, s)
    PROVE  /\ Append(s, x) \in Seq(S)
           /\ Len(Append(s, x)) = Len(s) + 1
           /\ Once(Append(s, x))
           /\ \A y \in S : On(y, Append(s, x)) <=> y = x \/ On(y, s)
<1>1. Len(s) \in Nat
  BY LenProperties
<1>2. /\ Append(s, x) \in Seq(S) /\ Len(Append(s, x)) = Len(s) + 1
      /\ \A j \in 1..Len(s) : Append(s, x)[j] = s[j]
      /\ Append(s, x)[Len(s) + 1] = x
  BY AppendProperties
<1>3. Once(Append(s, x))
  BY <1>1, <1>2 DEF Once, On
<1>4. ASSUME NEW y \in S
      PROVE  On(y, Append(s, x)) <=> y = x \/ On(y, s)
  BY <1>1, <1>2 DEF On
<1> QED
  BY <1>2, <1>3, <1>4

\* dequeue() takes the first element.
LEMMA TailOnce ==
    ASSUME NEW S, NEW s \in Seq(S), s # <<>>, Once(s)
    PROVE  /\ Head(s) \in S /\ On(Head(s), s)
           /\ Tail(s) \in Seq(S)
           /\ Len(Tail(s)) = Len(s) - 1
           /\ Once(Tail(s))
           /\ \A y \in S : On(y, Tail(s)) <=> y # Head(s) /\ On(y, s)
<1>1. Len(s) \in Nat /\ Len(s) >= 1
  BY LenProperties, EmptySeq
<1>2. /\ Tail(s) \in Seq(S) /\ Len(Tail(s)) = Len(s) - 1
      /\ \A j \in 1..(Len(s) - 1) : Tail(s)[j] = s[j + 1]
      /\ Head(s) = s[1] /\ Head(s) \in S
  BY <1>1, HeadTailProperties
<1>3. On(Head(s), s)
  BY <1>1, <1>2 DEF On
<1>4. Once(Tail(s))
  BY <1>1, <1>2 DEF Once
<1>5. ASSUME NEW y \in S
      PROVE  On(y, Tail(s)) <=> y # Head(s) /\ On(y, s)
  <2>1. ASSUME NEW a \in 1..Len(Tail(s)), Tail(s)[a] = y
        PROVE  y # Head(s) /\ On(y, s)
    <3>1. a + 1 \in 1..Len(s) /\ s[a + 1] = y /\ a + 1 # 1
      BY <1>1, <1>2, <2>1
    <3> QED
      BY <1>1, <1>2, <3>1 DEF Once, On
  <2>2. ASSUME NEW a \in 1..Len(s), s[a] = y, y # Head(s)
        PROVE  On(y, Tail(s))
    <3>1. a - 1 \in 1..Len(Tail(s)) /\ Tail(s)[a - 1] = y
      BY <1>1, <1>2, <2>2
    <3> QED
      BY <3>1 DEF On
  <2> QED
    BY <2>1, <2>2 DEF On
<1> QED
  BY <1>2, <1>3, <1>4, <1>5

\* Putting one list before another that it shares nothing with.
LEMMA ConcatOnce ==
    ASSUME NEW S, NEW s \in Seq(S), NEW t \in Seq(S), Once(s), Once(t),
           \A y \in S : ~(On(y, s) /\ On(y, t))
    PROVE  /\ s \o t \in Seq(S)
           /\ Once(s \o t)
           /\ \A y \in S : On(y, s \o t) <=> On(y, s) \/ On(y, t)
<1> DEFINE u == s \o t
           m == Len(s)
           n == Len(t)
<1>1. m \in Nat /\ n \in Nat
  BY LenProperties
<1>2. /\ u \in Seq(S) /\ Len(u) = m + n
      /\ \A i \in 1..(m + n) : u[i] = IF i <= m THEN s[i] ELSE t[i - m]
  BY ConcatProperties
<1>3. \A i \in 1..m : s[i] \in S
  BY ElementOfSeq
<1>4. \A i \in 1..n : t[i] \in S
  BY ElementOfSeq
<1>5. \A i \in 1..m, j \in 1..n : s[i] # t[j]
  BY <1>3, <1>4 DEF On
<1> HIDE DEF u
<1>6. ASSUME NEW i \in 1..Len(u), NEW j \in 1..Len(u), u[i] = u[j]
      PROVE  i = j
  <2>1. CASE i <= m /\ j <= m
    <3>1. i \in 1..m /\ j \in 1..m /\ s[i] = s[j]
      BY <1>1, <1>2, <1>6, <2>1
    <3> QED
      BY <3>1 DEF Once
  <2>2. CASE i > m /\ j > m
    <3>1. i - m \in 1..n /\ j - m \in 1..n /\ t[i - m] = t[j - m]
      BY <1>1, <1>2, <1>6, <2>2
    <3>2. i - m = j - m
      BY <3>1 DEF Once
    <3> QED
      BY <1>1, <1>2, <3>2
  <2>3. CASE i <= m /\ j > m
    <3>1. i \in 1..m /\ j - m \in 1..n /\ s[i] = t[j - m]
      BY <1>1, <1>2, <1>6, <2>3
    <3> QED
      BY <1>5, <3>1
  <2>4. CASE i > m /\ j <= m
    <3>1. j \in 1..m /\ i - m \in 1..n /\ s[j] = t[i - m]
      BY <1>1, <1>2, <1>6, <2>4
    <3> QED
      BY <1>5, <3>1
  <2> QED
    BY <1>1, <1>2, <2>1, <2>2, <2>3, <2>4
<1>7. ASSUME NEW y \in S
      PROVE  On(y, u) <=> On(y, s) \/ On(y, t)
  <2>1. ASSUME NEW i \in 1..Len(u), u[i] = y
        PROVE  On(y, s) \/ On(y, t)
    <3>1. CASE i <= m
      <4>1. i \in 1..m /\ s[i] = y
        BY <1>1, <1>2, <2>1, <3>1
      <4> QED
        BY <4>1 DEF On
    <3>2. CASE i > m
      <4>1. i - m \in 1..n /\ t[i - m] = y
        BY <1>1, <1>2, <2>1, <3>2
      <4> QED
        BY <4>1 DEF On
    <3> QED
      BY <1>1, <1>2, <3>1, <3>2
  <2>2. ASSUME NEW i \in 1..m, s[i] = y
        PROVE  On(y, u)
    <3>1. i \in 1..Len(u) /\ u[i] = y
      BY <1>1, <1>2, <2>2
    <3> QED
      BY <3>1 DEF On
  <2>3. ASSUME NEW i \in 1..n, t[i] = y
        PROVE  On(y, u)
    <3>1. m + i \in 1..(m + n) /\ ~(m + i <= m) /\ (m + i) - m = i
      BY <1>1
    <3>2. u[m + i] = t[(m + i) - m]
      BY <1>2, <3>1
    <3> QED
      BY <1>2, <2>3, <3>1, <3>2 DEF On
  <2> QED
    BY <2>1, <2>2, <2>3 DEF On
<1> QED
  BY <1>2, <1>6, <1>7 DEF Once, u

\* A list read backwards has the same elements.
LEMMA BackwardsOnce ==
    ASSUME NEW S, NEW s \in Seq(S), Once(s)
    PROVE  /\ Backwards(s) \in Seq(S)
           /\ Once(Backwards(s))
           /\ \A y \in S : On(y, Backwards(s)) <=> On(y, s)
<1> DEFINE t == Backwards(s)
           n == Len(s)
<1>1. n \in Nat
  BY LenProperties
<1>2. \A i \in 1..n : n + 1 - i \in 1..n /\ s[n + 1 - i] \in S
  BY <1>1, ElementOfSeq
<1>3. t \in [1..n -> S]
  BY <1>2 DEF Backwards
<1>4. t \in Seq(S) /\ Len(t) = n
  BY <1>1, <1>3, SeqDef, LenProperties
<1>5. \A i \in 1..n : t[i] = s[n + 1 - i]
  BY DEF Backwards
<1> HIDE DEF t
<1>6. Once(t)
  <2> SUFFICES ASSUME NEW i \in 1..n, NEW j \in 1..n, t[i] = t[j]
               PROVE  i = j
    BY <1>4 DEF Once
  <2>1. s[n + 1 - i] = s[n + 1 - j]
    BY <1>5
  <2>2. n + 1 - i = n + 1 - j
    BY <1>2, <2>1 DEF Once
  <2> QED
    BY <1>1, <2>2
<1>7. ASSUME NEW y \in S
      PROVE  On(y, t) <=> On(y, s)
  <2>1. ASSUME NEW i \in 1..n, t[i] = y
        PROVE  On(y, s)
    BY <1>2, <1>5, <2>1 DEF On
  <2>2. ASSUME NEW i \in 1..n, s[i] = y
        PROVE  On(y, t)
    <3>1. n + 1 - (n + 1 - i) = i /\ n + 1 - i \in 1..n
      BY <1>1
    <3>2. t[n + 1 - i] = y
      BY <1>5, <2>2, <3>1
    <3> QED
      BY <1>4, <3>1, <3>2 DEF On
  <2> QED
    BY <1>4, <2>1, <2>2 DEF On
<1> QED
  BY <1>4, <1>6, <1>7 DEF t

-------------------------------------------------------------------------------
\* Induction, from the least element of a set.

\* A set of natural numbers that is not empty has a least element.
LEMMA LeastNatural ==
    ASSUME NEW T \in SUBSET Nat, T # {}
    PROVE  \E m \in T : \A n \in T : m <= n
<1> DEFINE R == {ss \in Nat \X Nat : ss[1] < ss[2]}
<1>1. \E x \in T : \A y \in T : ~(<<y, x>> \in R)
  <2>1. IsWellFoundedOn(R, Nat)
    BY NatLessThanWellFounded DEF OpToRel
  <2> HIDE DEF R
  <2> QED
    BY <2>1, WFMin
<1>2. \A x, y \in Nat : <<y, x>> \in R <=> y < x
  OBVIOUS
<1> HIDE DEF R
<1>3. PICK x \in T : \A y \in T : ~(<<y, x>> \in R)
  BY <1>1
<1>4. \A y \in T : ~(y < x)
  BY <1>2, <1>3
<1>5. \A y \in T : x <= y
  BY <1>4
<1> QED
  BY <1>3, <1>5

\* Induction, for a set in place of a predicate.
LEMMA Induction ==
    ASSUME NEW T, NEW n \in Nat, 0 \in T, \A i \in 0..(n - 1) : i \in T => i + 1 \in T
    PROVE  \A i \in 0..n : i \in T
<1> DEFINE U == {i \in 0..n : i \notin T}
<1> SUFFICES ASSUME U # {} PROVE FALSE
  OBVIOUS
<1>1. PICK m \in U : \A i \in U : m <= i
  <2>1. U \in SUBSET Nat
    OBVIOUS
  <2> HIDE DEF U
  <2> QED
    BY <2>1, LeastNatural
<1>2. m \in 0..n /\ m \notin T /\ m # 0
  BY <1>1
<1>3. m - 1 \in 0..(n - 1) /\ ~(m <= m - 1) /\ (m - 1) + 1 = m
  BY <1>2
<1>4. m - 1 \in T
  <2>1. m - 1 \in 0..n /\ m - 1 \notin U
    BY <1>1, <1>3
  <2> QED
    BY <2>1
<1>5. (m - 1) + 1 \in T
  BY <1>3, <1>4
<1> QED
  BY <1>2, <1>3, <1>5

\* The sum of the keys is the function its definition asks for.
LEMMA DueInStep ==
    ASSUME NEW S, NEW s \in Seq(S), NEW key \in [S -> Int]
    PROVE  /\ DueIn(s, key, 0) = 0
           /\ \A i \in 0..Len(s) : DueIn(s, key, i) \in Int
           /\ \A i \in 0..(Len(s) - 1) : DueIn(s, key, i + 1) = DueIn(s, key, i) + key[s[i + 1]]
<1> DEFINE n == Len(s)
           Sums(f, m) == /\ f \in [0..m -> Int] /\ f[0] = 0
                         /\ \A j \in 1..m : f[j] = f[j - 1] + key[s[j]]
           T == {m \in 0..n : \E f : Sums(f, m)}
<1>1. n \in Nat /\ \A j \in 1..n : key[s[j]] \in Int
  BY LenProperties, ElementOfSeq
<1>2. 0 \in T
  <2>1. Sums([j \in 0..0 |-> 0], 0)
    OBVIOUS
  <2> HIDE DEF Sums
  <2>2. \E f : Sums(f, 0)
    BY <2>1
  <2>3. 0 \in 0..n
    BY <1>1
  <2> QED
    BY <2>2, <2>3
<1>3. ASSUME NEW m \in 0..(n - 1), m \in T
      PROVE  m + 1 \in T
  <2>1. PICK f : Sums(f, m)
    BY <1>3
  <2> DEFINE g == [j \in 0..(m + 1) |-> IF j = m + 1 THEN f[m] + key[s[m + 1]] ELSE f[j]]
  <2>2. m + 1 \in 1..n /\ key[s[m + 1]] \in Int /\ f[m] \in Int
    BY <1>1, <2>1
  <2>3. g \in [0..(m + 1) -> Int]
    BY <1>1, <2>1, <2>2
  <2>4. /\ \A j \in 0..m : g[j] = f[j]
        /\ g[m + 1] = f[m] + key[s[m + 1]]
    BY <1>1
  <2> HIDE DEF g
  <2>5. g[0] = 0
    BY <1>1, <2>1, <2>4
  <2>6. ASSUME NEW j \in 1..(m + 1)
        PROVE  g[j] = g[j - 1] + key[s[j]]
    <3>1. CASE j = m + 1
      BY <1>1, <2>4, <3>1
    <3>2. CASE j # m + 1
      <4>1. j \in 1..m /\ j \in 0..m /\ j - 1 \in 0..m
        BY <1>1, <3>2
      <4> QED
        BY <2>1, <2>4, <4>1
    <3> QED
      BY <3>1, <3>2
  <2>7. Sums(g, m + 1)
    BY <2>3, <2>5, <2>6
  <2> HIDE DEF Sums
  <2>8. \E h : Sums(h, m + 1)
    BY <2>7
  <2>9. m + 1 \in 0..n
    BY <1>1, <2>2
  <2> QED
    BY <2>8, <2>9
<1>4. n \in T
  <2> HIDE DEF T
  <2>1. \A i \in 0..n : i \in T
    BY <1>1, <1>2, <1>3, Induction
  <2> QED
    BY <1>1, <2>1
<1>5. PICK f : Sums(f, n)
  BY <1>4
<1> DEFINE g == CHOOSE g : g = [j \in 0..n |-> IF j = 0 THEN 0 ELSE g[j - 1] + key[s[j]]]
<1>6. f = [j \in 0..n |-> IF j = 0 THEN 0 ELSE f[j - 1] + key[s[j]]]
  BY <1>1, <1>5
<1>7. g = [j \in 0..n |-> IF j = 0 THEN 0 ELSE g[j - 1] + key[s[j]]]
  BY <1>6
<1>8. \A i : DueIn(s, key, i) = g[i]
  BY DEF DueIn
<1> HIDE DEF g
<1>9. /\ g[0] = 0
      /\ \A i \in 0..(n - 1) : g[i + 1] = g[i] + key[s[i + 1]]
  BY <1>1, <1>7
<1>10. \A i \in 0..n : g[i] \in Int
  <2> DEFINE U == {i \in 0..n : g[i] \in Int}
  <2>1. 0 \in U
    BY <1>1, <1>9
  <2>2. \A i \in 0..(n - 1) : i \in U => i + 1 \in U
    BY <1>1, <1>9
  <2> HIDE DEF U
  <2>3. \A i \in 0..n : i \in U
    BY <1>1, <2>1, <2>2, Induction
  <2> QED
    BY <2>3 DEF U
<1> QED
  BY <1>8, <1>9, <1>10

-------------------------------------------------------------------------------
\* The delta list: the keys are the steps from one delay to the next, and the delays ascend.
Delta(s, key, l) ==
    /\ s # <<>> => l[s[1]] = key[s[1]]
    /\ \A i \in 1..(Len(s) - 1) : l[s[i + 1]] = l[s[i]] + key[s[i + 1]]
    /\ \A i, j \in 1..Len(s) : i <= j => l[s[i]] <= l[s[j]]

\* The sums of the keys are then the delays.
LEMMA DueInIsDelay ==
    ASSUME NEW S, NEW s \in Seq(S), NEW key \in [S -> Int], NEW l \in [S -> Int], Delta(s, key, l)
    PROVE  \A i \in 1..Len(s) : DueIn(s, key, i) = l[s[i]]
<1> DEFINE n == Len(s)
           T == {i \in 0..n : i # 0 => DueIn(s, key, i) = l[s[i]]}
<1>1. n \in Nat /\ (n # 0 => s # <<>>)
  BY LenProperties, EmptySeq
<1>a. /\ s # <<>> => l[s[1]] = key[s[1]]
      /\ \A i \in 1..(n - 1) : l[s[i + 1]] = l[s[i]] + key[s[i + 1]]
  BY DEF Delta
<1>2. 0 \in T
  BY <1>1
<1>3. ASSUME NEW i \in 0..(n - 1), i \in T
      PROVE  i + 1 \in T
  <2>1. DueIn(s, key, i + 1) = DueIn(s, key, i) + key[s[i + 1]]
    BY DueInStep
  <2>2. CASE i = 0
    <3>1. DueIn(s, key, 1) = l[s[1]]
      <4>1. s # <<>> /\ s[1] \in S
        BY <1>1, <2>2, ElementOfSeq
      <4>2. DueIn(s, key, 0) = 0 /\ key[s[1]] \in Int
        BY <4>1, DueInStep
      <4> QED
        BY <1>a, <2>1, <2>2, <4>1, <4>2
    <3> QED
      BY <1>1, <2>2, <3>1
  <2>3. CASE i # 0
    <3>1. i \in 1..(n - 1) /\ DueIn(s, key, i) = l[s[i]]
      BY <1>1, <1>3, <2>3
    <3>2. l[s[i + 1]] = l[s[i]] + key[s[i + 1]]
      BY <1>a, <3>1
    <3> QED
      BY <1>1, <2>1, <3>1, <3>2
  <2> QED
    BY <2>2, <2>3
<1> HIDE DEF T
<1>4. \A i \in 0..n : i \in T
  BY <1>1, <1>2, <1>3, Induction
<1> QED
  BY <1>1, <1>4 DEF T

-------------------------------------------------------------------------------
\* The ready list: the keys descend.
Descends(s, key) == \A i, j \in 1..Len(s) : i <= j => key[s[j]] <= key[s[i]]

\* What is behind the head has no higher key.
LEMMA TailDescends ==
    ASSUME NEW S, NEW s \in Seq(S), s # <<>>, NEW key, Descends(s, key)
    PROVE  /\ Descends(Tail(s), key)
           /\ \A i \in 1..Len(Tail(s)) : key[Tail(s)[i]] <= key[Head(s)]
<1>1. Len(s) \in Nat /\ Len(s) >= 1
  BY LenProperties, EmptySeq
<1>2. /\ Len(Tail(s)) = Len(s) - 1
      /\ \A j \in 1..(Len(s) - 1) : Tail(s)[j] = s[j + 1]
      /\ Head(s) = s[1]
  BY <1>1, HeadTailProperties
<1> QED
  BY <1>1, <1>2 DEF Descends

\* insert() keeps the order; its key is that of the new element.
LEMMA InsertDescends ==
    ASSUME NEW S, NEW s \in Seq(S), NEW x \in S, NEW key \in [S -> Int], NEW k \in Int,
           ~On(x, s), Descends(s, key), NEW r \in Insert(s, key, x, k)
    PROVE  /\ r \in Seq(S) /\ r # <<>>
           /\ Descends(r, [key EXCEPT ![x] = k])
           /\ \A i \in 1..Len(r) : r[i] = x \/ On(r[i], s)
<1> DEFINE n == Len(s)
           new == [key EXCEPT ![x] = k]
<1>0. n \in Nat
  BY LenProperties
<1>1. PICK i \in 0..n : /\ r = InsertAfter(s, i, x)
                        /\ \A j \in 1..i : key[s[j]] >= k
                        /\ i < n => key[s[i + 1]] < k
  BY DEF Insert
<1>2. \A j \in 1..(n + 1) : r[j] = IF j <= i THEN s[j] ELSE IF j = i + 1 THEN x ELSE s[j - 1]
  BY <1>1 DEF InsertAfter
<1>3. \A j \in 1..n : s[j] \in S /\ s[j] # x /\ new[s[j]] = key[s[j]] /\ key[s[j]] \in Int
  BY ElementOfSeq DEF On
<1>4. r \in Seq(S) /\ Len(r) = n + 1
  <2>1. \A j \in 1..(n + 1) : (IF j <= i THEN s[j] ELSE IF j = i + 1 THEN x ELSE s[j - 1]) \in S
    BY <1>0, <1>3
  <2>2. r \in [1..(n + 1) -> S]
    BY <1>1, <2>1 DEF InsertAfter
  <2>3. n + 1 \in Nat
    BY <1>0
  <2> QED
    BY <2>2, <2>3, SeqDef, LenProperties
<1>5. new[x] = k
  OBVIOUS
<1>5a. \A j \in 1..(n + 1) : new[r[j]] \in Int
  BY <1>4, ElementOfSeq
<1> HIDE DEF new
<1>6. \A j \in 1..(i + 1) : new[r[j]] >= k
  <2> SUFFICES ASSUME NEW j \in 1..(i + 1) PROVE new[r[j]] >= k
    OBVIOUS
  <2>1. CASE j <= i
    <3>1. j \in 1..i /\ j \in 1..n /\ r[j] = s[j]
      BY <1>0, <1>2, <2>1
    <3> QED
      BY <1>1, <1>3, <3>1
  <2>2. CASE j = i + 1
    <3>1. r[j] = x
      BY <1>0, <1>2, <2>2
    <3> QED
      BY <1>5, <3>1
  <2> QED
    BY <1>0, <2>1, <2>2
<1>7. ASSUME NEW a \in 1..(n + 1), NEW b \in 1..(n + 1), a <= b
      PROVE  new[r[b]] <= new[r[a]]
  <2>1. \A c, d \in 1..n : c <= d => key[s[d]] <= key[s[c]]
    BY DEF Descends
  <2>2. CASE b <= i
    <3>1. a \in 1..n /\ b \in 1..n /\ r[a] = s[a] /\ r[b] = s[b]
      BY <1>0, <1>2, <1>7, <2>2
    <3> QED
      BY <1>3, <1>7, <2>1, <3>1
  <2>3. CASE b = i + 1
    <3>1. new[r[b]] = k
      BY <1>0, <1>2, <1>5, <2>3
    <3> QED
      BY <1>0, <1>6, <1>7, <2>3, <3>1
  <2>4. CASE b > i + 1
    <3>1. b - 1 \in 1..n /\ r[b] = s[b - 1] /\ i + 1 \in 1..n /\ i + 1 <= b - 1 /\ i < n
      BY <1>0, <1>2, <2>4
    <3>2. key[s[b - 1]] <= key[s[i + 1]] /\ key[s[i + 1]] < k
      BY <1>1, <2>1, <3>1
    <3>3. new[r[b]] < k
      BY <1>3, <3>1, <3>2
    <3>4. CASE a <= i + 1
      <4>1. a \in 1..(i + 1) /\ new[r[a]] \in Int /\ new[r[b]] \in Int
        BY <1>0, <1>5a, <3>4
      <4>2. new[r[a]] >= k
        BY <1>6, <4>1
      <4> QED
        BY <3>3, <4>1, <4>2
    <3>5. CASE a > i + 1
      <4>1. a - 1 \in 1..n /\ r[a] = s[a - 1] /\ a - 1 <= b - 1
        BY <1>0, <1>2, <1>7, <3>5
      <4> QED
        BY <1>3, <2>1, <3>1, <4>1
    <3> QED
      BY <1>0, <3>4, <3>5
  <2> QED
    BY <1>0, <2>2, <2>3, <2>4
<1>8. \A j \in 1..(n + 1) : r[j] = x \/ On(r[j], s)
  <2> SUFFICES ASSUME NEW j \in 1..(n + 1) PROVE r[j] = x \/ On(r[j], s)
    OBVIOUS
  <2>1. CASE j <= i
    <3>1. j \in 1..n /\ r[j] = s[j]
      BY <1>0, <1>2, <2>1
    <3> QED
      BY <3>1 DEF On
  <2>2. CASE j = i + 1
    BY <1>0, <1>2, <2>2
  <2>3. CASE j > i + 1
    <3>1. j - 1 \in 1..n /\ r[j] = s[j - 1]
      BY <1>0, <1>2, <2>3
    <3> QED
      BY <3>1 DEF On
  <2> QED
    BY <1>0, <2>1, <2>2, <2>3
<1>9. r # <<>>
  BY <1>0, <1>4, EmptySeq
<1> QED
  BY <1>4, <1>7, <1>8, <1>9 DEF Descends, new

\* So does getitem().
LEMMA UnlinkDescends ==
    ASSUME NEW S, NEW s \in Seq(S), NEW x \in S, NEW key, Descends(s, key)
    PROVE  /\ Descends(Unlink(s, x), key)
           /\ \A i \in 1..Len(Unlink(s, x)) : On(Unlink(s, x)[i], s)
<1>1. CASE ~On(x, s)
  BY <1>1 DEF Unlink, On
<1>2. CASE On(x, s)
  <2>1. PICK k \in 1..Len(s) : Unlink(s, x) = DropAt(s, k)
    BY <1>2 DEF Unlink, On
  <2> DEFINE t == DropAt(s, k)
  <2>2. /\ Len(s) \in Nat /\ Len(t) = Len(s) - 1
        /\ \A j \in 1..(Len(s) - 1) : t[j] = IF j < k THEN s[j] ELSE s[j + 1]
    BY LenProperties, DropAtProperties
  <2> HIDE DEF t
  <2>3. ASSUME NEW i \in 1..Len(t), NEW j \in 1..Len(t), i <= j
        PROVE  key[t[j]] <= key[t[i]]
    <3>1. \A a, b \in 1..Len(s) : a <= b => key[s[b]] <= key[s[a]]
      BY DEF Descends
    <3> DEFINE u(m) == IF m < k THEN m ELSE m + 1
    <3>2. /\ u(i) \in 1..Len(s) /\ u(j) \in 1..Len(s) /\ u(i) <= u(j)
          /\ t[i] = s[u(i)] /\ t[j] = s[u(j)]
      BY <2>2, <2>3
    <3> HIDE DEF u
    <3> QED
      BY <3>1, <3>2
  <2>4. \A i \in 1..Len(t) : \E j \in 1..Len(s) : t[i] = s[j]
    BY <2>2
  <2> QED
    BY <2>1, <2>3, <2>4 DEF Descends, On, t
<1> QED
  BY <1>1, <1>2

\* Nothing changes for a list whose elements keep their keys and delays.
LEMMA DeltaSame ==
    ASSUME NEW S, NEW s \in Seq(S), NEW key, NEW l, Delta(s, key, l), NEW kk, NEW ll,
           \A y \in S : On(y, s) => kk[y] = key[y] /\ ll[y] = l[y]
    PROVE  Delta(s, kk, ll)
<1>1. Len(s) \in Nat /\ (s # <<>> => Len(s) >= 1)
  BY LenProperties, EmptySeq
<1>2. \A i \in 1..Len(s) : kk[s[i]] = key[s[i]] /\ ll[s[i]] = l[s[i]]
  BY ElementOfSeq DEF On
<1> QED
  BY <1>1, <1>2 DEF Delta

\* insertd(): the new element x gets what is left of its delay k behind the first i, and its
\* successor loses as much.
PutIn(S, s, i, x, k, key, l, kk, ll) ==
    /\ kk[x] = k - DueIn(s, key, i)
    /\ \A y \in S : y # x => kk[y] = IF i < Len(s) /\ y = s[i + 1]
                                     THEN key[y] - (k - DueIn(s, key, i)) ELSE key[y]
    /\ ll[x] = k
    /\ \A y \in S : y # x => ll[y] = l[y]

LEMMA DeltaInsert ==
    ASSUME NEW S, NEW s \in Seq(S), NEW x \in S, Once(s), ~On(x, s),
           NEW key \in [S -> Int], NEW l \in [S -> Int], Delta(s, key, l),
           NEW k \in Int, NEW i \in DeltaPlaces(s, key, k),
           NEW kk, NEW ll, PutIn(S, s, i, x, k, key, l, kk, ll)
    PROVE  Delta(InsertAfter(s, i, x), kk, ll)
<1> DEFINE n == Len(s)
           t == InsertAfter(s, i, x)
           d == k - DueIn(s, key, i)
<1>0. n \in Nat
  BY LenProperties
<1>1. i \in 0..n
  BY DEF DeltaPlaces
<1>d. ASSUME NEW j \in 1..n
      PROVE  DueIn(s, key, j) = l[s[j]]
  <2>1. \A a \in 1..Len(s) : DueIn(s, key, a) = l[s[a]]
    BY DueInIsDelay, ZenonT(60)
  <2> QED
    BY <2>1
<1>2. DueIn(s, key, 0) = 0 /\ DueIn(s, key, i) \in Int
  BY <1>1, DueInStep
<1>3. /\ \A j \in 1..i : l[s[j]] <= k
      /\ i < n => l[s[i + 1]] > k
  <2>1. i \in {a \in 0..n : /\ \A j \in 1..a : DueIn(s, key, j) <= k
                            /\ a < n => DueIn(s, key, a + 1) > k}
    BY DEF DeltaPlaces
  <2>2. \A j \in 1..i : DueIn(s, key, j) <= k
    BY <2>1
  <2>3. i < n => DueIn(s, key, i + 1) > k
    BY <2>1
  <2>4. \A j \in 1..i : j \in 1..n
    BY <1>0, <1>1
  <2>5. i < n => i + 1 \in 1..n
    BY <1>0, <1>1
  <2> QED
    BY <1>d, <2>2, <2>3, <2>4, <2>5
<1>4. \A j \in 1..n : /\ s[j] \in S /\ s[j] # x
                      /\ l[s[j]] \in Int /\ key[s[j]] \in Int /\ ll[s[j]] = l[s[j]]
                      /\ kk[s[j]] = IF j = i + 1 THEN key[s[j]] - d ELSE key[s[j]]
  <2> SUFFICES ASSUME NEW j \in 1..n
               PROVE  /\ s[j] \in S /\ s[j] # x
                      /\ l[s[j]] \in Int /\ key[s[j]] \in Int /\ ll[s[j]] = l[s[j]]
                      /\ kk[s[j]] = IF j = i + 1 THEN key[s[j]] - d ELSE key[s[j]]
    OBVIOUS
  <2>1. s[j] \in S /\ s[j] # x
    BY ElementOfSeq DEF On
  <2>2. (i < n /\ s[j] = s[i + 1]) <=> j = i + 1
    <3>1. i < n => i + 1 \in 1..n
      BY <1>0, <1>1
    <3>2. j = i + 1 => i < n
      BY <1>0, <1>1
    <3> QED
      BY <3>1, <3>2 DEF Once
  <2>3. l[s[j]] \in Int /\ key[s[j]] \in Int
    BY <2>1
  <2>4. ll[s[j]] = l[s[j]]
    BY <2>1 DEF PutIn
  <2>5. kk[s[j]] = IF i < n /\ s[j] = s[i + 1] THEN key[s[j]] - d ELSE key[s[j]]
    BY <2>1 DEF PutIn
  <2> QED
    BY <2>1, <2>2, <2>3, <2>4, <2>5
<1>x. ll[x] = k /\ kk[x] = d
  BY DEF PutIn
<1>5. /\ Len(t) = n + 1
      /\ \A j \in 1..(n + 1) : t[j] = IF j <= i THEN s[j] ELSE IF j = i + 1 THEN x ELSE s[j - 1]
  <2>1. t \in Seq(S) /\ t \in [1..(n + 1) -> S]
    <3>1. t \in Seq(S)
      BY <1>1, InsertAfterOnce
    <3>2. \A j \in 1..(n + 1) : (IF j <= i THEN s[j] ELSE IF j = i + 1 THEN x ELSE s[j - 1]) \in S
      BY <1>0, <1>1, <1>4
    <3> QED
      BY <3>1, <3>2 DEF InsertAfter
  <2>2. DOMAIN t = 1..Len(t) /\ Len(t) \in Nat
    BY <2>1, LenProperties
  <2>3. Len(t) = n + 1
    BY <1>0, <2>1, <2>2, LenProperties
  <2> QED
    BY <2>3 DEF InsertAfter
<1>6. d \in Int /\ (i # 0 => d = k - l[s[i]]) /\ (i = 0 => d = k)
  <2>1. i # 0 => i \in 1..n
    BY <1>0, <1>1
  <2> QED
    BY <1>d, <1>2, <2>1
<1>7. \A j \in 1..(n - 1) : l[s[j + 1]] = l[s[j]] + key[s[j + 1]]
  BY DEF Delta
<1>8. n # 0 => l[s[1]] = key[s[1]]
  BY EmptySeq DEF Delta
<1>9. \A a, b \in 1..n : a <= b => l[s[a]] <= l[s[b]]
  BY DEF Delta
<1> HIDE DEF t, d
<1>10. ll[t[1]] = kk[t[1]]
  <2>1. CASE i = 0
    <3>1. t[1] = x
      BY <1>0, <1>5, <2>1
    <3> QED
      BY <1>6, <1>x, <2>1, <3>1
  <2>2. CASE i # 0
    <3>0. 1 \in 1..n /\ 1 \in 1..(n + 1) /\ 1 <= i /\ 1 # i + 1
      BY <1>0, <1>1, <2>2
    <3>1. 1 \in 1..n /\ t[1] = s[1] /\ 1 # i + 1
      BY <1>5, <3>0
    <3> QED
      BY <1>0, <1>4, <1>8, <3>1
  <2> QED
    BY <2>1, <2>2
<1>11. ASSUME NEW j \in 1..n
       PROVE  ll[t[j + 1]] = ll[t[j]] + kk[t[j + 1]]
  <2>1. CASE j + 1 <= i
    <3>0. /\ j + 1 \in 1..n /\ j \in 1..(n - 1) /\ j + 1 # i + 1 /\ j # i + 1
          /\ j <= i /\ j \in 1..(n + 1) /\ j + 1 \in 1..(n + 1)
      BY <1>0, <1>1, <2>1
    <3>1. t[j] = s[j] /\ t[j + 1] = s[j + 1]
      BY <1>5, <2>1, <3>0
    <3>2. l[s[j + 1]] = l[s[j]] + key[s[j + 1]]
      BY <1>7, <3>0
    <3>3. ll[s[j]] = l[s[j]] /\ ll[s[j + 1]] = l[s[j + 1]] /\ kk[s[j + 1]] = key[s[j + 1]]
      BY <1>4, <3>0
    <3> QED
      BY <3>1, <3>2, <3>3
  <2>2. CASE j = i
    <3>1. j \in 1..n /\ t[j] = s[j] /\ t[j + 1] = x
      BY <1>0, <1>1, <1>5, <2>2
    <3>2. ll[x] = k /\ kk[x] = d /\ d = k - l[s[j]]
      BY <1>0, <1>6, <1>x, <2>2
    <3> QED
      BY <1>4, <3>1, <3>2
  <2>3. CASE j = i + 1
    <3>0. /\ j \in 1..(n + 1) /\ j + 1 \in 1..(n + 1) /\ ~(j <= i) /\ ~(j + 1 <= i)
          /\ j + 1 # i + 1 /\ (j + 1) - 1 = j /\ i < n /\ i + 1 \in 1..n
      BY <1>0, <1>1, <2>3
    <3>1. t[j] = x /\ t[j + 1] = s[j]
      BY <1>5, <2>3, <3>0
    <3>2. kk[s[j]] = key[s[j]] - d /\ ll[s[j]] = l[s[j]]
      BY <1>4, <2>3
    <3>3. key[s[j]] \in Int /\ l[s[j]] \in Int
      BY <1>4
    <3>4. l[s[j]] = (k - d) + key[s[j]]
      <4>1. CASE i = 0
        <5>1. j = 1 /\ n # 0 /\ d = k
          BY <1>0, <1>6, <2>3, <4>1
        <5> QED
          BY <1>8, <3>3, <5>1
      <4>2. CASE i # 0
        <5>1. i \in 1..(n - 1) /\ i \in 1..n
          BY <1>0, <1>1, <3>0, <4>2
        <5>2. l[s[j]] = l[s[i]] + key[s[j]] /\ l[s[i]] \in Int /\ d = k - l[s[i]]
          BY <1>4, <1>6, <1>7, <2>3, <4>2, <5>1
        <5> QED
          BY <3>3, <5>2
      <4> QED
        BY <4>1, <4>2
    <3>5. l[s[j]] = k + (key[s[j]] - d)
      BY <1>6, <3>3, <3>4
    <3> QED
      BY <1>x, <3>1, <3>2, <3>5
  <2>4. CASE j > i + 1
    <3>0. /\ j - 1 \in 1..n /\ j - 1 \in 1..(n - 1) /\ (j - 1) + 1 = j /\ j # i + 1
          /\ j \in 1..(n + 1) /\ j + 1 \in 1..(n + 1) /\ ~(j <= i) /\ ~(j + 1 <= i)
          /\ j + 1 # i + 1 /\ (j + 1) - 1 = j
      BY <1>0, <1>1, <2>4
    <3>1. t[j] = s[j - 1] /\ t[j + 1] = s[j]
      BY <1>5, <3>0, SMTT(30)
    <3>2. l[s[j]] = l[s[j - 1]] + key[s[j]]
      <4>1. PICK m : m = j - 1 /\ m \in 1..(n - 1) /\ m + 1 = j
        BY <3>0
      <4>2. l[s[m + 1]] = l[s[m]] + key[s[m + 1]]
        BY <1>7, <4>1
      <4> QED
        BY <4>1, <4>2
    <3>3. ll[s[j]] = l[s[j]] /\ ll[s[j - 1]] = l[s[j - 1]] /\ kk[s[j]] = key[s[j]]
      BY <1>4, <3>0
    <3> QED
      BY <3>1, <3>2, <3>3
  <2> QED
    BY <1>0, <1>1, <2>1, <2>2, <2>3, <2>4
<1>12. ASSUME NEW a \in 1..(n + 1), NEW b \in 1..(n + 1), a <= b
       PROVE  ll[t[a]] <= ll[t[b]]
  <2>1. \A j \in 1..i : t[j] = s[j] /\ j \in 1..n /\ ll[t[j]] = l[s[j]] /\ ll[t[j]] <= k
    <3> SUFFICES ASSUME NEW j \in 1..i
                 PROVE  t[j] = s[j] /\ j \in 1..n /\ ll[t[j]] = l[s[j]] /\ ll[t[j]] <= k
      OBVIOUS
    <3>1. t[j] = s[j] /\ j \in 1..n
      BY <1>0, <1>1, <1>5, SMTT(30)
    <3> QED
      BY <1>3, <1>4, <3>1
  <2>2. \A j \in (i + 2)..(n + 1) :
           t[j] = s[j - 1] /\ j - 1 \in 1..n /\ ll[t[j]] = l[s[j - 1]] /\ ll[t[j]] > k
    <3> SUFFICES ASSUME NEW j \in (i + 2)..(n + 1)
                 PROVE  t[j] = s[j - 1] /\ j - 1 \in 1..n /\ ll[t[j]] = l[s[j - 1]] /\ ll[t[j]] > k
      OBVIOUS
    <3>1. t[j] = s[j - 1] /\ j - 1 \in 1..n /\ i + 1 \in 1..n /\ i + 1 <= j - 1 /\ i < n
      BY <1>0, <1>1, <1>5
    <3>2. l[s[i + 1]] > k /\ l[s[i + 1]] <= l[s[j - 1]] /\ ll[s[j - 1]] = l[s[j - 1]]
      BY <1>3, <1>4, <1>9, <3>1
    <3>3. \A u, w \in Int : w > k /\ w <= u => u > k
      OBVIOUS
    <3>4. l[s[i + 1]] \in Int /\ l[s[j - 1]] \in Int
      BY <1>4, <3>1
    <3>5. l[s[j - 1]] > k
      BY <3>2, <3>3, <3>4
    <3> QED
      BY <3>1, <3>2, <3>5
  <2>3. t[i + 1] = x /\ ll[x] = k
    BY <1>0, <1>1, <1>5, <1>x
  <2>4. CASE b <= i
    <3>1. a \in 1..i /\ b \in 1..i
      BY <1>0, <1>1, <1>12, <2>4
    <3> QED
      BY <1>9, <1>12, <2>1, <3>1
  <2>5. CASE a >= i + 2
    <3>1. a \in (i + 2)..(n + 1) /\ b \in (i + 2)..(n + 1) /\ a - 1 <= b - 1
      BY <1>0, <1>1, <1>12, <2>5
    <3> QED
      BY <1>9, <2>2, <3>1
  <2>6. CASE a <= i + 1 /\ b >= i + 1
    <3>1. ll[t[a]] <= k /\ ll[t[a]] \in Int
      <4>1. a \in 1..i \/ a = i + 1
        BY <1>0, <1>1, <2>6
      <4> QED
        BY <1>4, <2>1, <2>3, <4>1
    <3>2. ll[t[b]] >= k /\ ll[t[b]] \in Int
      <4>1. b \in (i + 2)..(n + 1) \/ b = i + 1
        BY <1>0, <1>1, <2>6
      <4>2. CASE b = i + 1
        BY <2>3, <4>2
      <4>3. CASE b \in (i + 2)..(n + 1)
        <5>1. ll[t[b]] = l[s[b - 1]] /\ b - 1 \in 1..n /\ ll[t[b]] > k
          BY <2>2, <4>3
        <5>2. ll[t[b]] \in Int
          BY <1>4, <5>1
        <5> QED
          BY <5>1, <5>2
      <4> QED
        BY <4>1, <4>2, <4>3
    <3> QED
      BY <3>1, <3>2
  <2> QED
    BY <1>0, <1>1, <1>12, <2>4, <2>5, <2>6
<1> QED
  BY <1>0, <1>5, <1>10, <1>11, <1>12 DEF Delta, t

\* wakeup() takes a head whose delay is over, and leaves the keys of the others as they are.
LEMMA DeltaTail ==
    ASSUME NEW S, NEW s \in Seq(S), s # <<>>, Once(s),
           NEW key \in [S -> Int], NEW l, Delta(s, key, l), l[Head(s)] = 0,
           NEW kk, NEW ll,
           \A y \in S : y # Head(s) /\ On(y, s) => kk[y] = key[y] /\ ll[y] = l[y]
    PROVE  Delta(Tail(s), kk, ll)
<1> DEFINE n == Len(s)
           t == Tail(s)
<1>1. n \in Nat /\ n >= 1
  BY LenProperties, EmptySeq
<1>2. /\ t \in Seq(S) /\ Len(t) = n - 1
      /\ \A j \in 1..(n - 1) : t[j] = s[j + 1]
      /\ Head(s) = s[1]
  BY <1>1, HeadTailProperties
<1>3. \A j \in 1..n : s[j] \in S /\ (j # 1 => kk[s[j]] = key[s[j]] /\ ll[s[j]] = l[s[j]])
  BY <1>1, <1>2, ElementOfSeq DEF Once, On
<1> HIDE DEF t
<1>4. t # <<>> => ll[t[1]] = kk[t[1]]
  <2> SUFFICES ASSUME t # <<>> PROVE ll[t[1]] = kk[t[1]]
    OBVIOUS
  <2>1. n >= 2
    BY <1>1, <1>2, EmptySeq
  <2>2. t[1] = s[2] /\ 2 \in 1..n /\ 1 \in 1..(n - 1)
    BY <1>2, <2>1
  <2>3. l[s[2]] = l[s[1]] + key[s[2]]
    BY <2>2 DEF Delta
  <2>4. key[s[2]] \in Int
    BY <1>3, <2>2
  <2> QED
    BY <1>2, <1>3, <2>2, <2>3, <2>4
<1>5. ASSUME NEW j \in 1..(Len(t) - 1)
      PROVE  ll[t[j + 1]] = ll[t[j]] + kk[t[j + 1]]
  <2>1. /\ t[j] = s[j + 1] /\ t[j + 1] = s[(j + 1) + 1] /\ j + 1 \in 1..(n - 1)
        /\ j + 1 \in 1..n /\ (j + 1) + 1 \in 1..n /\ j + 1 # 1 /\ (j + 1) + 1 # 1
    BY <1>1, <1>2, SMTT(30)
  <2>2. l[s[(j + 1) + 1]] = l[s[j + 1]] + key[s[(j + 1) + 1]]
    <3>1. \A m \in 1..(n - 1) : l[s[m + 1]] = l[s[m]] + key[s[m + 1]]
      BY DEF Delta
    <3>2. PICK m : m = j + 1 /\ m \in 1..(n - 1)
      BY <2>1
    <3>3. l[s[m + 1]] = l[s[m]] + key[s[m + 1]]
      BY <3>1, <3>2
    <3> QED
      BY <3>2, <3>3
  <2> QED
    BY <1>3, <2>1, <2>2
<1>6. ASSUME NEW i \in 1..Len(t), NEW j \in 1..Len(t), i <= j
      PROVE  ll[t[i]] <= ll[t[j]]
  <2>0. /\ i \in 1..(n - 1) /\ j \in 1..(n - 1) /\ i + 1 <= j + 1
        /\ i + 1 \in 1..n /\ j + 1 \in 1..n /\ i + 1 # 1 /\ j + 1 # 1
    BY <1>1, <1>2, <1>6
  <2>1. t[i] = s[i + 1] /\ t[j] = s[j + 1]
    BY <1>2, <2>0
  <2>2. l[s[i + 1]] <= l[s[j + 1]]
    BY <2>0 DEF Delta
  <2> QED
    BY <1>3, <2>0, <2>1, <2>2
<1> QED
  BY <1>4, <1>5, <1>6 DEF Delta, t

\* A tick takes one from every delay, and from the first key only.
LEMMA DeltaTick ==
    ASSUME NEW S, NEW s \in Seq(S), s # <<>>, Once(s),
           NEW key \in [S -> Int], NEW l \in [S -> Int], Delta(s, key, l),
           NEW kk, NEW ll,
           kk[Head(s)] = key[Head(s)] - 1,
           \A y \in S : y # Head(s) => kk[y] = key[y],
           \A y \in S : On(y, s) => ll[y] = l[y] - 1
    PROVE  Delta(s, kk, ll)
<1> DEFINE n == Len(s)
<1>1. n \in Nat /\ n >= 1 /\ Head(s) = s[1]
  BY LenProperties, EmptySeq, HeadTailProperties
<1>2. \A j \in 1..n : /\ s[j] \in S /\ ll[s[j]] = l[s[j]] - 1 /\ l[s[j]] \in Int
                      /\ key[s[j]] \in Int
                      /\ kk[s[j]] = IF j = 1 THEN key[s[j]] - 1 ELSE key[s[j]]
  <2> SUFFICES ASSUME NEW j \in 1..n
               PROVE  /\ s[j] \in S /\ ll[s[j]] = l[s[j]] - 1 /\ l[s[j]] \in Int
                      /\ key[s[j]] \in Int
                      /\ kk[s[j]] = IF j = 1 THEN key[s[j]] - 1 ELSE key[s[j]]
    OBVIOUS
  <2>1. s[j] \in S
    BY ElementOfSeq
  <2>2. On(s[j], s)
    BY DEF On
  <2>3. 1 \in 1..n
    BY <1>1
  <2>4. s[j] = Head(s) <=> j = 1
    BY <1>1, <2>3 DEF Once
  <2>5. kk[s[j]] = IF j = 1 THEN key[s[j]] - 1 ELSE key[s[j]]
    BY <1>1, <2>1, <2>4
  <2> QED
    BY <2>1, <2>2, <2>5
<1>3. l[s[1]] = key[s[1]]
  BY DEF Delta
<1>4. ll[s[1]] = kk[s[1]]
  BY <1>1, <1>2, <1>3
<1>5. ASSUME NEW j \in 1..(n - 1)
      PROVE  ll[s[j + 1]] = ll[s[j]] + kk[s[j + 1]]
  <2>1. j \in 1..n /\ j + 1 \in 1..n /\ j + 1 # 1
    BY <1>1
  <2>2. l[s[j + 1]] = l[s[j]] + key[s[j + 1]]
    BY DEF Delta
  <2> QED
    BY <1>2, <2>1, <2>2
<1>6. ASSUME NEW i \in 1..n, NEW j \in 1..n, i <= j
      PROVE  ll[s[i]] <= ll[s[j]]
  <2>1. l[s[i]] <= l[s[j]]
    BY <1>6 DEF Delta
  <2> QED
    BY <1>2, <2>1
<1> QED
  BY <1>4, <1>5, <1>6 DEF Delta

\* unsleep(): the successor of p inherits its delay.
TakenOut(S, s, p, key, l, kk, ll) ==
    \A y \in S : y # p => /\ ll[y] = l[y]
                          /\ kk[y] = IF \E i \in 1..(Len(s) - 1) : s[i] = p /\ s[i + 1] = y
                                     THEN key[y] + key[p] ELSE key[y]

LEMMA DeltaUnlink ==
    ASSUME NEW S, NEW s \in Seq(S), NEW p \in S, On(p, s), Once(s),
           NEW key \in [S -> Int], NEW l \in [S -> Int], Delta(s, key, l),
           NEW kk, NEW ll, TakenOut(S, s, p, key, l, kk, ll)
    PROVE  Delta(Unlink(s, p), kk, ll)
<1> DEFINE n == Len(s)
           t == Unlink(s, p)
<1>1. n \in Nat
  BY LenProperties
<1>2. PICK m \in 1..n : t = DropAt(s, m) /\ s[m] = p
  BY DEF Unlink, On
<1>3. Len(t) = n - 1 /\ \A j \in 1..(n - 1) : t[j] = IF j < m THEN s[j] ELSE s[j + 1]
  <2>1. /\ DropAt(s, m) \in Seq(S) /\ Len(DropAt(s, m)) = Len(s) - 1
        /\ \A j \in 1..(Len(s) - 1) : DropAt(s, m)[j] = IF j < m THEN s[j] ELSE s[j + 1]
    BY DropAtProperties
  <2> QED
    BY <1>2, <2>1
<1> HIDE DEF t
<1>4. ASSUME NEW j \in 1..n
      PROVE  /\ s[j] \in S /\ l[s[j]] \in Int /\ key[s[j]] \in Int
             /\ j # m => /\ ll[s[j]] = l[s[j]]
                         /\ kk[s[j]] = IF j = m + 1 THEN key[s[j]] + key[s[m]] ELSE key[s[j]]
  <2>1. s[j] \in S /\ (j # m => s[j] # p)
    BY <1>2, ElementOfSeq DEF Once
  <2>2. (\E i \in 1..(n - 1) : s[i] = p /\ s[i + 1] = s[j]) <=> j = m + 1
    <3>1. ASSUME NEW i \in 1..(n - 1), s[i] = p, s[i + 1] = s[j]
          PROVE  j = m + 1
      <4>1. i \in 1..n /\ i + 1 \in 1..n
        BY <1>1
      <4>2. i = m
        BY <1>2, <3>1, <4>1 DEF Once
      <4>3. i + 1 = j
        BY <3>1, <4>1 DEF Once
      <4> QED
        BY <4>2, <4>3
    <3>2. j = m + 1 => m \in 1..(n - 1) /\ s[m] = p /\ s[m + 1] = s[j]
      BY <1>1, <1>2
    <3> QED
      BY <3>1, <3>2
  <2>3. l[s[j]] \in Int /\ key[s[j]] \in Int
    BY <2>1
  <2>4. j # m => /\ ll[s[j]] = l[s[j]]
                 /\ kk[s[j]] = IF \E i \in 1..(n - 1) : s[i] = p /\ s[i + 1] = s[j]
                               THEN key[s[j]] + key[p] ELSE key[s[j]]
    BY <2>1 DEF TakenOut
  <2> QED
    BY <1>2, <2>1, <2>2, <2>3, <2>4
<1>5. \A j \in 1..(n - 1) : l[s[j + 1]] = l[s[j]] + key[s[j + 1]]
  BY DEF Delta
<1>6. \A a, b \in 1..n : a <= b => l[s[a]] <= l[s[b]]
  BY DEF Delta
<1>7. l[s[1]] = key[s[1]]
  BY <1>1, <1>2, EmptySeq DEF Delta
<1>8. t # <<>> => ll[t[1]] = kk[t[1]]
  <2> SUFFICES ASSUME n >= 2 PROVE ll[t[1]] = kk[t[1]]
    <3>1. CASE n >= 2
      BY <3>1
    <3>2. CASE ~(n >= 2)
      <4>1. Len(t) = 0 /\ t \in Seq(S)
        BY <1>1, <1>2, <1>3, <3>2, UnlinkOnce DEF t
      <4> QED
        BY <4>1, EmptySeq
    <3> QED
      BY <3>1, <3>2
  <2>1. CASE m = 1
    <3>1. t[1] = s[2] /\ 2 \in 1..n /\ 1 \in 1..(n - 1) /\ 1 \in 1..n /\ 2 = m + 1 /\ 2 # m
      BY <1>1, <1>3, <2>1
    <3>2. l[s[2]] = l[s[1]] + key[s[2]]
      BY <1>5, <3>1
    <3>3. ll[s[2]] = l[s[2]] /\ kk[s[2]] = key[s[2]] + key[s[1]]
      BY <1>4, <2>1, <3>1
    <3>4. key[s[1]] \in Int /\ key[s[2]] \in Int
      BY <1>4, <3>1
    <3> QED
      BY <1>7, <3>1, <3>2, <3>3, <3>4
  <2>2. CASE m # 1
    <3>0. 1 \in 1..(n - 1) /\ 1 \in 1..n /\ 1 # m /\ 1 # m + 1 /\ 1 < m
      BY <1>1, <2>2
    <3>1. t[1] = s[1] /\ 1 \in 1..n /\ 1 # m /\ 1 # m + 1
      BY <1>3, <3>0
    <3> QED
      BY <1>4, <1>7, <3>1
  <2> QED
    BY <2>1, <2>2
<1>9. ASSUME NEW j \in 1..(Len(t) - 1)
      PROVE  ll[t[j + 1]] = ll[t[j]] + kk[t[j + 1]]
  <2>1. CASE j + 1 < m
    <3>0. /\ j \in 1..(n - 1) /\ j + 1 \in 1..(n - 1) /\ j < m
          /\ j \in 1..n /\ j + 1 \in 1..n /\ j # m /\ j + 1 # m /\ j + 1 # m + 1
      BY <1>1, <1>3, <2>1, SMTT(30)
    <3>1. t[j] = s[j] /\ t[j + 1] = s[j + 1]
      BY <1>3, <2>1, <3>0
    <3>2. l[s[j + 1]] = l[s[j]] + key[s[j + 1]]
      BY <1>5, <3>0
    <3>3. ll[s[j]] = l[s[j]] /\ ll[s[j + 1]] = l[s[j + 1]] /\ kk[s[j + 1]] = key[s[j + 1]]
      BY <1>4, <3>0
    <3> QED
      BY <3>1, <3>2, <3>3
  <2>2. CASE j + 1 = m
    <3>0. /\ j \in 1..(n - 1) /\ j + 1 \in 1..(n - 1) /\ m \in 1..(n - 1)
          /\ j \in 1..n /\ m + 1 \in 1..n /\ j # m /\ m + 1 # m
          /\ j < m /\ ~(j + 1 < m) /\ (j + 1) + 1 = m + 1
      <4>1. j \in 1..((n - 1) - 1)
        BY <1>3
      <4> QED
        BY <1>1, <2>2, <4>1
    <3>1. t[j] = s[j] /\ t[j + 1] = s[m + 1]
      BY <1>3, <3>0
    <3>2. l[s[m + 1]] = l[s[m]] + key[s[m + 1]] /\ l[s[m]] = l[s[j]] + key[s[m]]
      BY <1>5, <2>2, <3>0
    <3>3. /\ ll[s[m + 1]] = l[s[m + 1]] /\ kk[s[m + 1]] = key[s[m + 1]] + key[s[m]]
          /\ ll[s[j]] = l[s[j]]
      BY <1>4, <3>0
    <3>4. l[s[j]] \in Int /\ key[s[m]] \in Int /\ key[s[m + 1]] \in Int
      BY <1>4, <3>0
    <3> DEFINE a == l[s[j]]
               b == key[s[m]]
               c == key[s[m + 1]]
    <3>5. (a + b) + c = a + (c + b)
      <4>1. \A x, y, z \in Int : (x + y) + z = x + (z + y)
        OBVIOUS
      <4> QED
        BY <3>4, <4>1
    <3>6. ll[s[m + 1]] = (a + b) + c /\ kk[s[m + 1]] = c + b /\ ll[s[j]] = a
      BY <3>2, <3>3
    <3> QED
      BY <3>1, <3>5, <3>6
  <2>3. CASE j + 1 > m
    <3>a. j \in 1..((n - 1) - 1) /\ m \in Nat
      BY <1>1, <1>3
    <3>0. /\ j \in 1..(n - 1) /\ j + 1 \in 1..(n - 1) /\ ~(j < m) /\ ~(j + 1 < m)
          /\ j + 1 \in 1..n /\ (j + 1) + 1 \in 1..n
          /\ j + 1 # m /\ (j + 1) + 1 # m /\ (j + 1) + 1 # m + 1
      BY <1>1, <2>3, <3>a
    <3>1. t[j] = s[j + 1] /\ t[j + 1] = s[(j + 1) + 1]
      BY <1>3, <3>0
    <3>2. l[s[(j + 1) + 1]] = l[s[j + 1]] + key[s[(j + 1) + 1]]
      BY <1>5, <3>0
    <3>3. /\ ll[s[j + 1]] = l[s[j + 1]] /\ ll[s[(j + 1) + 1]] = l[s[(j + 1) + 1]]
          /\ kk[s[(j + 1) + 1]] = key[s[(j + 1) + 1]]
      BY <1>4, <3>0
    <3> QED
      BY <3>1, <3>2, <3>3
  <2> QED
    BY <1>1, <1>3, <2>1, <2>2, <2>3
<1>10. ASSUME NEW i \in 1..Len(t), NEW j \in 1..Len(t), i <= j
       PROVE  ll[t[i]] <= ll[t[j]]
  <2> DEFINE u(a) == IF a < m THEN a ELSE a + 1
  <2>1. i \in 1..(n - 1) /\ j \in 1..(n - 1)
    BY <1>3
  <2>2. \A a \in 1..(n - 1) : t[a] = s[u(a)] /\ u(a) \in 1..n /\ u(a) # m
    <3> SUFFICES ASSUME NEW a \in 1..(n - 1)
                 PROVE  t[a] = s[u(a)] /\ u(a) \in 1..n /\ u(a) # m
      OBVIOUS
    <3>1. t[a] = s[u(a)]
      BY <1>3
    <3>2. u(a) \in 1..n /\ u(a) # m
      BY <1>1
    <3> QED
      BY <3>1, <3>2
  <2>3. u(i) <= u(j)
    <3>1. \A x, y, z \in Int :
             x <= y => (IF x < z THEN x ELSE x + 1) <= (IF y < z THEN y ELSE y + 1)
      OBVIOUS
    <3>2. i \in Int /\ j \in Int /\ m \in Int
      BY <2>1
    <3> QED
      BY <1>10, <3>1, <3>2
  <2> HIDE DEF u
  <2>4. l[s[u(i)]] <= l[s[u(j)]]
    BY <1>6, <2>1, <2>2, <2>3
  <2> QED
    BY <1>4, <2>1, <2>2, <2>4
<1> QED
  BY <1>8, <1>9, <1>10 DEF Delta, t

-------------------------------------------------------------------------------
\* Semaphores.

\* A semaphore of processes in S, each of which waits once at most.
SemSound(s, S) ==
    /\ s \in [used : {TRUE}, count : Int, queue : Seq(S)]
    /\ Once(s.queue)
    /\ CountIsQueue(s)

LEMMA WaitsIsOn == \A s, p : Waits(s, p) <=> On(p, s.queue)
BY DEF Waits, On

\* A new semaphore.
LEMMA SemaphoreSound ==
    ASSUME NEW S, NEW n \in Nat
    PROVE  SemSound(Semaphore(n), S) /\ Semaphore(n).count = n /\ \A p : ~Waits(Semaphore(n), p)
<1>1. Semaphore(n) = [used |-> TRUE, count |-> n, queue |-> <<>>] /\ Len(<<>>) = 0 /\ <<>> \in Seq(S)
  BY EmptySeq DEF Semaphore
<1> QED
  BY <1>1 DEF SemSound, Waits, Once, CountIsQueue

\* wait() takes one from the count, and leaves the caller waiting if it was not positive.
LEMMA WaitSound ==
    ASSUME NEW S, NEW s, SemSound(s, S), NEW p \in S, ~Waits(s, p)
    PROVE  /\ SemSound(Wait(s, p), S)
           /\ Wait(s, p).count = s.count - 1
           /\ Wait(s, p).queue = IF s.count <= 0 THEN Append(s.queue, p) ELSE s.queue
           /\ \A q \in S : Waits(Wait(s, p), q) <=> Waits(s, q) \/ (q = p /\ s.count <= 0)
<1> DEFINE q1 == IF s.count <= 0 THEN Append(s.queue, p) ELSE s.queue
           w == [used |-> TRUE, count |-> s.count - 1, queue |-> q1]
<1>1. /\ s.used = TRUE /\ s.count \in Int /\ s.queue \in Seq(S) /\ Once(s.queue)
      /\ Len(s.queue) = IF s.count < 0 THEN 0 - s.count ELSE 0
      /\ s = [used |-> s.used, count |-> s.count, queue |-> s.queue]
  BY DEF SemSound, CountIsQueue
<1>2. Wait(s, p) = w
  BY <1>1 DEF Wait
<1>3. ~On(p, s.queue)
  BY WaitsIsOn
<1>4. /\ q1 \in Seq(S) /\ Once(q1)
      /\ Len(q1) = IF s.count <= 0 THEN Len(s.queue) + 1 ELSE Len(s.queue)
      /\ \A q \in S : On(q, q1) <=> On(q, s.queue) \/ (q = p /\ s.count <= 0)
  <2>1. CASE s.count <= 0
    BY <1>1, <1>3, <2>1, AppendOnce
  <2>2. CASE ~(s.count <= 0)
    BY <1>1, <2>2
  <2> QED
    BY <2>1, <2>2
<1> HIDE DEF q1
<1>5. w.used = TRUE /\ w.count = s.count - 1 /\ w.queue = q1
      /\ (q1 \in Seq(S) => w \in [used : {TRUE}, count : Int, queue : Seq(S)])
  BY <1>1
<1> HIDE DEF w
<1>6. CountIsQueue(w)
  <2>1. Len(q1) = IF s.count - 1 < 0 THEN 0 - (s.count - 1) ELSE 0
    BY <1>1, <1>4
  <2> QED
    BY <1>5, <2>1 DEF CountIsQueue
<1>7. SemSound(w, S)
  BY <1>4, <1>5, <1>6 DEF SemSound
<1>8. \A q \in S : Waits(w, q) <=> Waits(s, q) \/ (q = p /\ s.count <= 0)
  BY <1>4, <1>5, WaitsIsOn
<1>9. w.queue = IF s.count <= 0 THEN Append(s.queue, p) ELSE s.queue
  BY <1>5 DEF q1
<1>10. w.count = s.count - 1
  BY <1>5
<1> QED
  BY <1>2, <1>7, <1>8, <1>9, <1>10

\* signal() adds one, and lets the head of the queue go on if there is one.
LEMMA SignalSound ==
    ASSUME NEW S, NEW s, SemSound(s, S)
    PROVE  /\ SemSound(Signal(s), S)
           /\ Signal(s).count = s.count + 1
           /\ s.count >= 0 => Signal(s).queue = s.queue
           /\ s.count < 0 => /\ s.queue # <<>> /\ Head(s.queue) \in S /\ Waits(s, Head(s.queue))
                             /\ Signal(s).queue = Tail(s.queue)
           /\ \A q \in S : Waits(Signal(s), q) <=> Waits(s, q) /\ ~(s.count < 0 /\ q = Head(s.queue))
<1> DEFINE q1 == IF s.count < 0 THEN Tail(s.queue) ELSE s.queue
           w == [used |-> TRUE, count |-> s.count + 1, queue |-> q1]
<1>1. /\ s.used = TRUE /\ s.count \in Int /\ s.queue \in Seq(S) /\ Once(s.queue)
      /\ Len(s.queue) = IF s.count < 0 THEN 0 - s.count ELSE 0
      /\ s = [used |-> s.used, count |-> s.count, queue |-> s.queue]
  BY DEF SemSound, CountIsQueue
<1>2. Signal(s) = w
  BY <1>1 DEF Signal
<1>3. s.count < 0 => s.queue # <<>>
  <2>1. Len(<<>>) = 0
    BY EmptySeq
  <2> QED
    BY <1>1, <2>1
<1>4. /\ q1 \in Seq(S) /\ Once(q1)
      /\ Len(q1) = IF s.count < 0 THEN Len(s.queue) - 1 ELSE Len(s.queue)
      /\ \A q \in S : On(q, q1) <=> On(q, s.queue) /\ ~(s.count < 0 /\ q = Head(s.queue))
      /\ s.count < 0 => Head(s.queue) \in S /\ On(Head(s.queue), s.queue)
  <2>1. CASE s.count < 0
    BY <1>1, <1>3, <2>1, TailOnce
  <2>2. CASE ~(s.count < 0)
    BY <1>1, <2>2
  <2> QED
    BY <2>1, <2>2
<1>9. q1 = IF s.count < 0 THEN Tail(s.queue) ELSE s.queue
  OBVIOUS
<1> HIDE DEF q1
<1>5. w.used = TRUE /\ w.count = s.count + 1 /\ w.queue = q1
      /\ (q1 \in Seq(S) => w \in [used : {TRUE}, count : Int, queue : Seq(S)])
  BY <1>1
<1> HIDE DEF w
<1>6. CountIsQueue(w)
  BY <1>1, <1>4, <1>5 DEF CountIsQueue
<1>7. SemSound(w, S)
  BY <1>4, <1>5, <1>6 DEF SemSound
<1>8. /\ \A q \in S : Waits(w, q) <=> Waits(s, q) /\ ~(s.count < 0 /\ q = Head(s.queue))
      /\ s.count < 0 => Waits(s, Head(s.queue))
  BY <1>4, <1>5, WaitsIsOn
<1>10. /\ w.count = s.count + 1
       /\ s.count >= 0 => w.queue = s.queue
       /\ s.count < 0 => w.queue = Tail(s.queue)
  <2>1. w.queue = IF s.count < 0 THEN Tail(s.queue) ELSE s.queue
    BY <1>5, <1>9
  <2> QED
    BY <1>1, <1>5, <2>1
<1>11. s.count < 0 => s.queue # <<>> /\ Head(s.queue) \in S /\ Waits(s, Head(s.queue))
  BY <1>3, <1>4, <1>8
<1> QED
  BY <1>2, <1>7, <1>8, <1>10, <1>11

\* signaln() adds n, and lets in as many.
LEMMA SignalNSound ==
    ASSUME NEW S, NEW s, SemSound(s, S), NEW n \in Nat
    PROVE  /\ SemSound(SignalN(s, n), S) /\ SignalN(s, n).count = s.count + n
           /\ \A q \in S : Waits(SignalN(s, n), q) => Waits(s, q)
<1> DEFINE l == Len(s.queue)
           k == IF n < l THEN n ELSE l
           q1 == SubSeq(s.queue, k + 1, l)
           w == [used |-> TRUE, count |-> s.count + n, queue |-> q1]
<1>1. /\ s.used = TRUE /\ s.count \in Int /\ s.queue \in Seq(S) /\ Once(s.queue)
      /\ l = IF s.count < 0 THEN 0 - s.count ELSE 0
      /\ s = [used |-> s.used, count |-> s.count, queue |-> s.queue]
  BY DEF SemSound, CountIsQueue
<1>2. SignalN(s, n) = w
  <2>1. SignalN(s, n) = [s EXCEPT !.count = s.count + n, !.queue = q1]
    BY Zenon DEF SignalN
  <2> HIDE DEF k, l, q1
  <2> QED
    BY <1>1, <2>1
<1>3. l \in Nat /\ \A i \in 1..l : s.queue[i] \in S
  BY <1>1, LenProperties, ElementOfSeq
<1>k. k \in Nat /\ k <= l /\ (n < l => k = n) /\ (n >= l => k = l)
  BY <1>3
<1>q. q1 = SubSeq(s.queue, k + 1, l)
  OBVIOUS
<1> HIDE DEF k, l, q1
<1>4. q1 \in Seq(S) /\ Len(q1) = l - k /\ \A i \in 1..(l - k) : q1[i] = s.queue[k + i]
  <2>1. \A i \in (k + 1)..l : s.queue[i] \in S
    BY <1>3, <1>k
  <2>2. /\ q1 \in Seq(S) /\ Len(q1) = IF k + 1 <= l THEN l - (k + 1) + 1 ELSE 0
        /\ \A i \in 1..(l - (k + 1) + 1) : q1[i] = s.queue[(k + 1) + i - 1]
    BY <1>3, <1>k, <1>q, <2>1, SubSeqProperties
  <2>3. l - (k + 1) + 1 = l - k /\ (k + 1 <= l \/ l - k = 0)
    BY <1>3, <1>k
  <2>4. Len(q1) = l - k
    BY <1>3, <1>k, <2>2, <2>3
  <2>5. \A i \in 1..(l - k) : (k + 1) + i - 1 = k + i
    BY <1>3, <1>k
  <2> QED
    BY <2>2, <2>3, <2>4, <2>5
<1>5. w.used = TRUE /\ w.count = s.count + n /\ w.queue = q1
      /\ (q1 \in Seq(S) => w \in [used : {TRUE}, count : Int, queue : Seq(S)])
  BY <1>1
<1> HIDE DEF w
<1>6. CountIsQueue(w)
  <2>1. l - k = IF s.count + n < 0 THEN 0 - (s.count + n) ELSE 0
    BY <1>1, <1>3, <1>k
  <2> QED
    BY <1>4, <1>5, <2>1 DEF CountIsQueue
<1>7. \A i \in 1..(l - k) : k + i \in 1..l
  BY <1>3, <1>k
<1>8. Once(q1)
  <2>1. \A i, j \in 1..l : s.queue[i] = s.queue[j] => i = j
    BY <1>1 DEF Once, l
  <2>2. ASSUME NEW i \in 1..Len(q1), NEW j \in 1..Len(q1), q1[i] = q1[j] PROVE i = j
    <3>1. k + i \in 1..l /\ k + j \in 1..l /\ s.queue[k + i] = s.queue[k + j]
      BY <1>4, <1>7, <2>2
    <3>2. k + i = k + j
      BY <2>1, <3>1
    <3> QED
      BY <1>3, <1>k, <1>4, <2>2, <3>2
  <2> QED
    BY <2>2 DEF Once
<1>9. \A q \in S : Waits(w, q) => Waits(s, q)
  BY <1>4, <1>5, <1>7 DEF Waits, l
<1> QED
  BY <1>2, <1>4, <1>5, <1>6, <1>8, <1>9 DEF SemSound

\* As many processes wait as the queue is long.
LEMMA WaitingCount ==
    ASSUME NEW S, NEW s, SemSound(s, S)
    PROVE  IsFiniteSet({p \in S : Waits(s, p)}) /\ Cardinality({p \in S : Waits(s, p)}) = Len(s.queue)
<1> DEFINE T == {p \in S : Waits(s, p)}
           n == Len(s.queue)
           f == [i \in 1..n |-> s.queue[i]]
<1>1. n \in Nat /\ \A i \in 1..n : s.queue[i] \in S
  BY LenProperties, ElementOfSeq DEF SemSound
<1>2. \A i, j \in 1..n : s.queue[i] = s.queue[j] => i = j
  BY DEF SemSound, Once
<1>3. \A p : p \in T <=> \E i \in 1..n : s.queue[i] = p
  BY <1>1 DEF Waits
<1>4. f \in [1..n -> T] /\ \A i \in 1..n : f[i] = s.queue[i]
  BY <1>3
<1> HIDE DEF T, f, n
<1>5. f \in Surjection(1..n, T)
  BY <1>3, <1>4 DEF Surjection
<1>6. f \in Injection(1..n, T)
  BY <1>2, <1>4 DEF Injection, IsInjective
<1>7. IsFiniteSet(1..n) /\ Cardinality(1..n) = n
  BY <1>1, FS_Interval
<1>8. IsFiniteSet(T) /\ Cardinality(T) = Cardinality(1..n)
  BY <1>5, <1>6, <1>7, FS_Surjection
<1> QED
  BY <1>7, <1>8 DEF T, n

-------------------------------------------------------------------------------
\* Arithmetic of rings.

LEMMA ModIs ==
    ASSUME NEW n \in Nat \ {0}, NEW x \in Nat, x < 2 * n
    PROVE  x % n = IF x < n THEN x ELSE x - n
<1> DEFINE d == x \div n
           m == x % n
<1>1. d \in Int /\ m \in Int /\ x = n * d + m /\ 0 <= m /\ m < n
  OBVIOUS
<1> HIDE DEF d, m
<1>2. d < 2
  <2>1. SUFFICES ASSUME d >= 2 PROVE FALSE
    BY <1>1
  <2>2. n * d >= n * 2
    BY <1>1, <2>1
  <2> QED
    BY <1>1, <2>2
<1>3. d >= 0
  <2>1. SUFFICES ASSUME d <= 0 - 1 PROVE FALSE
    BY <1>1
  <2>2. n * d <= n * (0 - 1)
    BY <1>1, <2>1
  <2> QED
    BY <1>1, <2>2
<1>4. d = 0 \/ d = 1
  BY <1>1, <1>2, <1>3
<1>5. m = IF x < n THEN x ELSE x - n
  <2>1. CASE d = 0
    <3>1. n * d = 0
      BY <2>1
    <3> QED
      BY <1>1, <3>1
  <2>2. CASE d = 1
    <3>1. n * d = n
      BY <2>2
    <3> QED
      BY <1>1, <3>1
  <2> QED
    BY <1>4, <2>1, <2>2
<1> QED
  BY <1>5 DEF m

LEMMA ModZero ==
    ASSUME NEW n \in Nat \ {0}
    PROVE  0 % n = 0 /\ (0 - n) % n = 0
<1>1. 0 % n = 0
  BY ModIs
<1> DEFINE x == 0 - n
           d == x \div n
           m == x % n
<1>2. d \in Int /\ m \in Int /\ x = n * d + m /\ 0 <= m /\ m < n
  OBVIOUS
<1> HIDE DEF d, m
<1>3. d >= 0 - 1
  <2>1. SUFFICES ASSUME d <= 0 - 2 PROVE FALSE
    BY <1>2
  <2>2. n * d <= n * (0 - 2)
    BY <1>2, <2>1
  <2> QED
    BY <1>2, <2>2
<1>4. d < 0
  <2>1. SUFFICES ASSUME d >= 0 PROVE FALSE
    BY <1>2
  <2>2. n * d >= 0
    BY <1>2, <2>1
  <2> QED
    BY <1>2, <2>2
<1>5. d = 0 - 1
  BY <1>2, <1>3, <1>4
<1>6. n * d = 0 - n
  BY <1>5
<1>7. m = 0
  BY <1>2, <1>6
<1> QED
  BY <1>1, <1>7 DEF m

\* The i-th cell of a ring of n from cell h on.
Place(h, i, n) == IF h + i < n THEN h + i ELSE (h + i) - n
===============================================================================
