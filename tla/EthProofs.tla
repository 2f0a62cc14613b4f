------------------------------- MODULE EthProofs -------------------------------
(***************************************************************************)
(* RingsExact for every size of the rings, any number of writers, every     *)
(* order of frames, interrupts and calls.                                   *)
(*                                                                          *)
(* RingsExact speaks of the cells that hold frames.  That it is kept needs  *)
(* the other cells too: those between the frames and the head of a ring     *)
(* belong to the DMA (receiving) or to nobody (transmitting), which is      *)
(* where the loops of the interrupt handler, and the DMA, stop.  And the    *)
(* tail of each ring is where the count of its semaphore says.              *)
(***************************************************************************)
EXTENDS Eth, QueueProofs, FiniteSetTheorems

----
\* Rings.

\* The place of the i-th cell, as the code computes it.
LEMMA PlaceIs ==
    ASSUME NEW n \in Nat \ {0}, NEW h \in 0..(n - 1), NEW i \in 0..n
    PROVE  (h + i) % n = Place(h, i, n) /\ Place(h, i, n) \in 0..(n - 1)
<1>1. h + i \in Nat /\ h + i < 2 * n
  OBVIOUS
<1> DEFINE x == h + i
<1>2. x % n = IF x < n THEN x ELSE x - n
  <2> HIDE DEF x
  <2> QED
    BY <1>1, ModIs DEF x
<1> QED
  BY <1>1, <1>2 DEF Place

\* How far cell t is from cell h.
LEMMA DistanceIs ==
    ASSUME NEW n \in Nat \ {0}, NEW h \in 0..(n - 1), NEW k \in 0..n
    PROVE  (Place(h, k, n) - h) % n = IF k < n THEN k ELSE 0
<1>1. \A x \in 1..n : (0 - x) % n = n - x
  <2>1. TAKE x \in 1..n
  <2> DEFINE d == (0 - x) \div n
             m == (0 - x) % n
  <2>2. d \in Int /\ m \in Int /\ 0 - x = n * d + m /\ 0 <= m /\ m < n
    OBVIOUS
  <2> HIDE DEF d, m
  <2>3. d < 0
    <3>1. SUFFICES ASSUME d >= 0 PROVE FALSE
      BY <2>2
    <3>2. n * d >= 0
      BY <2>2, <3>1
    <3> QED
      BY <2>2, <3>2
  <2>4. d >= 0 - 1
    <3>1. SUFFICES ASSUME d <= 0 - 2 PROVE FALSE
      BY <2>2
    <3>2. n * d <= n * (0 - 2)
      BY <2>2, <3>1
    <3> QED
      BY <2>2, <3>2
  <2>5. n * d = 0 - n
    <3>1. d = 0 - 1
      BY <2>2, <2>3, <2>4
    <3> QED
      BY <3>1
  <2> QED
    BY <2>2, <2>5 DEF m
<1> DEFINE x == Place(h, k, n) - h
<1>2. CASE h + k < n
  <2>1. x = k /\ k < n
    BY <1>2 DEF Place
  <2>2. k % n = k
    BY <2>1, ModIs
  <2> QED
    BY <2>1, <2>2
<1>3. CASE ~(h + k < n)
  <2>1. x = 0 - (n - k)
    BY <1>3 DEF Place
  <2>2. CASE k = n
    <3>1. x = 0
      BY <2>1, <2>2
    <3> QED
      BY <2>2, <3>1, ModZero
  <2>3. CASE k # n
    <3>1. n - k \in 1..n
      BY <2>3
    <3>2. (0 - (n - k)) % n = n - (n - k)
      BY <1>1, <3>1
    <3> QED
      BY <2>1, <2>3, <3>2
  <2> QED
    BY <2>2, <2>3
<1> QED
  BY <1>2, <1>3

\* A ring from another of its cells on.
LEMMA PlaceTwice ==
    ASSUME NEW n \in Nat \ {0}, NEW h \in 0..(n - 1), NEW i \in 0..n, NEW j \in 0..n
    PROVE  /\ Place(Place(h, i, n), j, n) = IF i + j <= n THEN Place(h, i + j, n) ELSE Place(h, (i + j) - n, n)
           /\ Place(h, n, n) = h /\ Place(h, 0, n) = h
BY DEF Place

\* Cells that are different ones.
LEMMA PlaceOnce ==
    ASSUME NEW n \in Nat \ {0}, NEW h \in 0..(n - 1), NEW i \in 0..(n - 1), NEW j \in 0..(n - 1),
           Place(h, i, n) = Place(h, j, n)
    PROVE  i = j
BY DEF Place

\* The least of a set.
LEMMA LeastIs ==
    ASSUME NEW T \in SUBSET Nat, T # {}
    PROVE  Least(T) \in T /\ \A m \in T : Least(T) <= m
<1>1. \E n \in T : \A m \in T : n <= m
  BY LeastNatural
<1> QED
  BY <1>1 DEF Least

----
\* The rings and what is in them.

\* The receive ring: the frames q that have not been read start at the head, the cells of
\* the DMA follow, and k of the frames have been counted.
RxSound(c, h, t, d, q, k, n) ==
    /\ h \in 0..(n - 1) /\ DOMAIN c = 0..(n - 1)
    /\ q \in Seq(Mine \cup Mcast) /\ Len(q) <= n /\ k \in 0..Len(q)
    /\ d = Place(h, Len(q), n) /\ t = Place(h, k, n)
    /\ \A i \in 1..Len(q) : c[Place(h, i - 1, n)] = [own |-> FALSE, frame |-> q[i]]
    /\ \A i \in (Len(q) + 1)..n : c[Place(h, i - 1, n)].own = TRUE

\* The transmit ring: from the head on, the descriptors that have been sent, those of the
\* frames q in their order, and s that may be taken.
TxSound(c, h, t, d, q, s, n) ==
    /\ h \in 0..(n - 1) /\ DOMAIN c = 0..(n - 1)
    /\ q \in Seq(Writer) /\ s \in Nat /\ s + Len(q) <= n
    /\ d = Place(h, n - (s + Len(q)), n) /\ t = Place(h, n - s, n)
    /\ \A i \in 1..Len(q) : c[Place(d, i - 1, n)] = [own |-> TRUE, frame |-> q[i]]
    /\ \A i \in (Len(q) + 1)..n : c[Place(d, i - 1, n)].own = FALSE

\* Who is at the semaphore of the reader, or at that of the writers.
Everyone == {Reader} \cup Writer
Reading == {p \in Everyone : call[p] = "read"}
Writing == {p \in Everyone : call[p] = "write"}

\* Those that wait at semaphore s are among the callers A.
GateSound(s, A) ==
    /\ SemSound(s, Everyone)
    /\ A \in SUBSET Everyone
    /\ \A p \in Everyone : Waits(s, p) => p \in A

\* What the semaphore counts, and what callers have taken from it.
Stock(s, A) == s.count + Cardinality(A)

\* Frames that the reader may read, and descriptors that may be taken.
Lets == Stock(rx.sem, Reading)
Free == Stock(tx.sem, Writing)

\* Every frame has been counted, or will be.
Noticed == handler = "RI" \/ "RI" \in sr \/ Lets = Len(unread)

EthTypes ==
    /\ rx = [cell |-> rx.cell, head |-> rx.head, tail |-> rx.tail, dma |-> rx.dma, sem |-> rx.sem]
    /\ tx = [cell |-> tx.cell, head |-> tx.head, tail |-> tx.tail, dma |-> tx.dma, sem |-> tx.sem]
    /\ call \in [Everyone -> {"run", "read", "write"}]
    /\ call[Reader] \in {"run", "read"}
    /\ \A p \in Writer : call[p] \in {"run", "write"}

RxInv ==
    /\ GateSound(rx.sem, Reading)
    /\ RxSound(rx.cell, rx.head, rx.tail, rx.dma, unread, Lets, RxRing)
    /\ Noticed
TxInv == GateSound(tx.sem, Writing) /\ TxSound(tx.cell, tx.head, tx.tail, tx.dma, unsent, Free, TxRing)

EthInv == halted = "no" => EthTypes /\ RxInv /\ TxInv

----
\* The receive ring.

LEMMA OwnIs ==
    ASSUME NEW x, NEW b, NEW p, x = [own |-> b, frame |-> p]
    PROVE  x.own = b
OBVIOUS

LEMMA OwnSet ==
    ASSUME NEW x, NEW b, NEW p, x = [own |-> b, frame |-> p], NEW b1
    PROVE  [x EXCEPT !.own = b1].own = b1
OBVIOUS

\* A frame is put into the cell of the DMA.
LEMMA RxReceive ==
    ASSUME NEW n \in Nat \ {0}, NEW c, NEW h, NEW t, NEW d, NEW q, NEW k, RxSound(c, h, t, d, q, k, n),
           c[d].own, NEW frame \in Mine \cup Mcast
    PROVE  RxSound([c EXCEPT ![d] = [own |-> FALSE, frame |-> frame]], h, t, (d + 1) % n, Append(q, frame), k, n)
<1> DEFINE l == Len(q)
           q1 == Append(q, frame)
           x == [own |-> FALSE, frame |-> frame]
           c1 == [c EXCEPT ![d] = x]
<1>1. /\ h \in 0..(n - 1) /\ DOMAIN c = 0..(n - 1) /\ q \in Seq(Mine \cup Mcast)
      /\ l \in Nat /\ l <= n /\ k \in 0..l /\ t = Place(h, k, n) /\ d = Place(h, l, n)
  BY LenProperties DEF RxSound
<1>2. \A i \in 1..l : c[Place(h, i - 1, n)] = [own |-> FALSE, frame |-> q[i]]
  BY DEF RxSound
<1>3. \A i \in (l + 1)..n : c[Place(h, i - 1, n)].own = TRUE
  BY DEF RxSound
<1>4. /\ q1 \in Seq(Mine \cup Mcast) /\ Len(q1) = l + 1 /\ q1[l + 1] = frame
      /\ \A i \in 1..l : q1[i] = q[i]
  BY <1>1, AppendProperties
<1> HIDE DEF l, q1, x
<1>5. l < n
  <2>1. SUFFICES ASSUME l = n PROVE FALSE
    BY <1>1
  <2>2. d = Place(h, 1 - 1, n) /\ 1 \in 1..l
    BY <1>1, <2>1 DEF Place
  <2>3. c[d].own = FALSE
    <3>1. c[d] = [own |-> FALSE, frame |-> q[1]]
      BY <1>2, <2>2
    <3> QED
      BY <3>1, OwnIs
  <2> QED
    BY <2>3
<1>6. d \in 0..(n - 1) /\ (d + 1) % n = Place(h, l + 1, n)
  <2>1. d \in 0..(n - 1)
    BY <1>1, <1>5, PlaceIs
  <2>2. (d + 1) % n = Place(d, 1, n)
    BY <2>1, PlaceIs
  <2>3. Place(d, 1, n) = Place(h, l + 1, n)
    BY <1>1, <1>5 DEF Place
  <2> QED
    BY <2>1, <2>2, <2>3
<1>7. DOMAIN c1 = 0..(n - 1) /\ c1[d] = x /\ \A j \in 0..(n - 1) : j # d => c1[j] = c[j]
  BY <1>1, <1>6
<1> HIDE DEF c1
<1>8. \A i \in 1..n : Place(h, i - 1, n) \in 0..(n - 1) /\ (Place(h, i - 1, n) = d <=> i = l + 1)
  BY <1>1, <1>5 DEF Place
<1>9. \A i \in 1..(l + 1) : c1[Place(h, i - 1, n)] = [own |-> FALSE, frame |-> q1[i]]
  <2>1. TAKE i \in 1..(l + 1)
  <2>2. CASE i = l + 1
    <3>1. Place(h, i - 1, n) = d
      BY <1>1, <1>5, <1>8, <2>2
    <3> QED
      BY <1>4, <1>7, <2>2, <3>1 DEF x
  <2>3. CASE i # l + 1
    <3>1. i \in 1..l /\ i \in 1..n
      BY <1>1, <1>5, <2>1, <2>3
    <3>2. c1[Place(h, i - 1, n)] = c[Place(h, i - 1, n)]
      BY <1>7, <1>8, <2>3, <3>1
    <3> QED
      BY <1>2, <1>4, <3>1, <3>2
  <2> QED
    BY <2>2, <2>3
<1>10. \A i \in ((l + 1) + 1)..n : c1[Place(h, i - 1, n)].own = TRUE
  <2>1. TAKE i \in ((l + 1) + 1)..n
  <2>2. i \in (l + 1)..n /\ i \in 1..n /\ i # l + 1
    BY <1>1, <2>1
  <2>3. c1[Place(h, i - 1, n)] = c[Place(h, i - 1, n)]
    BY <1>7, <1>8, <2>2
  <2> QED
    BY <1>3, <2>2, <2>3
<1>11. l + 1 <= n /\ k \in 0..(l + 1)
  BY <1>1, <1>5
<1> QED
  BY <1>1, <1>4, <1>6, <1>7, <1>9, <1>10, <1>11 DEF RxSound, c1, q1, x

\* The descriptors that the handler counts.
Count(c, t, n) == Least({m \in 0..(n + 1) : m = n + 1 \/ c[(t + m) % n].own})

LEMMA RxCounted ==
    ASSUME NEW n \in Nat \ {0}, NEW c, NEW h, NEW t, NEW d, NEW q, NEW k, RxSound(c, h, t, d, q, k, n),
           ~(Count(c, t, n) > n)
    PROVE  /\ Count(c, t, n) \in Nat /\ k + Count(c, t, n) = Len(q)
           /\ RxSound(c, h, (t + Count(c, t, n)) % n, d, q, Len(q), n)
<1> DEFINE l == Len(q)
           T == {m \in 0..(n + 1) : m = n + 1 \/ c[(t + m) % n].own}
           r == Least(T)
<1>1. /\ h \in 0..(n - 1) /\ l \in Nat /\ l <= n /\ k \in 0..l /\ t = Place(h, k, n)
  BY LenProperties DEF RxSound
<1>2. \A i \in 1..l : c[Place(h, i - 1, n)].own = FALSE
  <2>1. \A i \in 1..l : c[Place(h, i - 1, n)] = [own |-> FALSE, frame |-> q[i]]
    BY DEF RxSound
  <2> HIDE DEF l
  <2>2. TAKE i \in 1..l
  <2>3. c[Place(h, i - 1, n)] = [own |-> FALSE, frame |-> q[i]]
    BY <2>1
  <2> QED
    BY <2>3, OwnIs
<1>3. \A i \in (l + 1)..n : c[Place(h, i - 1, n)].own = TRUE
  BY DEF RxSound
<1>4. T \in SUBSET Nat /\ n + 1 \in T
  BY <1>1
<1>5. r \in T /\ \A m \in T : r <= m
  <2> HIDE DEF T
  <2> QED
    BY <1>4, LeastIs
<1>6. Count(c, t, n) = r
  BY DEF Count
<1>7. r <= n /\ r \in Nat /\ c[(t + r) % n].own
  <2>1. r \in 0..(n + 1) /\ (r = n + 1 \/ c[(t + r) % n].own)
    BY <1>5
  <2> HIDE DEF r
  <2> QED
    BY <1>6, <2>1
<1>8. t \in 0..(n - 1)
  <2>1. k \in 0..n
    BY <1>1
  <2> QED
    BY <1>1, <2>1, PlaceIs
<1>9. \A m \in 0..n : (t + m) % n = Place(t, m, n)
  BY <1>8, PlaceIs
<1>t. \A m \in 0..n : c[Place(t, m, n)].own => r <= m
  <2>1. TAKE m \in 0..n
  <2>2. c[Place(t, m, n)].own => m \in T
    BY <1>9
  <2> HIDE DEF T
  <2> QED
    BY <1>5, <2>2
<1> HIDE DEF l, T, r
\* A full ring has no cell where the count could stop.
<1>10. l < n
  <2>1. SUFFICES ASSUME l = n PROVE FALSE
    BY <1>1
  <2>2. \E j \in 0..(n - 1) : Place(t, r, n) = Place(h, j, n)
    <3>1. k + r < n => Place(t, r, n) = Place(h, k + r, n)
      BY <1>1, <1>7 DEF Place
    <3>2. k + r >= n => Place(t, r, n) = Place(h, (k + r) - n, n)
      BY <1>1, <1>7 DEF Place
    <3>3. k + r >= n /\ (k + r) - n >= n => Place(h, (k + r) - n, n) = Place(h, 0, n)
      BY <1>1, <1>7 DEF Place
    <3> QED
      BY <1>1, <1>7, <3>1, <3>2, <3>3
  <2>3. c[Place(t, r, n)].own = FALSE
    <3>1. PICK j \in 0..(n - 1) : Place(t, r, n) = Place(h, j, n)
      BY <2>2
    <3>2. j + 1 \in 1..l /\ (j + 1) - 1 = j
      BY <2>1, <3>1
    <3> QED
      BY <1>2, <3>1, <3>2
  <2> QED
    BY <1>7, <1>9, <2>3
<1>11. r <= l - k
  <2>1. (l - k) \in 0..n /\ Place(t, l - k, n) = Place(h, (l + 1) - 1, n) /\ l + 1 \in (l + 1)..n
    BY <1>1, <1>10 DEF Place
  <2> QED
    BY <1>3, <1>t, <2>1
<1>12. ~(r < l - k)
  <2>1. SUFFICES ASSUME r < l - k PROVE FALSE
    OBVIOUS
  <2>2. Place(t, r, n) = Place(h, ((k + r) + 1) - 1, n) /\ (k + r) + 1 \in 1..l
    BY <1>1, <1>7, <2>1 DEF Place
  <2>3. c[Place(t, r, n)].own = FALSE
    BY <1>2, <2>2
  <2> QED
    BY <1>7, <1>9, <2>3
<1>13. k + r = l
  BY <1>1, <1>7, <1>11, <1>12
<1>14. (t + r) % n = Place(h, l, n)
  <2>1. Place(t, r, n) = Place(h, l, n)
    BY <1>1, <1>7, <1>10, <1>13 DEF Place
  <2> QED
    BY <1>7, <1>9, <2>1
<1>15. RxSound(c, h, Place(h, l, n), d, q, l, n)
  <2>1. l \in 0..l
    BY <1>1
  <2> QED
    BY <2>1 DEF RxSound, l
<1> QED
  BY <1>6, <1>7, <1>13, <1>14, <1>15 DEF l

\* The frame at the head is read, and its cell goes back to the DMA.
LEMMA RxRead ==
    ASSUME NEW n \in Nat \ {0}, NEW c, NEW h, NEW t, NEW d, NEW q, NEW k, RxSound(c, h, t, d, q, k, n), k >= 1
    PROVE  RxSound([c EXCEPT ![h] = Cell(TRUE)], (h + 1) % n, t, d, Tail(q), k - 1, n)
<1> DEFINE l == Len(q)
           q1 == Tail(q)
           x == Cell(TRUE)
           c1 == [c EXCEPT ![h] = x]
           g == Place(h, 1, n)
<1>1. /\ h \in 0..(n - 1) /\ DOMAIN c = 0..(n - 1) /\ q \in Seq(Mine \cup Mcast)
      /\ l \in Nat /\ l <= n /\ k \in 0..l /\ t = Place(h, k, n) /\ d = Place(h, l, n)
  BY LenProperties DEF RxSound
<1>2. \A i \in 1..l : c[Place(h, i - 1, n)] = [own |-> FALSE, frame |-> q[i]]
  BY DEF RxSound
<1>3. \A i \in (l + 1)..n : c[Place(h, i - 1, n)].own = TRUE
  BY DEF RxSound
<1>4. q1 \in Seq(Mine \cup Mcast) /\ Len(q1) = l - 1 /\ \A i \in 1..(l - 1) : q1[i] = q[i + 1]
  <2>1. q # <<>>
    BY <1>1, EmptySeq
  <2> QED
    BY <1>1, <2>1, HeadTailProperties
<1>5. x.own = TRUE
  BY DEF Cell
<1> HIDE DEF l, q1, x
<1>6. DOMAIN c1 = 0..(n - 1) /\ c1[h] = x /\ \A j \in 0..(n - 1) : j # h => c1[j] = c[j]
  BY <1>1
<1>7. (h + 1) % n = g /\ g \in 0..(n - 1)
  BY <1>1, PlaceIs
<1> HIDE DEF c1
<1>8. t = Place(g, k - 1, n) /\ d = Place(g, l - 1, n)
  BY <1>1 DEF Place
<1>9. \A i \in 1..(n - 1) : Place(g, i - 1, n) = Place(h, (i + 1) - 1, n) /\ Place(g, i - 1, n) # h
                             /\ Place(g, i - 1, n) \in 0..(n - 1)
  BY <1>1 DEF Place
<1>10. Place(g, n - 1, n) = h
  BY <1>1 DEF Place
<1> HIDE DEF g
<1>11. \A i \in 1..(l - 1) : c1[Place(g, i - 1, n)] = [own |-> FALSE, frame |-> q1[i]]
  <2>1. TAKE i \in 1..(l - 1)
  <2>2. i \in 1..(n - 1) /\ i + 1 \in 1..l
    BY <1>1, <2>1
  <2>3. c1[Place(g, i - 1, n)] = c[Place(h, (i + 1) - 1, n)]
    BY <1>6, <1>9, <2>2
  <2> QED
    BY <1>2, <1>4, <2>2, <2>3
<1>12. \A i \in ((l - 1) + 1)..n : c1[Place(g, i - 1, n)].own = TRUE
  <2>1. TAKE i \in ((l - 1) + 1)..n
  <2>2. CASE i = n
    BY <1>5, <1>6, <1>10, <2>2
  <2>3. CASE i # n
    <3>1. i \in 1..(n - 1) /\ i + 1 \in (l + 1)..n
      BY <1>1, <2>1, <2>3
    <3>2. c1[Place(g, i - 1, n)] = c[Place(h, (i + 1) - 1, n)]
      BY <1>6, <1>9, <3>1
    <3> QED
      BY <1>3, <3>1, <3>2
  <2> QED
    BY <2>2, <2>3
<1>13. l - 1 <= n /\ k - 1 \in 0..(l - 1)
  BY <1>1
<1> QED
  BY <1>4, <1>6, <1>7, <1>8, <1>11, <1>12, <1>13 DEF RxSound, c1, q1, x

----
\* The transmit ring.

\* Where the indices of a sound ring are.
TxAt(c, h, t, d, q, s, n) ==
    /\ h \in 0..(n - 1) /\ DOMAIN c = 0..(n - 1) /\ q \in Seq(Writer)
    /\ Len(q) \in Nat /\ s \in Nat /\ s + Len(q) <= n
    /\ d \in 0..(n - 1) /\ d = Place(h, n - (s + Len(q)), n) /\ t = Place(h, n - s, n) /\ t = Place(d, Len(q), n)

LEMMA TxParts ==
    ASSUME NEW n \in Nat \ {0}, NEW c, NEW h, NEW t, NEW d, NEW q, NEW s, TxSound(c, h, t, d, q, s, n)
    PROVE  TxAt(c, h, t, d, q, s, n)
<1> DEFINE l == Len(q)
<1>1. /\ h \in 0..(n - 1) /\ DOMAIN c = 0..(n - 1) /\ q \in Seq(Writer)
      /\ l \in Nat /\ s \in Nat /\ s + l <= n
      /\ d = Place(h, n - (s + l), n) /\ t = Place(h, n - s, n)
  BY LenProperties DEF TxSound
<1> HIDE DEF l
<1>2. d \in 0..(n - 1) /\ t = Place(d, l, n)
  BY <1>1 DEF Place
<1> QED
  BY <1>1, <1>2 DEF TxAt, l

\* The DMA sends the frame of its cell, which is the first that is to be sent.
LEMMA TxTransmit ==
    ASSUME NEW n \in Nat \ {0}, NEW c, NEW h, NEW t, NEW d, NEW q, NEW s, TxSound(c, h, t, d, q, s, n),
           c[d].own
    PROVE  /\ q # <<>> /\ c[d].frame = Head(q)
           /\ TxSound([c EXCEPT ![d].own = FALSE], h, t, (d + 1) % n, Tail(q), s, n)
<1> DEFINE l == Len(q)
           q1 == Tail(q)
           c1 == [c EXCEPT ![d].own = FALSE]
           g == Place(d, 1, n)
<1>1. /\ h \in 0..(n - 1) /\ DOMAIN c = 0..(n - 1) /\ q \in Seq(Writer)
      /\ l \in Nat /\ s \in Nat /\ s + l <= n
      /\ d \in 0..(n - 1) /\ d = Place(h, n - (s + l), n) /\ t = Place(h, n - s, n) /\ t = Place(d, l, n)
  <2>1. TxAt(c, h, t, d, q, s, n)
    BY TxParts
  <2> QED
    BY <2>1 DEF TxAt
<1>2. \A i \in 1..l : c[Place(d, i - 1, n)] = [own |-> TRUE, frame |-> q[i]]
  BY DEF TxSound
<1>3. \A i \in (l + 1)..n : c[Place(d, i - 1, n)].own = FALSE
  BY DEF TxSound
<1>d. d = Place(d, 1 - 1, n)
  BY <1>1 DEF Place
<1>5. l >= 1
  <2>1. SUFFICES ASSUME l = 0 PROVE FALSE
    BY <1>1
  <2>2. 1 \in (l + 1)..n
    BY <2>1
  <2> HIDE DEF l
  <2>3. c[d].own = FALSE
    BY <1>3, <1>d, <2>2
  <2> QED
    BY <2>3
<1>6. c[d] = [own |-> TRUE, frame |-> q[1]]
  <2>1. 1 \in 1..l
    BY <1>1, <1>5
  <2> HIDE DEF l
  <2> QED
    BY <1>2, <1>d, <2>1
<1>7. q # <<>> /\ Head(q) = q[1] /\ q1 \in Seq(Writer) /\ Len(q1) = l - 1 /\ \A i \in 1..(l - 1) : q1[i] = q[i + 1]
  <2>1. q # <<>>
    BY <1>1, <1>5, EmptySeq
  <2> QED
    BY <1>1, <2>1, HeadTailProperties
<1>8. DOMAIN c1 = 0..(n - 1) /\ c1[d].own = FALSE /\ \A j \in 0..(n - 1) : j # d => c1[j] = c[j]
  <2> DEFINE x == [c[d] EXCEPT !.own = FALSE]
  <2>1. x.own = FALSE
    <3>1. \A b : [c[d] EXCEPT !.own = b].own = b
      BY <1>6, OwnSet
    <3> QED
      BY <3>1
  <2>2. c1 = [c EXCEPT ![d] = x]
    OBVIOUS
  <2> HIDE DEF x, c1
  <2>3. DOMAIN c1 = 0..(n - 1) /\ c1[d] = x /\ \A j \in 0..(n - 1) : j # d => c1[j] = c[j]
    BY <1>1, <2>2
  <2> QED
    BY <2>1, <2>3
<1>9. (d + 1) % n = g /\ g \in 0..(n - 1)
  <2>1. d \in 0..(n - 1) /\ 1 \in 0..n
    BY <1>1
  <2> QED
    BY <2>1, PlaceIs
<1> HIDE DEF l, q1, c1
<1>10. g = Place(h, n - (s + (l - 1)), n)
  BY <1>1, <1>5 DEF Place
<1>11. \A i \in 1..(n - 1) : Place(g, i - 1, n) = Place(d, (i + 1) - 1, n) /\ Place(g, i - 1, n) # d
                              /\ Place(g, i - 1, n) \in 0..(n - 1)
  BY <1>1 DEF Place
<1>12. Place(g, n - 1, n) = d
  BY <1>1 DEF Place
<1> HIDE DEF g
<1>13. \A i \in 1..(n - 1) : c1[Place(g, i - 1, n)] = c[Place(d, (i + 1) - 1, n)]
  BY <1>8, <1>11
<1>14. \A i \in 1..(l - 1) : c1[Place(g, i - 1, n)] = [own |-> TRUE, frame |-> q1[i]]
  <2>1. TAKE i \in 1..(l - 1)
  <2>2. i \in 1..(n - 1) /\ i + 1 \in 1..l
    BY <1>1, <2>1
  <2>3. c[Place(d, (i + 1) - 1, n)] = [own |-> TRUE, frame |-> q[i + 1]]
    BY <1>2, <2>2
  <2>4. Place(g, i - 1, n) = Place(d, (i + 1) - 1, n) /\ c1[Place(g, i - 1, n)] = c[Place(d, (i + 1) - 1, n)]
    BY <1>11, <1>13, <2>2
  <2> QED
    BY <1>7, <2>3, <2>4
<1>15. \A i \in ((l - 1) + 1)..n : c1[Place(g, i - 1, n)].own = FALSE
  <2>1. TAKE i \in ((l - 1) + 1)..n
  <2>2. CASE i = n
    BY <1>8, <1>12, <2>2
  <2>3. CASE i # n
    <3>1. i \in 1..(n - 1) /\ i + 1 \in (l + 1)..n
      BY <1>1, <1>5, <2>1, <2>3
    <3>2. c1[Place(g, i - 1, n)] = c[Place(d, (i + 1) - 1, n)]
      BY <1>13, <3>1
    <3> QED
      BY <1>3, <3>1, <3>2
  <2> QED
    BY <2>2, <2>3
<1>17. s + (l - 1) <= n
  BY <1>1
<1>18. TxSound(c1, h, t, g, q1, s, n)
  BY <1>1, <1>7, <1>8, <1>10, <1>14, <1>15, <1>17 DEF TxSound
<1>19. c[d].frame = q[1]
  BY <1>6
<1> QED
  BY <1>7, <1>9, <1>18, <1>19 DEF c1, q1

\* The cells that have been sent end where the DMA is, and the count ends there too unless
\* the ring is full.
CountSent(c, h, t, n) == Least({m \in 0..n : LET i == (h + m) % n IN i = t \/ c[i].own})

LEMMA TxCounted ==
    ASSUME NEW n \in Nat \ {0}, NEW c, NEW h, NEW t, NEW d, NEW q, NEW s, TxSound(c, h, t, d, q, s, n)
    PROVE  /\ CountSent(c, h, t, n) \in Nat
           /\ TxSound(c, (h + CountSent(c, h, t, n)) % n, t, d, q, s + CountSent(c, h, t, n), n)
<1> DEFINE l == Len(q)
           T == {m \in 0..n : LET i == (h + m) % n IN i = t \/ c[i].own}
           r == Least(T)
           a == n - (s + l)
<1>1. /\ h \in 0..(n - 1) /\ DOMAIN c = 0..(n - 1) /\ q \in Seq(Writer)
      /\ l \in Nat /\ s \in Nat /\ s + l <= n
      /\ d \in 0..(n - 1) /\ d = Place(h, n - (s + l), n) /\ t = Place(h, n - s, n) /\ t = Place(d, l, n)
  <2>1. TxAt(c, h, t, d, q, s, n)
    BY TxParts
  <2> QED
    BY <2>1 DEF TxAt
<1>2. \A i \in 1..l : c[Place(d, i - 1, n)] = [own |-> TRUE, frame |-> q[i]]
  BY DEF TxSound
<1>3. CountSent(c, h, t, n) = r
  BY DEF CountSent
<1>4. \A m \in 0..n : (h + m) % n = Place(h, m, n)
  BY <1>1, PlaceIs
<1>5. \A m \in 0..n : Place(h, m, n) = t \/ c[Place(h, m, n)].own => m \in T
  BY <1>4
<1>6. T \in SUBSET (0..n) /\ T \in SUBSET Nat
  OBVIOUS
<1> HIDE DEF l, T
<1>7. a \in 0..n /\ a = n - (s + l)
  BY <1>1
<1> HIDE DEF a
<1>t. (n - s) \in T
  <2>1. (n - s) \in 0..n
    BY <1>1
  <2> QED
    BY <1>1, <1>5, <2>1
<1>8. r \in 0..n /\ \A m \in T : r <= m
  BY <1>6, <1>t, LeastIs
<1> HIDE DEF r
<1>9. d = Place(h, a, n)
  BY <1>1, <1>7
<1>10. r <= a
  <2>1. CASE l = 0
    <3>1. n - s = a
      BY <1>1, <1>7, <2>1
    <3> QED
      BY <1>8, <1>t, <3>1
  <2>2. CASE l # 0
    <3>1. 1 \in 1..l /\ d = Place(d, 1 - 1, n) /\ a < n
      BY <1>1, <1>7, <2>2 DEF Place
    <3>2. c[d] = [own |-> TRUE, frame |-> q[1]]
      BY <1>2, <3>1
    <3>3. c[d].own
      BY <3>2, OwnIs
    <3>4. a \in T
      BY <1>5, <1>7, <1>9, <3>3
    <3> QED
      BY <1>8, <3>4
  <2> QED
    BY <2>1, <2>2
<1> DEFINE g == Place(h, r, n)
<1>11. (h + r) % n = g /\ g \in 0..(n - 1)
  BY <1>1, <1>8, PlaceIs
<1>12. /\ s + r \in Nat /\ (s + r) + l <= n
       /\ d = Place(g, n - ((s + r) + l), n) /\ t = Place(g, n - (s + r), n)
  BY <1>1, <1>7, <1>8, <1>10 DEF Place
<1> HIDE DEF g
<1>13. TxSound(c, g, t, d, q, s + r, n)
  BY <1>11, <1>12 DEF TxSound, l
<1> QED
  BY <1>3, <1>8, <1>11, <1>13

\* A frame goes into the cell at the tail.
LEMMA TxAppend ==
    ASSUME NEW n \in Nat \ {0}, NEW c, NEW h, NEW t, NEW d, NEW q, NEW s, TxSound(c, h, t, d, q, s, n),
           s >= 1, NEW p \in Writer
    PROVE  TxSound([c EXCEPT ![t] = [own |-> TRUE, frame |-> p]], h, (t + 1) % n, d, Append(q, p), s - 1, n)
<1> DEFINE l == Len(q)
           q1 == Append(q, p)
           x == [own |-> TRUE, frame |-> p]
           c1 == [c EXCEPT ![t] = x]
<1>1. /\ h \in 0..(n - 1) /\ DOMAIN c = 0..(n - 1) /\ q \in Seq(Writer)
      /\ l \in Nat /\ s \in Nat /\ s + l <= n
      /\ d \in 0..(n - 1) /\ d = Place(h, n - (s + l), n) /\ t = Place(h, n - s, n) /\ t = Place(d, l, n)
  <2>1. TxAt(c, h, t, d, q, s, n)
    BY TxParts
  <2> QED
    BY <2>1 DEF TxAt
<1>2. \A i \in 1..l : c[Place(d, i - 1, n)] = [own |-> TRUE, frame |-> q[i]]
  BY DEF TxSound
<1>3. \A i \in (l + 1)..n : c[Place(d, i - 1, n)].own = FALSE
  BY DEF TxSound
<1>5. /\ q1 \in Seq(Writer) /\ Len(q1) = l + 1 /\ q1[l + 1] = p
      /\ \A i \in 1..l : q1[i] = q[i]
  BY <1>1, AppendProperties
<1> HIDE DEF l, q1, x
<1>6. l < n /\ t \in 0..(n - 1)
  BY <1>1 DEF Place
<1>7. (t + 1) % n = Place(h, n - (s - 1), n)
  <2>1. (t + 1) % n = Place(t, 1, n)
    <3>1. 1 \in 0..n
      OBVIOUS
    <3> QED
      BY <1>6, <3>1, PlaceIs
  <2>2. Place(t, 1, n) = Place(h, n - (s - 1), n)
    BY <1>1 DEF Place
  <2> QED
    BY <2>1, <2>2
<1>8. \A i \in 1..n : Place(d, i - 1, n) \in 0..(n - 1) /\ (Place(d, i - 1, n) = t <=> i = l + 1)
  BY <1>1, <1>6 DEF Place
<1>9. DOMAIN c1 = 0..(n - 1) /\ c1[t] = x /\ \A j \in 0..(n - 1) : j # t => c1[j] = c[j]
  BY <1>1, <1>6
<1> HIDE DEF c1
<1>10. \A i \in 1..l : c1[Place(d, i - 1, n)] = c[Place(d, i - 1, n)]
  BY <1>1, <1>6, <1>8, <1>9
<1>11. \A i \in 1..(l + 1) : c1[Place(d, i - 1, n)] = [own |-> TRUE, frame |-> q1[i]]
  <2>1. TAKE i \in 1..(l + 1)
  <2>2. CASE i = l + 1
    <3>1. Place(d, i - 1, n) = t
      BY <1>1, <1>6, <1>8, <2>2
    <3> QED
      BY <1>5, <1>9, <2>2, <3>1 DEF x
  <2>3. CASE i # l + 1
    <3>1. i \in 1..l
      BY <1>1, <2>1, <2>3
    <3> QED
      BY <1>2, <1>5, <1>10, <3>1
  <2> QED
    BY <2>2, <2>3
<1>12. \A i \in ((l + 1) + 1)..n : c1[Place(d, i - 1, n)].own = FALSE
  <2>1. TAKE i \in ((l + 1) + 1)..n
  <2>2. i \in (l + 1)..n /\ i \in 1..n /\ i # l + 1
    BY <1>1, <2>1
  <2>3. c1[Place(d, i - 1, n)] = c[Place(d, i - 1, n)]
    BY <1>8, <1>9, <2>2
  <2> QED
    BY <1>3, <2>2, <2>3
<1>14. /\ s - 1 \in Nat /\ (s - 1) + (l + 1) <= n
       /\ d = Place(h, n - ((s - 1) + (l + 1)), n)
  <2>1. (s - 1) + (l + 1) = s + l
    BY <1>1
  <2> QED
    BY <1>1, <2>1
<1> QED
  BY <1>1, <1>5, <1>7, <1>9, <1>11, <1>12, <1>14 DEF TxSound, q1, c1, x

----
\* The semaphores and their callers.

LEMMA EveryoneFinite == IsFiniteSet(Everyone) /\ Reader \in Everyone /\ Writer \subseteq Everyone
<1>1. IsFiniteSet(Writer \cup {Reader})
  BY EthAssumption, FS_AddElement
<1>2. Everyone = Writer \cup {Reader}
  BY DEF Everyone
<1> QED
  BY <1>1, <1>2

LEMMA CallersFinite ==
    ASSUME NEW A \in SUBSET Everyone
    PROVE  IsFiniteSet(A) /\ Cardinality(A) \in Nat
BY EveryoneFinite, FS_Subset, FS_CardinalityType

\* wait(): who calls it is at the semaphore from then on, or again.
LEMMA GateWait ==
    ASSUME NEW s, NEW A, GateSound(s, A), NEW p \in Everyone, ~Waits(s, p), NEW A1, A1 = A \cup {p}
    PROVE  /\ GateSound(Wait(s, p), A1)
           /\ p \notin A => Stock(Wait(s, p), A1) = Stock(s, A)
           /\ p \in A => Stock(Wait(s, p), A1) = Stock(s, A) - 1
<1> DEFINE w == Wait(s, p)
<1>1. SemSound(s, Everyone) /\ A \in SUBSET Everyone /\ \A q \in Everyone : Waits(s, q) => q \in A
  BY DEF GateSound
<1>2. /\ SemSound(w, Everyone) /\ w.count = s.count - 1
      /\ \A q \in Everyone : Waits(w, q) <=> Waits(s, q) \/ (q = p /\ s.count <= 0)
  BY <1>1, WaitSound
<1> HIDE DEF w
<1>3. GateSound(w, A1)
  BY <1>1, <1>2 DEF GateSound
<1>4. s.count \in Int
  BY <1>1 DEF SemSound
<1>5. IsFiniteSet(A) /\ Cardinality(A) \in Nat
  BY <1>1, CallersFinite
<1>6. CASE p \notin A
  <2>1. Cardinality(A1) = Cardinality(A) + 1
    BY <1>5, <1>6, FS_AddElement
  <2>2. Stock(w, A1) = Stock(s, A)
    BY <1>2, <1>4, <1>5, <2>1 DEF Stock
  <2> QED
    BY <1>3, <1>6, <2>2 DEF w
<1>7. CASE p \in A
  <2>1. A1 = A
    BY <1>7
  <2>2. Stock(w, A1) = Stock(s, A) - 1
    <3>1. Cardinality(A1) = Cardinality(A) /\ w.count = s.count - 1
      BY <1>2, <2>1
    <3>2. (s.count - 1) + Cardinality(A) = (s.count + Cardinality(A)) - 1
      BY <1>4, <1>5
    <3> QED
      BY ONLY <3>1, <3>2 DEF Stock
  <2> QED
    BY <1>3, <1>7, <2>2 DEF w
<1> QED
  BY <1>6, <1>7

\* A caller that was let in goes on.
LEMMA GateLeave ==
    ASSUME NEW s, NEW A, GateSound(s, A), NEW p \in A, ~Waits(s, p)
    PROVE  GateSound(s, A \ {p}) /\ Stock(s, A \ {p}) = Stock(s, A) - 1
<1>1. SemSound(s, Everyone) /\ A \in SUBSET Everyone /\ \A q \in Everyone : Waits(s, q) => q \in A
  BY DEF GateSound
<1>2. GateSound(s, A \ {p})
  BY <1>1 DEF GateSound
<1>3. IsFiniteSet(A) /\ Cardinality(A) \in Nat /\ s.count \in Int
  BY <1>1, CallersFinite DEF SemSound
<1>4. Cardinality(A \ {p}) = Cardinality(A) - 1
  BY <1>3, FS_RemoveElement
<1> QED
  BY <1>2, <1>3, <1>4 DEF Stock

\* signaln()
LEMMA GateSignalN ==
    ASSUME NEW s, NEW A, GateSound(s, A), NEW n \in Nat
    PROVE  GateSound(SignalN(s, n), A) /\ Stock(SignalN(s, n), A) = Stock(s, A) + n
<1>1. SemSound(s, Everyone) /\ A \in SUBSET Everyone /\ \A q \in Everyone : Waits(s, q) => q \in A
  BY DEF GateSound
<1>2. /\ SemSound(SignalN(s, n), Everyone) /\ SignalN(s, n).count = s.count + n
      /\ \A q \in Everyone : Waits(SignalN(s, n), q) => Waits(s, q)
  BY <1>1, SignalNSound
<1>3. GateSound(SignalN(s, n), A)
  BY <1>1, <1>2 DEF GateSound
<1>4. Cardinality(A) \in Nat /\ s.count \in Int
  BY <1>1, CallersFinite DEF SemSound
<1> QED
  BY <1>2, <1>3, <1>4 DEF Stock

\* Those let in, and those that wait, are the callers.
LEMMA StockIs ==
    ASSUME NEW s, NEW A, GateSound(s, A)
    PROVE  /\ Stock(s, A) = s.count + Len(s.queue) + Cardinality({p \in A : ~Waits(s, p)})
           /\ Cardinality({p \in A : ~Waits(s, p)}) \in Nat
           /\ s.count \in Int /\ Len(s.queue) \in Nat /\ Stock(s, A) \in Nat
           /\ \A p \in A : ~Waits(s, p) => Stock(s, A) >= 1
<1> DEFINE W == {p \in Everyone : Waits(s, p)}
           G == {p \in A : ~Waits(s, p)}
<1>1. SemSound(s, Everyone) /\ A \in SUBSET Everyone /\ \A q \in Everyone : Waits(s, q) => q \in A
  BY DEF GateSound
<1>2. IsFiniteSet(A) /\ Cardinality(A) \in Nat /\ IsFiniteSet(W) /\ Cardinality(W) = Len(s.queue)
  BY <1>1, CallersFinite, WaitingCount
<1>3. G = A \ W /\ A \cap W = W
  BY <1>1
<1>4. s.count \in Int /\ Len(s.queue) \in Nat /\ Len(s.queue) = IF s.count < 0 THEN 0 - s.count ELSE 0
  BY <1>1, LenProperties DEF SemSound, CountIsQueue
<1>5. \A p \in A : ~Waits(s, p) => p \in G
  OBVIOUS
<1> HIDE DEF W, G
<1>6. IsFiniteSet(G) /\ Cardinality(G) = Cardinality(A) - Cardinality(W)
  <2>1. IsFiniteSet(A \ W) /\ Cardinality(A \ W) = Cardinality(A) - Cardinality(A \cap W)
    BY <1>2, FS_Difference
  <2> QED
    BY <1>3, <2>1
<1>7. Cardinality(G) \in Nat /\ (Cardinality(G) = 0 => G = {})
  BY <1>6, FS_CardinalityType, FS_EmptySet
<1>8. Stock(s, A) = s.count + Cardinality(A)
  BY DEF Stock
<1>9. \A p \in A : ~Waits(s, p) => Cardinality(G) >= 1
  BY <1>5, <1>7
<1>10. Stock(s, A) = s.count + Len(s.queue) + Cardinality(G) /\ Stock(s, A) \in Nat
       /\ Stock(s, A) >= Cardinality(G)
  BY <1>2, <1>4, <1>6, <1>7, <1>8
<1>11. \A p \in A : ~Waits(s, p) => Stock(s, A) >= 1
  BY <1>7, <1>9, <1>10
<1> QED
  BY <1>4, <1>7, <1>10, <1>11 DEF G

----
\* The steps.

LEMMA EthStart == ethinit => EthTypes /\ RxInv /\ TxInv
<1> SUFFICES ASSUME ethinit PROVE EthTypes /\ RxInv /\ TxInv
  OBVIOUS
<1>1. call = [p \in Everyone |-> "run"]
  BY DEF ethinit, Everyone
<1>2. EthTypes
  <2>1. /\ rx = [cell |-> rx.cell, head |-> rx.head, tail |-> rx.tail, dma |-> rx.dma, sem |-> rx.sem]
        /\ tx = [cell |-> tx.cell, head |-> tx.head, tail |-> tx.tail, dma |-> tx.dma, sem |-> tx.sem]
    BY DEF ethinit
  <2> QED
    BY <1>1, <2>1, EveryoneFinite DEF EthTypes
<1>3. Reading = {} /\ Writing = {}
  BY <1>1, EveryoneFinite DEF Reading, Writing
<1>4. \A n \in Nat : GateSound(Semaphore(n), {}) /\ Stock(Semaphore(n), {}) = n
  <2>1. TAKE n \in Nat
  <2>2. SemSound(Semaphore(n), Everyone) /\ Semaphore(n).count = n /\ \A p : ~Waits(Semaphore(n), p)
    BY SemaphoreSound
  <2>3. Cardinality({}) = 0
    BY FS_EmptySet
  <2> QED
    BY <2>2, <2>3 DEF GateSound, Stock
<1>5. RxRing \in Nat \ {0} /\ TxRing \in Nat \ {0}
  BY EthAssumption
<1>6. RxInv
  <2>1. /\ rx.head = 0 /\ rx.tail = 0 /\ rx.dma = 0 /\ rx.sem = Semaphore(0) /\ unread = <<>>
        /\ rx.cell = [i \in 0..(RxRing - 1) |-> Cell(TRUE)]
    BY DEF ethinit
  <2>2. Lets = 0 /\ GateSound(rx.sem, Reading)
    BY <1>3, <1>4, <2>1 DEF Lets
  <2>3. \A i \in 0..(RxRing - 1) : rx.cell[i].own = TRUE
    BY <2>1 DEF Cell
  <2>4. \A i \in 1..RxRing : Place(0, i - 1, RxRing) \in 0..(RxRing - 1)
    BY <1>5 DEF Place
  <2>5. Len(<<>>) = 0 /\ <<>> \in Seq(Mine \cup Mcast)
    BY EmptySeq
  <2>6. Place(0, 0, RxRing) = 0
    BY <1>5 DEF Place
  <2>7. \A i \in (0 + 1)..RxRing : rx.cell[Place(0, i - 1, RxRing)].own = TRUE
    BY <2>3, <2>4
  <2>8. RxSound(rx.cell, rx.head, rx.tail, rx.dma, unread, Lets, RxRing)
    BY <1>5, <2>1, <2>2, <2>5, <2>6, <2>7, SMTT(30) DEF RxSound
  <2>9. Noticed
    BY <2>1, <2>2, <2>5 DEF Noticed
  <2> QED
    BY <2>2, <2>8, <2>9 DEF RxInv
<1>7. TxInv
  <2>1. /\ tx.head = 0 /\ tx.tail = 0 /\ tx.dma = 0 /\ tx.sem = Semaphore(TxRing) /\ unsent = <<>>
        /\ tx.cell = [i \in 0..(TxRing - 1) |-> Cell(FALSE)]
    BY DEF ethinit
  <2>2. Free = TxRing /\ GateSound(tx.sem, Writing)
    BY <1>3, <1>4, <1>5, <2>1 DEF Free
  <2>3. \A i \in 0..(TxRing - 1) : tx.cell[i].own = FALSE
    BY <2>1 DEF Cell
  <2>4. \A i \in 1..TxRing : Place(0, i - 1, TxRing) \in 0..(TxRing - 1)
    BY <1>5 DEF Place
  <2>5. Len(<<>>) = 0 /\ <<>> \in Seq(Writer)
    BY EmptySeq
  <2>6. Place(0, TxRing - (TxRing + 0), TxRing) = 0 /\ Place(0, TxRing - TxRing, TxRing) = 0
    BY <1>5 DEF Place
  <2>7. \A i \in (0 + 1)..TxRing : tx.cell[Place(0, i - 1, TxRing)].own = FALSE
    BY <2>3, <2>4
  <2>8. DOMAIN tx.cell = 0..(TxRing - 1)
    BY <2>1
  <2>9. TxSound(tx.cell, 0, 0, 0, <<>>, TxRing, TxRing)
    <3>1. 0 \in 0..(TxRing - 1) /\ TxRing \in Nat /\ TxRing + 0 <= TxRing /\ 1..0 = {}
      BY <1>5
    <3> QED
      BY <2>5, <2>6, <2>7, <2>8, <3>1 DEF TxSound
  <2> QED
    BY <1>3, <2>1, <2>2, <2>9 DEF TxInv
<1> QED
  BY <1>2, <1>6, <1>7

\* A step that changes the receive side only, or the transmit side only.
LEMMA RxElsewhere ==
    ASSUME RxInv, rx' = rx, unread' = unread, Reading' = Reading,
           handler = "RI" \/ "RI" \in sr => handler' = "RI" \/ "RI" \in sr'
    PROVE  RxInv'
BY DEF RxInv, Lets, Noticed

LEMMA TxElsewhere ==
    ASSUME TxInv, tx' = tx, unsent' = unsent, Writing' = Writing
    PROVE  TxInv'
BY DEF TxInv, Free

LEMMA CallsSame == ASSUME call' = call PROVE Reading' = Reading /\ Writing' = Writing
BY DEF Reading, Writing

\* What is kept of the receive side, and of the transmit side.
RxPart == [cell |-> rx.cell, head |-> rx.head, tail |-> rx.tail, dma |-> rx.dma, sem |-> rx.sem]
TxPart == [cell |-> tx.cell, head |-> tx.head, tail |-> tx.tail, dma |-> tx.dma, sem |-> tx.sem]

LEMMA ReceiveKeeps ==
    ASSUME EthTypes, RxInv, TxInv, NEW frame \in Mine \cup Mcast, receive(frame)
    PROVE  EthTypes' /\ RxInv' /\ TxInv'
<1> DEFINE x == [own |-> FALSE, frame |-> frame]
           c1 == [rx.cell EXCEPT ![rx.dma] = x]
<1>1. /\ rx.cell[rx.dma].own /\ unread' = Append(unread, frame)
      /\ rx' = [rx EXCEPT !.cell[rx.dma] = x, !.dma = (@ + 1) % RxRing]
      /\ call' = call /\ tx' = tx /\ unsent' = unsent /\ "RI" \in sr'
  BY DEF receive
<1>2. rx = RxPart
  BY DEF EthTypes, RxPart
<1>3. rx' = [cell |-> c1, head |-> rx.head, tail |-> rx.tail, dma |-> (rx.dma + 1) % RxRing, sem |-> rx.sem]
  BY <1>1, <1>2 DEF RxPart
<1> HIDE DEF c1
<1>4. /\ rx'.cell = c1 /\ rx'.head = rx.head /\ rx'.tail = rx.tail /\ rx'.dma = (rx.dma + 1) % RxRing
      /\ rx'.sem = rx.sem
      /\ rx' = [cell |-> rx'.cell, head |-> rx'.head, tail |-> rx'.tail, dma |-> rx'.dma, sem |-> rx'.sem]
  BY <1>3
<1>5. EthTypes'
  BY <1>1, <1>4 DEF EthTypes
<1>6. RxSound(c1, rx.head, rx.tail, (rx.dma + 1) % RxRing, Append(unread, frame), Lets, RxRing)
  <2>1. RxSound(rx.cell, rx.head, rx.tail, rx.dma, unread, Lets, RxRing) /\ RxRing \in Nat \ {0}
    BY EthAssumption DEF RxInv
  <2> QED
    BY <1>1, <2>1, RxReceive DEF c1
<1>7. Lets' = Lets /\ Reading' = Reading
  BY <1>1, <1>4, CallsSame DEF Lets
<1>8. RxInv'
  BY <1>1, <1>4, <1>6, <1>7 DEF RxInv, Noticed
<1>9. TxInv'
  BY <1>1, CallsSame, TxElsewhere
<1> QED
  BY <1>5, <1>8, <1>9

LEMMA TransmitKeeps ==
    ASSUME EthTypes, RxInv, TxInv, transmit
    PROVE  EthTypes' /\ RxInv' /\ TxInv'
<1> DEFINE c1 == [tx.cell EXCEPT ![tx.dma].own = FALSE]
<1>1. /\ tx.cell[tx.dma].own /\ unsent' = Tail(unsent)
      /\ tx' = [tx EXCEPT !.cell[tx.dma].own = FALSE, !.dma = (@ + 1) % TxRing]
      /\ call' = call /\ rx' = rx /\ unread' = unread /\ handler' = handler /\ ("RI" \in sr => "RI" \in sr')
  BY DEF transmit
<1>2. tx = TxPart
  BY DEF EthTypes, TxPart
<1>3. tx' = [cell |-> c1, head |-> tx.head, tail |-> tx.tail, dma |-> (tx.dma + 1) % TxRing, sem |-> tx.sem]
  BY <1>1, <1>2 DEF TxPart
<1> HIDE DEF c1
<1>4. /\ tx'.cell = c1 /\ tx'.head = tx.head /\ tx'.tail = tx.tail /\ tx'.dma = (tx.dma + 1) % TxRing
      /\ tx'.sem = tx.sem
      /\ tx' = [cell |-> tx'.cell, head |-> tx'.head, tail |-> tx'.tail, dma |-> tx'.dma, sem |-> tx'.sem]
  BY <1>3
<1>5. EthTypes'
  BY <1>1, <1>4 DEF EthTypes
<1>6. TxSound(c1, tx.head, tx.tail, (tx.dma + 1) % TxRing, Tail(unsent), Free, TxRing)
  <2>1. TxSound(tx.cell, tx.head, tx.tail, tx.dma, unsent, Free, TxRing) /\ TxRing \in Nat \ {0}
    BY EthAssumption DEF TxInv
  <2> QED
    BY <1>1, <2>1, TxTransmit DEF c1
<1>7. Free' = Free /\ Writing' = Writing
  BY <1>1, <1>4, CallsSame DEF Free
<1>8. TxInv'
  BY <1>1, <1>4, <1>6, <1>7 DEF TxInv
<1>9. RxInv'
  BY <1>1, CallsSame, RxElsewhere
<1> QED
  BY <1>5, <1>8, <1>9

LEMMA HandlerRxKeeps ==
    ASSUME EthTypes, RxInv, TxInv, ethhandlerRx, halted' = "no"
    PROVE  EthTypes' /\ RxInv' /\ TxInv'
<1> DEFINE m == Count(rx.cell, rx.tail, RxRing)
<1>1. RxCount = m
  BY DEF RxCount, Count
<1> HIDE DEF m
<1>2. /\ rx' = [rx EXCEPT !.tail = (@ + m) % RxRing, !.sem = SignalN(@, m)]
      /\ ~(m > RxRing)
      /\ call' = call /\ tx' = tx /\ unsent' = unsent /\ unread' = unread
  BY <1>1 DEF ethhandlerRx
<1>3. rx = RxPart
  BY DEF EthTypes, RxPart
<1>4. rx' = [cell |-> rx.cell, head |-> rx.head, tail |-> (rx.tail + m) % RxRing, dma |-> rx.dma, sem |-> SignalN(rx.sem, m)]
  BY <1>2, <1>3 DEF RxPart
<1>5. /\ rx'.cell = rx.cell /\ rx'.head = rx.head /\ rx'.tail = (rx.tail + m) % RxRing /\ rx'.dma = rx.dma
      /\ rx'.sem = SignalN(rx.sem, m)
      /\ rx' = [cell |-> rx'.cell, head |-> rx'.head, tail |-> rx'.tail, dma |-> rx'.dma, sem |-> rx'.sem]
  BY <1>4
<1>6. EthTypes'
  BY <1>2, <1>5 DEF EthTypes
<1>7. /\ m \in Nat /\ Lets + m = Len(unread)
      /\ RxSound(rx.cell, rx.head, (rx.tail + m) % RxRing, rx.dma, unread, Len(unread), RxRing)
  <2>1. RxSound(rx.cell, rx.head, rx.tail, rx.dma, unread, Lets, RxRing) /\ RxRing \in Nat \ {0}
    BY EthAssumption DEF RxInv
  <2> QED
    BY <1>2, <2>1, RxCounted DEF m
<1>8. GateSound(rx.sem, Reading)
  BY DEF RxInv
<1>9. Lets' = Lets + m /\ GateSound(rx'.sem, Reading) /\ Reading' = Reading
  BY <1>2, <1>5, <1>7, <1>8, CallsSame, GateSignalN DEF Lets
<1>10. RxInv'
  <2>1. Lets' = Len(unread')
    BY <1>2, <1>7, <1>9
  <2> QED
    BY <1>2, <1>5, <1>7, <1>9, <2>1 DEF RxInv, Noticed
<1>11. TxInv'
  BY <1>2, CallsSame, TxElsewhere
<1> QED
  BY <1>6, <1>10, <1>11

LEMMA HandlerTxKeeps ==
    ASSUME EthTypes, RxInv, TxInv, ethhandlerTx
    PROVE  EthTypes' /\ RxInv' /\ TxInv'
<1> DEFINE m == CountSent(tx.cell, tx.head, tx.tail, TxRing)
<1>1. TxCount = m
  BY DEF TxCount, CountSent
<1> HIDE DEF m
<1>2. /\ tx' = [tx EXCEPT !.head = (@ + m) % TxRing, !.sem = SignalN(@, m)]
      /\ call' = call /\ rx' = rx /\ unsent' = unsent /\ unread' = unread /\ sr' = sr /\ handler = "TI"
  BY <1>1 DEF ethhandlerTx
<1>3. tx = TxPart
  BY DEF EthTypes, TxPart
<1>4. tx' = [cell |-> tx.cell, head |-> (tx.head + m) % TxRing, tail |-> tx.tail, dma |-> tx.dma, sem |-> SignalN(tx.sem, m)]
  BY <1>2, <1>3 DEF TxPart
<1>5. /\ tx'.cell = tx.cell /\ tx'.tail = tx.tail /\ tx'.head = (tx.head + m) % TxRing /\ tx'.dma = tx.dma
      /\ tx'.sem = SignalN(tx.sem, m)
      /\ tx' = [cell |-> tx'.cell, head |-> tx'.head, tail |-> tx'.tail, dma |-> tx'.dma, sem |-> tx'.sem]
  BY <1>4
<1>6. EthTypes'
  BY <1>2, <1>5 DEF EthTypes
<1>8. /\ m \in Nat
      /\ TxSound(tx.cell, (tx.head + m) % TxRing, tx.tail, tx.dma, unsent, Free + m, TxRing)
  <2>1. TxSound(tx.cell, tx.head, tx.tail, tx.dma, unsent, Free, TxRing) /\ TxRing \in Nat \ {0}
    BY EthAssumption DEF TxInv
  <2> QED
    BY <2>1, TxCounted DEF m
<1>9. GateSound(tx.sem, Writing)
  BY DEF TxInv
<1>10. Stock(tx'.sem, Writing) = Stock(tx.sem, Writing) + m /\ GateSound(tx'.sem, Writing)
       /\ Writing' = Writing
  BY <1>2, <1>5, <1>8, <1>9, CallsSame, GateSignalN
<1>11. Free' = Free + m
  <2>1. Stock(tx.sem, Writing) \in Nat
    BY <1>9, StockIs
  <2> QED
    BY <1>2, <1>8, <1>10, <2>1 DEF Free
<1>12. TxInv'
  BY <1>2, <1>5, <1>8, <1>10, <1>11 DEF TxInv
<1>13. RxInv'
  BY <1>2, CallsSame, RxElsewhere
<1> QED
  BY <1>6, <1>12, <1>13

\* A process that runs is in no queue of the driver; its call goes on at another place.
LEMMA GoesOn ==
    ASSUME EthTypes, NEW p \in Everyone, NEW at \in {"run", "read", "write"}, Goes(p, at)
    PROVE  /\ call' \in [Everyone -> {"run", "read", "write"}]
           /\ call'[p] = at
           /\ \A q \in Everyone : q # p => call'[q] = call[q]
BY DEF EthTypes, Goes

LEMMA ReadWaitKeeps ==
    ASSUME EthTypes, RxInv, TxInv, ethreadWait
    PROVE  EthTypes' /\ RxInv' /\ TxInv'
<1>1. /\ rx' = [rx EXCEPT !.sem = Wait(@, Reader)]
      /\ call[Reader] = "run" /\ ~Waits(rx.sem, Reader) /\ Goes(Reader, "read")
      /\ tx' = tx /\ unsent' = unsent /\ unread' = unread /\ sr' = sr /\ handler' = handler
  BY DEF ethreadWait, Runs
<1>2. rx = RxPart
  BY DEF EthTypes, RxPart
<1>3. rx' = [cell |-> rx.cell, head |-> rx.head, tail |-> rx.tail, dma |-> rx.dma, sem |-> Wait(rx.sem, Reader)]
  BY <1>1, <1>2 DEF RxPart
<1>4. /\ rx'.cell = rx.cell /\ rx'.head = rx.head /\ rx'.tail = rx.tail /\ rx'.dma = rx.dma
      /\ rx'.sem = Wait(rx.sem, Reader)
      /\ rx' = [cell |-> rx'.cell, head |-> rx'.head, tail |-> rx'.tail, dma |-> rx'.dma, sem |-> rx'.sem]
  BY <1>3
<1>5. /\ call' \in [Everyone -> {"run", "read", "write"}]
      /\ call'[Reader] = "read"
      /\ \A q \in Everyone : q # Reader => call'[q] = call[q]
  <2>1. Reader \in Everyone /\ "read" \in {"run", "read", "write"} /\ Goes(Reader, "read")
    BY <1>1, EveryoneFinite
  <2> QED
    BY ONLY EthTypes, <2>1, GoesOn
<1>6. Reader \in Everyone /\ Writer \subseteq Everyone /\ Reader \notin Writer
  BY EveryoneFinite, EthAssumption
<1>7. EthTypes'
  BY <1>1, <1>4, <1>5, <1>6 DEF EthTypes
<1>8. Reading' = Reading \cup {Reader} /\ Reader \notin Reading
  BY <1>1, <1>5, <1>6 DEF Reading
<1>9. Writing' = Writing
  BY <1>1, <1>5, <1>6 DEF Writing
<1>10. GateSound(rx'.sem, Reading') /\ Lets' = Lets
  <2>1. GateSound(rx.sem, Reading)
    BY DEF RxInv
  <2> QED
    BY <1>1, <1>4, <1>6, <1>8, <2>1, GateWait DEF Lets
<1>11. RxInv'
  BY <1>1, <1>4, <1>10 DEF RxInv, Noticed
<1>12. TxInv'
  BY <1>1, <1>9, TxElsewhere
<1> QED
  BY <1>7, <1>11, <1>12

LEMMA ReadKeeps ==
    ASSUME EthTypes, RxInv, TxInv, ethread
    PROVE  EthTypes' /\ RxInv' /\ TxInv'
<1> DEFINE c1 == [rx.cell EXCEPT ![rx.head] = Cell(TRUE)]
<1>0. PICK v \in BOOLEAN :
         /\ rx' = [rx EXCEPT !.cell[rx.head] = Cell(TRUE), !.head = (@ + 1) % RxRing,
                             !.sem = IF v THEN @ ELSE Wait(@, Reader)]
         /\ Goes(Reader, IF v THEN "run" ELSE "read")
  BY DEF ethread
<1> DEFINE s1 == IF v THEN rx.sem ELSE Wait(rx.sem, Reader)
           at == IF v THEN "run" ELSE "read"
<1>1. /\ call[Reader] = "read" /\ ~Waits(rx.sem, Reader)
      /\ tx' = tx /\ unsent' = unsent /\ unread' = Tail(unread) /\ sr' = sr /\ handler' = handler
  BY DEF ethread, Runs
<1>2. rx = RxPart
  BY DEF EthTypes, RxPart
<1>3. rx' = [cell |-> c1, head |-> (rx.head + 1) % RxRing, tail |-> rx.tail, dma |-> rx.dma, sem |-> s1]
  BY <1>0, <1>2 DEF RxPart
<1>s. (v => s1 = rx.sem /\ at = "run") /\ (~v => s1 = Wait(rx.sem, Reader) /\ at = "read") /\ Goes(Reader, at)
  BY <1>0
<1> HIDE DEF c1, s1, at
<1>4. /\ rx'.cell = c1 /\ rx'.head = (rx.head + 1) % RxRing /\ rx'.tail = rx.tail /\ rx'.dma = rx.dma
      /\ rx'.sem = s1
      /\ rx' = [cell |-> rx'.cell, head |-> rx'.head, tail |-> rx'.tail, dma |-> rx'.dma, sem |-> rx'.sem]
  BY <1>3
<1>5. /\ call' \in [Everyone -> {"run", "read", "write"}]
      /\ call'[Reader] = at
      /\ \A q \in Everyone : q # Reader => call'[q] = call[q]
  <2>1. Reader \in Everyone /\ at \in {"run", "read", "write"} /\ Goes(Reader, at)
    BY <1>s, EveryoneFinite
  <2> QED
    BY ONLY EthTypes, <2>1, GoesOn
<1>6. Reader \in Everyone /\ Writer \subseteq Everyone /\ Reader \notin Writer
  BY EveryoneFinite, EthAssumption
<1>7. EthTypes'
  BY <1>1, <1>4, <1>5, <1>6, <1>s DEF EthTypes
<1>8. /\ Reader \in Reading
      /\ v => Reading' = Reading \ {Reader}
      /\ ~v => Reading' = Reading /\ Reading = Reading \cup {Reader}
  BY <1>1, <1>5, <1>6, <1>s DEF Reading
<1>9. Writing' = Writing
  <2>1. \A q \in Everyone : call'[q] = "write" <=> call[q] = "write"
    BY <1>1, <1>5, <1>s
  <2> QED
    BY <1>5, <1>6, <2>1 DEF Writing
<1>10. GateSound(rx.sem, Reading)
  BY DEF RxInv
<1>11. GateSound(s1, Reading') /\ Stock(s1, Reading') = Stock(rx.sem, Reading) - 1
  <2>1. CASE v
    BY <1>1, <1>8, <1>10, <1>s, <2>1, GateLeave
  <2>2. CASE ~v
    BY <1>1, <1>6, <1>8, <1>10, <1>s, <2>2, GateWait
  <2> QED
    BY <2>1, <2>2
<1>12. RxSound(c1, (rx.head + 1) % RxRing, rx.tail, rx.dma, Tail(unread), Lets - 1, RxRing)
  <2>1. RxSound(rx.cell, rx.head, rx.tail, rx.dma, unread, Lets, RxRing) /\ RxRing \in Nat \ {0}
    BY EthAssumption DEF RxInv
  <2>2. Lets >= 1
    BY <1>1, <1>8, <1>10, StockIs DEF Lets
  <2> QED
    BY <2>1, <2>2, RxRead DEF c1
<1>t. Lets' = Lets - 1 /\ (Lets = Len(unread) => Lets - 1 = Len(Tail(unread)))
  <2>1. Lets' = Lets - 1
    BY <1>4, <1>11 DEF Lets
  <2>2. Lets \in 0..Len(unread) /\ unread \in Seq(Mine \cup Mcast) /\ Len(unread) \in Nat
    BY LenProperties DEF RxInv, RxSound
  <2>3. Lets >= 1
    BY <1>1, <1>8, <1>10, StockIs DEF Lets
  <2>4. unread # <<>>
    BY <2>2, <2>3, EmptySeq
  <2>5. Len(Tail(unread)) = Len(unread) - 1
    BY <2>2, <2>4, HeadTailProperties
  <2> QED
    BY <2>1, <2>2, <2>5
<1>13. RxInv'
  BY <1>1, <1>4, <1>11, <1>12, <1>t DEF RxInv, Noticed
<1>14. TxInv'
  BY <1>1, <1>9, TxElsewhere
<1> QED
  BY <1>7, <1>13, <1>14

LEMMA WriteWaitKeeps ==
    ASSUME EthTypes, RxInv, TxInv, NEW p \in Writer, ethwriteWait(p)
    PROVE  EthTypes' /\ RxInv' /\ TxInv'
<1>1. /\ tx' = [tx EXCEPT !.sem = Wait(@, p)]
      /\ call[p] = "run" /\ ~Waits(tx.sem, p) /\ Goes(p, "write")
      /\ rx' = rx /\ unsent' = unsent /\ unread' = unread /\ sr' = sr /\ handler' = handler
  BY DEF ethwriteWait, Runs
<1>2. tx = TxPart
  BY DEF EthTypes, TxPart
<1>3. tx' = [cell |-> tx.cell, head |-> tx.head, tail |-> tx.tail, dma |-> tx.dma, sem |-> Wait(tx.sem, p)]
  BY <1>1, <1>2 DEF TxPart
<1>4. /\ tx'.cell = tx.cell /\ tx'.head = tx.head /\ tx'.tail = tx.tail /\ tx'.dma = tx.dma
      /\ tx'.sem = Wait(tx.sem, p)
      /\ tx' = [cell |-> tx'.cell, head |-> tx'.head, tail |-> tx'.tail, dma |-> tx'.dma, sem |-> tx'.sem]
  BY <1>3
<1>6. Reader \in Everyone /\ Writer \subseteq Everyone /\ p \in Everyone /\ p # Reader
  BY EveryoneFinite, EthAssumption
<1>5. /\ call' \in [Everyone -> {"run", "read", "write"}]
      /\ call'[p] = "write"
      /\ \A q \in Everyone : q # p => call'[q] = call[q]
  <2>1. p \in Everyone /\ "write" \in {"run", "read", "write"} /\ Goes(p, "write")
    BY <1>1, <1>6
  <2> QED
    BY ONLY EthTypes, <2>1, GoesOn
<1>7. EthTypes'
  BY <1>1, <1>4, <1>5, <1>6 DEF EthTypes
<1>8. Writing' = Writing \cup {p} /\ p \notin Writing
  BY <1>1, <1>5, <1>6 DEF Writing
<1>9. Reading' = Reading
  BY <1>1, <1>5, <1>6 DEF Reading
<1>10. GateSound(tx'.sem, Writing') /\ Stock(tx'.sem, Writing') = Stock(tx.sem, Writing)
  <2>1. GateSound(tx.sem, Writing)
    BY DEF TxInv
  <2> QED
    BY <1>1, <1>4, <1>6, <1>8, <2>1, GateWait
<1>11. Free' = Free
  BY <1>9, <1>10 DEF Free
<1>12. TxInv'
  BY <1>1, <1>4, <1>9, <1>10, <1>11 DEF TxInv
<1>13. RxInv'
  BY <1>1, <1>9, RxElsewhere
<1> QED
  BY <1>7, <1>12, <1>13

LEMMA WriteKeeps ==
    ASSUME EthTypes, RxInv, TxInv, NEW p \in Writer, ethwrite(p)
    PROVE  EthTypes' /\ RxInv' /\ TxInv'
<1> DEFINE c1 == [tx.cell EXCEPT ![tx.tail] = [own |-> TRUE, frame |-> p]]
<1>1. /\ tx' = [tx EXCEPT !.tail = (@ + 1) % TxRing, !.cell[tx.tail] = [own |-> TRUE, frame |-> p]]
      /\ call[p] = "write" /\ ~Waits(tx.sem, p) /\ Goes(p, "run")
      /\ rx' = rx /\ unsent' = Append(unsent, p) /\ unread' = unread /\ sr' = sr /\ handler' = handler
  BY DEF ethwrite, Runs
<1>2. tx = TxPart
  BY DEF EthTypes, TxPart
<1>3. tx' = [cell |-> c1, head |-> tx.head, tail |-> (tx.tail + 1) % TxRing, dma |-> tx.dma, sem |-> tx.sem]
  BY <1>1, <1>2 DEF TxPart
<1>c. c1 = [tx.cell EXCEPT ![tx.tail] = [own |-> TRUE, frame |-> p]]
  OBVIOUS
<1> HIDE DEF c1
<1>4. /\ tx'.cell = c1 /\ tx'.head = tx.head /\ tx'.tail = (tx.tail + 1) % TxRing /\ tx'.dma = tx.dma
      /\ tx'.sem = tx.sem
      /\ tx' = [cell |-> tx'.cell, head |-> tx'.head, tail |-> tx'.tail, dma |-> tx'.dma, sem |-> tx'.sem]
  BY <1>3
<1>6. Reader \in Everyone /\ Writer \subseteq Everyone /\ p \in Everyone /\ p # Reader
  BY EveryoneFinite, EthAssumption
<1>5. /\ call' \in [Everyone -> {"run", "read", "write"}]
      /\ call'[p] = "run"
      /\ \A q \in Everyone : q # p => call'[q] = call[q]
  <2>1. p \in Everyone /\ "run" \in {"run", "read", "write"} /\ Goes(p, "run")
    BY <1>1, <1>6
  <2> QED
    BY ONLY EthTypes, <2>1, GoesOn
<1>7. EthTypes'
  BY <1>1, <1>4, <1>5, <1>6 DEF EthTypes
<1>8. Writing' = Writing \ {p} /\ p \in Writing
  BY <1>1, <1>5, <1>6 DEF Writing
<1>9. Reading' = Reading
  BY <1>1, <1>5, <1>6 DEF Reading
<1>g. GateSound(tx.sem, Writing)
  BY DEF TxInv
<1>10. GateSound(tx'.sem, Writing') /\ Stock(tx'.sem, Writing') = Stock(tx.sem, Writing) - 1
  BY <1>1, <1>4, <1>8, <1>g, GateLeave
<1>11. Free' = Free - 1 /\ Free >= 1
  <2>1. Stock(tx.sem, Writing) \in Nat /\ Stock(tx.sem, Writing) >= 1
    BY <1>1, <1>8, <1>g, StockIs
  <2> QED
    BY <1>9, <1>10, <2>1 DEF Free
<1>12. TxSound(c1, tx.head, (tx.tail + 1) % TxRing, tx.dma, Append(unsent, p), Free - 1, TxRing)
  <2>1. TxSound(tx.cell, tx.head, tx.tail, tx.dma, unsent, Free, TxRing) /\ TxRing \in Nat \ {0}
    BY EthAssumption DEF TxInv
  <2> QED
    BY <1>c, <1>6, <1>11, <2>1, TxAppend
<1>13. TxInv'
  BY <1>1, <1>4, <1>9, <1>10, <1>11, <1>12 DEF TxInv
<1>14. RxInv'
  BY <1>1, <1>9, RxElsewhere
<1> QED
  BY <1>7, <1>13, <1>14

LEMMA EthStep == EthInv /\ [EthNext]_evars => EthInv'
<1> SUFFICES ASSUME EthInv, [EthNext]_evars, halted' = "no" PROVE (EthTypes /\ RxInv /\ TxInv)'
  BY DEF EthInv
<1>1. CASE UNCHANGED evars
  <2>1. UNCHANGED <<rx, tx, call, unread, unsent, halted, sr, handler>>
    BY <1>1 DEF evars
  <2>2. EthTypes /\ RxInv /\ TxInv
    BY <2>1 DEF EthInv
  <2>3. EthTypes'
    BY <2>1, <2>2 DEF EthTypes
  <2> QED
    BY <2>1, <2>2, <2>3, CallsSame, RxElsewhere, TxElsewhere
<1>2. CASE EthNext
  <2>1. halted = "no"
    BY <1>2 DEF EthNext, receive, transmit, ethhandler, ethhandlerTx, ethhandlerRx, ethreadWait, ethread, ethwriteWait,
                ethwrite, ethcontrol, ethmcast_add, ethmcast_remove, Runs
  <2>2. EthTypes /\ RxInv /\ TxInv
    BY <2>1 DEF EthInv
  <2>3. ASSUME NEW frame \in Mine \cup Mcast, receive(frame) PROVE (EthTypes /\ RxInv /\ TxInv)'
    BY <2>2, <2>3, ReceiveKeeps
  <2>4. CASE transmit
    BY <2>2, <2>4, TransmitKeeps
  <2>5. CASE ethhandler \/ \E a \in Mcast : ethcontrol(a)
    <3>1. /\ UNCHANGED <<rx, tx, call, unread, unsent>>
          /\ handler = "RI" \/ "RI" \in sr => handler' = "RI" \/ "RI" \in sr'
      BY <2>5 DEF ethhandler, ethcontrol, ethmcast_add, ethmcast_remove
    <3>2. EthTypes'
      BY <2>2, <3>1 DEF EthTypes
    <3> QED
      BY <2>2, <3>1, <3>2, CallsSame, RxElsewhere, TxElsewhere
  <2>6. CASE ethhandlerTx
    BY <2>2, <2>6, HandlerTxKeeps
  <2>7. CASE ethhandlerRx
    BY <2>2, <2>7, HandlerRxKeeps
  <2>8. CASE ethreadWait
    BY <2>2, <2>8, ReadWaitKeeps
  <2>9. CASE ethread
    BY <2>2, <2>9, ReadKeeps
  <2>10. ASSUME NEW p \in Writer, ethwriteWait(p) \/ ethwrite(p) PROVE (EthTypes /\ RxInv /\ TxInv)'
    <3>1. CASE ethwriteWait(p)
      BY <2>2, <3>1, WriteWaitKeeps
    <3>2. CASE ethwrite(p)
      BY <2>2, <3>2, WriteKeeps
    <3> QED
      BY <2>10, <3>1, <3>2
  <2> QED
    BY <1>2, <2>3, <2>4, <2>5, <2>6, <2>7, <2>8, <2>9, <2>10 DEF EthNext
<1> QED
  BY <1>1, <1>2

----
\* What the rings promise.

LEMMA EthInvExact == EthInv => RingsExact
<1> SUFFICES ASSUME EthInv, halted = "no"
             PROVE  /\ CountIsQueue(rx.sem) /\ CountIsQueue(tx.sem)
                    /\ \A i \in 1..Len(unread) : rx.cell[(rx.head + i - 1) % RxRing] = [own |-> FALSE, frame |-> unread[i]]
                    /\ Frames <= Len(unread) /\ Frames % RxRing = (rx.tail - rx.head) % RxRing
                    /\ (handler # "RI" /\ "RI" \notin sr) => Frames = Len(unread)
                    /\ \A i \in 1..Len(unsent) : tx.cell[(tx.dma + i - 1) % TxRing] = [own |-> TRUE, frame |-> unsent[i]]
                    /\ Slots + Len(unsent) <= TxRing
                    /\ (Slots + tx.tail - tx.head) % TxRing = 0
  BY DEF RingsExact
<1>1. EthTypes /\ RxInv /\ TxInv
  BY DEF EthInv
<1>2. GateSound(rx.sem, Reading) /\ GateSound(tx.sem, Writing) /\ CountIsQueue(rx.sem) /\ CountIsQueue(tx.sem)
  BY <1>1 DEF RxInv, TxInv, GateSound, SemSound
<1>3. RxRing \in Nat \ {0} /\ TxRing \in Nat \ {0}
  BY EthAssumption
<1>4. Reader \in Everyone /\ Writer \subseteq Everyone /\ Everyone = {Reader} \cup Writer /\ Reader \notin Writer
  BY EveryoneFinite, EthAssumption DEF Everyone
<1>5. RxSound(rx.cell, rx.head, rx.tail, rx.dma, unread, Lets, RxRing)
  BY <1>1 DEF RxInv
<1>6. TxSound(tx.cell, tx.head, tx.tail, tx.dma, unsent, Free, TxRing)
  BY <1>1 DEF TxInv
<1>7. \A i \in 1..Len(unread) : rx.cell[(rx.head + i - 1) % RxRing] = [own |-> FALSE, frame |-> unread[i]]
  <2>1. TAKE i \in 1..Len(unread)
  <2>2. /\ rx.head \in 0..(RxRing - 1) /\ Len(unread) \in Nat /\ Len(unread) <= RxRing
        /\ rx.cell[Place(rx.head, i - 1, RxRing)] = [own |-> FALSE, frame |-> unread[i]]
    BY <1>5, <2>1, LenProperties DEF RxSound
  <2>3. (i - 1) \in 0..RxRing
    BY <1>3, <2>1, <2>2
  <2>4. (rx.head + (i - 1)) % RxRing = Place(rx.head, i - 1, RxRing)
    BY <1>3, <2>2, <2>3, PlaceIs
  <2> QED
    BY <2>2, <2>4
<1>8. /\ Frames <= Len(unread) /\ Frames % RxRing = (rx.tail - rx.head) % RxRing
      /\ (handler # "RI" /\ "RI" \notin sr) => Frames = Len(unread)
  <2>1. {p \in {Reader} : call[p] = "read" /\ ~Waits(rx.sem, p)} = {p \in Reading : ~Waits(rx.sem, p)}
    BY <1>1, <1>4 DEF Reading, EthTypes
  <2>2. Frames = Lets
    BY <1>2, <2>1, StockIs DEF Granted, Frames, Lets
  <2>3. /\ rx.head \in 0..(RxRing - 1) /\ Len(unread) \in Nat /\ Len(unread) <= RxRing /\ Lets \in 0..Len(unread)
        /\ rx.tail = Place(rx.head, Lets, RxRing)
    BY <1>5, LenProperties DEF RxSound
  <2>4. Lets \in 0..RxRing
    BY <1>3, <2>3
  <2>5. (rx.tail - rx.head) % RxRing = IF Lets < RxRing THEN Lets ELSE 0
    BY <1>3, <2>3, <2>4, DistanceIs
  <2>6. Lets % RxRing = IF Lets < RxRing THEN Lets ELSE Lets - RxRing
    <3>1. Lets \in Nat /\ Lets < 2 * RxRing
      BY <1>3, <2>4
    <3> QED
      BY <1>3, <3>1, ModIs
  <2>7. Lets % RxRing = (rx.tail - rx.head) % RxRing
    BY <1>3, <2>4, <2>5, <2>6
  <2>8. (handler # "RI" /\ "RI" \notin sr) => Lets = Len(unread)
    BY <1>1 DEF RxInv, Noticed
  <2> QED
    BY <2>2, <2>3, <2>7, <2>8
<1>9. \A i \in 1..Len(unsent) : tx.cell[(tx.dma + i - 1) % TxRing] = [own |-> TRUE, frame |-> unsent[i]]
  <2>1. TAKE i \in 1..Len(unsent)
  <2>2. /\ tx.dma \in 0..(TxRing - 1) /\ Len(unsent) \in Nat /\ Len(unsent) <= TxRing
    <3>1. TxAt(tx.cell, tx.head, tx.tail, tx.dma, unsent, Free, TxRing)
      BY <1>3, <1>6, TxParts
    <3> QED
      BY <1>3, <3>1 DEF TxAt
  <2>3. (i - 1) \in 0..TxRing
    BY <1>3, <2>1, <2>2
  <2>4. (tx.dma + (i - 1)) % TxRing = Place(tx.dma, i - 1, TxRing)
    BY <1>3, <2>2, <2>3, PlaceIs
  <2>5. tx.cell[Place(tx.dma, i - 1, TxRing)] = [own |-> TRUE, frame |-> unsent[i]]
    BY <1>6, <2>1 DEF TxSound
  <2> QED
    BY <2>4, <2>5
<1>10. Slots = Free
  <2>1. {p \in Writer : call[p] = "write" /\ ~Waits(tx.sem, p)} = {p \in Writing : ~Waits(tx.sem, p)}
    BY <1>1, <1>4 DEF Writing, EthTypes
  <2> QED
    BY <1>2, <2>1, StockIs DEF Granted, Slots, Free
<1>11. Free + Len(unsent) <= TxRing /\ (Free + (tx.tail - tx.head)) % TxRing = 0
  <2>1. TxAt(tx.cell, tx.head, tx.tail, tx.dma, unsent, Free, TxRing)
    BY <1>3, <1>6, TxParts
  <2>2. /\ tx.head \in 0..(TxRing - 1) /\ Len(unsent) \in Nat /\ Free \in Nat /\ Free + Len(unsent) <= TxRing
        /\ tx.tail = Place(tx.head, TxRing - Free, TxRing)
    BY <2>1 DEF TxAt
  <2> DEFINE z == Free + (tx.tail - tx.head)
  <2>3. z = TxRing \/ z = 0
    BY <1>3, <2>2 DEF Place
  <2>4. 0 % TxRing = 0 /\ TxRing % TxRing = 0
    <3>1. TxRing \in Nat /\ TxRing < 2 * TxRing
      BY <1>3
    <3>2. TxRing % TxRing = TxRing - TxRing
      BY <1>3, <3>1, ModIs
    <3> QED
      BY <1>3, <3>2, ModZero
  <2> HIDE DEF z
  <2>5. z % TxRing = 0
    BY <2>3, <2>4
  <2> QED
    BY <2>2, <2>5 DEF z
<1> QED
  BY <1>2, <1>7, <1>8, <1>9, <1>10, <1>11

\* The driver, the DMA and the semaphores agree for every size of the rings and any number
\* of writers, whatever comes in and whenever the handler runs (ethhandler, ethread,
\* ethwrite).
THEOREM RingsAreExact == EthSpec => []RingsExact
<1>1. ethinit => EthInv
  BY EthStart DEF EthInv
<1> QED
  BY <1>1, EthStep, EthInvExact, PTL DEF EthSpec

===============================================================================
