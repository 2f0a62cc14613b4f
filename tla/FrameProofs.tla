------------------------------ MODULE FrameProofs ------------------------------
(***************************************************************************)
(* The paging structures agree with each other: the inverted page table     *)
(* with the page tables, the replacement FIFO with both, the backing stores *)
(* with the processes and the use counts with the transfers in progress.    *)
(*                                                                          *)
(* It begins with PrSemConsistent, and with it mutual exclusion on those    *)
(* structures, which holds for every program, every kill() and either       *)
(* replacement policy.  PrSemConsistent is inductive once it is joined with *)
(* the facts that make its terms well typed (SemTypeOK).  The one subtle    *)
(* part of those is that a kill() in progress names a process: sendBs()     *)
(* kills the owner of the frame it cannot save, and that owner is a process *)
(* because page frames in use are owned by processes.                       *)
(*                                                                          *)
(* The rest holds for programs that are Orderly, whatever the numbers of    *)
(* processes, frames, stores and pages.  Each conjunct of Orderly is needed *)
(* by the code: a process that strays past its heap, or is killed by        *)
(* another, makes the handler call kill() while it holds prSem; with heaps  *)
(* of two sizes the address another process left in CR2 may lie past the    *)
(* heap of the process being served; and a creator that exits takes the     *)
(* directories of its children with it.                                     *)
(***************************************************************************)
EXTENDS Paging, QueueProofs, FiniteSetTheorems

-------------------------------------------------------------------------------
\* Who is in the critical section of prSem.

KillPC == {"kill", "lkill", "killq", "killw", "killr", "killd"}

SemTypeOK ==
    /\ pc \in [Proc -> PC]
    /\ cur \in Proc \cup {NULLPROC}
    /\ prSem \in [count : Int, queue : Seq(Proc)]
    /\ victim \in [Proc -> Proc \cup {NoProc}]
    /\ \A p \in Proc : pc[p] \in KillPC => victim[p] \in Proc
    /\ DOMAIN frametab = Frame
    /\ \A f \in PageFrame : frametab[f].type # "FREE" => frametab[f].pid \in Proc

SemInv == SemTypeOK /\ PrSemConsistent

-------------------------------------------------------------------------------

\* A step of p that leaves prSem alone and neither enters nor leaves the critical
\* section nor the queue keeps the semaphore consistent.
LEMMA QuietStep ==
    ASSUME SemInv, NEW p \in Proc, NEW s \in PC,
           pc' = [pc EXCEPT ![p] = s], UNCHANGED prSem,
           pc[p] \in Critical <=> s \in Critical,
           pc[p] \notin Waiting, s \notin Waiting
    PROVE  PrSemConsistent'
<1> USE DEF SemInv, SemTypeOK
<1>1. \A q \in Proc : InCritical(q)' <=> InCritical(q)
  BY DEF InCritical
<1>2. \A q \in Proc : pc'[q] \in Waiting <=> pc[q] \in Waiting
  OBVIOUS
<1> QED
  BY <1>1, <1>2 DEF PrSemConsistent, MutualExclusion

\* A process outside the critical section, or one that calls kill() from inside it, may
\* wait for prSem: it gets it only when nobody holds it.
LEMMA WaitStep ==
    ASSUME SemInv, NEW p \in Proc, NEW granted \in Critical, NEW blocked \in Waiting,
           pc[p] \notin Waiting, wait(p, granted, blocked)
    PROVE  /\ PrSemConsistent'
           /\ prSem' \in [count : Int, queue : Seq(Proc)]
           /\ pc' \in [Proc -> PC]
           /\ \A q \in Proc : q # p => pc'[q] = pc[q]
           /\ pc'[p] \in {granted, blocked}
           /\ cur' \in Proc \cup {NULLPROC}
<1>t. /\ pc \in [Proc -> PC]
      /\ prSem \in [count : Int, queue : Seq(Proc)]
      /\ cur \in Proc \cup {NULLPROC}
      /\ PrSemConsistent
  BY DEF SemInv, SemTypeOK
<1> USE <1>t
<1> DEFINE Q == prSem.queue
<1>0. /\ granted \in PC /\ blocked \in PC
      /\ granted \notin Waiting /\ blocked \notin Critical
  BY DEF PC, Critical, Waiting
<1>1. CASE prSem.count > 0
  <2>1. /\ prSem' = [prSem EXCEPT !.count = @ - 1]
        /\ pc' = [pc EXCEPT ![p] = granted]
        /\ UNCHANGED <<cur, tlb>>
    BY <1>1 DEF wait
  <2>2. prSem.count = 1 /\ prSem'.count = 0 /\ prSem'.queue = Q /\ Len(Q) = 0
    BY <1>1, <2>1 DEF PrSemConsistent
  <2>3. \A q \in Proc : ~InCritical(q)
    BY <2>2 DEF PrSemConsistent
  <2>4. MutualExclusion'
    BY <2>1, <2>3 DEF MutualExclusion, InCritical
  <2>5. \A q \in Proc : pc'[q] \in Waiting <=> pc[q] \in Waiting
    BY <1>0, <2>1
  <2>6. prSem' \in [count : Int, queue : Seq(Proc)] /\ pc' \in [Proc -> PC]
    BY <1>0, <2>1
  <2>7. PrSemConsistent'
    <3>1. Len(prSem'.queue) = IF prSem'.count = 1 THEN 0 ELSE 0 - prSem'.count
      <4>1. prSem'.count = 0 /\ Len(prSem'.queue) = 0
        BY <2>2
      <4> QED
        BY <4>1
    <3>2. \A i, j \in 1..Len(prSem'.queue) : prSem'.queue[i] = prSem'.queue[j] => i = j
      BY <2>2
    <3>3. \A q \in Proc : pc'[q] \in Waiting
                             <=> \E i \in 1..Len(prSem'.queue) : prSem'.queue[i] = q
      BY <2>2, <2>5 DEF PrSemConsistent
    <3> QED
      BY <2>2, <2>4, <3>1, <3>2, <3>3 DEF PrSemConsistent
  <2> QED
    BY <1>0, <2>1, <2>6, <2>7
<1>2. CASE ~(prSem.count > 0)
  <2>1. /\ prSem' = [count |-> prSem.count - 1, queue |-> Append(Q, p)]
        /\ pc' = [pc EXCEPT ![p] = blocked]
        /\ cur' = NULLPROC
    BY <1>2 DEF wait, resched
  <2>2. /\ Append(Q, p) \in Seq(Proc)
        /\ Len(Append(Q, p)) = Len(Q) + 1
        /\ \A i \in 1..Len(Q) : Append(Q, p)[i] = Q[i]
        /\ Append(Q, p)[Len(Q) + 1] = p
        /\ Len(Q) \in Nat
    BY AppendProperties, LenProperties
  <2>3. prSem.count <= 0 /\ prSem'.count = prSem.count - 1 /\ prSem'.queue = Append(Q, p)
    BY <1>2, <2>1
  <2>4. Len(Q) = 0 - prSem.count
    BY <2>3 DEF PrSemConsistent
  <2>5. MutualExclusion'
    BY <1>0, <2>1 DEF MutualExclusion, InCritical, PrSemConsistent
  <2>6. \A i \in 1..Len(Q) : Q[i] # p
    BY DEF PrSemConsistent
  <2>7. \A i, j \in 1..Len(prSem'.queue) : prSem'.queue[i] = prSem'.queue[j] => i = j
    <3>1. \A i, j \in 1..Len(Q) : Q[i] = Q[j] => i = j
      BY DEF PrSemConsistent
    <3>2. SUFFICES ASSUME NEW i \in 1..(Len(Q) + 1), NEW j \in 1..(Len(Q) + 1),
                          Append(Q, p)[i] = Append(Q, p)[j]
                   PROVE  i = j
      BY <2>2, <2>3
    <3> HIDE DEF Q
    <3>3. i \in 1..Len(Q) \/ i = Len(Q) + 1
      BY <2>2
    <3>4. j \in 1..Len(Q) \/ j = Len(Q) + 1
      BY <2>2
    <3> QED
      BY <2>2, <2>6, <3>1, <3>2, <3>3, <3>4
  <2>8. \A q \in Proc : pc'[q] \in Waiting
                          <=> \E i \in 1..Len(prSem'.queue) : prSem'.queue[i] = q
    <3>1. SUFFICES ASSUME NEW q \in Proc
                   PROVE  pc'[q] \in Waiting
                            <=> \E i \in 1..Len(Append(Q, p)) : Append(Q, p)[i] = q
      BY <2>3
    <3>2. CASE q = p
      BY <2>1, <2>2, <3>2
    <3>3. CASE q # p
      <4>1. pc'[q] \in Waiting <=> \E i \in 1..Len(Q) : Q[i] = q
        BY <2>1, <3>3 DEF PrSemConsistent
      <4> QED
        BY <2>2, <3>3, <4>1
    <3> QED
      BY <3>2, <3>3
  <2>9. Len(prSem'.queue) = IF prSem'.count = 1 THEN 0 ELSE 0 - prSem'.count
    BY <2>2, <2>3, <2>4
  <2>10. PrSemConsistent'
    <3>1. prSem'.count <= 1 /\ prSem'.count # 1
      BY <2>3
    <3> QED
      BY <2>5, <2>7, <2>8, <2>9, <3>1 DEF PrSemConsistent
  <2>11. prSem' \in [count : Int, queue : Seq(Proc)] /\ pc' \in [Proc -> PC]
    BY <1>0, <2>1, <2>2
  <2> QED
    BY <1>0, <2>1, <2>10, <2>11
<1> QED
  BY <1>1, <1>2

\* signal() by the holder hands prSem to the first process of the queue, or frees it.
LEMMA SignalStep ==
    ASSUME SemInv, NEW p \in Proc, NEW next \in PC,
           pc[p] \in Critical, next \notin Critical, next \notin Waiting,
           signal(p, next)
    PROVE  /\ PrSemConsistent'
           /\ prSem' \in [count : Int, queue : Seq(Proc)]
           /\ pc' \in [Proc -> PC]
           /\ pc'[p] = next
           /\ \A q \in Proc : q # p =>
                 \/ pc'[q] = pc[q]
                 \/ pc[q] = "queued" /\ pc'[q] = "enter"
                 \/ pc[q] = "killq" /\ pc'[q] = "killw"
<1>t. /\ pc \in [Proc -> PC]
      /\ prSem \in [count : Int, queue : Seq(Proc)]
      /\ cur \in Proc \cup {NULLPROC}
      /\ PrSemConsistent
  BY DEF SemInv, SemTypeOK
<1> USE <1>t
<1> DEFINE Q == prSem.queue
           h == Head(Q)
           woken == IF pc[h] = "queued" THEN "enter" ELSE "killw"
<1>0. pc[p] \notin Waiting
  BY DEF Critical, Waiting
<1>1. /\ \A q \in Proc : InCritical(q) => q = p
      /\ prSem.count # 1
  BY DEF PrSemConsistent, MutualExclusion, InCritical
<1>2. CASE prSem.count < 0
  <2>1. /\ prSem' = [count |-> prSem.count + 1, queue |-> Tail(Q)]
        /\ pc' = [pc EXCEPT ![p] = next, ![h] = woken]
    BY <1>2 DEF signal
  <2>2. Len(Q) = 0 - prSem.count /\ Len(Q) \in Nat /\ Q # << >>
    BY <1>2, LenProperties, EmptySeq DEF PrSemConsistent
  <2>3. /\ h \in Proc /\ h = Q[1]
        /\ Tail(Q) \in Seq(Proc)
        /\ Len(Tail(Q)) = Len(Q) - 1
        /\ \A i \in 1..Len(Tail(Q)) : Tail(Q)[i] = Q[i + 1]
    BY <2>2, HeadTailProperties
  <2>4. pc[h] \in Waiting /\ h # p
    BY <1>0, <1>2, <2>2, <2>3 DEF PrSemConsistent
  <2>5. /\ \A q \in Proc : q # p /\ q # h => pc'[q] = pc[q]
        /\ pc'[p] = next
        /\ pc'[h] = woken
        /\ pc' \in [Proc -> PC]
    BY <2>1, <2>3, <2>4 DEF PC, Critical
  <2>6. woken \in Critical /\ woken \notin Waiting
    BY DEF Critical, Waiting
  <2> HIDE DEF woken, h
  <2>7. MutualExclusion'
    BY <1>1, <2>5 DEF MutualExclusion, InCritical
  <2>8. \A i, j \in 1..Len(Tail(Q)) : Tail(Q)[i] = Tail(Q)[j] => i = j
    <3>1. \A i, j \in 1..Len(Q) : Q[i] = Q[j] => i = j
      BY DEF PrSemConsistent
    <3>2. SUFFICES ASSUME NEW i \in 1..Len(Tail(Q)), NEW j \in 1..Len(Tail(Q)),
                          Tail(Q)[i] = Tail(Q)[j]
                   PROVE  i = j
      OBVIOUS
    <3>3. i + 1 \in 1..Len(Q) /\ j + 1 \in 1..Len(Q) /\ Q[i + 1] = Q[j + 1]
      BY <2>2, <2>3, <3>2
    <3> QED
      BY <3>1, <3>3
  <2>9. ASSUME NEW q \in Proc
        PROVE  pc'[q] \in Waiting <=> \E i \in 1..Len(Tail(Q)) : Tail(Q)[i] = q
    <3>1. CASE q = p
      BY <1>0, <2>2, <2>3, <2>5, <3>1 DEF PrSemConsistent
    <3>2. CASE q = h
      <4>1. \A i \in 1..Len(Tail(Q)) : Tail(Q)[i] # h
        BY <2>2, <2>3 DEF PrSemConsistent
      <4> QED
        BY <2>5, <2>6, <3>2, <4>1
    <3>3. CASE q # p /\ q # h
      <4>1. pc'[q] \in Waiting <=> \E i \in 1..Len(Q) : Q[i] = q
        BY <2>5, <3>3 DEF PrSemConsistent
      <4>2. ASSUME NEW i \in 1..Len(Q), Q[i] = q
            PROVE  \E j \in 1..Len(Tail(Q)) : Tail(Q)[j] = q
        <5>1. i # 1
          BY <2>3, <3>3, <4>2
        <5>2. i - 1 \in 1..Len(Tail(Q)) /\ Tail(Q)[i - 1] = q
          BY <2>2, <2>3, <4>2, <5>1
        <5> QED
          BY <5>2
      <4>3. ASSUME NEW i \in 1..Len(Tail(Q)), Tail(Q)[i] = q
            PROVE  \E j \in 1..Len(Q) : Q[j] = q
        BY <2>2, <2>3, <4>3
      <4> QED
        BY <4>1, <4>2, <4>3
    <3> QED
      BY <3>1, <3>2, <3>3
  <2>10. /\ prSem'.count <= 0
         /\ prSem'.queue = Tail(Q)
         /\ Len(Tail(Q)) = 0 - prSem'.count
         /\ prSem' \in [count : Int, queue : Seq(Proc)]
    BY <1>2, <2>1, <2>2, <2>3
  <2>11. PrSemConsistent'
    <3>1. /\ prSem'.count <= 1 /\ prSem'.count # 1
          /\ Len(prSem'.queue) = 0 - prSem'.count
      BY <2>10
    <3>2. /\ \A i, j \in 1..Len(prSem'.queue) : prSem'.queue[i] = prSem'.queue[j] => i = j
          /\ \A q \in Proc : pc'[q] \in Waiting
                                 <=> \E i \in 1..Len(prSem'.queue) : prSem'.queue[i] = q
      BY <2>8, <2>9, <2>10
    <3> QED
      BY <2>7, <3>1, <3>2 DEF PrSemConsistent
  <2>12. \/ pc[h] = "queued" /\ pc'[h] = "enter"
         \/ pc[h] = "killq" /\ pc'[h] = "killw"
    BY <2>4, <2>5 DEF woken, Waiting
  <2> QED
    BY <2>5, <2>10, <2>11, <2>12
<1>3. CASE ~(prSem.count < 0)
  <2>1. prSem' = [prSem EXCEPT !.count = @ + 1] /\ pc' = [pc EXCEPT ![p] = next]
    BY <1>3 DEF signal
  <2>2. prSem.count = 0 /\ prSem'.count = 1 /\ prSem'.queue = Q /\ Len(Q) = 0
    BY <1>1, <1>3, <2>1 DEF PrSemConsistent
  <2>3. \A q \in Proc : ~InCritical(q)'
    BY <1>1, <2>1 DEF InCritical
  <2>4. \A q \in Proc : pc'[q] \in Waiting <=> pc[q] \in Waiting
    BY <1>0, <2>1
  <2>5. PrSemConsistent'
    BY <2>2, <2>3, <2>4 DEF PrSemConsistent, MutualExclusion
  <2>6. prSem' \in [count : Int, queue : Seq(Proc)] /\ pc' \in [Proc -> PC]
    BY <2>1
  <2>7. pc'[p] = next /\ \A q \in Proc : q # p => pc'[q] = pc[q]
    BY <2>1
  <2> QED
    BY <2>5, <2>6, <2>7
<1> QED
  BY <1>2, <1>3

-------------------------------------------------------------------------------

\* A page frame in use belongs to a process, whatever one frame is set to.
LEMMA FrameSet ==
    ASSUME SemTypeOK, NEW f, NEW r,
           frametab' = [frametab EXCEPT ![f] = r],
           f \in PageFrame => r.type = "FREE" \/ r.pid \in Proc
    PROVE  /\ DOMAIN frametab' = Frame
           /\ \A g \in PageFrame : frametab'[g].type # "FREE" => frametab'[g].pid \in Proc
BY DEF SemTypeOK, PageFrame, Frame

LEMMA FrameKinds ==
    /\ PageFrame \subseteq Frame
    /\ DSFrame \subseteq Frame
    /\ \A f \in DSFrame : f \notin PageFrame
BY SizeAssumption DEF PageFrame, Frame, DSFrame

THEOREM SemInit == Init => SemInv
<1> SUFFICES ASSUME Init PROVE SemInv
  OBVIOUS
<1> USE DEF Init
<1>1. pc \in [Proc -> PC]
  BY DEF PC, Critical, Waiting, Dead
<1>2. \A p \in Proc : pc[p] \notin Critical /\ pc[p] \notin Waiting /\ pc[p] \notin KillPC
  BY DEF Critical, Waiting, KillPC
<1>3. prSem \in [count : Int, queue : Seq(Proc)] /\ Len(prSem.queue) = 0
  BY EmptySeq
<1>4. \A f \in PageFrame : frametab[f].type = "FREE"
  <2>1. \A f \in PageFrame : f \in Frame /\ f # 0
    BY SizeAssumption DEF PageFrame, Frame
  <2> QED
    BY <2>1 DEF FreeFrame
<1>5. SemTypeOK
  BY <1>1, <1>2, <1>3, <1>4, ProcAssumption DEF SemTypeOK
<1>6. PrSemConsistent
  BY <1>2, <1>3 DEF PrSemConsistent, MutualExclusion, InCritical
<1> QED
  BY <1>5, <1>6 DEF SemInv

\* The part of SemTypeOK about the frame table.
FramesOwned ==
    /\ DOMAIN frametab = Frame
    /\ \A f \in PageFrame : frametab[f].type # "FREE" => frametab[f].pid \in Proc

\* Steps that move p without touching prSem: p keeps its kill() target, or gets one.
LEMMA QuietInv ==
    ASSUME SemInv, NEW p \in Proc, NEW s \in PC,
           pc' = [pc EXCEPT ![p] = s], UNCHANGED <<prSem, cur>>,
           pc[p] \in Critical <=> s \in Critical,
           pc[p] \notin Waiting, s \notin Waiting,
           \/ UNCHANGED victim /\ s \notin KillPC
           \/ \E t \in Proc : victim' = [victim EXCEPT ![p] = t],
           FramesOwned'
    PROVE  SemInv'
<1>1. PrSemConsistent'
  BY QuietStep
<1>2. pc' \in [Proc -> PC] /\ victim' \in [Proc -> Proc \cup {NoProc}]
  BY DEF SemInv, SemTypeOK
<1>3. \A q \in Proc : pc'[q] \in KillPC => victim'[q] \in Proc
  BY DEF SemInv, SemTypeOK
<1> QED
  BY <1>1, <1>2, <1>3 DEF SemInv, SemTypeOK, FramesOwned

\* Steps that leave the program counters alone.
LEMMA StillInv ==
    ASSUME SemInv, UNCHANGED <<pc, prSem, victim>>, cur' \in Proc \cup {NULLPROC}, FramesOwned'
    PROVE  SemInv'
BY DEF SemInv, SemTypeOK, FramesOwned, PrSemConsistent, MutualExclusion, InCritical

\* Steps that end with signal(prSem).
LEMMA SignalInv ==
    ASSUME SemInv, NEW p \in Proc, NEW next \in {"user", "killr", "killd"},
           pc[p] \in Critical, next # "user" => pc[p] = "killw",
           signal(p, next), UNCHANGED <<cur, victim>>, FramesOwned'
    PROVE  SemInv'
<1>1. next \in PC /\ next \notin Critical /\ next \notin Waiting
  BY DEF PC, Critical, Waiting
<1>2. /\ PrSemConsistent'
      /\ prSem' \in [count : Int, queue : Seq(Proc)]
      /\ pc' \in [Proc -> PC]
      /\ pc'[p] = next
      /\ \A q \in Proc : q # p =>
            \/ pc'[q] = pc[q]
            \/ pc[q] = "queued" /\ pc'[q] = "enter"
            \/ pc[q] = "killq" /\ pc'[q] = "killw"
  BY <1>1, SignalStep
<1>3. \A q \in Proc : pc'[q] \in KillPC => victim'[q] \in Proc
  BY <1>2 DEF SemInv, SemTypeOK, KillPC
<1> QED
  BY <1>2, <1>3 DEF SemInv, SemTypeOK, FramesOwned

\* The fault and the kill() paths that wait for prSem.
LEMMA WaitInv ==
    ASSUME SemInv, NEW p \in Proc,
           NEW granted \in {"enter", "killw"}, NEW blocked \in {"queued", "killq"},
           pc[p] \notin Waiting,
           granted = "killw" \/ blocked = "killq" => pc[p] \in KillPC,
           wait(p, granted, blocked), UNCHANGED victim, FramesOwned'
    PROVE  SemInv'
<1>1. granted \in Critical /\ blocked \in Waiting
  BY DEF Critical, Waiting
<1>2. /\ PrSemConsistent'
      /\ prSem' \in [count : Int, queue : Seq(Proc)]
      /\ pc' \in [Proc -> PC]
      /\ \A q \in Proc : q # p => pc'[q] = pc[q]
      /\ pc'[p] \in {granted, blocked}
      /\ cur' \in Proc \cup {NULLPROC}
  BY <1>1, WaitStep
<1>3. \A q \in Proc : pc'[q] \in KillPC => victim'[q] \in Proc
  BY <1>2 DEF SemInv, SemTypeOK, KillPC
<1> QED
  BY <1>2, <1>3 DEF SemInv, SemTypeOK, FramesOwned

\* The end of kill(): the target disappears, from the queue too if it waited.
LEMMA KillDoneInv ==
    ASSUME SemInv, NEW p \in Proc, killDone(p)
    PROVE  SemInv'
<1> DEFINE t == victim[p]
           Q == prSem.queue
<1>t. /\ pc \in [Proc -> PC]
      /\ prSem \in [count : Int, queue : Seq(Proc)]
      /\ cur \in Proc \cup {NULLPROC}
      /\ victim \in [Proc -> Proc \cup {NoProc}]
      /\ \A q \in Proc : pc[q] \in KillPC => victim[q] \in Proc
      /\ PrSemConsistent
  BY DEF SemInv, SemTypeOK
<1> USE <1>t
<1>1. t \in Proc /\ pc[p] \in {"killr", "killd"} /\ pc[p] \notin Critical /\ pc[p] \notin Waiting
  BY DEF killDone, KillPC, Critical, Waiting
<1>2. /\ victim' = [victim EXCEPT ![p] = NoProc, ![t] = NoProc]
      /\ cur' \in Proc \cup {NULLPROC}
      /\ UNCHANGED frametab
  BY DEF killDone, resched, frameVars
<1>3. /\ pc' \in [Proc -> PC]
      /\ pc'[t] = "free"
      /\ pc'[p] \in {"free", "user"}
      /\ \A q \in Proc : q # p /\ q # t => pc'[q] = pc[q]
  BY <1>1 DEF killDone, PC, Dead
<1> HIDE DEF t
<1>4. \A q \in Proc : pc'[q] \in KillPC => victim'[q] \in Proc
  BY <1>1, <1>2, <1>3 DEF KillPC
<1>5. MutualExclusion' /\ \A q \in Proc : InCritical(q)' => InCritical(q)
  <2>1. \A q \in Proc : InCritical(q)' => InCritical(q)
    BY <1>1, <1>3 DEF InCritical, Critical
  <2> QED
    BY <2>1 DEF MutualExclusion, PrSemConsistent
<1>6. \A q \in Proc : pc'[q] \in Waiting <=> pc[q] \in Waiting /\ q # t
  BY <1>1, <1>3 DEF Waiting
<1>7. CASE pc[t] \in Waiting
  <2>1. prSem' = [count |-> prSem.count + 1, queue |-> Unlink(Q, t)]
    BY <1>7 DEF killDone, t
  <2>2. \E i \in 1..Len(Q) : Q[i] = t
    BY <1>1, <1>7 DEF PrSemConsistent
  <2>3. /\ Unlink(Q, t) \in Seq(Proc)
        /\ Len(Unlink(Q, t)) = Len(Q) - 1
        /\ \A i, j \in 1..Len(Unlink(Q, t)) : Unlink(Q, t)[i] = Unlink(Q, t)[j] => i = j
        /\ \A y \in Proc : (\E i \in 1..Len(Unlink(Q, t)) : Unlink(Q, t)[i] = y)
                             <=> y # t /\ \E i \in 1..Len(Q) : Q[i] = y
    <3>1. \A i, j \in 1..Len(Q) : Q[i] = Q[j] => i = j
      BY DEF PrSemConsistent
    <3>2. Once(Q) /\ On(t, Q)
      BY <2>2, <3>1 DEF Once, On
    <3>3. /\ Unlink(Q, t) \in Seq(Proc)
          /\ Len(Unlink(Q, t)) = Len(Q) - 1
          /\ Once(Unlink(Q, t))
          /\ \A y \in Proc : On(y, Unlink(Q, t)) <=> y # t /\ On(y, Q)
      BY <1>1, <3>2, UnlinkProperties
    <3> QED
      BY <3>3 DEF Once, On
  <2>4. Len(Q) \in Nat /\ Len(Q) # 0
    BY <2>2, LenProperties
  <2>5. prSem.count <= 0 /\ Len(Q) = 0 - prSem.count
    BY <2>4 DEF PrSemConsistent
  <2>6. /\ prSem'.count <= 0 /\ prSem'.queue = Unlink(Q, t)
        /\ Len(prSem'.queue) = 0 - prSem'.count
        /\ prSem' \in [count : Int, queue : Seq(Proc)]
    BY <2>1, <2>3, <2>4, <2>5
  <2>7. \A q \in Proc : pc'[q] \in Waiting
                          <=> \E i \in 1..Len(prSem'.queue) : prSem'.queue[i] = q
    <3>1. \A q \in Proc : pc[q] \in Waiting <=> On(q, Q)
      BY DEF PrSemConsistent, On
    <3>2. \A q \in Proc : On(q, Unlink(Q, t)) <=> q # t /\ On(q, Q)
      BY <2>3 DEF On
    <3>3. \A q \in Proc : pc'[q] \in Waiting <=> On(q, prSem'.queue)
      BY <1>6, <2>6, <3>1, <3>2
    <3> QED
      BY <3>3 DEF On
  <2>8. \A i, j \in 1..Len(prSem'.queue) : prSem'.queue[i] = prSem'.queue[j] => i = j
    BY <2>3, <2>6
  <2>9. PrSemConsistent'
    <3>1. prSem'.count <= 1 /\ prSem'.count # 1
      BY <2>6
    <3> QED
      BY <1>5, <2>6, <2>7, <2>8, <3>1 DEF PrSemConsistent
  <2> QED
    BY <1>2, <1>3, <1>4, <2>6, <2>9 DEF SemInv, SemTypeOK
<1>8. CASE pc[t] \notin Waiting
  <2>1. prSem' = prSem
    BY <1>8 DEF killDone, t
  <2>2. \A q \in Proc : pc'[q] \in Waiting <=> pc[q] \in Waiting
    BY <1>6, <1>8
  <2>3. PrSemConsistent'
    BY <1>5, <2>1, <2>2 DEF PrSemConsistent
  <2> QED
    BY <1>2, <1>3, <1>4, <2>1, <2>3 DEF SemInv, SemTypeOK
<1> QED
  BY <1>7, <1>8

-------------------------------------------------------------------------------

\* Every step keeps SemInv: one step per action.
THEOREM SemNext == SemInv /\ [Next]_vars => SemInv'
<1> SUFFICES ASSUME SemInv, [Next]_vars PROVE SemInv'
  OBVIOUS
<1>t. SemTypeOK /\ FramesOwned
  BY DEF SemInv, SemTypeOK, FramesOwned
<1>c. /\ \A p \in Proc : pc[p] \in PC
      /\ cur \in Proc \cup {NULLPROC}
  BY <1>t DEF SemTypeOK
<1>f. UNCHANGED frametab => FramesOwned'
  BY <1>t DEF FramesOwned
<1>s. ASSUME NEW f, NEW r, frametab' = [frametab EXCEPT ![f] = r],
             f \in PageFrame => r.type = "FREE" \/ r.pid \in Proc
      PROVE  FramesOwned'
  BY <1>t, <1>s, FrameSet DEF FramesOwned
<1>1. ASSUME NEW p \in Proc \cup {NULLPROC}, Switch(p)
      PROVE  SemInv'
  <2>1. UNCHANGED <<pc, prSem, victim, frametab>> /\ cur' \in Proc \cup {NULLPROC}
    BY <1>1 DEF Switch, frameVars
  <2> QED
    BY <1>f, <2>1, StillInv
<1>2. ASSUME NEW caller \in Proc, NEW p \in Proc, NEW n \in Sizes, vcreate(caller, p, n)
      PROVE  SemInv'
  <2>1. UNCHANGED <<cur, prSem, victim>> /\ pc[p] = "free"
    BY <1>2 DEF vcreate
  <2>2. PICK s \in {"user", "zombie"} : pc' = [pc EXCEPT ![p] = s]
    BY <1>2 DEF vcreate, addMapping
  <2>3. FramesOwned'
    <3>1. CASE \E f \in DSFrame : getPD(caller, f)
      <4>1. PICK f \in DSFrame : getPD(caller, f)
        BY <3>1
      <4>2. f \notin PageFrame
        BY FrameKinds
      <4> QED
        BY <1>s, <4>1, <4>2 DEF getPD
    <3>2. CASE UNCHANGED frametab
      BY <1>f, <3>2
    <3> QED
      BY <1>2, <3>1, <3>2 DEF vcreate
  <2>4. s \in PC /\ s \notin Critical /\ s \notin Waiting /\ s \notin KillPC
    BY DEF PC, Critical, Waiting, Dead, KillPC
  <2>5. pc[p] \notin Critical /\ pc[p] \notin Waiting
    BY <2>1 DEF Critical, Waiting
  <2> QED
    BY <2>1, <2>2, <2>3, <2>4, <2>5, QuietInv
<1>3. ASSUME NEW p \in Proc, NEW t \in Proc, kill(p, t)
      PROVE  SemInv'
  <2>1. /\ pc[p] = "user" /\ UNCHANGED <<prSem, cur, frametab>>
        /\ pc' = [pc EXCEPT ![p] = "kill"]
        /\ victim' = [victim EXCEPT ![p] = t]
    BY <1>3 DEF kill, CallKill, frameVars
  <2>2. "kill" \in PC /\ "kill" \notin Critical /\ "kill" \notin Waiting
    BY DEF PC, Critical, Waiting
  <2>3. pc[p] \notin Critical /\ pc[p] \notin Waiting
    BY <2>1 DEF Critical, Waiting
  <2> QED
    BY <1>f, <2>1, <2>2, <2>3, QuietInv
<1>4. ASSUME NEW p \in Proc, NEW a \in Address, Read(p, a)
      PROVE  SemInv'
  <2>1. UNCHANGED <<pc, cur, prSem, victim, frametab>>
    BY <1>4 DEF Read, procVars, frameVars
  <2> QED
    BY <1>c, <1>f, <2>1, StillInv
<1>5. ASSUME NEW p \in Proc, NEW a \in Address, NEW x, Write(p, a, x)
      PROVE  SemInv'
  <2>1. UNCHANGED <<pc, cur, prSem, victim, frametab>>
    BY <1>5 DEF Write, procVars, frameVars
  <2> QED
    BY <1>c, <1>f, <2>1, StillInv
<1>6. ASSUME NEW p \in Proc, NEW a \in Address, Fault(p, a)
      PROVE  SemInv'
  <2>1. /\ pc[p] = "user" /\ UNCHANGED <<victim, frametab>>
        /\ wait(p, "enter", "queued")
    BY <1>6 DEF Fault, MayTouch, frameVars
  <2>2. pc[p] \notin Waiting
    BY <2>1 DEF Waiting
  <2> QED
    BY <1>f, <2>1, <2>2, WaitInv
\* From here on p holds prSem.  Quiet(p, s): it goes on to s, still holding it.
<1> DEFINE Quiet(p, s) == pc' = [pc EXCEPT ![p] = s] /\ UNCHANGED <<prSem, cur>>
<1>q. ASSUME NEW p \in Proc, NEW s \in Critical, pc[p] \in Critical, Quiet(p, s),
             \/ UNCHANGED victim /\ s \notin KillPC
             \/ \E t \in Proc : victim' = [victim EXCEPT ![p] = t],
             FramesOwned'
      PROVE  SemInv'
  <2>1. s \in PC /\ s \notin Waiting /\ pc[p] \notin Waiting
    BY <1>q DEF PC, Critical, Waiting
  <2> QED
    BY <1>q, <2>1, QuietInv
<1>k. /\ {"alloc", "lost", "assign", "evict", "copied", "load"} \subseteq Critical
      /\ {"alloc", "lost", "assign", "evict", "copied", "load"} \cap KillPC = {}
      /\ {"enter", "lkill", "killw"} \subseteq Critical
  BY DEF Critical, KillPC
<1>7. ASSUME NEW p \in Proc, pfhandlerOutOfRange(p)
      PROVE  SemInv'
  <2>1. /\ pc[p] \in Critical /\ Quiet(p, "lkill") /\ UNCHANGED frametab
        /\ victim' = [victim EXCEPT ![p] = p]
    BY <1>7, <1>k DEF pfhandlerOutOfRange, CallKill, frameVars
  <2> HIDE DEF Quiet
  <2> QED
    BY <1>f, <1>k, <1>q, <2>1
<1>8. ASSUME NEW p \in Proc, pfhandlerNewTable(p)
      PROVE  SemInv'
  <2>1. pc[p] \in Critical /\ UNCHANGED victim
    BY <1>8, <1>k DEF pfhandlerNewTable
  <2>2. PICK s \in {"alloc", "lost"} : Quiet(p, s)
    BY <1>8 DEF pfhandlerNewTable
  <2>3. FramesOwned'
    <3>1. CASE \E f \in DSFrame : getPT(p, f)
      <4>1. PICK f \in DSFrame : getPT(p, f)
        BY <3>1
      <4>2. f \notin PageFrame
        BY FrameKinds
      <4> QED
        BY <1>s, <4>1, <4>2 DEF getPT
    <3>2. CASE UNCHANGED frametab
      BY <1>f, <3>2
    <3> QED
      BY <1>8, <3>1, <3>2 DEF pfhandlerNewTable
  <2> HIDE DEF Quiet
  <2>4. s \in Critical /\ s \notin KillPC
    BY <1>k
  <2> QED
    BY <1>q, <2>1, <2>2, <2>3, <2>4
<1>9. ASSUME NEW p \in Proc, pfhandlerNewPage(p)
      PROVE  SemInv'
  <2>1. /\ pc[p] \in Critical /\ Quiet(p, "alloc") /\ UNCHANGED <<frametab, victim>>
    BY <1>9, <1>k DEF pfhandlerNewPage, frameVars
  <2>2. "alloc" \in Critical /\ "alloc" \notin KillPC
    BY <1>k
  <2> HIDE DEF Quiet
  <2> QED
    BY <1>f, <1>q, <2>1, <2>2
\* The actions that end the service of the fault.
<1>10. ASSUME NEW p \in Proc, pfhandlerNothing(p)
       PROVE  SemInv'
  <2>1. /\ pc[p] \in Critical /\ signal(p, "user") /\ UNCHANGED <<cur, victim, frametab>>
    BY <1>10, <1>k DEF pfhandlerNothing, Leave, frameVars
  <2> QED
    BY <1>f, <2>1, SignalInv
<1>11. ASSUME NEW p \in Proc, getPFrameFree(p)
       PROVE  SemInv'
  <2>1. /\ pc[p] \in Critical /\ signal(p, "user") /\ UNCHANGED <<cur, victim>>
    BY <1>11, <1>k DEF getPFrameFree, Install, Leave
  <2>2. PICK f \in PageFrame :
           frametab' = [frametab EXCEPT ![f] = [type |-> "PG", pid |-> p, vpn |-> job[p].vpn]]
    BY <1>11 DEF getPFrameFree
  <2>3. FramesOwned'
    BY <1>s, <2>2
  <2> QED
    BY <2>1, <2>3, SignalInv
<1>12. ASSUME NEW p \in Proc, assignFresh(p)
       PROVE  SemInv'
  <2>1. /\ pc[p] \in Critical /\ signal(p, "user") /\ UNCHANGED <<cur, victim>>
    BY <1>12, <1>k DEF assignFresh, Install, Leave
  <2>2. frametab' = [frametab EXCEPT ![job[p].frame] =
                        [type |-> "PG", pid |-> p, vpn |-> job[p].vpn]]
    BY <1>12 DEF assignFresh
  <2>3. FramesOwned'
    BY <1>s, <2>2
  <2> QED
    BY <2>1, <2>3, SignalInv
<1>13. ASSUME NEW p \in Proc, getBsDone(p)
       PROVE  SemInv'
  <2>1. /\ pc[p] \in Critical /\ signal(p, "user") /\ UNCHANGED <<cur, victim, frametab>>
    BY <1>13, <1>k DEF getBsDone, Install, Leave
  <2> QED
    BY <1>f, <2>1, SignalInv
\* The actions between.
<1>14. ASSUME NEW p \in Proc, removeClean(p)
       PROVE  SemInv'
  <2>1. pc[p] \in Critical /\ Quiet(p, "assign") /\ UNCHANGED victim
    BY <1>14, <1>k DEF removeClean
  <2>2. PICK f \in PageFrame : frametab' = [frametab EXCEPT ![f] = FreeFrame]
    BY <1>14 DEF removeClean
  <2>3. FramesOwned'
    BY <1>s, <2>2 DEF FreeFrame
  <2>4. "assign" \in Critical /\ "assign" \notin KillPC
    BY <1>k
  <2> HIDE DEF Quiet
  <2> QED
    BY <1>q, <2>1, <2>3, <2>4
<1>26. ASSUME NEW p \in Proc, removeAstray(p)
       PROVE  SemInv'
  <2>1. /\ pc[p] \in Critical /\ Quiet(p, "lost") /\ UNCHANGED <<frametab, victim>>
    BY <1>26, <1>k DEF removeAstray
  <2>2. "lost" \in Critical /\ "lost" \notin KillPC
    BY <1>k
  <2> HIDE DEF Quiet
  <2> QED
    BY <1>f, <1>q, <2>1, <2>2
<1>15. ASSUME NEW p \in Proc, removeDirty(p)
       PROVE  SemInv'
  <2>1. pc[p] \in Critical /\ UNCHANGED <<prSem, cur, frametab>>
    BY <1>15, <1>k DEF removeDirty
  <2>2. PICK f \in PageFrame :
           \/ pc' = [pc EXCEPT ![p] = "evict"] /\ UNCHANGED victim
           \/ CallKill(p, Owner(f), "lkill")
    BY <1>15 DEF removeDirty
  <2>3. Owner(f) \in Proc
    BY <1>15, <1>t DEF removeDirty, NoneFree, Owner, FramesOwned
  <2>4. CASE pc' = [pc EXCEPT ![p] = "evict"] /\ UNCHANGED victim
    <3>1. "evict" \in Critical /\ "evict" \notin KillPC
      BY <1>k
    <3>2. Quiet(p, "evict")
      BY <2>1, <2>4
    <3> HIDE DEF Quiet
    <3> QED
      BY <1>f, <1>q, <2>1, <2>4, <3>1, <3>2
  <2>5. CASE CallKill(p, Owner(f), "lkill")
    <3>1. Quiet(p, "lkill") /\ victim' = [victim EXCEPT ![p] = Owner(f)]
      BY <2>1, <2>5 DEF CallKill
    <3> HIDE DEF Quiet
    <3> QED
      BY <1>f, <1>k, <1>q, <2>1, <2>3, <3>1
  <2> QED
    BY <2>2, <2>4, <2>5
<1>16. ASSUME NEW p \in Proc, sendBsCopy(p)
       PROVE  SemInv'
  <2>1. /\ pc[p] \in Critical /\ Quiet(p, "copied") /\ UNCHANGED <<frametab, victim>>
    BY <1>16, <1>k DEF sendBsCopy, frameVars
  <2>2. "copied" \in Critical /\ "copied" \notin KillPC
    BY <1>k
  <2> HIDE DEF Quiet
  <2> QED
    BY <1>f, <1>q, <2>1, <2>2
<1>17. ASSUME NEW p \in Proc, sendBsDone(p)
       PROVE  SemInv'
  <2>1. /\ pc[p] \in Critical /\ Quiet(p, "assign") /\ UNCHANGED victim
        /\ frametab' = [frametab EXCEPT ![job[p].frame] = FreeFrame]
    BY <1>17, <1>k DEF sendBsDone
  <2>2. FramesOwned'
    BY <1>s, <2>1 DEF FreeFrame
  <2>3. "assign" \in Critical /\ "assign" \notin KillPC
    BY <1>k
  <2> HIDE DEF Quiet
  <2> QED
    BY <1>q, <2>1, <2>2, <2>3
<1>18. ASSUME NEW p \in Proc, assignStored(p)
       PROVE  SemInv'
  <2>1. /\ pc[p] \in Critical /\ UNCHANGED <<prSem, cur>>
        /\ frametab' = [frametab EXCEPT ![job[p].frame] =
                          [type |-> "PG", pid |-> p, vpn |-> job[p].vpn]]
        /\ \/ pc' = [pc EXCEPT ![p] = "load"] /\ UNCHANGED victim
           \/ CallKill(p, p, "lkill")
    BY <1>18, <1>k DEF assignStored
  <2>2. FramesOwned'
    BY <1>s, <2>1
  <2>3. CASE pc' = [pc EXCEPT ![p] = "load"] /\ UNCHANGED victim
    <3>1. "load" \in Critical /\ "load" \notin KillPC
      BY <1>k
    <3>2. Quiet(p, "load")
      BY <2>1, <2>3
    <3> HIDE DEF Quiet
    <3> QED
      BY <1>q, <2>1, <2>2, <2>3, <3>1, <3>2
  <2>4. CASE CallKill(p, p, "lkill")
    <3>1. Quiet(p, "lkill") /\ victim' = [victim EXCEPT ![p] = p]
      BY <2>1, <2>4 DEF CallKill
    <3> HIDE DEF Quiet
    <3> QED
      BY <1>k, <1>q, <2>1, <2>2, <3>1
  <2> QED
    BY <2>1, <2>3, <2>4
\* The steps of kill().
<1>19. ASSUME NEW p \in Proc, killWait(p)
       PROVE  SemInv'
  <2>1. /\ pc[p] \in {"kill", "lkill"} /\ UNCHANGED <<victim, frametab>>
        /\ wait(p, "killw", "killq")
    BY <1>19 DEF killWait, frameVars
  <2>2. pc[p] \notin Waiting /\ pc[p] \in KillPC
    BY <2>1 DEF Waiting, KillPC
  <2>3. FramesOwned'
    BY <1>f, <2>1
  <2> QED
    BY <2>1, <2>2, <2>3, WaitInv
<1>20. ASSUME NEW p \in Proc, freeFrames(p)
       PROVE  SemInv'
  <2>1. UNCHANGED <<pc, cur, prSem, victim>>
    BY <1>20 DEF freeFrames, procVars
  <2>2. PICK f : frametab' = [frametab EXCEPT ![f] = FreeFrame]
    BY <1>20 DEF freeFrames
  <2>3. FramesOwned'
    BY <1>s, <2>2 DEF FreeFrame
  <2> QED
    BY <1>c, <2>1, <2>3, StillInv
<1>21. ASSUME NEW p \in Proc, killUnmap(p)
       PROVE  SemInv'
  <2>1. /\ pc[p] = "killw" /\ UNCHANGED <<cur, victim, frametab>>
        /\ signal(p, IF prSem.count < 0 THEN "killr" ELSE "killd")
    BY <1>21 DEF killUnmap, frameVars
  <2>2. PICK next \in {"killr", "killd"} : signal(p, next)
    BY <2>1
  <2>3. pc[p] \in Critical /\ next \in {"user", "killr", "killd"}
    BY <1>k, <2>1
  <2> QED
    BY <1>f, <2>1, <2>2, <2>3, SignalInv
<1>22. ASSUME NEW p \in Proc, killDone(p)
       PROVE  SemInv'
  BY <1>22, KillDoneInv
<1>23. CASE UNCHANGED vars
  <2>1. UNCHANGED <<pc, cur, prSem, victim, frametab>>
    BY <1>23 DEF vars, procVars, frameVars
  <2> QED
    BY <1>c, <1>f, <2>1, StillInv
<1>24. ASSUME NEW p \in Proc, Handler(p)
       PROVE  SemInv'
  BY <1>7, <1>8, <1>9, <1>10, <1>11, <1>12, <1>13, <1>14, <1>15, <1>16, <1>17, <1>18, <1>24, <1>26
     DEF Handler
<1>25. ASSUME NEW p \in Proc, Killing(p)
       PROVE  SemInv'
  BY <1>19, <1>20, <1>21, <1>22, <1>25 DEF Killing
<1> QED
  BY <1>1, <1>2, <1>3, <1>4, <1>5, <1>6, <1>23, <1>24, <1>25 DEF Next

\* prSem stays consistent, for any number of processes, frames and stores, under any
\* programs, kills and replacement policy.
THEOREM PrSemAlwaysConsistent == Spec => []PrSemConsistent
<1>1. Init => SemInv
  BY SemInit
<1>2. SemInv /\ [Next]_vars => SemInv'
  BY SemNext
<1>3. SemInv => PrSemConsistent
  BY DEF SemInv
<1> QED
  BY <1>1, <1>2, <1>3, PTL DEF Spec

\* No two processes are ever inside the paging structures at once.
THEOREM PagingMutualExclusion == Spec => []MutualExclusion
<1>1. PrSemConsistent => MutualExclusion
  BY DEF PrSemConsistent
<1> QED
  BY <1>1, PrSemAlwaysConsistent, PTL

-------------------------------------------------------------------------------
\* The structures.

Orderly ==
    /\ ~Stray
    /\ Targets = {}
    /\ Creators \cap Exits = {}
    /\ \A m, n \in Sizes : m = n

Leaving  == {"kill", "killq", "killw", "killr", "killd"}
Gone     == Dead \cup {"killr", "killd"}
Serving  == {"alloc", "evict", "copied", "assign", "load"}
Moving   == {"evict", "copied", "load"}
Faulted  == Serving \cup {"queued", "enter", "lost"}

\* The page table of p is its own as long as kill() has not begun to free its frames;
\* its store, as long as kill() has not taken it back.
Standing(p) == pc[p] \notin Gone \cup {"killw"}
Holding(p)  == pc[p] \notin Gone /\ proctab[p].prpages > 0

-------------------------------------------------------------------------------

\* The types of everything but the semaphore and the program counters.
Typed ==
    /\ job \in [Proc -> [frame : Frame, vpn : Vpn, bs : Store \cup {SYSERR}]]
    /\ cr2 \in Address /\ fault \in [Proc -> Address]
    /\ frametab \in [Frame -> [type : {"FREE", "PD", "PT", "PG"},
                               pid : Proc \cup {NULLPROC}, vpn : Vpn]]
    /\ fifo \in Seq(PageFrame)
    /\ proctab \in [Proc -> [prpd : DSFrame \cup {NoFrame}, prpages : 0..MaxPages,
                             prbsd : Store \cup {SYSERR}]]
    /\ pdmem \in [DSFrame -> DSFrame \cup {NoFrame}]
    /\ ptmem \in [DSFrame -> [Vpn -> [pres : BOOLEAN, dirty : BOOLEAN, base : Frame]]]
    /\ tlb \subseteq [vpn : Vpn, base : PageFrame, dirty : BOOLEAN]
    /\ bstab \in [Store -> [isallocated : BOOLEAN, usecount : Nat, npages : 0..MaxPages]]
    /\ bsdtab \in [Store -> [Vpn -> {"BS_IGNORE", "BS_NPRES", "BS_PRES"}]]
    /\ content \in [PageFrame -> Value \cup {NoValue}]
    /\ store \in [Store -> [Vpn -> Value \cup {NoValue}]]
    /\ created \in 0..MaxCreate
    /\ mem \in [Proc -> [Vpn -> Value \cup {NoValue}]]
    /\ raced \subseteq Proc \X Vpn

\* A kill() in progress is a process's own, and never called from inside the handler.
KillsOwn ==
    \A p \in Proc :
        /\ victim[p] = IF pc[p] \in Leaving THEN p ELSE NoProc
        /\ pc[p] # "lkill"
        /\ pc[p] \in Leaving => p \in Exits

\* A process that faulted has a heap and a directory, and CR2 points into heaps.
FaultsInHeap ==
    \A p \in Proc :
        /\ proctab[p].prpages \in Sizes \cup {0}
        /\ pc[p] \in Faulted =>
              /\ proctab[p].prpd # NoFrame
              /\ proctab[p].prpages > 0
              /\ cr2 < proctab[p].prpages * NBPG

\* Directories are the processes' own, and never freed: their recorded owner, the
\* creator, does not exit.
Directories ==
    /\ \A f \in DSFrame : /\ frametab[f].type # "PG"
                          /\ frametab[f].type = "PD" => frametab[f].pid \notin Exits
    /\ \A f \in PageFrame : frametab[f].type \in {"FREE", "PG"}
    /\ \A p \in Proc : proctab[p].prpd # NoFrame =>
          /\ frametab[proctab[p].prpd].type = "PD"
          /\ \A q \in Proc : q # p => proctab[q].prpd # proctab[p].prpd

Tables ==
    \A p \in Proc : Standing(p) /\ PTFrame(p) # NoFrame =>
        frametab[PTFrame(p)].type = "PT" /\ frametab[PTFrame(p)].pid = p

\* A page frame in use belongs to a process whose frames are not all freed, and is
\* mapped by it, until kill() frees the page table.
FramesMapped ==
    \A f \in PageFrame : frametab[f].type # "FREE" =>
        LET p == Owner(f) IN
        /\ p \in Proc /\ pc[p] \notin Gone
        /\ frametab[f].vpn < proctab[p].prpages
        /\ \/ pc[p] = "killw"
           \/ /\ Mapped(p, frametab[f].vpn)
              /\ \/ Pte(p, frametab[f].vpn).base = f
                 \/ pc[p] = "load" /\ job[p].frame = f

\* A page marked present lies in a frame recorded as its own, unless it is being served.
PagesFramed ==
    \A p \in Proc, v \in Vpn :
        Standing(p) /\ Mapped(p, v) /\ ~(pc[p] \in Serving /\ job[p].vpn = v) =>
            frametab[Pte(p, v).base] = [type |-> "PG", pid |-> p, vpn |-> v]

\* The page p is served is marked present, and no frame is recorded for it before the
\* one it gets; the frame of the service is in use until it is unmapped.
Served(p) ==
    /\ job[p].vpn < proctab[p].prpages
    /\ Mapped(p, job[p].vpn)
    /\ \A f \in PageFrame :
          frametab[f].type # "FREE" /\ frametab[f].pid = p /\ frametab[f].vpn = job[p].vpn =>
             pc[p] = "load" /\ f = job[p].frame
    /\ pc[p] # "alloc" => job[p].frame \in PageFrame
    /\ pc[p] \in {"evict", "copied"} => frametab[job[p].frame].type # "FREE"
    /\ pc[p] = "assign" => frametab[job[p].frame].type = "FREE"
    /\ pc[p] = "load" =>
          frametab[job[p].frame] = [type |-> "PG", pid |-> p, vpn |-> job[p].vpn]

Services == \A p \in Proc : pc[p] \in Serving => Served(p)

Listed ==
    Policy = "FIFO" =>
        /\ Once(fifo)
        /\ \A f \in PageFrame : On(f, fifo) <=>
              /\ frametab[f].type # "FREE"
              /\ ~\E p \in Proc : pc[p] \in Moving /\ job[p].frame = f

\* The stores in use are those of the processes with heaps, each its own and of its
\* size; a process without a heap has store 0 in its table entry.
Stores ==
    /\ \A p \in Proc :
          /\ Holding(p) =>
                /\ proctab[p].prbsd \in Store
                /\ bstab[proctab[p].prbsd].isallocated
                /\ bstab[proctab[p].prbsd].npages = proctab[p].prpages
                /\ \A q \in Proc : q # p /\ Holding(q) => proctab[q].prbsd # proctab[p].prbsd
          /\ pc[p] \notin Dead /\ ~Holding(p) => proctab[p].prbsd = 0
    /\ \A b \in Store \ {0} : bstab[b].isallocated =>
          \E p \in Proc : Holding(p) /\ proctab[p].prbsd = b

\* The transfer a service has in progress on store b.
Transfer(p, b) ==
    \/ pc[p] \in {"evict", "copied"} /\ job[p].bs = b
    \/ pc[p] = "load" /\ proctab[p].prbsd = b

Uses ==
    /\ \A p \in Proc : pc[p] \in {"evict", "copied"} => job[p].bs = StoreOf(job[p].frame)
    /\ \A b \in Store :
          bstab[b].usecount = IF \E p \in Proc : Transfer(p, b) THEN 1 ELSE 0

FrameInv ==
    /\ SemInv /\ Typed
    /\ KillsOwn /\ FaultsInHeap /\ Directories /\ Tables
    /\ FramesMapped /\ PagesFramed /\ Services /\ Listed
    /\ Stores /\ Uses

-------------------------------------------------------------------------------

\* An address of a heap of m pages lies in one of its pages.
LEMMA PageInHeap ==
    ASSUME NEW m \in 0..(MaxPages + 1), NEW a \in Address, a < m * NBPG
    PROVE  PageOf(a) \in Vpn /\ PageOf(a) < m
<1>1. m \in Nat /\ MaxPages \in Nat /\ NBPG \in Nat \ {0} /\ a \in Nat
  BY SizeAssumption DEF Address
<1>2. a = NBPG * (a \div NBPG) + (a % NBPG) /\ a % NBPG >= 0 /\ a \div NBPG \in Int
  BY <1>1
<1> DEFINE d == a \div NBPG
<1> HIDE DEF d
<1>3. d \in Int /\ NBPG * d <= a
  BY <1>1, <1>2 DEF d
<1>4. d < m
  <2>1. SUFFICES ASSUME d >= m PROVE FALSE
    BY <1>1, <1>3
  <2>2. NBPG * d >= NBPG * m
    BY <1>1, <1>3, <2>1
  <2> QED
    BY <1>1, <1>3, <2>2
<1>5. d >= 0
  BY <1>1 DEF d
<1> QED
  BY <1>1, <1>3, <1>4, <1>5 DEF d, PageOf, Vpn

\* Table entries lie in the tables, and error codes are no frames.
LEMMA TableFacts ==
    ASSUME Typed
    PROVE  /\ NoFrame \notin DSFrame
           /\ \A p \in Proc : PTFrame(p) \in DSFrame \cup {NoFrame}
           /\ \A p \in Proc, v \in Vpn : PTFrame(p) # NoFrame =>
                 Pte(p, v) \in [pres : BOOLEAN, dirty : BOOLEAN, base : Frame]
<1>1. NoFrame \notin DSFrame
  BY SizeAssumption DEF NoFrame, SYSERR, DSFrame
<1>2. \A p \in Proc : PTFrame(p) \in DSFrame \cup {NoFrame}
  BY DEF Typed, PTFrame
<1>3. \A p \in Proc, v \in Vpn : PTFrame(p) # NoFrame =>
         Pte(p, v) \in [pres : BOOLEAN, dirty : BOOLEAN, base : Frame]
  <2>1. ptmem \in [DSFrame -> [Vpn -> [pres : BOOLEAN, dirty : BOOLEAN, base : Frame]]]
    BY DEF Typed
  <2> QED
    BY <1>2, <2>1 DEF Pte
<1> QED
  BY <1>1, <1>2, <1>3

LEMMA NoPageFrame == NoFrame \notin PageFrame /\ NoFrame \notin DSFrame
BY SizeAssumption DEF NoFrame, SYSERR, PageFrame, DSFrame

LEMMA ZeroTyped ==
    /\ 0 \in Frame /\ 0 \in DSFrame /\ 0 \in Vpn /\ 0 \in Store /\ 0 \in Address
    /\ NoJob \in [frame : Frame, vpn : Vpn, bs : Store \cup {SYSERR}]
<1>1. 0 \in Frame /\ 0 \in DSFrame /\ 0 \in Vpn /\ 0 \in Store
  BY SizeAssumption DEF Frame, DSFrame, Vpn, Store
<1>2. 0 \in Address
  <2>1. (MaxPages + 1) * NBPG \in Nat \ {0}
    BY SizeAssumption
  <2> QED
    BY <2>1 DEF Address
<1> QED
  BY <1>1, <1>2 DEF NoJob

\* Two processes whose tables stand do not share one.
LEMMA TablesApart ==
    ASSUME Tables, NEW p \in Proc, NEW q \in Proc, p # q,
           Standing(p), Standing(q), PTFrame(p) # NoFrame
    PROVE  PTFrame(q) # PTFrame(p)
BY DEF Tables

\* Storing one entry changes that entry and no other, in the table of no other process.
LEMMA EntrySet ==
    ASSUME Typed, Tables, NEW q \in Proc, NEW v \in Vpn,
           NEW e \in [pres : BOOLEAN, dirty : BOOLEAN, base : Frame],
           Standing(q), PTFrame(q) # NoFrame,
           ptmem' = SetPte(q, v, e), UNCHANGED pdmem,
           \A r \in Proc : proctab'[r].prpd = proctab[r].prpd
    PROVE  /\ ptmem' \in [DSFrame -> [Vpn -> [pres : BOOLEAN, dirty : BOOLEAN, base : Frame]]]
           /\ \A r \in Proc : PTFrame(r)' = PTFrame(r)
           /\ Mapped(q, v)' = e.pres
           /\ Pte(q, v)' = e
           /\ \A r \in Proc, w \in Vpn : Standing(r) /\ (r # q \/ w # v) =>
                 /\ Mapped(r, w)' = Mapped(r, w)
                 /\ PTFrame(r) # NoFrame => Pte(r, w)' = Pte(r, w)
<1> DEFINE E == [pres : BOOLEAN, dirty : BOOLEAN, base : Frame]
           t == PTFrame(q)
<1>1. t \in DSFrame /\ ptmem \in [DSFrame -> [Vpn -> E]]
  BY TableFacts DEF Typed
<1>2. \A r \in Proc : PTFrame(r)' = PTFrame(r)
  BY DEF PTFrame
<1>3. ptmem' = [ptmem EXCEPT ![t][v] = e]
  BY DEF SetPte
<1> HIDE DEF E
<1>4. /\ ptmem' \in [DSFrame -> [Vpn -> E]]
      /\ ptmem'[t][v] = e
      /\ \A f \in DSFrame, w \in Vpn : f # t \/ w # v => ptmem'[f][w] = ptmem[f][w]
  BY <1>1, <1>3 DEF E
<1>5. Mapped(q, v)' = e.pres /\ Pte(q, v)' = e
  <2>1. PTFrame(q)' = t
    BY <1>2
  <2>2. e.pres \in BOOLEAN
    OBVIOUS
  <2> QED
    BY <1>4, <2>1, <2>2 DEF Mapped, Pte
<1>6. ASSUME NEW r \in Proc, NEW w \in Vpn, Standing(r), r # q \/ w # v
      PROVE  /\ Mapped(r, w)' = Mapped(r, w)
             /\ PTFrame(r) # NoFrame => Pte(r, w)' = Pte(r, w)
  <2>1. CASE PTFrame(r) = NoFrame
    BY <1>2, <2>1 DEF Mapped
  <2>2. CASE PTFrame(r) # NoFrame
    <3>1. PTFrame(r) \in DSFrame /\ PTFrame(r)' = PTFrame(r)
      BY <1>2, <2>2, TableFacts
    <3>2. PTFrame(r) # t \/ w # v
      BY <1>6, TablesApart
    <3>3. ptmem'[PTFrame(r)][w] = ptmem[PTFrame(r)][w]
      BY <1>4, <3>1, <3>2
    <3> QED
      BY <2>2, <3>1, <3>3 DEF Mapped, Pte
  <2> QED
    BY <2>1, <2>2
<1> QED
  BY <1>2, <1>4, <1>5, <1>6 DEF E

-------------------------------------------------------------------------------

\* What a process other than the one that moves may see happen to it: signal() hands
\* it prSem.
Bystander(q) ==
    \/ pc'[q] = pc[q]
    \/ pc[q] = "queued" /\ pc'[q] = "enter"
    \/ pc[q] = "killq" /\ pc'[q] = "killw"

LEMMA KillsKept ==
    ASSUME KillsOwn, UNCHANGED victim,
           \A q \in Proc : (pc'[q] \in Leaving <=> pc[q] \in Leaving) /\ pc'[q] # "lkill"
    PROVE  KillsOwn'
BY DEF KillsOwn

LEMMA HeapsKept ==
    ASSUME FaultsInHeap, UNCHANGED cr2,
           \A q \in Proc : /\ proctab'[q].prpd = proctab[q].prpd
                           /\ proctab'[q].prpages = proctab[q].prpages
                           /\ pc'[q] \in Faulted => pc[q] \in Faulted
    PROVE  FaultsInHeap'
BY DEF FaultsInHeap

LEMMA DirectoriesKept ==
    ASSUME Typed, Directories,
           \A q \in Proc : proctab'[q].prpd = proctab[q].prpd,
           \A f \in DSFrame : frametab'[f] = frametab[f],
           \A f \in PageFrame : frametab'[f].type \in {"FREE", "PG"}
    PROVE  Directories'
<1>1. \A p \in Proc : proctab[p].prpd \in DSFrame \cup {NoFrame}
  BY DEF Typed
<1> QED
  BY <1>1 DEF Directories

LEMMA TablesKept ==
    ASSUME Typed, Tables,
           \A q \in Proc : PTFrame(q)' = PTFrame(q) /\ (Standing(q)' => Standing(q)),
           \A f \in DSFrame : frametab'[f] = frametab[f]
    PROVE  Tables'
<1>1. \A p \in Proc : PTFrame(p) \in DSFrame \cup {NoFrame}
  BY TableFacts
<1> QED
  BY <1>1 DEF Tables

\* What is recorded as a page frame is one.
LEMMA EntryFrame ==
    ASSUME Typed, Directories, NEW p \in Proc, NEW v \in Vpn, PTFrame(p) # NoFrame,
           frametab[Pte(p, v).base] = [type |-> "PG", pid |-> p, vpn |-> v]
    PROVE  Pte(p, v) \in [pres : BOOLEAN, dirty : BOOLEAN, base : PageFrame]
<1>1. Pte(p, v) \in [pres : BOOLEAN, dirty : BOOLEAN, base : Frame]
  BY TableFacts
<1>2. Pte(p, v).base \notin DSFrame
  BY DEF Directories
<1>3. Pte(p, v).base \in PageFrame
  BY <1>1, <1>2, SizeAssumption DEF Frame, PageFrame, DSFrame
<1> QED
  BY <1>1, <1>3

\* Steps that leave the frames alone and map and unmap nothing: a process keeps its
\* place in the handler, or was not serving and does not begin to.
Calm(q) ==
    /\ Standing(q)' => Standing(q)
    /\ pc[q] = "killw" => pc'[q] = "killw" \/ Owned(q) = {}
    /\ pc'[q] \in Gone => pc[q] \in Gone \/ Owned(q) = {}
    /\ \/ pc'[q] = pc[q] /\ job'[q] = job[q]
       \/ pc[q] = "evict" /\ pc'[q] = "copied" /\ job'[q] = job[q]
       \/ pc[q] \notin Serving /\ pc'[q] \notin Serving

\* No entry is added or removed, none points elsewhere.
SameEntries ==
    \A r \in Proc, w \in Vpn : Standing(r) =>
        /\ Mapped(r, w)' = Mapped(r, w)
        /\ Mapped(r, w) => Pte(r, w).base' = Pte(r, w).base

\* A process that is created maps nothing.
Unmapped(q) ==
    /\ pc[q] \in Gone /\ pc'[q] \notin Serving /\ pc'[q] \notin {"killw"}
    /\ \A w \in Vpn : ~Mapped(q, w)'

LEMMA CalmKept ==
    ASSUME FrameInv, UNCHANGED fifo, SameEntries,
           \A f \in PageFrame : frametab'[f] = frametab[f],
           \A q \in Proc : \/ Calm(q) /\ proctab'[q].prpages = proctab[q].prpages
                           \/ Unmapped(q)
    PROVE  FramesMapped' /\ PagesFramed' /\ Services' /\ Listed'
<1>1. FramesMapped'
  <2>1. SUFFICES ASSUME NEW f \in PageFrame, frametab[f].type # "FREE",
                        NEW p, p = Owner(f)
                 PROVE  /\ p \in Proc /\ pc'[p] \notin Gone
                        /\ frametab[f].vpn < proctab'[p].prpages
                        /\ \/ pc'[p] = "killw"
                           \/ /\ Mapped(p, frametab[f].vpn)'
                              /\ \/ Pte(p, frametab[f].vpn)'.base = f
                                 \/ pc'[p] = "load" /\ job'[p].frame = f
    BY DEF FramesMapped, Owner
  <2> DEFINE v == frametab[f].vpn
  <2>f. f \in Frame
    BY FrameKinds
  <2>2. /\ p \in Proc /\ pc[p] \notin Gone /\ v < proctab[p].prpages
        /\ \/ pc[p] = "killw"
           \/ /\ Mapped(p, v)
              /\ Pte(p, v).base = f \/ (pc[p] = "load" /\ job[p].frame = f)
    BY <2>1 DEF FrameInv, FramesMapped
  <2>3. f \in Owned(p) /\ v \in Vpn
    BY <2>1, FrameKinds DEF Owned, Owner, FrameInv, Typed
  <2>4. Calm(p) /\ proctab'[p].prpages = proctab[p].prpages
    BY <2>2 DEF Unmapped
  <2>5. pc'[p] \notin Gone
    BY <2>2, <2>3, <2>4 DEF Calm
  <2>6. CASE pc[p] = "killw"
    BY <2>2, <2>3, <2>4, <2>5, <2>6 DEF Calm
  <2>7. CASE pc[p] # "killw"
    <3>1. Standing(p)
      BY <2>2, <2>7 DEF Standing
    <3>2. Mapped(p, v) /\ Mapped(p, v)' /\ Pte(p, v)'.base = Pte(p, v).base
      BY <2>2, <2>3, <2>7, <3>1 DEF SameEntries
    <3>3. pc[p] = "load" => pc'[p] = pc[p] /\ job'[p] = job[p]
      BY <2>4 DEF Calm, Serving
    <3> QED
      BY <2>2, <2>4, <2>5, <2>7, <3>2, <3>3
  <2> QED
    BY <2>6, <2>7
<1>2. PagesFramed'
  <2>1. SUFFICES ASSUME NEW p \in Proc, NEW v \in Vpn,
                        Standing(p)', Mapped(p, v)', ~(pc'[p] \in Serving /\ job'[p].vpn = v)
                 PROVE  frametab'[Pte(p, v)'.base] = [type |-> "PG", pid |-> p, vpn |-> v]
    BY DEF PagesFramed
  <2>2. Calm(p)
    BY <2>1 DEF Unmapped
  <2>3. Standing(p) /\ Mapped(p, v) /\ Pte(p, v)'.base = Pte(p, v).base
    BY <2>1, <2>2 DEF Calm, SameEntries
  <2>4. ~(pc[p] \in Serving /\ job[p].vpn = v)
    BY <2>1, <2>2 DEF Calm, Serving
  <2>5. frametab[Pte(p, v).base] = [type |-> "PG", pid |-> p, vpn |-> v]
    BY <2>3, <2>4 DEF FrameInv, PagesFramed
  <2>6. Pte(p, v).base \in PageFrame
    BY <2>3, <2>5, EntryFrame DEF FrameInv, Mapped
  <2> QED
    BY <2>3, <2>5, <2>6
<1>3. Services'
  <2>1. SUFFICES ASSUME NEW p \in Proc, pc'[p] \in Serving PROVE Served(p)'
    BY DEF Services
  <2>2. /\ pc[p] \in Serving /\ job'[p] = job[p]
        /\ \/ pc'[p] = pc[p]
           \/ pc[p] = "evict" /\ pc'[p] = "copied"
        /\ proctab'[p].prpages = proctab[p].prpages
    BY <2>1 DEF Calm, Serving, Unmapped
  <2>3. Standing(p) /\ job[p].vpn \in Vpn /\ Served(p)
    BY <2>2 DEF Standing, Serving, Gone, Dead, FrameInv, Typed, Services
  <2>4. Mapped(p, job[p].vpn)'
    BY <2>2, <2>3 DEF Served, SameEntries, Mapped, PTFrame
  <2> QED
    BY <2>2, <2>3, <2>4 DEF Served
<1>4. Listed'
  <2>1. \A p \in Proc : (pc'[p] \in Moving <=> pc[p] \in Moving)
                        /\ (pc[p] \in Moving => job'[p] = job[p])
    BY DEF Calm, Unmapped, Moving, Serving, Gone, Dead
  <2> QED
    BY <2>1 DEF FrameInv, Listed
<1> QED
  BY <1>1, <1>2, <1>3, <1>4

LEMMA StoresKept ==
    ASSUME Stores,
           \A q \in Proc : /\ proctab'[q].prbsd = proctab[q].prbsd
                           /\ proctab'[q].prpages = proctab[q].prpages
                           /\ pc'[q] \in Gone <=> pc[q] \in Gone
                           /\ pc'[q] \notin Dead => pc[q] \notin Dead,
           \A b \in Store : /\ bstab'[b].isallocated = bstab[b].isallocated
                            /\ bstab'[b].npages = bstab[b].npages
    PROVE  Stores'
<1>1. \A q \in Proc : Holding(q)' = Holding(q)
  BY DEF Holding
<1>2. \A q \in Proc : Holding(q) => proctab[q].prbsd \in Store
  BY DEF Stores
<1> QED
  BY <1>1, <1>2 DEF Stores

LEMMA UsesKept ==
    ASSUME Uses, \A f \in PageFrame : frametab'[f] = frametab[f],
           \A q \in Proc : /\ pc[q] \notin Gone => proctab'[q].prbsd = proctab[q].prbsd
                           /\ \/ pc'[q] = pc[q] /\ job'[q] = job[q]
                              \/ pc[q] = "evict" /\ pc'[q] = "copied" /\ job'[q] = job[q]
                              \/ pc[q] \notin Moving /\ pc'[q] \notin Moving,
           \A p \in Proc : pc[p] \in {"evict", "copied"} =>
               /\ job[p].frame \in PageFrame
               /\ Owner(job[p].frame) \in Proc /\ pc[Owner(job[p].frame)] \notin Gone,
           \A b \in Store : bstab'[b].usecount = bstab[b].usecount
    PROVE  Uses'
<1>1. \A q \in Proc, b \in Store : Transfer(q, b)' = Transfer(q, b)
  BY DEF Transfer, Moving, Gone, Dead
<1>2. \A p \in Proc : pc'[p] \in {"evict", "copied"} =>
          pc[p] \in {"evict", "copied"} /\ job'[p] = job[p]
  BY DEF Moving
<1>3. \A p \in Proc : pc'[p] \in {"evict", "copied"} => job'[p].bs = StoreOf(job[p].frame)'
  BY <1>2 DEF Uses, StoreOf, Owner
<1> QED
  BY <1>1, <1>3 DEF Uses

\* A frame in use has a process for its owner.
LEMMA FrameOwners ==
    ASSUME FrameInv
    PROVE  /\ \A f \in PageFrame : frametab[f].type # "FREE" =>
                 Owner(f) \in Proc /\ pc[Owner(f)] \notin Gone
           /\ \A p \in Proc : pc[p] \in {"evict", "copied"} =>
                 /\ job[p].frame \in PageFrame
                 /\ Owner(job[p].frame) \in Proc /\ pc[Owner(job[p].frame)] \notin Gone
<1>1. \A f \in PageFrame : frametab[f].type # "FREE" =>
         Owner(f) \in Proc /\ pc[Owner(f)] \notin Gone
  BY DEF FrameInv, FramesMapped
<1>2. \A p \in Proc : pc[p] \in {"evict", "copied"} => Served(p)
  BY DEF FrameInv, Services, Serving
<1> QED
  BY <1>1, <1>2 DEF Served

\* A store that is not allocated is not in use: transfers are on stores of processes
\* with heaps.
LEMMA IdleStore ==
    ASSUME FrameInv, NEW b \in Store, ~bstab[b].isallocated
    PROVE  bstab[b].usecount = 0
<1>1. SUFFICES ASSUME NEW p \in Proc, Transfer(p, b) PROVE FALSE
  BY DEF FrameInv, Uses
<1>2. ASSUME NEW q \in Proc, Holding(q) PROVE proctab[q].prbsd # b
  BY <1>2 DEF FrameInv, Stores
<1>3. CASE pc[p] = "load" /\ proctab[p].prbsd = b
  <2>1. Holding(p)
    BY <1>3 DEF Holding, Gone, Dead, Faulted, Serving, FrameInv, FaultsInHeap
  <2> QED
    BY <1>2, <1>3, <2>1
<1>4. CASE pc[p] \in {"evict", "copied"} /\ job[p].bs = b
  <2> DEFINE q == Owner(job[p].frame)
  <2>1. /\ job[p].frame \in PageFrame /\ frametab[job[p].frame].type # "FREE"
    BY <1>4 DEF FrameInv, Services, Served, Serving
  <2>2. /\ q \in Proc /\ pc[q] \notin Gone
        /\ frametab[job[p].frame].vpn < proctab[q].prpages
    BY <2>1 DEF FrameInv, FramesMapped
  <2>3. Holding(q)
    <3>1. frametab[job[p].frame].vpn \in Nat /\ proctab[q].prpages \in Nat
      BY <2>1, <2>2, FrameKinds, SizeAssumption DEF FrameInv, Typed, Vpn
    <3> QED
      BY <2>2, <3>1 DEF Holding
  <2>4. proctab[q].prbsd = b
    BY <1>4 DEF FrameInv, Uses, StoreOf
  <2> QED
    BY <1>2, <2>2, <2>3, <2>4
<1> QED
  BY <1>1, <1>3, <1>4 DEF Transfer

\* The holder of prSem is alone in the critical section.
LEMMA OneCritical ==
    ASSUME SemInv, NEW p \in Proc, NEW q \in Proc, p # q, pc[p] \in Critical
    PROVE  pc[q] \notin Critical
BY DEF SemInv, PrSemConsistent, MutualExclusion, InCritical

\* Steps that leave the tables, the frames and the stores alone.
LEMMA CalmInv ==
    ASSUME FrameInv, SemInv', Typed', KillsOwn', FaultsInHeap',
           UNCHANGED <<frametab, fifo, pdmem, proctab>>, SameEntries,
           \A b \in Store : bstab'[b] = bstab[b],
           \A q \in Proc : /\ Calm(q)
                           /\ pc'[q] \in Gone <=> pc[q] \in Gone
                           /\ pc'[q] \notin Dead => pc[q] \notin Dead
    PROVE  FrameInv'
<1>1. FramesMapped' /\ PagesFramed' /\ Services' /\ Listed'
  BY CalmKept
<1>2. Directories'
  BY DirectoriesKept, FrameKinds DEF FrameInv, Directories
<1>3. Tables'
  <2>1. \A q \in Proc : PTFrame(q)' = PTFrame(q) /\ (Standing(q)' => Standing(q))
    BY DEF PTFrame, Calm
  <2> QED
    BY <2>1, TablesKept DEF FrameInv
<1>4. Stores'
  BY StoresKept DEF FrameInv
<1>5. Uses'
  <2>1. \A q \in Proc : \/ pc'[q] = pc[q] /\ job'[q] = job[q]
                        \/ pc[q] = "evict" /\ pc'[q] = "copied" /\ job'[q] = job[q]
                        \/ pc[q] \notin Moving /\ pc'[q] \notin Moving
    BY DEF Calm, Moving, Serving
  <2> QED
    BY <2>1, FrameOwners, UsesKept DEF FrameInv
<1> QED
  BY <1>1, <1>2, <1>3, <1>4, <1>5 DEF FrameInv

LEMMA TablesStill ==
    ASSUME UNCHANGED <<pdmem, ptmem, proctab>>
    PROVE  SameEntries
BY DEF SameEntries, Mapped, Pte, PTFrame

-------------------------------------------------------------------------------

LEMMA SwitchFrames ==
    ASSUME FrameInv, SemInv', NEW p \in Proc \cup {NULLPROC}, Switch(p)
    PROVE  FrameInv'
<1>1. /\ UNCHANGED <<pc, prSem, victim, faultVars, frameVars, tableVars, bsVars, dataVars,
                     created, histVars>>
      /\ tlb' = {}
  BY DEF Switch
<1> USE DEF faultVars, frameVars, tableVars, bsVars, dataVars, histVars
<1>2. Typed'
  BY <1>1 DEF FrameInv, Typed
<1>3. KillsOwn' /\ FaultsInHeap'
  BY <1>1 DEF FrameInv, KillsOwn, FaultsInHeap
<1>4. \A q \in Proc : Calm(q)
  BY <1>1 DEF Calm, Standing
<1> QED
  BY <1>1, <1>2, <1>3, <1>4, TablesStill, CalmInv

LEMMA AddressPage == ASSUME NEW a \in Address PROVE PageOf(a) \in Vpn
<1>1. a < (MaxPages + 1) * NBPG /\ MaxPages + 1 \in 0..(MaxPages + 1)
  <2>1. (MaxPages + 1) * NBPG \in Nat
    BY SizeAssumption
  <2> QED
    BY <2>1, SizeAssumption DEF Address
<1> QED
  BY <1>1, PageInHeap

\* A page in the heap of a running program that is marked present is in its frame.
LEMMA MappedFrame ==
    ASSUME FrameInv, NEW p \in Proc, NEW v \in Vpn, pc[p] = "user", Mapped(p, v)
    PROVE  /\ Standing(p) /\ PTFrame(p) # NoFrame
           /\ Pte(p, v) \in [pres : BOOLEAN, dirty : BOOLEAN, base : PageFrame]
<1>1. Standing(p) /\ pc[p] \notin Serving
  BY DEF Standing, Gone, Dead, Serving
<1>2. PTFrame(p) # NoFrame
  BY DEF Mapped
<1>3. frametab[Pte(p, v).base] = [type |-> "PG", pid |-> p, vpn |-> v]
  BY <1>1 DEF FrameInv, PagesFramed
<1> QED
  BY <1>1, <1>2, <1>3, EntryFrame DEF FrameInv

LEMMA ReadFrames ==
    ASSUME FrameInv, SemInv', NEW p \in Proc, NEW a \in Address, Read(p, a)
    PROVE  FrameInv'
<1> DEFINE v == PageOf(a)
           e == [vpn |-> v, base |-> Pte(p, v).base, dirty |-> Pte(p, v).dirty]
<1>1. /\ UNCHANGED <<procVars, faultVars, frameVars, tableVars, bsVars, dataVars,
                     created, histVars>>
      /\ tlb' = tlb \cup {e}
      /\ pc[p] = "user" /\ Mapped(p, v)
  BY DEF Read, MayTouch
<1> USE DEF procVars, faultVars, frameVars, tableVars, bsVars, dataVars, histVars
<1>2. v \in Vpn
  BY AddressPage
<1>3. e \in [vpn : Vpn, base : PageFrame, dirty : BOOLEAN]
  BY <1>1, <1>2, MappedFrame
<1> HIDE DEF e, v
<1>4. Typed'
  BY <1>1, <1>3 DEF FrameInv, Typed
<1>5. KillsOwn' /\ FaultsInHeap'
  BY <1>1 DEF FrameInv, KillsOwn, FaultsInHeap
<1>6. \A q \in Proc : Calm(q)
  BY <1>1 DEF Calm, Standing
<1> QED
  BY <1>1, <1>4, <1>5, <1>6, TablesStill, CalmInv

LEMMA WriteFrames ==
    ASSUME FrameInv, SemInv', NEW p \in Proc, NEW a \in Address, NEW x \in Writes[p],
           Write(p, a, x)
    PROVE  FrameInv'
<1> DEFINE v == PageOf(a)
           E == [pres : BOOLEAN, dirty : BOOLEAN, base : Frame]
<1>1. /\ UNCHANGED <<procVars, faultVars, frameVars, proctab, pdmem, bsVars, store, created>>
      /\ pc[p] = "user"
  BY DEF Write, MayTouch
<1> USE DEF procVars, faultVars, frameVars, bsVars
<1>2. v \in Vpn /\ x \in Value
  BY AddressPage, ModeAssumption
<1>3. \/ \E e \in tlb : Put(p, v, e.base, x) /\ UNCHANGED <<ptmem, tlb>>
      \/ /\ Mapped(p, v)
         /\ Put(p, v, Pte(p, v).base, x)
         /\ ptmem' = SetPte(p, v, [Pte(p, v) EXCEPT !.dirty = TRUE])
         /\ \/ tlb' = tlb
            \/ tlb' = (tlb \ Cached(v))
                         \cup {[vpn |-> v, base |-> Pte(p, v).base, dirty |-> TRUE]}
  BY DEF Write, Cached
<1> HIDE DEF v
<1>4. KillsOwn' /\ FaultsInHeap'
  BY <1>1 DEF FrameInv, KillsOwn, FaultsInHeap
<1>5. \A q \in Proc : Calm(q)
  BY <1>1 DEF Calm, Standing
<1>p. ASSUME NEW f \in PageFrame, Put(p, v, f, x)
      PROVE  /\ content' \in [PageFrame -> Value \cup {NoValue}]
             /\ mem' \in [Proc -> [Vpn -> Value \cup {NoValue}]]
             /\ raced' \subseteq Proc \X Vpn
  <2>1. /\ content \in [PageFrame -> Value \cup {NoValue}]
        /\ mem \in [Proc -> [Vpn -> Value \cup {NoValue}]]
        /\ raced \subseteq Proc \X Vpn
    BY DEF FrameInv, Typed
  <2> QED
    BY <1>2, <1>p, <2>1 DEF Put
<1>6. CASE \E e \in tlb : Put(p, v, e.base, x) /\ UNCHANGED <<ptmem, tlb>>
  <2>1. PICK e \in tlb : Put(p, v, e.base, x) /\ UNCHANGED <<ptmem, tlb>>
    BY <1>6
  <2>2. e.base \in PageFrame
    BY DEF FrameInv, Typed
  <2>3. Typed'
    BY <1>1, <1>p, <2>1, <2>2 DEF FrameInv, Typed
  <2>4. SameEntries
    BY <1>1, <2>1, TablesStill
  <2> QED
    BY <1>1, <1>4, <1>5, <2>3, <2>4, CalmInv
<1>7. CASE /\ Mapped(p, v)
           /\ Put(p, v, Pte(p, v).base, x)
           /\ ptmem' = SetPte(p, v, [Pte(p, v) EXCEPT !.dirty = TRUE])
           /\ \/ tlb' = tlb
              \/ tlb' = (tlb \ Cached(v))
                           \cup {[vpn |-> v, base |-> Pte(p, v).base, dirty |-> TRUE]}
  <2> DEFINE e == [Pte(p, v) EXCEPT !.dirty = TRUE]
  <2>1. /\ Standing(p) /\ PTFrame(p) # NoFrame
        /\ Pte(p, v) \in [pres : BOOLEAN, dirty : BOOLEAN, base : PageFrame]
    BY <1>1, <1>2, <1>7, MappedFrame
  <2>2. /\ e \in E
        /\ e.base = Pte(p, v).base /\ e.pres = Pte(p, v).pres
    BY <2>1, FrameKinds
  <2>3. Pte(p, v).pres
    BY <1>7 DEF Mapped, Pte
  <2> HIDE DEF e
  <2>4. /\ ptmem' \in [DSFrame -> [Vpn -> E]]
        /\ Mapped(p, v)' = e.pres
        /\ Pte(p, v)' = e
        /\ \A r \in Proc, w \in Vpn : Standing(r) /\ (r # p \/ w # v) =>
              /\ Mapped(r, w)' = Mapped(r, w)
              /\ PTFrame(r) # NoFrame => Pte(r, w)' = Pte(r, w)
    <3>1. ptmem' = SetPte(p, v, e) /\ Typed /\ Tables
      BY <1>7 DEF e, FrameInv
    <3> HIDE DEF E
    <3> QED
      BY <1>1, <1>2, <2>1, <2>2, <3>1, EntrySet DEF E
  <2>5. SameEntries
    <3>1. Mapped(p, v)' /\ Mapped(p, v) /\ Pte(p, v)'.base = Pte(p, v).base
      BY <1>7, <2>2, <2>3, <2>4
    <3>2. \A r \in Proc, w \in Vpn : Mapped(r, w) => PTFrame(r) # NoFrame
      BY DEF Mapped
    <3>3. SUFFICES ASSUME NEW r \in Proc, NEW w \in Vpn, Standing(r)
                   PROVE  /\ Mapped(r, w)' = Mapped(r, w)
                          /\ Mapped(r, w) => Pte(r, w).base' = Pte(r, w).base
      BY DEF SameEntries
    <3>4. CASE r # p \/ w # v
      BY <2>4, <3>2, <3>3, <3>4
    <3>5. CASE r = p /\ w = v
      <4>1. Mapped(r, w) \in BOOLEAN /\ Mapped(r, w)' \in BOOLEAN
        BY DEF Mapped
      <4> QED
        BY <3>1, <3>5, <4>1
    <3> QED
      BY <3>4, <3>5
  <2>6. tlb' \subseteq [vpn : Vpn, base : PageFrame, dirty : BOOLEAN]
    <3>1. [vpn |-> v, base |-> Pte(p, v).base, dirty |-> TRUE]
             \in [vpn : Vpn, base : PageFrame, dirty : BOOLEAN]
      BY <1>2, <2>1
    <3>2. tlb \subseteq [vpn : Vpn, base : PageFrame, dirty : BOOLEAN]
      BY DEF FrameInv, Typed
    <3> QED
      BY <1>7, <3>1, <3>2
  <2>7. Typed'
    <3>1. /\ content' \in [PageFrame -> Value \cup {NoValue}]
          /\ mem' \in [Proc -> [Vpn -> Value \cup {NoValue}]]
          /\ raced' \subseteq Proc \X Vpn
      BY <1>7, <1>p, <2>1
    <3> QED
      BY <1>1, <2>4, <2>6, <3>1 DEF FrameInv, Typed
  <2> QED
    BY <1>1, <1>4, <1>5, <2>5, <2>7, CalmInv
<1> QED
  BY <1>3, <1>6, <1>7

-------------------------------------------------------------------------------

\* Being handed prSem changes nothing for the tables, frames and stores.
LEMMA BystanderFacts ==
    ASSUME NEW q \in Proc, Bystander(q)
    PROVE  /\ pc'[q] \in Leaving <=> pc[q] \in Leaving
           /\ pc'[q] \in Gone <=> pc[q] \in Gone
           /\ pc'[q] \in Dead <=> pc[q] \in Dead
           /\ pc'[q] \in Faulted <=> pc[q] \in Faulted
           /\ pc'[q] = "lkill" <=> pc[q] = "lkill"
           /\ \/ pc'[q] = pc[q]
              \/ pc'[q] \notin Serving /\ pc[q] \notin Serving
           /\ Standing(q)' => Standing(q)
           /\ pc[q] = "killw" => pc'[q] = "killw"
           /\ job'[q] = job[q] => Calm(q)
BY DEF Bystander, Leaving, Gone, Dead, Faulted, Serving, Standing, Calm

\* wait() and signal() as the other processes see them.
LEMMA WaitBystanders ==
    ASSUME SemInv, NEW p \in Proc, NEW granted \in Critical, NEW blocked \in Waiting,
           pc[p] \notin Waiting, wait(p, granted, blocked)
    PROVE  /\ pc'[p] \in {granted, blocked}
           /\ \A q \in Proc : q # p => Bystander(q)
BY WaitStep DEF Bystander

LEMMA SignalBystanders ==
    ASSUME SemInv, NEW p \in Proc, NEW next \in {"user", "killr", "killd"},
           pc[p] \in Critical, signal(p, next)
    PROVE  /\ pc'[p] = next
           /\ \A q \in Proc : q # p => Bystander(q)
<1>1. next \in PC /\ next \notin Critical /\ next \notin Waiting
  BY DEF PC, Critical, Waiting
<1> QED
  BY <1>1, SignalStep DEF Bystander

\* A fault lies in the heap of the process, and so, heaps being of one size, in the heap
\* of every other process that faulted.
LEMMA FaultFrames ==
    ASSUME Orderly, FrameInv, SemInv', NEW p \in Proc, NEW a \in Address, Fault(p, a)
    PROVE  FrameInv'
<1>1. /\ pc[p] = "user" /\ cr2' = a /\ fault' = [fault EXCEPT ![p] = a]
      /\ wait(p, "enter", "queued")
      /\ UNCHANGED <<victim, job, frameVars, tableVars, bsVars, dataVars, created, histVars>>
      /\ proctab[p].prpd # NoFrame
      /\ a < proctab[p].prpages * NBPG
  BY DEF Fault, MayTouch, Orderly
<1> USE DEF frameVars, tableVars, bsVars, dataVars, histVars
<1>2. /\ pc'[p] \in {"enter", "queued"}
      /\ \A q \in Proc : q # p => Bystander(q)
  <2>1. "enter" \in Critical /\ "queued" \in Waiting /\ pc[p] \notin Waiting
    BY <1>1 DEF Critical, Waiting
  <2> QED
    BY <1>1, <2>1, WaitBystanders DEF FrameInv
<1>3. tlb' = tlb \/ tlb' = {}
  BY <1>1 DEF wait, resched
<1>4. Typed'
  BY <1>1, <1>3 DEF FrameInv, Typed
<1>5. KillsOwn'
  <2>1. \A q \in Proc : (pc'[q] \in Leaving <=> pc[q] \in Leaving) /\ pc'[q] # "lkill"
    BY <1>1, <1>2, BystanderFacts DEF Leaving, FrameInv, KillsOwn
  <2> QED
    BY <1>1, <2>1, KillsKept DEF FrameInv
<1>6. FaultsInHeap'
  <2>1. proctab[p].prpages > 0 /\ proctab[p].prpages \in Sizes
    <3>1. proctab[p].prpages \in Sizes \cup {0} /\ a \in Nat /\ NBPG \in Nat
      BY SizeAssumption DEF FrameInv, FaultsInHeap, Address
    <3>2. proctab[p].prpages # 0
      BY <1>1, <3>1
    <3>3. proctab[p].prpages \in 0..MaxPages
      BY DEF FrameInv, Typed
    <3>4. proctab[p].prpages > 0
      BY <3>2, <3>3, SizeAssumption
    <3> QED
      BY <3>1, <3>2, <3>4
  <2>2. \A q \in Proc : pc'[q] \in Faulted =>
           proctab[q].prpd # NoFrame /\ proctab[q].prpages > 0
    BY <1>1, <1>2, <2>1, BystanderFacts DEF FrameInv, FaultsInHeap
  <2>3. \A q \in Proc : proctab[q].prpages > 0 => proctab[q].prpages = proctab[p].prpages
    BY <2>1 DEF FrameInv, FaultsInHeap, Orderly
  <2> QED
    BY <1>1, <2>2, <2>3 DEF FrameInv, FaultsInHeap
<1>7. \A q \in Proc : Calm(q) /\ (pc'[q] \in Gone <=> pc[q] \in Gone)
                      /\ (pc'[q] \notin Dead => pc[q] \notin Dead)
  <2>1. Calm(p) /\ (pc'[p] \in Gone <=> pc[p] \in Gone)
        /\ (pc'[p] \notin Dead => pc[p] \notin Dead)
    BY <1>1, <1>2 DEF Calm, Standing, Gone, Dead, Serving
  <2> QED
    BY <1>1, <1>2, <2>1, BystanderFacts
<1> QED
  BY <1>1, <1>4, <1>5, <1>6, <1>7, TablesStill, CalmInv

\* The steps of the handler and of kill() that only move the process on: for these
\* CR2, the tables, the frames and the stores stay as they are.
LEMMA MovingOn ==
    ASSUME FrameInv, SemInv', Typed', KillsOwn', NEW p \in Proc,
           UNCHANGED <<cr2, frameVars, tableVars, bstab>>,
           \A q \in Proc : q # p => Bystander(q) /\ job'[q] = job[q],
           Calm(p),
           pc'[p] \in Gone <=> pc[p] \in Gone,
           pc'[p] \notin Dead => pc[p] \notin Dead,
           pc'[p] \in Faulted => pc[p] \in Faulted
    PROVE  FrameInv'
<1>1. FaultsInHeap'
  BY BystanderFacts, HeapsKept DEF FrameInv, tableVars
<1>2. \A q \in Proc : Calm(q) /\ (pc'[q] \in Gone <=> pc[q] \in Gone)
                      /\ (pc'[q] \notin Dead => pc[q] \notin Dead)
  BY BystanderFacts
<1> QED
  BY <1>1, <1>2, TablesStill, CalmInv DEF frameVars, tableVars

LEMMA NothingFrames ==
    ASSUME FrameInv, SemInv', NEW p \in Proc, pfhandlerNothing(p)
    PROVE  FrameInv'
<1>1. /\ pc[p] = "enter" /\ signal(p, "user")
      /\ job' = [job EXCEPT ![p] = NoJob]
      /\ fault' = [fault EXCEPT ![p] = 0]
      /\ UNCHANGED <<cur, victim, cr2, frameVars, tableVars, tlb, bsVars, dataVars,
                     created, histVars>>
  BY DEF pfhandlerNothing, Leave
<1> USE DEF frameVars, tableVars, bsVars, dataVars, histVars
<1>2. pc'[p] = "user" /\ \A q \in Proc : q # p => Bystander(q)
  BY <1>1, SignalBystanders DEF FrameInv, Critical
<1>3. Typed'
  <2>1. NoJob \in [frame : Frame, vpn : Vpn, bs : Store \cup {SYSERR}] /\ 0 \in Address
    BY ZeroTyped
  <2> QED
    BY <1>1, <2>1 DEF FrameInv, Typed
<1>4. KillsOwn'
  <2>1. \A q \in Proc : (pc'[q] \in Leaving <=> pc[q] \in Leaving) /\ pc'[q] # "lkill"
    BY <1>1, <1>2, BystanderFacts DEF Leaving, FrameInv, KillsOwn
  <2> QED
    BY <1>1, <2>1, KillsKept DEF FrameInv
<1>5. \A q \in Proc : q # p => job'[q] = job[q]
  BY <1>1 DEF FrameInv, Typed
<1>6. /\ Calm(p)
      /\ pc'[p] \notin Gone /\ pc[p] \notin Gone /\ pc[p] \notin Dead /\ pc'[p] \notin Faulted
  BY <1>1, <1>2 DEF Calm, Standing, Gone, Dead, Serving, Faulted
<1> QED
  BY <1>1, <1>2, <1>3, <1>4, <1>5, <1>6, MovingOn

LEMMA SendCopyFrames ==
    ASSUME FrameInv, SemInv', NEW p \in Proc, sendBsCopy(p)
    PROVE  FrameInv'
<1> DEFINE f == job[p].frame
<1>1. /\ pc[p] = "evict" /\ pc' = [pc EXCEPT ![p] = "copied"]
      /\ store' = [store EXCEPT ![job[p].bs][frametab[f].vpn] = content[f]]
      /\ UNCHANGED <<cur, prSem, victim, faultVars, frameVars, tableVars, tlb, bsVars, content,
                     created, histVars>>
  BY DEF sendBsCopy
<1> USE DEF faultVars, frameVars, tableVars, bsVars, histVars
<1>t. pc \in [Proc -> PC]
  BY DEF FrameInv, SemInv, SemTypeOK
<1>2. pc'[p] = "copied" /\ \A q \in Proc : q # p => Bystander(q)
  BY <1>1, <1>t DEF Bystander
<1>3. Typed'
  <2>1. f \in PageFrame
    BY <1>1 DEF FrameInv, Services, Served, Serving
  <2>2. /\ store \in [Store -> [Vpn -> Value \cup {NoValue}]]
        /\ content \in [PageFrame -> Value \cup {NoValue}]
    BY DEF FrameInv, Typed
  <2>3. content[f] \in Value \cup {NoValue}
    BY <2>1, <2>2
  <2> HIDE DEF f
  <2>4. store' \in [Store -> [Vpn -> Value \cup {NoValue}]]
    BY <1>1, <2>2, <2>3
  <2> QED
    BY <1>1, <2>4 DEF FrameInv, Typed
<1>4. KillsOwn'
  <2>1. \A q \in Proc : (pc'[q] \in Leaving <=> pc[q] \in Leaving) /\ pc'[q] # "lkill"
    BY <1>1, <1>2, BystanderFacts DEF Leaving, FrameInv, KillsOwn
  <2> QED
    BY <1>1, <2>1, KillsKept DEF FrameInv
<1>5. /\ Calm(p)
      /\ pc'[p] \notin Gone /\ pc[p] \notin Gone /\ pc[p] \notin Dead /\ pc[p] \in Faulted
  BY <1>1, <1>2 DEF Calm, Standing, Gone, Dead, Serving, Faulted
<1> QED
  BY <1>1, <1>2, <1>3, <1>4, <1>5, MovingOn

-------------------------------------------------------------------------------

\* kill() up to the critical section: only a process that exits calls it, on itself.
LEMMA KillFrames ==
    ASSUME Orderly, FrameInv, SemInv', NEW p \in Proc, NEW t \in Proc, kill(p, t)
    PROVE  FrameInv'
<1>1. /\ pc[p] = "user" /\ t = p /\ p \in Exits
      /\ pc' = [pc EXCEPT ![p] = "kill"]
      /\ victim' = [victim EXCEPT ![p] = p]
      /\ UNCHANGED <<cur, prSem, faultVars, frameVars, tableVars, tlb, bsVars, dataVars,
                     created, histVars>>
  BY DEF kill, CallKill, Orderly
<1> USE DEF faultVars, frameVars, tableVars, bsVars, dataVars, histVars
<1>t. pc \in [Proc -> PC] /\ victim \in [Proc -> Proc \cup {NoProc}]
  BY DEF FrameInv, SemInv, SemTypeOK
<1>2. pc'[p] = "kill" /\ \A q \in Proc : q # p => pc'[q] = pc[q] /\ Bystander(q)
  BY <1>1, <1>t DEF Bystander
<1>3. Typed'
  BY <1>1 DEF FrameInv, Typed
<1>4. KillsOwn'
  <2>1. victim'[p] = p /\ \A q \in Proc : q # p => victim'[q] = victim[q]
    BY <1>1, <1>t
  <2>2. "kill" \in Leaving
    BY DEF Leaving
  <2> QED
    BY <1>1, <1>2, <2>1, <2>2 DEF FrameInv, KillsOwn
<1>5. /\ Calm(p)
      /\ pc'[p] \notin Gone /\ pc[p] \notin Gone /\ pc[p] \notin Dead /\ pc'[p] \notin Faulted
  BY <1>1, <1>2 DEF Calm, Standing, Gone, Dead, Serving, Faulted
<1> QED
  BY <1>1, <1>2, <1>3, <1>4, <1>5, MovingOn

LEMMA KillWaitFrames ==
    ASSUME FrameInv, SemInv', NEW p \in Proc, killWait(p)
    PROVE  FrameInv'
<1>1. /\ pc[p] = "kill"
      /\ wait(p, "killw", "killq")
      /\ UNCHANGED <<victim, faultVars, frameVars, tableVars, bsVars, dataVars, created,
                     histVars>>
  BY DEF killWait, FrameInv, KillsOwn
<1> USE DEF faultVars, frameVars, tableVars, bsVars, dataVars, histVars
<1>2. /\ pc'[p] \in {"killw", "killq"}
      /\ \A q \in Proc : q # p => Bystander(q)
  <2>1. "killw" \in Critical /\ "killq" \in Waiting /\ pc[p] \notin Waiting
    BY <1>1 DEF Critical, Waiting
  <2> QED
    BY <1>1, <2>1, WaitBystanders DEF FrameInv
<1>3. tlb' = tlb \/ tlb' = {}
  BY <1>1 DEF wait, resched
<1>4. Typed'
  BY <1>1, <1>3 DEF FrameInv, Typed
<1>5. KillsOwn'
  <2>1. \A q \in Proc : (pc'[q] \in Leaving <=> pc[q] \in Leaving) /\ pc'[q] # "lkill"
    BY <1>1, <1>2, BystanderFacts DEF Leaving, FrameInv, KillsOwn
  <2> QED
    BY <1>1, <2>1, KillsKept DEF FrameInv
<1>6. /\ Calm(p)
      /\ pc'[p] \notin Gone /\ pc[p] \notin Gone /\ pc[p] \notin Dead /\ pc'[p] \notin Faulted
  BY <1>1, <1>2 DEF Calm, Standing, Gone, Dead, Serving, Faulted
<1> QED
  BY <1>1, <1>2, <1>4, <1>5, <1>6, MovingOn

LEMMA KillDoneFrames ==
    ASSUME FrameInv, SemInv', NEW p \in Proc, killDone(p)
    PROVE  FrameInv'
<1>1. pc[p] \in {"killr", "killd"} /\ victim[p] = p
  BY DEF killDone, FrameInv, KillsOwn, Leaving
<1>2. /\ pc' = [pc EXCEPT ![p] = "free"]
      /\ victim' = [victim EXCEPT ![p] = NoProc, ![p] = NoProc]
      /\ tlb' = {}
      /\ mem' = [mem EXCEPT ![p] = [v \in Vpn |-> NoValue]]
      /\ raced' = {r \in raced : r[1] # p}
      /\ UNCHANGED <<faultVars, frameVars, tableVars, bsVars, dataVars, created>>
  BY <1>1 DEF killDone, resched
<1> USE DEF faultVars, frameVars, tableVars, bsVars, dataVars
<1>t. pc \in [Proc -> PC] /\ victim \in [Proc -> Proc \cup {NoProc}]
  BY DEF FrameInv, SemInv, SemTypeOK
<1>3. pc'[p] = "free" /\ \A q \in Proc : q # p => pc'[q] = pc[q] /\ Bystander(q)
  BY <1>2, <1>t DEF Bystander
<1>4. Typed'
  <2>1. mem \in [Proc -> [Vpn -> Value \cup {NoValue}]] /\ raced \subseteq Proc \X Vpn
    BY DEF FrameInv, Typed
  <2>2. mem' \in [Proc -> [Vpn -> Value \cup {NoValue}]] /\ raced' \subseteq Proc \X Vpn
    BY <1>2, <2>1
  <2> QED
    BY <1>2, <2>2 DEF FrameInv, Typed
<1>5. KillsOwn'
  <2>1. victim'[p] = NoProc /\ \A q \in Proc : q # p => victim'[q] = victim[q]
    BY <1>2, <1>t
  <2>2. "free" \notin Leaving
    BY DEF Leaving
  <2> QED
    BY <1>3, <2>1, <2>2 DEF FrameInv, KillsOwn
<1>6. /\ Calm(p)
      /\ pc'[p] \in Gone /\ pc[p] \in Gone /\ pc'[p] \in Dead /\ pc'[p] \notin Faulted
  BY <1>1, <1>3 DEF Calm, Standing, Gone, Dead, Serving, Faulted
<1> QED
  BY <1>2, <1>3, <1>4, <1>5, <1>6, MovingOn

\* The end of the critical section of kill(): the process has no frames left, and its
\* store, which nobody else pages to and no transfer uses, goes back.
LEMMA KillUnmapFrames ==
    ASSUME FrameInv, SemInv', NEW p \in Proc, killUnmap(p)
    PROVE  FrameInv'
<1> DEFINE b == proctab[p].prbsd
<1>1. /\ pc[p] = "killw" /\ victim[p] = p /\ Owned(p) = {}
      /\ \/ b = 0 /\ UNCHANGED <<proctab, bsVars>>
         \/ /\ b # 0 /\ proctab' = [proctab EXCEPT ![p].prbsd = 0]
            /\ \/ b = SYSERR /\ UNCHANGED bsVars
               \/ b # SYSERR /\ removeMapping(b)
      /\ signal(p, IF prSem.count < 0 THEN "killr" ELSE "killd")
      /\ UNCHANGED <<cur, victim, faultVars, frameVars, pdmem, ptmem, tlb, dataVars,
                     created, histVars>>
  BY DEF killUnmap, FrameInv, KillsOwn, Leaving
<1> USE DEF faultVars, frameVars, bsVars, dataVars, histVars
<1>2. pc'[p] \in {"killr", "killd"} /\ \A q \in Proc : q # p => Bystander(q)
  <2>1. PICK next \in {"killr", "killd"} : signal(p, next)
    BY <1>1
  <2> QED
    BY <1>1, <2>1, SignalBystanders DEF FrameInv, Critical
<1>t. /\ proctab \in [Proc -> [prpd : DSFrame \cup {NoFrame}, prpages : 0..MaxPages,
                               prbsd : Store \cup {SYSERR}]]
      /\ bstab \in [Store -> [isallocated : BOOLEAN, usecount : Nat, npages : 0..MaxPages]]
      /\ bsdtab \in [Store -> [Vpn -> {"BS_IGNORE", "BS_NPRES", "BS_PRES"}]]
  BY DEF FrameInv, Typed
<1>3. /\ proctab' \in [Proc -> [prpd : DSFrame \cup {NoFrame}, prpages : 0..MaxPages,
                                prbsd : Store \cup {SYSERR}]]
      /\ proctab'[p].prbsd = 0
      /\ \A q \in Proc : /\ proctab'[q].prpd = proctab[q].prpd
                         /\ proctab'[q].prpages = proctab[q].prpages
                         /\ q # p => proctab'[q].prbsd = proctab[q].prbsd
  <2>1. 0 \in Store
    BY ZeroTyped
  <2>2. CASE b = 0 /\ proctab' = proctab
    BY <1>t, <2>2
  <2>3. CASE proctab' = [proctab EXCEPT ![p].prbsd = 0]
    BY <1>t, <2>1, <2>3
  <2> QED
    BY <1>1, <2>2, <2>3
<1>h. b = 0 \/ (Holding(p) /\ b \in Store)
  <2>1. pc[p] \notin Dead
    BY <1>1 DEF Dead
  <2> QED
    BY <2>1 DEF FrameInv, Stores
<1>n. \A q \in Proc : pc[q] \notin Moving /\ pc'[q] \notin Moving
  <2>1. \A q \in Proc : q # p => pc[q] \notin Critical
    BY <1>1, OneCritical DEF FrameInv, Critical
  <2>2. \A q \in Proc : pc[q] \notin Moving
    BY <1>1, <2>1 DEF Critical, Moving
  <2> QED
    BY <1>2, <2>2 DEF Bystander, Moving
<1>u. \A c \in Store : bstab[c].usecount = 0
  <2>1. \A q \in Proc, c \in Store : ~Transfer(q, c)
    BY <1>n DEF Transfer, Moving
  <2> QED
    BY <2>1 DEF FrameInv, Uses
<1>4. /\ bstab' \in [Store -> [isallocated : BOOLEAN, usecount : Nat, npages : 0..MaxPages]]
      /\ bsdtab' \in [Store -> [Vpn -> {"BS_IGNORE", "BS_NPRES", "BS_PRES"}]]
      /\ b # 0 => ~bstab'[b].isallocated
      /\ \A c \in Store : c # b \/ b = 0 => bstab'[c] = bstab[c]
      /\ \A c \in Store : bstab'[c].usecount = 0
  <2>1. CASE b = 0
    BY <1>1, <1>t, <1>u, <2>1
  <2>2. CASE b # 0
    <3>1. b \in Store /\ b # SYSERR
      BY <1>h, <2>2, SizeAssumption DEF Store, SYSERR
    <3>2. removeMapping(b)
      BY <1>1, <2>2, <3>1
    <3> HIDE DEF b
    <3>3. bstab[b].isallocated \/ ~bstab[b].isallocated
      OBVIOUS
    <3>4. \/ bstab' = [bstab EXCEPT ![b] = [isallocated |-> FALSE, usecount |-> 0, npages |-> 0]]
          \/ ~bstab[b].isallocated /\ bstab' = bstab
      BY <1>u, <3>1, <3>2 DEF removeMapping
    <3>5. bsdtab' \in [Store -> [Vpn -> {"BS_IGNORE", "BS_NPRES", "BS_PRES"}]]
      BY <1>t, <3>1, <3>2 DEF removeMapping
    <3>6. [isallocated |-> FALSE, usecount |-> 0, npages |-> 0]
             \in [isallocated : BOOLEAN, usecount : Nat, npages : 0..MaxPages]
      BY SizeAssumption
    <3>7. CASE bstab' = [bstab EXCEPT ![b] =
                            [isallocated |-> FALSE, usecount |-> 0, npages |-> 0]]
      BY <1>t, <1>u, <2>2, <3>1, <3>5, <3>6, <3>7
    <3>8. CASE ~bstab[b].isallocated /\ bstab' = bstab
      BY <1>t, <1>u, <2>2, <3>1, <3>5, <3>8
    <3> QED
      BY <3>4, <3>7, <3>8
  <2> QED
    BY <2>1, <2>2
<1> HIDE DEF b
<1>5. Typed'
  BY <1>1, <1>3, <1>4 DEF FrameInv, Typed
<1>6. KillsOwn'
  <2>1. \A q \in Proc : (pc'[q] \in Leaving <=> pc[q] \in Leaving) /\ pc'[q] # "lkill"
    BY <1>1, <1>2, BystanderFacts DEF Leaving, FrameInv, KillsOwn
  <2> QED
    BY <1>1, <2>1, KillsKept DEF FrameInv
<1>7. pc'[p] \notin Faulted /\ pc'[p] \in Gone /\ pc[p] \notin Gone /\ Calm(p)
  BY <1>1, <1>2 DEF Faulted, Serving, Gone, Dead, Calm, Standing
<1>8. FaultsInHeap'
  BY <1>1, <1>2, <1>3, <1>7, BystanderFacts, HeapsKept DEF FrameInv
<1>9. Directories'
  <2>1. \A f \in PageFrame : frametab'[f].type \in {"FREE", "PG"}
    BY <1>1 DEF FrameInv, Directories
  <2> QED
    BY <1>1, <1>3, <2>1, DirectoriesKept, FrameKinds DEF FrameInv
<1>10. \A q \in Proc : Calm(q)
  BY <1>1, <1>2, <1>7, BystanderFacts
<1>11. \A q \in Proc : PTFrame(q)' = PTFrame(q)
  BY <1>1, <1>3 DEF PTFrame
<1>12. Tables'
  <2>1. \A q \in Proc : Standing(q)' => Standing(q)
    BY <1>10 DEF Calm
  <2> QED
    BY <1>1, <1>11, <2>1, TablesKept, FrameKinds DEF FrameInv
<1>13. SameEntries
  BY <1>1, <1>11 DEF SameEntries, Mapped, Pte
<1>14. FramesMapped' /\ PagesFramed' /\ Services' /\ Listed'
  BY <1>1, <1>3, <1>10, <1>13, CalmKept
<1>15. Stores'
  <2>1. ~Holding(p)' /\ \A q \in Proc : q # p => Holding(q)' = Holding(q)
    BY <1>2, <1>3, <1>7, BystanderFacts DEF Holding
  <2>2. \A q \in Proc : q # p /\ Holding(q) => proctab[q].prbsd # b \/ b = 0
    BY <1>h DEF FrameInv, Stores, b
  <2>3. ASSUME NEW q \in Proc
        PROVE  /\ Holding(q)' =>
                     /\ proctab'[q].prbsd \in Store
                     /\ bstab'[proctab'[q].prbsd].isallocated
                     /\ bstab'[proctab'[q].prbsd].npages = proctab'[q].prpages
                     /\ \A r \in Proc : r # q /\ Holding(r)' =>
                           proctab'[r].prbsd # proctab'[q].prbsd
               /\ pc'[q] \notin Dead /\ ~Holding(q)' => proctab'[q].prbsd = 0
    <3>1. CASE q = p
      BY <1>3, <2>1, <3>1
    <3>2. CASE q # p
      <4>1. /\ Holding(q)' = Holding(q) /\ proctab'[q].prbsd = proctab[q].prbsd
            /\ proctab'[q].prpages = proctab[q].prpages
            /\ pc'[q] \in Dead <=> pc[q] \in Dead
        BY <1>2, <1>3, <2>1, <3>2, BystanderFacts
      <4>2. CASE Holding(q)
        <5>1. /\ proctab[q].prbsd \in Store
              /\ bstab[proctab[q].prbsd].isallocated
              /\ bstab[proctab[q].prbsd].npages = proctab[q].prpages
              /\ \A r \in Proc : r # q /\ Holding(r) => proctab[r].prbsd # proctab[q].prbsd
          BY <4>2 DEF FrameInv, Stores
        <5>2. bstab'[proctab[q].prbsd] = bstab[proctab[q].prbsd]
          BY <1>4, <2>2, <3>2, <4>2, <5>1
        <5> QED
          BY <1>3, <2>1, <4>1, <4>2, <5>1, <5>2
      <4>3. CASE ~Holding(q)
        BY <4>1, <4>3 DEF FrameInv, Stores
      <4> QED
        BY <4>2, <4>3
    <3> QED
      BY <3>1, <3>2
  <2>4. ASSUME NEW c \in Store \ {0}, bstab'[c].isallocated
        PROVE  \E q \in Proc : Holding(q)' /\ proctab'[q].prbsd = c
    <3>1. c # b \/ b = 0
      BY <1>4, <2>4
    <3>2. bstab[c].isallocated
      BY <1>4, <2>4, <3>1
    <3>3. PICK q \in Proc : Holding(q) /\ proctab[q].prbsd = c
      BY <3>2 DEF FrameInv, Stores
    <3>4. q # p
      BY <3>1, <3>3 DEF b
    <3> QED
      BY <1>3, <2>1, <3>3, <3>4
  <2> QED
    BY <2>3, <2>4 DEF Stores
<1>16. Uses'
  <2>1. \A q \in Proc, c \in Store : ~Transfer(q, c)'
    BY <1>n DEF Transfer, Moving
  <2>2. \A q \in Proc : pc'[q] \notin {"evict", "copied"}
    BY <1>n DEF Moving
  <2> QED
    BY <1>4, <2>1, <2>2 DEF Uses
<1> QED
  BY <1>5, <1>6, <1>8, <1>9, <1>12, <1>14, <1>15, <1>16 DEF FrameInv

-------------------------------------------------------------------------------

\* The parts of addMapping() and getPD(): what the new process p gets.
LEMMA CreateParts ==
    ASSUME NEW caller \in Proc, NEW p \in Proc, NEW n \in Sizes, vcreate(caller, p, n)
    PROVE  /\ pc[caller] = "user" /\ caller \in Creators /\ pc[p] = "free" /\ created < MaxCreate
           /\ \E d \in DSFrame \cup {NoFrame} :
                 /\ \/ d \in DSFrame /\ getPD(caller, d)
                    \/ d = NoFrame /\ UNCHANGED <<frametab, pdmem>>
                 /\ addMapping(p, n, d)
           /\ created' = created + 1
           /\ UNCHANGED <<cur, prSem, victim, faultVars, fifo, ptmem, tlb, dataVars, histVars>>
BY DEF vcreate

LEMMA CreateFrames ==
    ASSUME Orderly, FrameInv, SemInv', NEW caller \in Proc, NEW p \in Proc, NEW n \in Sizes,
           vcreate(caller, p, n)
    PROVE  FrameInv'
<1>1. /\ pc[caller] = "user" /\ caller \in Creators /\ pc[p] = "free" /\ created < MaxCreate
      /\ created' = created + 1
      /\ UNCHANGED <<cur, prSem, victim, faultVars, fifo, ptmem, tlb, dataVars, histVars>>
  BY CreateParts
<1>2. PICK d \in DSFrame \cup {NoFrame} :
         /\ \/ d \in DSFrame /\ getPD(caller, d)
            \/ d = NoFrame /\ UNCHANGED <<frametab, pdmem>>
         /\ addMapping(p, n, d)
  BY CreateParts
<1> USE DEF faultVars, dataVars, histVars
<1>t. /\ pc \in [Proc -> PC]
      /\ frametab \in [Frame -> [type : {"FREE", "PD", "PT", "PG"},
                                 pid : Proc \cup {NULLPROC}, vpn : Vpn]]
      /\ proctab \in [Proc -> [prpd : DSFrame \cup {NoFrame}, prpages : 0..MaxPages,
                               prbsd : Store \cup {SYSERR}]]
      /\ pdmem \in [DSFrame -> DSFrame \cup {NoFrame}]
      /\ bstab \in [Store -> [isallocated : BOOLEAN, usecount : Nat, npages : 0..MaxPages]]
      /\ bsdtab \in [Store -> [Vpn -> {"BS_IGNORE", "BS_NPRES", "BS_PRES"}]]
      /\ n \in 0..MaxPages /\ NoFrame \notin DSFrame
  BY SizeAssumption, TableFacts DEF FrameInv, SemInv, SemTypeOK, Typed
\* The new directory.
<1>3. /\ frametab' \in [Frame -> [type : {"FREE", "PD", "PT", "PG"},
                                  pid : Proc \cup {NULLPROC}, vpn : Vpn]]
      /\ pdmem' \in [DSFrame -> DSFrame \cup {NoFrame}]
      /\ d \in DSFrame => /\ frametab[d].type = "FREE"
                          /\ frametab'[d].type = "PD" /\ frametab'[d].pid = caller
                          /\ pdmem'[d] = NoFrame
      /\ \A f \in Frame : f # d => frametab'[f] = frametab[f]
      /\ \A f \in DSFrame : f # d => pdmem'[f] = pdmem[f]
  <2>1. CASE d \in DSFrame /\ getPD(caller, d)
    <3>1. /\ frametab[d].type = "FREE"
          /\ frametab' = [frametab EXCEPT ![d] = [@ EXCEPT !.type = "PD", !.pid = caller]]
          /\ pdmem' = [pdmem EXCEPT ![d] = NoFrame]
          /\ d \in Frame
      BY <2>1, FrameKinds DEF getPD, FirstFree
    <3>2. PICK e : e = [frametab[d] EXCEPT !.type = "PD", !.pid = caller]
      OBVIOUS
    <3>3. frametab[d] \in [type : {"FREE", "PD", "PT", "PG"}, pid : Proc \cup {NULLPROC}, vpn : Vpn]
      BY <1>t, <3>1
    <3>4. /\ e \in [type : {"FREE", "PD", "PT", "PG"}, pid : Proc \cup {NULLPROC}, vpn : Vpn]
          /\ e.type = "PD" /\ e.pid = caller
      BY <3>2, <3>3
    <3>5. frametab' = [frametab EXCEPT ![d] = e]
      BY <3>1, <3>2
    <3>6. /\ frametab' \in [Frame -> [type : {"FREE", "PD", "PT", "PG"},
                                      pid : Proc \cup {NULLPROC}, vpn : Vpn]]
          /\ frametab'[d] = e /\ \A f \in Frame : f # d => frametab'[f] = frametab[f]
      BY <1>t, <3>1, <3>4, <3>5
    <3>7. /\ pdmem' \in [DSFrame -> DSFrame \cup {NoFrame}]
          /\ pdmem'[d] = NoFrame /\ \A f \in DSFrame : f # d => pdmem'[f] = pdmem[f]
      BY <1>t, <2>1, <3>1
    <3> QED
      BY <3>1, <3>4, <3>6, <3>7
  <2>2. CASE d = NoFrame /\ UNCHANGED <<frametab, pdmem>>
    BY <1>t, <2>2
  <2> QED
    BY <1>2, <2>1, <2>2
\* The new entry of the process table, and the store.
<1>4. /\ proctab' \in [Proc -> [prpd : DSFrame \cup {NoFrame}, prpages : 0..MaxPages,
                                prbsd : Store \cup {SYSERR}]]
      /\ proctab'[p].prpd = d /\ proctab'[p].prpages = n
      /\ \A q \in Proc : q # p => proctab'[q] = proctab[q] /\ pc'[q] = pc[q]
      /\ bstab' \in [Store -> [isallocated : BOOLEAN, usecount : Nat, npages : 0..MaxPages]]
      /\ bsdtab' \in [Store -> [Vpn -> {"BS_IGNORE", "BS_NPRES", "BS_PRES"}]]
      /\ \/ /\ pc'[p] = "zombie" /\ UNCHANGED bsVars
         \/ /\ pc'[p] = "user" /\ n > 0
            /\ proctab'[p].prbsd \in Store
            /\ ~bstab[proctab'[p].prbsd].isallocated
            /\ bstab' = [bstab EXCEPT ![proctab'[p].prbsd] =
                           [isallocated |-> TRUE, usecount |-> 0, npages |-> n]]
  <2>1. CASE \E b \in Store :
                /\ LowestStore(n, b)
                /\ bstab' = [bstab EXCEPT ![b] =
                               [isallocated |-> TRUE, usecount |-> 0, npages |-> n]]
                /\ bsdtab' = [bsdtab EXCEPT ![b] =
                               [v \in Vpn |-> IF v < n THEN "BS_NPRES" ELSE @[v]]]
                /\ proctab' = [proctab EXCEPT ![p] =
                                 [prpd |-> d, prpages |-> n, prbsd |-> b]]
                /\ pc' = [pc EXCEPT ![p] = "user"]
    <3>1. PICK b \in Store :
                /\ LowestStore(n, b)
                /\ bstab' = [bstab EXCEPT ![b] =
                               [isallocated |-> TRUE, usecount |-> 0, npages |-> n]]
                /\ bsdtab' = [bsdtab EXCEPT ![b] =
                               [v \in Vpn |-> IF v < n THEN "BS_NPRES" ELSE @[v]]]
                /\ proctab' = [proctab EXCEPT ![p] =
                                 [prpd |-> d, prpages |-> n, prbsd |-> b]]
                /\ pc' = [pc EXCEPT ![p] = "user"]
      BY <2>1
    <3>2. n > 0 /\ ~bstab[b].isallocated
      BY <3>1 DEF LowestStore
    <3>3. bsdtab' \in [Store -> [Vpn -> {"BS_IGNORE", "BS_NPRES", "BS_PRES"}]]
      BY <1>t, <3>1
    <3>4. bstab' \in [Store -> [isallocated : BOOLEAN, usecount : Nat, npages : 0..MaxPages]]
      BY <1>t, <3>1
    <3>5. proctab' \in [Proc -> [prpd : DSFrame \cup {NoFrame}, prpages : 0..MaxPages,
                                 prbsd : Store \cup {SYSERR}]]
      BY <1>t, <3>1
    <3>6. /\ proctab'[p] = [prpd |-> d, prpages |-> n, prbsd |-> b] /\ pc'[p] = "user"
          /\ \A q \in Proc : q # p => proctab'[q] = proctab[q] /\ pc'[q] = pc[q]
      BY <1>t, <3>1
    <3> QED
      BY <3>1, <3>2, <3>3, <3>4, <3>5, <3>6
  <2>2. CASE /\ proctab' = [proctab EXCEPT ![p] =
                              [prpd |-> d, prpages |-> n, prbsd |-> SYSERR]]
             /\ pc' = [pc EXCEPT ![p] = "zombie"]
             /\ UNCHANGED bsVars
    <3>1. proctab' \in [Proc -> [prpd : DSFrame \cup {NoFrame}, prpages : 0..MaxPages,
                                 prbsd : Store \cup {SYSERR}]]
      BY <1>t, <2>2
    <3> QED
      BY <1>t, <2>2, <3>1 DEF bsVars
  <2> QED
    BY <1>2, <2>1, <2>2 DEF addMapping
<1>p. \A f \in PageFrame : f \in Frame /\ f # d /\ frametab'[f] = frametab[f]
  BY <1>2, <1>3, FrameKinds, NoPageFrame
<1>5. Typed'
  <2>1. created' \in 0..MaxCreate
    BY <1>1, SizeAssumption DEF FrameInv, Typed
  <2> QED
    BY <1>1, <1>3, <1>4, <2>1 DEF FrameInv, Typed
<1>6. KillsOwn' /\ FaultsInHeap'
  <2>1. /\ pc'[p] \notin Leaving /\ pc[p] \notin Leaving /\ pc'[p] # "lkill"
        /\ pc'[p] \notin Faulted
    BY <1>1, <1>4 DEF Leaving, Faulted, Serving
  <2>2. KillsOwn'
    BY <1>1, <1>4, <2>1, KillsKept DEF FrameInv, KillsOwn
  <2>3. FaultsInHeap'
    BY <1>1, <1>4, <2>1 DEF FrameInv, FaultsInHeap
  <2> QED
    BY <2>2, <2>3
<1>7. Directories'
  <2>1. \A q \in Proc : q # p => /\ proctab'[q].prpd = proctab[q].prpd
                                 /\ d \in DSFrame => proctab[q].prpd # d
    BY <1>3, <1>4, <1>t DEF FrameInv, Directories
  <2>2. \A f \in DSFrame : /\ frametab'[f].type # "PG"
                           /\ frametab'[f].type = "PD" => frametab'[f].pid \notin Exits
    <3>1. caller \notin Exits
      BY <1>1 DEF Orderly
    <3> QED
      BY <1>3, <3>1, FrameKinds DEF FrameInv, Directories
  <2>3. \A f \in PageFrame : frametab'[f].type \in {"FREE", "PG"}
    BY <1>p DEF FrameInv, Directories
  <2>4. ASSUME NEW q \in Proc, proctab'[q].prpd # NoFrame
        PROVE  /\ frametab'[proctab'[q].prpd].type = "PD"
               /\ \A r \in Proc : r # q => proctab'[r].prpd # proctab'[q].prpd
    <3>1. CASE q = p
      BY <1>2, <1>3, <1>4, <2>1, <2>4, <3>1
    <3>2. CASE q # p
      <4>1. /\ proctab'[q].prpd = proctab[q].prpd /\ proctab[q].prpd \in DSFrame
            /\ proctab[q].prpd # d
        BY <1>t, <2>1, <2>4, <3>2
      <4>2. frametab[proctab[q].prpd].type = "PD"
            /\ \A r \in Proc : r # q => proctab[r].prpd # proctab[q].prpd
        BY <2>4, <4>1 DEF FrameInv, Directories
      <4>3. frametab'[proctab[q].prpd] = frametab[proctab[q].prpd]
        BY <1>3, <4>1, FrameKinds
      <4> QED
        BY <1>4, <2>1, <4>1, <4>2, <4>3
    <3> QED
      BY <3>1, <3>2
  <2> QED
    BY <2>2, <2>3, <2>4 DEF Directories
<1>8. PTFrame(p)' = NoFrame
  BY <1>2, <1>3, <1>4 DEF PTFrame
<1>9. \A q \in Proc : q # p => PTFrame(q)' = PTFrame(q)
  <2>1. \A q \in Proc : q # p /\ proctab[q].prpd # NoFrame =>
           proctab[q].prpd \in DSFrame /\ proctab[q].prpd # d
    BY <1>3, <1>t DEF FrameInv, Directories
  <2> QED
    BY <1>3, <1>4, <2>1 DEF PTFrame
<1>10. Tables'
  <2>1. ASSUME NEW q \in Proc, Standing(q)', PTFrame(q)' # NoFrame
        PROVE  frametab'[PTFrame(q)'].type = "PT" /\ frametab'[PTFrame(q)'].pid = q
    <3>1. q # p /\ PTFrame(q)' = PTFrame(q) /\ Standing(q)
      BY <1>4, <1>8, <1>9, <2>1 DEF Standing
    <3>2. frametab[PTFrame(q)].type = "PT" /\ frametab[PTFrame(q)].pid = q
      BY <2>1, <3>1 DEF FrameInv, Tables
    <3>3. PTFrame(q) \in DSFrame /\ PTFrame(q) # d
      BY <1>3, <2>1, <3>1, <3>2, TableFacts DEF FrameInv
    <3>4. frametab'[PTFrame(q)] = frametab[PTFrame(q)]
      BY <1>3, <3>3, FrameKinds
    <3> QED
      BY <3>1, <3>2, <3>4
  <2> QED
    BY <2>1 DEF Tables
<1>11. SameEntries
  <2>1. ~Standing(p)
    BY <1>1 DEF Standing, Gone, Dead
  <2> QED
    BY <1>1, <1>9, <2>1 DEF SameEntries, Mapped, Pte
<1>12. Unmapped(p) /\ \A q \in Proc : q # p => Calm(q)
  <2>1. Unmapped(p)
    BY <1>1, <1>4, <1>8 DEF Unmapped, Mapped, Gone, Dead, Serving
  <2>2. \A q \in Proc : q # p => Calm(q)
    BY <1>1, <1>4 DEF Calm, Standing
  <2> QED
    BY <2>1, <2>2
<1>13. FramesMapped' /\ PagesFramed' /\ Services' /\ Listed'
  BY <1>1, <1>4, <1>11, <1>12, <1>p, CalmKept
<1>14. Uses'
  <2>1. \A q \in Proc : /\ pc[q] \notin Gone => proctab'[q].prbsd = proctab[q].prbsd
                        /\ \/ pc'[q] = pc[q] /\ job'[q] = job[q]
                           \/ pc[q] \notin Moving /\ pc'[q] \notin Moving
    BY <1>1, <1>4 DEF Gone, Dead, Moving
  <2>2. \A b \in Store : bstab'[b].usecount = bstab[b].usecount
    <3>1. CASE UNCHANGED bsVars
      BY <3>1 DEF bsVars
    <3>2. CASE /\ n > 0
               /\ proctab'[p].prbsd \in Store
               /\ ~bstab[proctab'[p].prbsd].isallocated
               /\ bstab' = [bstab EXCEPT ![proctab'[p].prbsd] =
                              [isallocated |-> TRUE, usecount |-> 0, npages |-> n]]
      <4> DEFINE b == proctab'[p].prbsd
      <4>1. bstab[b].usecount = 0
        BY <3>2, <1>t, IdleStore
      <4> QED
        BY <1>t, <3>2, <4>1
    <3> QED
      BY <1>4, <3>1, <3>2
  <2> QED
    BY <1>p, <2>1, <2>2, FrameOwners, UsesKept DEF FrameInv
<1>15. Stores'
  <2>1. ~Holding(p) /\ \A q \in Proc : q # p => Holding(q)' = Holding(q)
    BY <1>1, <1>4 DEF Holding, Gone, Dead
  <2>k. \A q \in Proc : q # p => /\ proctab'[q].prbsd = proctab[q].prbsd
                                 /\ proctab'[q].prpages = proctab[q].prpages
                                 /\ pc'[q] = pc[q]
    BY <1>4
  <2>2. CASE pc'[p] = "zombie" /\ UNCHANGED bsVars
    <3>1. ~Holding(p)' /\ pc'[p] \in Dead
      BY <2>2 DEF Holding, Gone, Dead
    <3>2. bstab' = bstab
      BY <2>2 DEF bsVars
    <3>3. ASSUME NEW q \in Proc
          PROVE  /\ Holding(q)' =>
                       /\ proctab'[q].prbsd \in Store
                       /\ bstab'[proctab'[q].prbsd].isallocated
                       /\ bstab'[proctab'[q].prbsd].npages = proctab'[q].prpages
                       /\ \A r \in Proc : r # q /\ Holding(r)' =>
                             proctab'[r].prbsd # proctab'[q].prbsd
                 /\ pc'[q] \notin Dead /\ ~Holding(q)' => proctab'[q].prbsd = 0
      BY <2>1, <2>k, <3>1, <3>2 DEF FrameInv, Stores
    <3>4. ASSUME NEW c \in Store \ {0}, bstab'[c].isallocated
          PROVE  \E q \in Proc : Holding(q)' /\ proctab'[q].prbsd = c
      <4>1. PICK q \in Proc : Holding(q) /\ proctab[q].prbsd = c
        BY <3>2, <3>4 DEF FrameInv, Stores
      <4> QED
        BY <2>1, <2>k, <4>1
    <3> QED
      BY <3>3, <3>4 DEF Stores
  <2>3. CASE /\ pc'[p] = "user" /\ n > 0
             /\ proctab'[p].prbsd \in Store
             /\ ~bstab[proctab'[p].prbsd].isallocated
             /\ bstab' = [bstab EXCEPT ![proctab'[p].prbsd] =
                            [isallocated |-> TRUE, usecount |-> 0, npages |-> n]]
    <3> DEFINE b == proctab'[p].prbsd
    <3>1. Holding(p)'
      BY <1>4, <2>3 DEF Holding, Gone, Dead
    <3>2. bstab'[b].isallocated /\ bstab'[b].npages = n
          /\ \A c \in Store : c # b => bstab'[c] = bstab[c]
      BY <1>t, <2>3
    <3>3. \A q \in Proc : Holding(q) => proctab[q].prbsd # b
      BY <2>3 DEF FrameInv, Stores
    <3>4. b \in Store
      BY <2>3
    <3> HIDE DEF b
    <3>5. ASSUME NEW q \in Proc
          PROVE  /\ Holding(q)' =>
                       /\ proctab'[q].prbsd \in Store
                       /\ bstab'[proctab'[q].prbsd].isallocated
                       /\ bstab'[proctab'[q].prbsd].npages = proctab'[q].prpages
                       /\ \A r \in Proc : r # q /\ Holding(r)' =>
                             proctab'[r].prbsd # proctab'[q].prbsd
                 /\ pc'[q] \notin Dead /\ ~Holding(q)' => proctab'[q].prbsd = 0
      <4>1. CASE q = p
        BY <1>4, <2>1, <3>1, <3>2, <3>3, <3>4, <4>1 DEF b
      <4>2. CASE q # p
        <5>1. CASE Holding(q)
          <6>1. /\ proctab[q].prbsd \in Store
                /\ bstab[proctab[q].prbsd].isallocated
                /\ bstab[proctab[q].prbsd].npages = proctab[q].prpages
                /\ \A r \in Proc : r # q /\ Holding(r) => proctab[r].prbsd # proctab[q].prbsd
            BY <5>1 DEF FrameInv, Stores
          <6>2. bstab'[proctab[q].prbsd] = bstab[proctab[q].prbsd]
            BY <3>2, <3>3, <5>1, <6>1
          <6>3. \A r \in Proc : r # q /\ Holding(r)' => proctab'[r].prbsd # proctab[q].prbsd
            BY <2>1, <2>k, <3>3, <5>1, <6>1 DEF b
          <6> QED
            BY <2>1, <2>k, <4>2, <5>1, <6>1, <6>2, <6>3
        <5>2. CASE ~Holding(q)
          BY <2>1, <2>k, <4>2, <5>2 DEF FrameInv, Stores
        <5> QED
          BY <5>1, <5>2
      <4> QED
        BY <4>1, <4>2
    <3>6. ASSUME NEW c \in Store \ {0}, bstab'[c].isallocated
          PROVE  \E q \in Proc : Holding(q)' /\ proctab'[q].prbsd = c
      <4>1. CASE c = b
        BY <3>1, <4>1 DEF b
      <4>2. CASE c # b
        <5>1. PICK q \in Proc : Holding(q) /\ proctab[q].prbsd = c
          BY <3>2, <3>6, <4>2 DEF FrameInv, Stores
        <5> QED
          BY <1>4, <2>1, <5>1
      <4> QED
        BY <4>1, <4>2
    <3> QED
      BY <3>5, <3>6 DEF Stores
  <2> QED
    BY <1>4, <2>2, <2>3
<1> QED
  BY <1>5, <1>6, <1>7, <1>10, <1>13, <1>14, <1>15 DEF FrameInv

-------------------------------------------------------------------------------

\* While p holds prSem, the others neither serve a fault nor free frames.
LEMMA OthersOutside ==
    ASSUME FrameInv, NEW p \in Proc, NEW q \in Proc, q # p,
           pc[p] \in Serving \cup {"enter", "killw"}
    PROVE  pc[q] \notin Serving /\ pc[q] \notin {"enter", "killw"} /\ pc[q] \notin Moving
<1>1. pc[p] \in Critical
  BY DEF Critical, Serving
<1>2. pc[q] \notin Critical
  BY <1>1, OneCritical DEF FrameInv
<1> QED
  BY <1>2 DEF Critical, Serving, Moving

\* kill() frees a frame of its process, the lowest first.
LEMMA FreeFramesFrames ==
    ASSUME FrameInv, SemInv', NEW p \in Proc, freeFrames(p)
    PROVE  FrameInv'
<1>1. /\ pc[p] = "killw" /\ victim[p] = p
      /\ UNCHANGED <<procVars, faultVars, tableVars, tlb, bsVars, dataVars, created, histVars>>
  BY DEF freeFrames, FrameInv, KillsOwn, Leaving
<1> USE DEF procVars, faultVars, tableVars, bsVars, dataVars, histVars
<1>2. PICK f \in Owned(p) :
         /\ frametab' = [frametab EXCEPT ![f] = FreeFrame]
         /\ fifo' = IF frametab[f].type = "PG" /\ Policy = "FIFO" THEN Unlink(fifo, f) ELSE fifo
  BY <1>1 DEF freeFrames
<1>3. f \in Frame /\ frametab[f].pid = p
  BY DEF Owned
<1>t. /\ frametab \in [Frame -> [type : {"FREE", "PD", "PT", "PG"},
                                 pid : Proc \cup {NULLPROC}, vpn : Vpn]]
      /\ FreeFrame \in [type : {"FREE", "PD", "PT", "PG"}, pid : Proc \cup {NULLPROC}, vpn : Vpn]
      /\ fifo \in Seq(PageFrame)
  BY ZeroTyped DEF FrameInv, Typed, FreeFrame
<1>4. /\ frametab' \in [Frame -> [type : {"FREE", "PD", "PT", "PG"},
                                  pid : Proc \cup {NULLPROC}, vpn : Vpn]]
      /\ frametab'[f].type = "FREE"
      /\ \A g \in Frame : g # f => frametab'[g] = frametab[g]
  BY <1>2, <1>3, <1>t DEF FreeFrame
<1>5. \A q \in Proc : pc[q] \notin Serving /\ pc[q] \notin Moving
  BY <1>1, OthersOutside DEF Serving, Moving
<1>6. f \in PageFrame \/ f \in DSFrame
  BY <1>3, SizeAssumption DEF Frame, PageFrame, DSFrame
<1>7. frametab[f].type # "PD"
  <2>1. p \in Exits
    BY <1>1 DEF FrameInv, KillsOwn, Leaving
  <2>2. f \in PageFrame => frametab[f].type \in {"FREE", "PG"}
    BY DEF FrameInv, Directories
  <2> QED
    BY <1>3, <1>6, <2>1, <2>2 DEF FrameInv, Directories
<1>8. /\ fifo' \in Seq(PageFrame)
      /\ Listed'
  <2>1. CASE frametab[f].type = "PG" /\ Policy = "FIFO"
    <3>1. f \in PageFrame
      BY <1>6, <2>1 DEF FrameInv, Directories
    <3>2. /\ Once(fifo)
          /\ \A g \in PageFrame : On(g, fifo) <=> frametab[g].type # "FREE"
      BY <1>5, <2>1 DEF FrameInv, Listed
    <3>3. /\ fifo' \in Seq(PageFrame) /\ Once(fifo')
          /\ \A g \in PageFrame : On(g, fifo') <=> g # f /\ On(g, fifo)
      BY <1>2, <1>t, <2>1, <3>1, <3>2, UnlinkOnce
    <3>4. \A g \in PageFrame : On(g, fifo') <=> frametab'[g].type # "FREE"
      BY <1>4, <3>2, <3>3, FrameKinds
    <3> QED
      BY <1>1, <1>5, <3>3, <3>4 DEF Listed
  <2>2. CASE ~(frametab[f].type = "PG" /\ Policy = "FIFO")
    <3>1. fifo' = fifo
      BY <1>2, <2>2
    <3>2. Policy = "FIFO" => \A g \in PageFrame :
             frametab'[g].type # "FREE" <=> frametab[g].type # "FREE"
      BY <1>4, <2>2, FrameKinds DEF FrameInv, Directories
    <3> QED
      BY <1>1, <1>5, <1>t, <3>1, <3>2 DEF FrameInv, Listed
  <2> QED
    BY <2>1, <2>2
<1>9. Typed'
  BY <1>1, <1>4, <1>8 DEF FrameInv, Typed
<1>10. KillsOwn' /\ FaultsInHeap'
  BY <1>1 DEF FrameInv, KillsOwn, FaultsInHeap
<1>11. Directories'
  <2>1. \A q \in Proc : proctab[q].prpd # NoFrame => proctab[q].prpd \in Frame
    BY FrameKinds DEF FrameInv, Typed
  <2> QED
    BY <1>1, <1>4, <1>7, <2>1, FrameKinds DEF FrameInv, Directories
<1>12. \A q \in Proc : PTFrame(q)' = PTFrame(q) /\ Standing(q)' = Standing(q)
  BY <1>1 DEF PTFrame, Standing
<1>13. \A q \in Proc : Standing(q) => q # p
  BY <1>1 DEF Standing
<1>14. Tables'
  <2>1. \A q \in Proc : PTFrame(q) # NoFrame => PTFrame(q) \in Frame
    BY TableFacts, FrameKinds DEF FrameInv
  <2> QED
    BY <1>3, <1>4, <1>12, <1>13, <2>1 DEF FrameInv, Tables
<1>15. FramesMapped'
  <2>1. SUFFICES ASSUME NEW g \in PageFrame, frametab'[g].type # "FREE"
                 PROVE  LET q == frametab'[g].pid
                        IN  /\ q \in Proc /\ pc[q] \notin Gone
                            /\ frametab'[g].vpn < proctab[q].prpages
                            /\ \/ pc[q] = "killw"
                               \/ /\ Mapped(q, frametab'[g].vpn)
                                  /\ \/ Pte(q, frametab'[g].vpn).base = g
                                     \/ pc[q] = "load" /\ job[q].frame = g
    BY <1>1 DEF FramesMapped, Owner, Mapped, Pte, PTFrame
  <2>2. frametab'[g] = frametab[g]
    BY <1>4, <2>1, FrameKinds
  <2> QED
    BY <2>1, <2>2 DEF FrameInv, FramesMapped, Owner
<1>16. PagesFramed'
  <2>1. SUFFICES ASSUME NEW q \in Proc, NEW v \in Vpn, Standing(q), Mapped(q, v)
                 PROVE  frametab'[Pte(q, v).base] = [type |-> "PG", pid |-> q, vpn |-> v]
    BY <1>1 DEF PagesFramed, Standing, Mapped, Pte, PTFrame
  <2>2. frametab[Pte(q, v).base] = [type |-> "PG", pid |-> q, vpn |-> v]
    BY <1>5, <2>1 DEF FrameInv, PagesFramed
  <2>3. Pte(q, v).base \in PageFrame
    BY <2>1, <2>2, EntryFrame DEF FrameInv, Mapped
  <2>4. Pte(q, v).base # f
    BY <1>3, <1>13, <2>1, <2>2
  <2> QED
    BY <1>4, <2>2, <2>3, <2>4, FrameKinds
<1>17. Services'
  BY <1>1, <1>5 DEF Services
<1>18. Stores'
  BY <1>1, StoresKept DEF FrameInv
<1>19. Uses'
  BY <1>1, <1>5 DEF FrameInv, Uses, Moving, Transfer
<1> QED
  BY <1>8, <1>9, <1>10, <1>11, <1>14, <1>15, <1>16, <1>17, <1>18, <1>19 DEF FrameInv

-------------------------------------------------------------------------------

\* The page that pfhandler computes from CR2 lies in the heap of the process.
LEMMA PageServed ==
    ASSUME FrameInv, NEW p \in Proc, pc[p] = "enter"
    PROVE  /\ PageOf(cr2) \in Vpn /\ PageOf(cr2) < proctab[p].prpages
           /\ proctab[p].prpd \in DSFrame
           /\ proctab[p].prpages > 0
           /\ Standing(p)
           /\ ~pfhandlerOutOfRange(p)
<1>1. /\ proctab[p].prpd # NoFrame /\ cr2 < proctab[p].prpages * NBPG
      /\ proctab[p].prpages > 0
  BY DEF FrameInv, FaultsInHeap, Faulted
<1>2. /\ cr2 \in Address /\ proctab[p].prpages \in 0..MaxPages
      /\ proctab[p].prpd \in DSFrame \cup {NoFrame}
  BY DEF FrameInv, Typed
<1>3. PageOf(cr2) \in Vpn /\ PageOf(cr2) < proctab[p].prpages
  <2>1. proctab[p].prpages \in 0..(MaxPages + 1)
    BY <1>2, SizeAssumption
  <2> QED
    BY <1>1, <1>2, <2>1, PageInHeap
<1>4. ~(cr2 > proctab[p].prpages * NBPG)
  <2>1. cr2 \in Int /\ proctab[p].prpages * NBPG \in Int
    BY <1>2, SizeAssumption DEF Address
  <2> QED
    BY <1>1, <2>1
<1>5. Standing(p)
  BY DEF Standing, Gone, Dead
<1> QED
  BY <1>1, <1>2, <1>3, <1>4, <1>5 DEF pfhandlerOutOfRange

\* p begins to serve a page that was not there: its entry is marked present, in a page
\* table it has or gets, and nothing else is mapped or unmapped.
LEMMA BeginService ==
    ASSUME FrameInv, SemInv', Typed', Directories', Tables',
           NEW p \in Proc, NEW v \in Vpn, pc[p] = "enter", v < proctab[p].prpages,
           ~Mapped(p, v),
           pc' = [pc EXCEPT ![p] = "alloc"],
           job' = [job EXCEPT ![p].vpn = v],
           UNCHANGED <<victim, cr2, fifo, proctab, bstab>>,
           \A f \in PageFrame : frametab'[f] = frametab[f],
           Mapped(p, v)',
           \A r \in Proc, w \in Vpn : Standing(r) /\ (r # p \/ w # v) =>
               /\ Mapped(r, w)' = Mapped(r, w)
               /\ Mapped(r, w) => Pte(r, w)' = Pte(r, w)
    PROVE  FrameInv'
<1>t. /\ pc \in [Proc -> PC]
      /\ job \in [Proc -> [frame : Frame, vpn : Vpn, bs : Store \cup {SYSERR}]]
  BY DEF FrameInv, SemInv, SemTypeOK, Typed
<1>1. /\ pc'[p] = "alloc" /\ job'[p].vpn = v
      /\ \A q \in Proc : q # p => pc'[q] = pc[q] /\ job'[q] = job[q] /\ Bystander(q)
  BY <1>t DEF Bystander
<1>2. \A q \in Proc : /\ pc'[q] \notin Moving /\ pc[q] \notin Moving
                      /\ q # p => pc[q] \notin Serving /\ pc[q] \notin {"enter", "killw"}
  BY <1>1, OthersOutside DEF Moving
<1>3. Standing(p) /\ \A q \in Proc : Standing(q)' = Standing(q)
  BY <1>1 DEF Standing, Gone, Dead
<1>4. KillsOwn'
  <2>1. \A q \in Proc : (pc'[q] \in Leaving <=> pc[q] \in Leaving) /\ pc'[q] # "lkill"
    BY <1>1 DEF Leaving, FrameInv, KillsOwn
  <2> QED
    BY <2>1, KillsKept DEF FrameInv
<1>5. FaultsInHeap'
  <2>1. \A q \in Proc : pc'[q] \in Faulted => pc[q] \in Faulted
    BY <1>1 DEF Faulted
  <2> QED
    BY <2>1, HeapsKept DEF FrameInv
<1>6. FramesMapped'
  <2>1. SUFFICES ASSUME NEW f \in PageFrame, frametab[f].type # "FREE",
                        NEW q, q = Owner(f)
                 PROVE  /\ q \in Proc /\ pc'[q] \notin Gone
                        /\ frametab[f].vpn < proctab[q].prpages
                        /\ \/ pc'[q] = "killw"
                           \/ /\ Mapped(q, frametab[f].vpn)'
                              /\ Pte(q, frametab[f].vpn)'.base = f
    BY DEF FramesMapped, Owner
  <2> DEFINE w == frametab[f].vpn
  <2>2. /\ q \in Proc /\ pc[q] \notin Gone /\ w < proctab[q].prpages
        /\ \/ pc[q] = "killw"
           \/ Mapped(q, w) /\ (Pte(q, w).base = f \/ pc[q] = "load")
    BY <2>1 DEF FrameInv, FramesMapped
  <2>3. w \in Vpn
    BY FrameKinds DEF FrameInv, Typed
  <2>4. pc[q] # "killw" /\ pc[q] # "load"
    <3>1. CASE q = p
      BY <3>1
    <3>2. CASE q # p
      BY <1>2, <2>2, <3>2 DEF Serving
    <3> QED
      BY <3>1, <3>2
  <2>5. Standing(q) /\ Mapped(q, w) /\ Pte(q, w).base = f
    BY <2>2, <2>4 DEF Standing
  <2>6. q # p \/ w # v
    BY <2>5
  <2>7. Mapped(q, w)' /\ Pte(q, w)' = Pte(q, w)
    BY <2>2, <2>3, <2>5, <2>6
  <2>8. pc'[q] \notin Gone
    BY <1>1, <2>2 DEF Gone, Dead
  <2> QED
    BY <2>2, <2>5, <2>7, <2>8
<1>7. PagesFramed'
  <2>1. SUFFICES ASSUME NEW q \in Proc, NEW w \in Vpn,
                        Standing(q), Mapped(q, w)', ~(pc'[q] \in Serving /\ job'[q].vpn = w)
                 PROVE  frametab'[Pte(q, w)'.base] = [type |-> "PG", pid |-> q, vpn |-> w]
    BY <1>3 DEF PagesFramed
  <2>2. q # p \/ w # v
    BY <1>1, <2>1 DEF Serving
  <2>3. Mapped(q, w) /\ Pte(q, w)' = Pte(q, w)
    BY <2>1, <2>2
  <2>4. pc[q] \notin Serving
    BY <1>2 DEF Serving
  <2>5. frametab[Pte(q, w).base] = [type |-> "PG", pid |-> q, vpn |-> w]
    BY <2>1, <2>3, <2>4 DEF FrameInv, PagesFramed
  <2>6. Pte(q, w).base \in PageFrame
    BY <2>3, <2>5, EntryFrame DEF FrameInv, Mapped
  <2> QED
    BY <2>3, <2>5, <2>6
<1>8. Services'
  <2>1. SUFFICES Served(p)'
    BY <1>1, <1>2 DEF Services
  <2>2. ASSUME NEW f \in PageFrame, frametab[f].type # "FREE", frametab[f].pid = p
        PROVE  frametab[f].vpn # v
    BY <2>2 DEF FrameInv, FramesMapped, Owner
  <2>3. Mapped(p, job[p].vpn)'
    BY <1>1 DEF Mapped, PTFrame
  <2> QED
    BY <1>1, <2>2, <2>3 DEF Served
<1>9. Listed'
  BY <1>2 DEF FrameInv, Listed
<1>10. Stores'
  BY <1>1, StoresKept DEF FrameInv, Gone, Dead
<1>11. Uses'
  BY <1>2, FrameOwners, UsesKept DEF FrameInv
<1> QED
  BY <1>4, <1>5, <1>6, <1>7, <1>8, <1>9, <1>10, <1>11 DEF FrameInv

LEMMA NewPageFrames ==
    ASSUME FrameInv, SemInv', NEW p \in Proc, pfhandlerNewPage(p)
    PROVE  FrameInv'
<1>v. PICK v \in Vpn : v = PageOf(cr2)
  BY PageServed DEF pfhandlerNewPage
<1> DEFINE e == [Pte(p, v) EXCEPT !.pres = TRUE]
           E == [pres : BOOLEAN, dirty : BOOLEAN, base : Frame]
<1>1. /\ pc[p] = "enter" /\ PTFrame(p) # NoFrame /\ ~Mapped(p, v)
      /\ ptmem' = SetPte(p, v, e)
      /\ pc' = [pc EXCEPT ![p] = "alloc"]
      /\ job' = [job EXCEPT ![p].vpn = v]
      /\ UNCHANGED <<cur, prSem, victim, cr2, fault, frameVars, proctab, pdmem, tlb, bsVars,
                     dataVars, created, histVars>>
  BY <1>v DEF pfhandlerNewPage
<1> USE DEF frameVars, bsVars, dataVars, histVars
<1>2. v \in Vpn /\ v < proctab[p].prpages /\ Standing(p)
  BY <1>1, <1>v, PageServed
<1>3. e \in E /\ e.pres = TRUE
  <2>1. Pte(p, v) \in E
    BY <1>1, <1>2, TableFacts DEF FrameInv
  <2> QED
    BY <2>1
<1> HIDE DEF e
<1>4. /\ ptmem' \in [DSFrame -> [Vpn -> E]]
      /\ \A r \in Proc : PTFrame(r)' = PTFrame(r)
      /\ Mapped(p, v)'
      /\ \A r \in Proc, w \in Vpn : Standing(r) /\ (r # p \/ w # v) =>
            /\ Mapped(r, w)' = Mapped(r, w)
            /\ PTFrame(r) # NoFrame => Pte(r, w)' = Pte(r, w)
  <2>1. Typed /\ Tables
    BY DEF FrameInv
  <2>2. /\ PTFrame(p) # NoFrame /\ ptmem' = SetPte(p, v, e) /\ UNCHANGED pdmem
        /\ \A r \in Proc : proctab'[r].prpd = proctab[r].prpd
    BY <1>1
  <2> HIDE DEF E
  <2>3. /\ ptmem' \in [DSFrame -> [Vpn -> E]]
        /\ \A r \in Proc : PTFrame(r)' = PTFrame(r)
        /\ Mapped(p, v)' = e.pres
        /\ \A r \in Proc, w \in Vpn : Standing(r) /\ (r # p \/ w # v) =>
              /\ Mapped(r, w)' = Mapped(r, w)
              /\ PTFrame(r) # NoFrame => Pte(r, w)' = Pte(r, w)
    BY <1>2, <1>3, <2>1, <2>2, EntrySet DEF E
  <2> QED
    BY <1>3, <2>3
<1>5. Typed'
  <2>1. job' \in [Proc -> [frame : Frame, vpn : Vpn, bs : Store \cup {SYSERR}]]
    <3>1. job \in [Proc -> [frame : Frame, vpn : Vpn, bs : Store \cup {SYSERR}]]
      BY DEF FrameInv, Typed
    <3> QED
      BY <1>1, <1>2, <3>1
  <2> QED
    BY <1>1, <1>4, <2>1 DEF FrameInv, Typed
<1>6. Directories'
  <2>1. \A f \in PageFrame : frametab'[f].type \in {"FREE", "PG"}
    BY <1>1 DEF FrameInv, Directories
  <2> QED
    BY <1>1, <2>1, DirectoriesKept DEF FrameInv
<1>7. Tables'
  <2>1. \A q \in Proc : Standing(q)' => Standing(q)
    BY <1>1 DEF Standing, Gone, Dead, FrameInv, SemInv, SemTypeOK
  <2> QED
    BY <1>1, <1>4, <2>1, TablesKept DEF FrameInv
<1>8. \A r \in Proc, w \in Vpn : Standing(r) /\ (r # p \/ w # v) =>
         /\ Mapped(r, w)' = Mapped(r, w)
         /\ Mapped(r, w) => Pte(r, w)' = Pte(r, w)
  <2>1. \A r \in Proc, w \in Vpn : Mapped(r, w) => PTFrame(r) # NoFrame
    BY DEF Mapped
  <2> QED
    BY <1>4, <2>1
<1>9. /\ UNCHANGED <<victim, cr2, fifo, proctab, bstab>>
      /\ \A f \in PageFrame : frametab'[f] = frametab[f]
      /\ Mapped(p, v)'
  BY <1>1, <1>4
<1> QED
  BY <1>1, <1>2, <1>5, <1>6, <1>7, <1>8, <1>9, BeginService

\* The page table that getPT() builds for p: it has the one page marked present, and the
\* tables of the others are where they were.
LEMMA TableBuilt ==
    ASSUME FrameInv, NEW p \in Proc, NEW f \in DSFrame, NEW v \in Vpn, v = PageOf(cr2),
           pc[p] = "enter", PTFrame(p) = NoFrame, getPT(p, f), UNCHANGED proctab
    PROVE  /\ frametab[f].type = "FREE"
           /\ frametab' \in [Frame -> [type : {"FREE", "PD", "PT", "PG"},
                                       pid : Proc \cup {NULLPROC}, vpn : Vpn]]
           /\ frametab'[f].type = "PT" /\ frametab'[f].pid = p
           /\ \A g \in Frame : g # f => frametab'[g] = frametab[g]
           /\ pdmem' \in [DSFrame -> DSFrame \cup {NoFrame}]
           /\ ptmem' \in [DSFrame -> [Vpn -> [pres : BOOLEAN, dirty : BOOLEAN, base : Frame]]]
           /\ PTFrame(p)' = f
           /\ \A q \in Proc : q # p =>
                 PTFrame(q)' = PTFrame(q) /\ (Standing(q) /\ PTFrame(q) # NoFrame =>
                    PTFrame(q) \in DSFrame /\ PTFrame(q) # f)
           /\ ~Mapped(p, v) /\ Mapped(p, v)'
           /\ \A r \in Proc, w \in Vpn : Standing(r) /\ (r # p \/ w # v) =>
                 /\ Mapped(r, w)' = Mapped(r, w)
                 /\ Mapped(r, w) => Pte(r, w)' = Pte(r, w)
<1> DEFINE E == [pres : BOOLEAN, dirty : BOOLEAN, base : Frame]
           d == proctab[p].prpd
<1>2. d \in DSFrame
  BY PageServed
<1>t. /\ frametab \in [Frame -> [type : {"FREE", "PD", "PT", "PG"},
                                 pid : Proc \cup {NULLPROC}, vpn : Vpn]]
      /\ pdmem \in [DSFrame -> DSFrame \cup {NoFrame}]
      /\ ptmem \in [DSFrame -> [Vpn -> E]]
      /\ DSFrame \subseteq Frame
  BY FrameKinds DEF FrameInv, Typed
<1>3. /\ frametab[f].type = "FREE"
      /\ frametab' = [frametab EXCEPT ![f] = [@ EXCEPT !.type = "PT", !.pid = p]]
      /\ pdmem' = [pdmem EXCEPT ![d] = f]
      /\ ptmem' = [ptmem EXCEPT ![f] = [w \in Vpn |-> [NoPte EXCEPT !.pres = (w = v)]]]
  BY DEF getPT, FirstFree
<1> HIDE DEF d
<1>4. /\ frametab' \in [Frame -> [type : {"FREE", "PD", "PT", "PG"},
                                  pid : Proc \cup {NULLPROC}, vpn : Vpn]]
      /\ frametab'[f].type = "PT" /\ frametab'[f].pid = p
      /\ \A g \in Frame : g # f => frametab'[g] = frametab[g]
  BY <1>t, <1>3
<1>5. /\ pdmem' \in [DSFrame -> DSFrame \cup {NoFrame}]
      /\ pdmem'[d] = f
      /\ \A g \in DSFrame : g # d => pdmem'[g] = pdmem[g]
  BY <1>2, <1>t, <1>3
<1>6. /\ ptmem' \in [DSFrame -> [Vpn -> E]]
      /\ \A w \in Vpn : ptmem'[f][w].pres = (w = v)
      /\ \A g \in DSFrame : g # f => ptmem'[g] = ptmem[g]
  <2>1. \A w \in Vpn : /\ [NoPte EXCEPT !.pres = (w = v)] \in E
                       /\ [NoPte EXCEPT !.pres = (w = v)].pres = (w = v)
    BY ZeroTyped DEF NoPte
  <2>2. [w \in Vpn |-> [NoPte EXCEPT !.pres = (w = v)]] \in [Vpn -> E]
    BY <2>1
  <2> HIDE DEF E
  <2> QED
    BY <1>t, <1>3, <2>1, <2>2
<1>7. \A q \in Proc : q # p =>
         PTFrame(q)' = PTFrame(q) /\ (Standing(q) /\ PTFrame(q) # NoFrame =>
            PTFrame(q) \in DSFrame /\ PTFrame(q) # f)
  <2>1. \A q \in Proc : proctab[q].prpd \in DSFrame \cup {NoFrame}
    BY DEF FrameInv, Typed
  <2>2. \A q \in Proc : q # p => proctab[q].prpd # d
    BY <1>2, NoPageFrame DEF FrameInv, Directories, d
  <2>3. \A q \in Proc : q # p => PTFrame(q)' = PTFrame(q)
    BY <1>5, <2>1, <2>2 DEF PTFrame
  <2>4. \A q \in Proc : Standing(q) /\ PTFrame(q) # NoFrame =>
           PTFrame(q) \in DSFrame /\ PTFrame(q) # f
    BY <1>3, TableFacts DEF FrameInv, Tables
  <2> QED
    BY <2>3, <2>4
<1>8. PTFrame(p)' = f
  <2>1. proctab'[p].prpd = d
    BY DEF d
  <2>2. d # NoFrame
    BY <1>2, NoPageFrame
  <2> QED
    BY <1>5, <2>1, <2>2 DEF PTFrame
<1>9. Mapped(p, v)' /\ \A w \in Vpn : w # v => ~Mapped(p, w)'
  BY <1>2, <1>6, <1>8, NoPageFrame DEF Mapped
<1>10. \A w \in Vpn : ~Mapped(p, w)
  BY DEF Mapped
<1>11. ASSUME NEW r \in Proc, NEW w \in Vpn, Standing(r), r # p \/ w # v
       PROVE  /\ Mapped(r, w)' = Mapped(r, w)
              /\ Mapped(r, w) => Pte(r, w)' = Pte(r, w)
  <2>1. CASE r = p
    <3>1. ~Mapped(r, w)' /\ ~Mapped(r, w)
      BY <1>9, <1>10, <1>11, <2>1
    <3>2. Mapped(r, w) \in BOOLEAN /\ Mapped(r, w)' \in BOOLEAN
      BY DEF Mapped
    <3> QED
      BY <3>1, <3>2
  <2>2. CASE r # p
    BY <1>6, <1>7, <1>11, <2>2 DEF Mapped, Pte
  <2> QED
    BY <2>1, <2>2
<1> QED
  BY <1>3, <1>4, <1>5, <1>6, <1>7, <1>8, <1>9, <1>10, <1>11

LEMMA NewTableFrames ==
    ASSUME FrameInv, SemInv', NEW p \in Proc, pfhandlerNewTable(p)
    PROVE  FrameInv'
<1>v. PICK v \in Vpn : v = PageOf(cr2)
  BY PageServed DEF pfhandlerNewTable
<1> DEFINE E == [pres : BOOLEAN, dirty : BOOLEAN, base : Frame]
           d == proctab[p].prpd
<1>1. /\ pc[p] = "enter" /\ PTFrame(p) = NoFrame
      /\ \/ /\ \E f \in DSFrame : getPT(p, f)
            /\ pc' = [pc EXCEPT ![p] = "alloc"]
         \/ /\ pc' = [pc EXCEPT ![p] = "lost"]
            /\ UNCHANGED <<frametab, pdmem, ptmem>>
      /\ job' = [job EXCEPT ![p].vpn = v]
      /\ UNCHANGED <<cur, prSem, victim, cr2, fault, fifo, proctab, tlb, bsVars, dataVars,
                     created, histVars>>
  BY <1>v DEF pfhandlerNewTable
<1> USE DEF bsVars, dataVars, histVars
<1>2. /\ v \in Vpn /\ v < proctab[p].prpages /\ Standing(p)
      /\ d \in DSFrame
  BY <1>1, <1>v, PageServed
<1>t. /\ pc \in [Proc -> PC]
      /\ job \in [Proc -> [frame : Frame, vpn : Vpn, bs : Store \cup {SYSERR}]]
      /\ frametab \in [Frame -> [type : {"FREE", "PD", "PT", "PG"},
                                 pid : Proc \cup {NULLPROC}, vpn : Vpn]]
      /\ pdmem \in [DSFrame -> DSFrame \cup {NoFrame}]
      /\ ptmem \in [DSFrame -> [Vpn -> E]]
      /\ DSFrame \subseteq Frame
  BY FrameKinds DEF FrameInv, SemInv, SemTypeOK, Typed
<1>j. job' \in [Proc -> [frame : Frame, vpn : Vpn, bs : Store \cup {SYSERR}]]
  <2> DEFINE J == [frame : Frame, vpn : Vpn, bs : Store \cup {SYSERR}]
  <2>1. PICK j : j = [job[p] EXCEPT !.vpn = v]
    OBVIOUS
  <2>2. job' = [job EXCEPT ![p] = j]
    BY <1>1, <2>1
  <2>3. job[p] \in J
    BY <1>t
  <2>4. j \in J
    BY <1>2, <2>1, <2>3
  <2> HIDE DEF J
  <2>5. job \in [Proc -> J]
    BY <1>t DEF J
  <2>6. job' \in [Proc -> J]
    BY <2>2, <2>4, <2>5
  <2> QED
    BY <2>6 DEF J
<1>3. CASE /\ pc' = [pc EXCEPT ![p] = "lost"]
           /\ UNCHANGED <<frametab, pdmem, ptmem>>
  <2>1. Typed'
    BY <1>1, <1>3, <1>j DEF FrameInv, Typed
  <2>2. /\ pc'[p] = "lost"
        /\ \A q \in Proc : q # p => pc'[q] = pc[q] /\ job'[q] = job[q] /\ Bystander(q)
    BY <1>1, <1>3, <1>t DEF Bystander
  <2>3. KillsOwn'
    <3>1. \A q \in Proc : (pc'[q] \in Leaving <=> pc[q] \in Leaving) /\ pc'[q] # "lkill"
      BY <1>1, <2>2 DEF Leaving, FrameInv, KillsOwn
    <3> QED
      BY <1>1, <3>1, KillsKept DEF FrameInv
  <2>4. /\ Calm(p) /\ pc'[p] \notin Gone /\ pc[p] \notin Gone /\ pc[p] \notin Dead
        /\ pc[p] \in Faulted
    BY <1>1, <2>2 DEF Calm, Standing, Gone, Dead, Serving, Faulted
  <2> QED
    BY <1>1, <1>3, <2>1, <2>2, <2>3, <2>4, MovingOn DEF frameVars, tableVars
<1>4. CASE /\ \E f \in DSFrame : getPT(p, f)
           /\ pc' = [pc EXCEPT ![p] = "alloc"]
  <2>1. PICK f \in DSFrame : getPT(p, f)
    BY <1>4
  <2>2. /\ frametab[f].type = "FREE"
        /\ frametab' \in [Frame -> [type : {"FREE", "PD", "PT", "PG"},
                                    pid : Proc \cup {NULLPROC}, vpn : Vpn]]
        /\ frametab'[f].type = "PT" /\ frametab'[f].pid = p
        /\ \A g \in Frame : g # f => frametab'[g] = frametab[g]
        /\ pdmem' \in [DSFrame -> DSFrame \cup {NoFrame}]
        /\ ptmem' \in [DSFrame -> [Vpn -> E]]
        /\ PTFrame(p)' = f
        /\ \A q \in Proc : q # p =>
              PTFrame(q)' = PTFrame(q) /\ (Standing(q) /\ PTFrame(q) # NoFrame =>
                 PTFrame(q) \in DSFrame /\ PTFrame(q) # f)
        /\ ~Mapped(p, v) /\ Mapped(p, v)'
    BY <1>v, <1>1, <2>1, TableBuilt
  <2>3. \A r \in Proc, w \in Vpn : Standing(r) /\ (r # p \/ w # v) =>
           /\ Mapped(r, w)' = Mapped(r, w)
           /\ Mapped(r, w) => Pte(r, w)' = Pte(r, w)
    BY <1>v, <1>1, <2>1, TableBuilt
  <2> HIDE DEF d
  <2>4. Typed'
    BY <1>1, <1>j, <2>2 DEF FrameInv, Typed
  <2>5. f \notin PageFrame /\ \A g \in PageFrame : frametab'[g] = frametab[g]
    BY <2>2, FrameKinds
  <2>6. Directories'
    <3>1. \A q \in Proc : proctab[q].prpd # NoFrame =>
             proctab[q].prpd \in Frame /\ proctab[q].prpd # f
      <4>1. \A q \in Proc : proctab[q].prpd \in DSFrame \cup {NoFrame}
        BY DEF FrameInv, Typed
      <4> QED
        BY <1>t, <2>2, <4>1 DEF FrameInv, Directories
    <3>2. \A g \in DSFrame : /\ frametab'[g].type # "PG"
                             /\ frametab'[g].type = "PD" => frametab'[g].pid \notin Exits
      BY <1>t, <2>2 DEF FrameInv, Directories
    <3>3. \A g \in PageFrame : frametab'[g].type \in {"FREE", "PG"}
      BY <2>5 DEF FrameInv, Directories
    <3>4. \A q \in Proc : proctab[q].prpd # NoFrame =>
             /\ frametab'[proctab[q].prpd].type = "PD"
             /\ \A r \in Proc : r # q => proctab[r].prpd # proctab[q].prpd
      <4>1. \A g \in Frame : g # f => frametab'[g] = frametab[g]
        BY <2>2
      <4> QED
        BY <3>1, <4>1 DEF FrameInv, Directories
    <3>5. proctab' = proctab
      BY <1>1
    <3> QED
      BY <3>2, <3>3, <3>4, <3>5 DEF Directories
  <2>7. Tables'
    <3>1. \A q \in Proc : Standing(q)' => Standing(q)
      BY <1>1, <1>4, <1>t DEF Standing, Gone, Dead
    <3> QED
      <4>1. SUFFICES ASSUME NEW q \in Proc, Standing(q), PTFrame(q)' # NoFrame
                     PROVE  frametab'[PTFrame(q)'].type = "PT" /\ frametab'[PTFrame(q)'].pid = q
        BY <3>1 DEF Tables
      <4>2. CASE q = p
        BY <2>2, <4>2
      <4>3. CASE q # p
        <5>1. PTFrame(q)' = PTFrame(q) /\ PTFrame(q) \in DSFrame /\ PTFrame(q) # f
          BY <2>2, <4>1, <4>3
        <5>2. frametab[PTFrame(q)].type = "PT" /\ frametab[PTFrame(q)].pid = q
          BY <4>1, <5>1 DEF FrameInv, Tables
        <5> QED
          BY <1>t, <2>2, <5>1, <5>2
      <4> QED
        BY <4>2, <4>3
  <2>8. ~Mapped(p, v) /\ UNCHANGED <<victim, cr2, fifo, proctab, bstab>>
    BY <1>1, <1>2, <2>2
  <2>9. pc[p] = "enter" /\ job' = [job EXCEPT ![p].vpn = v]
    BY <1>1
  <2> QED
    BY <1>2, <1>4, <2>2, <2>3, <2>4, <2>5, <2>6, <2>7, <2>8, <2>9, BeginService
<1> QED
  BY <1>1, <1>3, <1>4

-------------------------------------------------------------------------------

\* The end of a service: the frame f is recorded for the page served, its number goes
\* into the entry that was marked present before, and the FIFO gets it as its newest.
LEMMA InstallFrames ==
    ASSUME FrameInv, SemInv', Stores', Uses',
           NEW p \in Proc, NEW f \in PageFrame, NEW v, v = job[p].vpn,
           pc[p] \in {"alloc", "assign", "load"},
           pc[p] = "alloc" => frametab[f].type = "FREE",
           pc[p] # "alloc" => f = job[p].frame,
           frametab' = [frametab EXCEPT ![f] = [type |-> "PG", pid |-> p, vpn |-> v]],
           Install(p, f),
           UNCHANGED <<cur, victim, cr2, proctab, pdmem, tlb, bsdtab, store, created, histVars>>,
           content' \in [PageFrame -> Value \cup {NoValue}],
           bstab' \in [Store -> [isallocated : BOOLEAN, usecount : Nat, npages : 0..MaxPages]]
    PROVE  FrameInv'
<1> DEFINE E == [pres : BOOLEAN, dirty : BOOLEAN, base : Frame]
           r0 == [type |-> "PG", pid |-> p, vpn |-> v]
<1>1. /\ addFifo(f)
      /\ ptmem' = SetPte(p, job[p].vpn, [Pte(p, job[p].vpn) EXCEPT !.base = f])
      /\ signal(p, "user")
      /\ job' = [job EXCEPT ![p] = NoJob]
      /\ fault' = [fault EXCEPT ![p] = 0]
  BY DEF Install, Leave
<1>t. /\ pc \in [Proc -> PC]
      /\ job \in [Proc -> [frame : Frame, vpn : Vpn, bs : Store \cup {SYSERR}]]
      /\ frametab \in [Frame -> [type : {"FREE", "PD", "PT", "PG"},
                                 pid : Proc \cup {NULLPROC}, vpn : Vpn]]
      /\ fifo \in Seq(PageFrame)
      /\ v \in Vpn /\ f \in Frame
  BY FrameKinds DEF FrameInv, SemInv, SemTypeOK, Typed
<1>2. /\ pc'[p] = "user"
      /\ \A q \in Proc : q # p => Bystander(q) /\ job'[q] = job[q]
  <2>1. pc[p] \in Critical
    BY DEF Critical
  <2> QED
    BY <1>1, <1>t, <2>1, SignalBystanders DEF FrameInv
<1>3. \A q \in Proc : /\ q # p => pc[q] \notin Serving /\ pc[q] # "killw" /\ pc[q] \notin Moving
                      /\ pc'[q] \notin Serving /\ pc'[q] \notin Moving
  <2>1. \A q \in Proc : q # p => pc[q] \notin Serving /\ pc[q] # "killw" /\ pc[q] \notin Moving
    BY OthersOutside DEF Serving
  <2> QED
    BY <1>2, <2>1 DEF Bystander, Serving, Moving
<1>4. Standing(p) /\ Standing(p)' /\ \A q \in Proc : Standing(q)' => Standing(q)
  BY <1>2, BystanderFacts DEF Standing, Gone, Dead
<1>5. Served(p)
  BY DEF FrameInv, Services, Serving
<1>6. /\ v < proctab[p].prpages /\ Mapped(p, v)
      /\ \A g \in PageFrame : g # f /\ frametab[g].type # "FREE" =>
            ~(frametab[g].pid = p /\ frametab[g].vpn = v)
      /\ frametab[f].type = "FREE" \/ (pc[p] = "load" /\ frametab[f] = r0)
  BY <1>5 DEF Served
<1>7. PTFrame(p) # NoFrame
  BY <1>6 DEF Mapped
\* The entry.
<1>8. /\ ptmem' \in [DSFrame -> [Vpn -> E]]
      /\ \A r \in Proc : PTFrame(r)' = PTFrame(r)
      /\ Mapped(p, v)' /\ Pte(p, v)'.base = f
      /\ \A r \in Proc, w \in Vpn : Standing(r) /\ (r # p \/ w # v) =>
            /\ Mapped(r, w)' = Mapped(r, w)
            /\ Mapped(r, w) => Pte(r, w)' = Pte(r, w)
  <2>1. PICK e : e = [Pte(p, v) EXCEPT !.base = f]
    OBVIOUS
  <2>2. Pte(p, v) \in E /\ Pte(p, v).pres = TRUE
    <3>1. Pte(p, v) \in E
      BY <1>7, <1>t, TableFacts DEF FrameInv
    <3>2. Pte(p, v).pres
      BY <1>6 DEF Mapped, Pte
    <3> QED
      BY <3>1, <3>2
  <2>3. e \in E /\ e.pres = TRUE /\ e.base = f
    BY <1>t, <2>1, <2>2
  <2>4. Typed /\ Tables
    BY DEF FrameInv
  <2>5. /\ ptmem' = SetPte(p, v, e) /\ UNCHANGED pdmem
        /\ \A r \in Proc : proctab'[r].prpd = proctab[r].prpd
    BY <1>1, <2>1
  <2> HIDE DEF E
  <2>6. /\ ptmem' \in [DSFrame -> [Vpn -> E]]
        /\ \A r \in Proc : PTFrame(r)' = PTFrame(r)
        /\ Mapped(p, v)' = e.pres
        /\ Pte(p, v)' = e
        /\ \A r \in Proc, w \in Vpn : Standing(r) /\ (r # p \/ w # v) =>
              /\ Mapped(r, w)' = Mapped(r, w)
              /\ PTFrame(r) # NoFrame => Pte(r, w)' = Pte(r, w)
    BY <1>4, <1>7, <1>t, <2>3, <2>4, <2>5, EntrySet DEF E
  <2>7. \A r \in Proc, w \in Vpn : Mapped(r, w) => PTFrame(r) # NoFrame
    BY DEF Mapped
  <2> QED
    BY <2>3, <2>6, <2>7
\* The frame.
<1>9. /\ frametab' \in [Frame -> [type : {"FREE", "PD", "PT", "PG"},
                                  pid : Proc \cup {NULLPROC}, vpn : Vpn]]
      /\ frametab'[f] = r0
      /\ \A g \in Frame : g # f => frametab'[g] = frametab[g]
  BY <1>t
<1> HIDE DEF r0, E
\* The FIFO.
<1>10. fifo' \in Seq(PageFrame) /\ Listed'
  <2>1. CASE Policy = "FIFO"
    <3>1. fifo' = Append(fifo, f)
      BY <1>1, <2>1 DEF addFifo
    <3>2. /\ Once(fifo)
          /\ \A g \in PageFrame : On(g, fifo) <=>
                /\ frametab[g].type # "FREE"
                /\ ~\E q \in Proc : pc[q] \in Moving /\ job[q].frame = g
      BY <2>1 DEF FrameInv, Listed
    <3>3. ~On(f, fifo)
      BY <1>6, <3>2 DEF Moving
    <3>4. /\ fifo' \in Seq(PageFrame) /\ Once(fifo')
          /\ \A g \in PageFrame : On(g, fifo') <=> g = f \/ On(g, fifo)
      BY <1>t, <3>1, <3>2, <3>3, AppendOnce
    <3>5. ASSUME NEW g \in PageFrame
          PROVE  On(g, fifo') <=> frametab'[g].type # "FREE"
      <4>1. CASE g = f
        BY <1>9, <3>4, <4>1 DEF r0
      <4>2. CASE g # f
        <5>1. ~\E q \in Proc : pc[q] \in Moving /\ job[q].frame = g
          BY <1>3, <4>2 DEF Moving
        <5> QED
          BY <1>9, <3>2, <3>4, <4>2, <5>1, FrameKinds
      <4> QED
        BY <4>1, <4>2
    <3> QED
      BY <1>3, <3>4, <3>5 DEF Listed
  <2>2. CASE Policy # "FIFO"
    BY <1>1, <1>t, <2>2 DEF addFifo, Listed
  <2> QED
    BY <2>1, <2>2
<1>11. Typed'
  <2>1. job' \in [Proc -> [frame : Frame, vpn : Vpn, bs : Store \cup {SYSERR}]]
        /\ fault' \in [Proc -> Address]
    <3>1. fault \in [Proc -> Address]
      BY DEF FrameInv, Typed
    <3> QED
      BY <1>1, <1>t, <3>1, ZeroTyped
  <2> QED
    BY <1>8, <1>9, <1>10, <2>1 DEF FrameInv, Typed, histVars, E
<1>12. KillsOwn'
  <2>1. \A q \in Proc : (pc'[q] \in Leaving <=> pc[q] \in Leaving) /\ pc'[q] # "lkill"
    BY <1>2, BystanderFacts DEF Leaving, FrameInv, KillsOwn
  <2> QED
    BY <2>1, KillsKept DEF FrameInv
<1>13. FaultsInHeap'
  <2>1. \A q \in Proc : pc'[q] \in Faulted => pc[q] \in Faulted
    BY <1>2, BystanderFacts DEF Faulted, Serving
  <2> QED
    BY <2>1, HeapsKept DEF FrameInv
<1>14. /\ \A g \in DSFrame : frametab'[g] = frametab[g]
       /\ \A g \in PageFrame : frametab'[g].type \in {"FREE", "PG"}
  <2>1. \A g \in PageFrame : frametab[g].type \in {"FREE", "PG"}
    BY DEF FrameInv, Directories
  <2> QED
    BY <1>9, <2>1, FrameKinds DEF r0
<1>15. Directories' /\ Tables'
  BY <1>4, <1>8, <1>14, DirectoriesKept, TablesKept DEF FrameInv
<1>16. FramesMapped'
  <2>1. SUFFICES ASSUME NEW g \in PageFrame, frametab'[g].type # "FREE",
                        NEW q, q = frametab'[g].pid, NEW w, w = frametab'[g].vpn
                 PROVE  /\ q \in Proc /\ pc'[q] \notin Gone /\ w < proctab[q].prpages
                        /\ \/ pc'[q] = "killw"
                           \/ Mapped(q, w)' /\ Pte(q, w)'.base = g
    BY DEF FramesMapped, Owner
  <2>2. CASE g = f
    <3>1. q = p /\ w = v
      BY <1>9, <2>1, <2>2 DEF r0
    <3>2. pc'[p] \notin Gone
      BY <1>2 DEF Gone, Dead
    <3> QED
      BY <1>6, <1>8, <2>2, <3>1, <3>2
  <2>3. CASE g # f
    <3>1. frametab'[g] = frametab[g]
      BY <1>9, <2>3, FrameKinds
    <3>2. /\ q \in Proc /\ pc[q] \notin Gone /\ w < proctab[q].prpages
          /\ \/ pc[q] = "killw"
             \/ /\ Mapped(q, w)
                /\ Pte(q, w).base = g \/ (pc[q] = "load" /\ job[q].frame = g)
      BY <2>1, <3>1 DEF FrameInv, FramesMapped, Owner
    <3>3. w \in Vpn
      BY <1>t, <2>1, <3>1, FrameKinds
    <3>4. Standing(q) /\ Mapped(q, w) /\ Pte(q, w).base = g
      BY <1>3, <1>4, <2>3, <3>2 DEF Standing, Serving
    <3>5. q # p \/ w # v
      BY <1>6, <2>1, <2>3, <3>1
    <3>6. pc'[q] \notin Gone
      BY <1>2, <3>2, BystanderFacts DEF Gone, Dead
    <3> QED
      BY <1>8, <3>2, <3>3, <3>4, <3>5, <3>6
  <2> QED
    BY <2>2, <2>3
<1>17. PagesFramed'
  <2>1. SUFFICES ASSUME NEW q \in Proc, NEW w \in Vpn, Standing(q)', Mapped(q, w)'
                 PROVE  frametab'[Pte(q, w)'.base] = [type |-> "PG", pid |-> q, vpn |-> w]
    BY DEF PagesFramed
  <2>2. CASE q = p /\ w = v
    BY <1>8, <1>9, <2>2 DEF r0
  <2>3. CASE q # p \/ w # v
    <3>1. Mapped(q, w) /\ Pte(q, w)' = Pte(q, w) /\ Standing(q)
      BY <1>4, <1>8, <2>1, <2>3
    <3>2. ~(pc[q] \in Serving /\ job[q].vpn = w)
      BY <1>3, <2>3
    <3>3. frametab[Pte(q, w).base] = [type |-> "PG", pid |-> q, vpn |-> w]
      BY <3>1, <3>2 DEF FrameInv, PagesFramed
    <3>4. Pte(q, w).base \in PageFrame
      BY <3>1, <3>3, EntryFrame DEF FrameInv, Mapped
    <3>5. Pte(q, w).base # f
      BY <1>6, <2>3, <3>3 DEF r0
    <3> QED
      BY <1>9, <3>1, <3>3, <3>4, <3>5, FrameKinds
  <2> QED
    BY <2>2, <2>3
<1>18. Services'
  BY <1>3 DEF Services
<1> QED
  BY <1>10, <1>11, <1>12, <1>13, <1>15, <1>16, <1>17, <1>18 DEF FrameInv

\* When nobody is in the middle of a transfer all stores are closed.
LEMMA StoresClosed ==
    ASSUME FrameInv, NEW p \in Proc, pc[p] \in {"alloc", "assign"}
    PROVE  \A b \in Store : bstab[b].usecount = 0
<1>1. \A q \in Proc : q # p => pc[q] \notin Serving
  BY OthersOutside DEF Serving
<1>2. \A q \in Proc : pc[q] \notin Moving
  BY <1>1 DEF Serving, Moving
<1>3. \A q \in Proc, b \in Store : ~Transfer(q, b)
  BY <1>2 DEF Transfer, Moving
<1> QED
  BY <1>3 DEF FrameInv, Uses

LEMMA NoTransfers ==
    ASSUME \A q \in Proc : pc'[q] \notin Moving, \A b \in Store : bstab'[b].usecount = 0
    PROVE  Uses'
<1>1. \A q \in Proc, b \in Store : ~Transfer(q, b)'
  BY DEF Transfer, Moving
<1>2. \A q \in Proc : pc'[q] \notin {"evict", "copied"}
  BY DEF Moving
<1> QED
  BY <1>1, <1>2 DEF Uses

\* open_bs() and close_bs() count on one store and leave the others alone.
LEMMA StoreOpens ==
    ASSUME Typed, NEW b \in Store, \A c \in Store : bstab[c].usecount = 0,
           bstab' = [bstab EXCEPT ![b].usecount = @ + 1]
    PROVE  /\ bstab' \in [Store -> [isallocated : BOOLEAN, usecount : Nat, npages : 0..MaxPages]]
           /\ \A c \in Store : /\ bstab'[c].isallocated = bstab[c].isallocated
                               /\ bstab'[c].npages = bstab[c].npages
                               /\ bstab'[c].usecount = IF c = b THEN 1 ELSE 0
<1> DEFINE S == [isallocated : BOOLEAN, usecount : Nat, npages : 0..MaxPages]
<1>t. bstab \in [Store -> S] /\ bstab[b] \in S
  BY DEF Typed
<1>1. PICK r : r = [bstab[b] EXCEPT !.usecount = @ + 1]
  OBVIOUS
<1>2. /\ r \in S /\ r.usecount = 1
      /\ r.isallocated = bstab[b].isallocated /\ r.npages = bstab[b].npages
  BY <1>t, <1>1
<1>3. bstab' = [bstab EXCEPT ![b] = r]
  BY <1>1
<1> HIDE DEF S
<1>4. bstab'[b] = r /\ bstab' \in [Store -> S] /\ \A c \in Store : c # b => bstab'[c] = bstab[c]
  BY <1>t, <1>2, <1>3
<1> QED
  BY <1>2, <1>4 DEF S

LEMMA StoreCloses ==
    ASSUME Typed, NEW b \in Store,
           \A c \in Store : bstab[c].usecount = IF c = b THEN 1 ELSE 0,
           bstab' = [bstab EXCEPT ![b].usecount = @ - 1]
    PROVE  /\ bstab' \in [Store -> [isallocated : BOOLEAN, usecount : Nat, npages : 0..MaxPages]]
           /\ \A c \in Store : /\ bstab'[c].isallocated = bstab[c].isallocated
                               /\ bstab'[c].npages = bstab[c].npages
                               /\ bstab'[c].usecount = 0
<1> DEFINE S == [isallocated : BOOLEAN, usecount : Nat, npages : 0..MaxPages]
<1>t. bstab \in [Store -> S] /\ bstab[b] \in S /\ bstab[b].usecount = 1
  BY DEF Typed
<1>1. PICK r : r = [bstab[b] EXCEPT !.usecount = @ - 1]
  OBVIOUS
<1>2. /\ r \in S /\ r.usecount = 0
      /\ r.isallocated = bstab[b].isallocated /\ r.npages = bstab[b].npages
  BY <1>t, <1>1
<1>3. bstab' = [bstab EXCEPT ![b] = r]
  BY <1>1
<1> HIDE DEF S
<1>4. bstab'[b] = r /\ bstab' \in [Store -> S] /\ \A c \in Store : c # b => bstab'[c] = bstab[c]
  BY <1>t, <1>2, <1>3
<1> QED
  BY <1>2, <1>4 DEF S

\* While p is in the middle of a transfer the store it is on is the one open.
LEMMA StoreOpen ==
    ASSUME FrameInv, NEW p \in Proc, pc[p] \in Moving, NEW b \in Store, Transfer(p, b)
    PROVE  \A c \in Store : bstab[c].usecount = IF c = b THEN 1 ELSE 0
<1>1. \A q \in Proc : q # p => pc[q] \notin {"evict", "copied", "load"}
  BY OneCritical DEF FrameInv, Critical, Moving
<1>2. \A c \in Store : (\E q \in Proc : Transfer(q, c)) <=> c = b
  BY <1>1 DEF Transfer, Moving
<1> QED
  BY <1>2 DEF FrameInv, Uses

\* The process table and the stores at the end of a service.
LEMMA ServiceEnds ==
    ASSUME FrameInv, NEW p \in Proc, pc[p] \in Serving, pc[p] \in Critical,
           signal(p, "user"), UNCHANGED proctab,
           \A b \in Store : /\ bstab'[b].isallocated = bstab[b].isallocated
                            /\ bstab'[b].npages = bstab[b].npages
                            /\ bstab'[b].usecount = 0
    PROVE  Stores' /\ Uses'
<1>1. pc'[p] = "user" /\ \A q \in Proc : q # p => Bystander(q)
  BY SignalBystanders DEF FrameInv
<1>2. Stores'
  <2>1. \A q \in Proc : /\ pc'[q] \in Gone <=> pc[q] \in Gone
                        /\ pc'[q] \notin Dead => pc[q] \notin Dead
    BY <1>1, BystanderFacts DEF Gone, Dead, Serving
  <2> QED
    BY <2>1, StoresKept DEF FrameInv
<1>3. \A q \in Proc : pc'[q] \notin Moving
  <2>1. \A q \in Proc : q # p => pc[q] \notin Moving
    BY OneCritical DEF FrameInv, Moving, Critical
  <2> QED
    BY <1>1, <2>1 DEF Bystander, Moving
<1> QED
  BY <1>2, <1>3, NoTransfers

\* A free frame is taken.
LEMMA FreeFrameFrames ==
    ASSUME FrameInv, SemInv', NEW p \in Proc, getPFrameFree(p)
    PROVE  FrameInv'
<1>1. /\ pc[p] = "alloc"
      /\ UNCHANGED <<cur, victim, cr2, proctab, pdmem, tlb, bsVars, dataVars, created, histVars>>
  BY DEF getPFrameFree
<1>2. PICK f \in PageFrame :
         /\ FirstFree(PageFrame, f)
         /\ frametab' = [frametab EXCEPT ![f] = [type |-> "PG", pid |-> p, vpn |-> job[p].vpn]]
         /\ Install(p, f)
  BY DEF getPFrameFree
<1>3. frametab[f].type = "FREE" /\ signal(p, "user")
  BY <1>2 DEF FirstFree, Install, Leave
<1>4. \A b \in Store : bstab'[b] = bstab[b] /\ bstab[b].usecount = 0
  BY <1>1, StoresClosed DEF bsVars
<1>5. Stores' /\ Uses'
  BY <1>1, <1>3, <1>4, ServiceEnds DEF Serving, Critical
<1>6. /\ content' \in [PageFrame -> Value \cup {NoValue}]
      /\ bstab' \in [Store -> [isallocated : BOOLEAN, usecount : Nat, npages : 0..MaxPages]]
      /\ UNCHANGED <<bsdtab, store>>
  BY <1>1 DEF FrameInv, Typed, bsVars, dataVars
<1> QED
  BY <1>1, <1>2, <1>3, <1>5, <1>6, InstallFrames

\* The frame of a victim is taken for a page the store does not hold.
LEMMA FreshFrames ==
    ASSUME FrameInv, SemInv', NEW p \in Proc, assignFresh(p)
    PROVE  FrameInv'
<1> DEFINE f == job[p].frame
<1>1. /\ pc[p] = "assign"
      /\ frametab' = [frametab EXCEPT ![f] = [type |-> "PG", pid |-> p, vpn |-> job[p].vpn]]
      /\ Install(p, f)
      /\ UNCHANGED <<cur, victim, cr2, proctab, pdmem, tlb, bsVars, dataVars, created, histVars>>
  BY DEF assignFresh
<1>2. f \in PageFrame
  BY <1>1 DEF FrameInv, Services, Served, Serving
<1>3. signal(p, "user")
  BY <1>1 DEF Install, Leave
<1>4. \A b \in Store : bstab'[b] = bstab[b] /\ bstab[b].usecount = 0
  BY <1>1, StoresClosed DEF bsVars
<1>5. Stores' /\ Uses'
  BY <1>1, <1>3, <1>4, ServiceEnds DEF Serving, Critical
<1>6. /\ content' \in [PageFrame -> Value \cup {NoValue}]
      /\ bstab' \in [Store -> [isallocated : BOOLEAN, usecount : Nat, npages : 0..MaxPages]]
      /\ UNCHANGED <<bsdtab, store>>
  BY <1>1 DEF FrameInv, Typed, bsVars, dataVars
<1> QED
  BY <1>1, <1>2, <1>5, <1>6, InstallFrames

\* The page has been read from its store, which is closed again.
LEMMA LoadFrames ==
    ASSUME FrameInv, SemInv', NEW p \in Proc, getBsDone(p)
    PROVE  FrameInv'
<1> DEFINE f == job[p].frame
<1>b. PICK b : b = proctab[p].prbsd
  OBVIOUS
<1>1. /\ pc[p] = "load"
      /\ content' = [content EXCEPT ![f] = store[b][job[p].vpn]]
      /\ bstab' = [bstab EXCEPT ![b].usecount = @ - 1]
      /\ Install(p, f)
      /\ UNCHANGED <<cur, victim, cr2, frametab, proctab, pdmem, tlb, bsdtab, store,
                     created, histVars>>
  BY <1>b DEF getBsDone
<1>2. /\ f \in PageFrame
      /\ frametab[f] = [type |-> "PG", pid |-> p, vpn |-> job[p].vpn]
      /\ job[p].vpn \in Vpn
  BY <1>1 DEF FrameInv, Services, Served, Serving, Typed
<1>3. signal(p, "user")
  BY <1>1 DEF Install, Leave
<1>4. b \in Store
  <2>1. Holding(p)
    BY <1>1 DEF Holding, Gone, Dead, Faulted, Serving, FrameInv, FaultsInHeap
  <2> QED
    BY <1>b, <2>1 DEF FrameInv, Stores
<1>5. \A c \in Store : bstab[c].usecount = IF c = b THEN 1 ELSE 0
  BY <1>1, <1>b, <1>4, StoreOpen DEF Moving, Transfer
<1>6. /\ bstab' \in [Store -> [isallocated : BOOLEAN, usecount : Nat, npages : 0..MaxPages]]
      /\ \A c \in Store : /\ bstab'[c].isallocated = bstab[c].isallocated
                          /\ bstab'[c].npages = bstab[c].npages
                          /\ bstab'[c].usecount = 0
  BY <1>1, <1>4, <1>5, StoreCloses DEF FrameInv
<1>7. Stores' /\ Uses'
  BY <1>1, <1>3, <1>6, ServiceEnds DEF Serving, Critical
<1>8. content' \in [PageFrame -> Value \cup {NoValue}]
  <2>1. /\ content \in [PageFrame -> Value \cup {NoValue}]
        /\ store[b][job[p].vpn] \in Value \cup {NoValue}
    BY <1>2, <1>4 DEF FrameInv, Typed
  <2> QED
    BY <1>1, <1>2, <2>1
<1>9. frametab' = [frametab EXCEPT ![f] = [type |-> "PG", pid |-> p, vpn |-> job[p].vpn]]
  <2>1. f \in Frame /\ frametab \in [Frame -> [type : {"FREE", "PD", "PT", "PG"},
                               pid : Proc \cup {NULLPROC}, vpn : Vpn]]
    BY <1>2, FrameKinds DEF FrameInv, Typed
  <2> QED
    BY <1>1, <1>2, <2>1
<1>10. Install(p, f) /\ pc[p] # "alloc"
       /\ UNCHANGED <<cur, victim, cr2, proctab, pdmem, tlb, bsdtab, store, created, histVars>>
  BY <1>1
<1> QED
  BY <1>1, <1>2, <1>6, <1>7, <1>8, <1>9, <1>10, InstallFrames

-------------------------------------------------------------------------------

\* While p serves a fault from another point than the end of a read, each frame in use
\* is where the table of its owner says.
LEMMA FramesInPlace ==
    ASSUME FrameInv, NEW p \in Proc, pc[p] \in Serving \ {"load"},
           NEW f \in PageFrame, frametab[f].type # "FREE"
    PROVE  /\ Owner(f) \in Proc /\ frametab[f].vpn \in Vpn
           /\ Standing(Owner(f)) /\ Holding(Owner(f))
           /\ frametab[f].vpn < proctab[Owner(f)].prpages
           /\ PTFrame(Owner(f)) # NoFrame
           /\ Mapped(Owner(f), frametab[f].vpn)
           /\ FramePte(f) \in [pres : BOOLEAN, dirty : BOOLEAN, base : Frame]
           /\ FramePte(f).base = f
           /\ Pte(Owner(f), frametab[f].vpn).base = f
           /\ Owner(f) # p \/ frametab[f].vpn # job[p].vpn
<1> DEFINE q == Owner(f)
           v == frametab[f].vpn
<1>1. /\ q \in Proc /\ pc[q] \notin Gone /\ v < proctab[q].prpages
      /\ \/ pc[q] = "killw"
         \/ /\ Mapped(q, v)
            /\ Pte(q, v).base = f \/ (pc[q] = "load" /\ job[q].frame = f)
  BY DEF FrameInv, FramesMapped
<1>2. pc[q] # "killw" /\ pc[q] # "load"
  <2>1. CASE q = p
    BY <2>1 DEF Serving
  <2>2. CASE q # p
    BY <1>1, <2>2, OthersOutside DEF Serving
  <2> QED
    BY <2>1, <2>2
<1>3. v \in Vpn
  BY FrameKinds DEF FrameInv, Typed
<1>4. Standing(q) /\ Mapped(q, v) /\ PTFrame(q) # NoFrame /\ Pte(q, v).base = f
  BY <1>1, <1>2 DEF Standing, Mapped
<1>5. Holding(q)
  <2>1. v \in Nat /\ proctab[q].prpages \in Nat
    BY <1>1, <1>3, SizeAssumption DEF Vpn, FrameInv, Typed
  <2> QED
    BY <1>1, <2>1 DEF Holding
<1>6. FramePte(f) = Pte(q, v)
  BY DEF FramePte
<1>7. Pte(q, v) \in [pres : BOOLEAN, dirty : BOOLEAN, base : Frame]
  BY <1>1, <1>3, <1>4, TableFacts DEF FrameInv
<1>8. ~(q = p /\ v = job[p].vpn)
  BY DEF FrameInv, Services, Served, Serving, Owner
<1> QED
  BY <1>1, <1>3, <1>4, <1>5, <1>6, <1>7, <1>8

\* Storing an entry in the table of q, when no table moves.
LEMMA EntryStored ==
    ASSUME Typed, Tables, NEW q \in Proc, NEW v \in Vpn,
           NEW e \in [pres : BOOLEAN, dirty : BOOLEAN, base : Frame],
           Standing(q), PTFrame(q) # NoFrame,
           ptmem' = SetPte(q, v, e), UNCHANGED <<pdmem, proctab>>
    PROVE  /\ ptmem' \in [DSFrame -> [Vpn -> [pres : BOOLEAN, dirty : BOOLEAN, base : Frame]]]
           /\ \A r \in Proc : PTFrame(r)' = PTFrame(r)
           /\ Mapped(q, v)' = e.pres
           /\ Pte(q, v)' = e
           /\ \A r \in Proc, w \in Vpn : Standing(r) /\ (r # q \/ w # v) =>
                 /\ Mapped(r, w)' = Mapped(r, w)
                 /\ Mapped(r, w) => Pte(r, w)' = Pte(r, w)
<1>1. \A r \in Proc : proctab'[r].prpd = proctab[r].prpd
  OBVIOUS
<1>2. \A r \in Proc, w \in Vpn : Mapped(r, w) => PTFrame(r) # NoFrame
  BY DEF Mapped
<1> QED
  BY <1>1, <1>2, EntrySet

\* The victim's entry is cleared and its frame freed, for the page p is served.
LEMMA UnmapFrames ==
    ASSUME FrameInv, SemInv', Listed', Stores', Uses',
           NEW p \in Proc, NEW f \in PageFrame, pc[p] \in {"alloc", "copied"},
           frametab[f].type # "FREE",
           NEW e \in [pres : BOOLEAN, dirty : BOOLEAN, base : Frame], e.pres = FALSE,
           ptmem' = SetPte(Owner(f), frametab[f].vpn, e),
           frametab' = [frametab EXCEPT ![f] = FreeFrame],
           pc' = [pc EXCEPT ![p] = "assign"],
           job' = [job EXCEPT ![p].frame = f],
           fifo' \in Seq(PageFrame),
           bstab' \in [Store -> [isallocated : BOOLEAN, usecount : Nat, npages : 0..MaxPages]],
           bsdtab' \in [Store -> [Vpn -> {"BS_IGNORE", "BS_NPRES", "BS_PRES"}]],
           UNCHANGED <<victim, cr2, fault, proctab, pdmem, tlb, dataVars, created, histVars>>
    PROVE  FrameInv'
<1> DEFINE E == [pres : BOOLEAN, dirty : BOOLEAN, base : Frame]
<1>q. PICK q, v : q = Owner(f) /\ v = frametab[f].vpn
  OBVIOUS
<1>1. /\ q \in Proc /\ v \in Vpn /\ Standing(q) /\ PTFrame(q) # NoFrame
      /\ q # p \/ v # job[p].vpn
  BY <1>q, FramesInPlace DEF Serving
<1>t. /\ pc \in [Proc -> PC]
      /\ job \in [Proc -> [frame : Frame, vpn : Vpn, bs : Store \cup {SYSERR}]]
      /\ frametab \in [Frame -> [type : {"FREE", "PD", "PT", "PG"},
                                 pid : Proc \cup {NULLPROC}, vpn : Vpn]]
      /\ f \in Frame
  BY FrameKinds DEF FrameInv, SemInv, SemTypeOK, Typed
<1>2. /\ pc'[p] = "assign" /\ job'[p].frame = f /\ job'[p].vpn = job[p].vpn
      /\ \A r \in Proc : r # p => pc'[r] = pc[r] /\ job'[r] = job[r]
      /\ job' \in [Proc -> [frame : Frame, vpn : Vpn, bs : Store \cup {SYSERR}]]
  <2> DEFINE J == [frame : Frame, vpn : Vpn, bs : Store \cup {SYSERR}]
  <2>1. PICK j : j = [job[p] EXCEPT !.frame = f]
    OBVIOUS
  <2>2. j \in J /\ j.frame = f /\ j.vpn = job[p].vpn /\ job' = [job EXCEPT ![p] = j]
    <3>1. job[p] \in J
      BY <1>t
    <3>2. job' = [job EXCEPT ![p] = j]
      BY <2>1, Zenon
    <3>3. j \in J /\ j.frame = f /\ j.vpn = job[p].vpn
      BY <1>t, <2>1, <3>1
    <3> QED
      BY <3>2, <3>3
  <2> HIDE DEF J
  <2>3. job \in [Proc -> J]
    BY <1>t DEF J
  <2>4. job'[p] = j /\ job' \in [Proc -> J] /\ \A r \in Proc : r # p => job'[r] = job[r]
    <3>1. j \in J /\ job' = [job EXCEPT ![p] = j]
      BY <2>2
    <3>2. job' \in [Proc -> J]
      BY <2>3, <3>1
    <3>3. job'[p] = j /\ \A r \in Proc : r # p => job'[r] = job[r]
      BY <2>3, <3>1
    <3> QED
      BY <3>2, <3>3
  <2>5. pc'[p] = "assign" /\ \A r \in Proc : r # p => pc'[r] = pc[r]
    BY <1>t
  <2> QED
    BY <2>2, <2>4, <2>5 DEF J
<1>3. \A r \in Proc : r # p => pc[r] \notin Serving /\ pc[r] # "killw"
  BY OthersOutside DEF Serving
<1>4. \A r \in Proc : Standing(r)' = Standing(r)
  BY <1>2 DEF Standing, Gone, Dead
\* The entry.
<1>5. /\ ptmem' \in [DSFrame -> [Vpn -> E]]
      /\ \A r \in Proc : PTFrame(r)' = PTFrame(r)
      /\ ~Mapped(q, v)'
      /\ \A r \in Proc, w \in Vpn : Standing(r) /\ (r # q \/ w # v) =>
            /\ Mapped(r, w)' = Mapped(r, w)
            /\ Mapped(r, w) => Pte(r, w)' = Pte(r, w)
  <2>1. q \in Proc /\ v \in Vpn /\ Standing(q) /\ PTFrame(q) # NoFrame
    BY <1>1
  <2>2. Typed /\ Tables /\ ptmem' = SetPte(q, v, e) /\ UNCHANGED <<pdmem, proctab>>
    BY <1>q DEF FrameInv
  <2> QED
    BY <2>1, <2>2, EntryStored
\* The frame.
<1>6. /\ frametab' \in [Frame -> [type : {"FREE", "PD", "PT", "PG"},
                                  pid : Proc \cup {NULLPROC}, vpn : Vpn]]
      /\ frametab'[f].type = "FREE"
      /\ \A g \in Frame : g # f => frametab'[g] = frametab[g]
  BY <1>t, ZeroTyped DEF FreeFrame
<1>7. Typed'
  <2> HIDE DEF E
  <2> QED
    BY <1>2, <1>5, <1>6 DEF FrameInv, Typed, dataVars, histVars, E
<1>8. KillsOwn' /\ FaultsInHeap'
  <2>1. \A r \in Proc : /\ (pc'[r] \in Leaving <=> pc[r] \in Leaving) /\ pc'[r] # "lkill"
                        /\ pc'[r] \in Faulted => pc[r] \in Faulted
    BY <1>2 DEF Leaving, Faulted, Serving, FrameInv, KillsOwn
  <2> QED
    BY <2>1, KillsKept, HeapsKept DEF FrameInv
<1>9. /\ \A g \in DSFrame : frametab'[g] = frametab[g]
      /\ \A g \in PageFrame : frametab'[g].type \in {"FREE", "PG"}
  <2>1. \A g \in PageFrame : frametab[g].type \in {"FREE", "PG"}
    BY DEF FrameInv, Directories
  <2> QED
    BY <1>6, <2>1, FrameKinds
<1>10. Directories' /\ Tables'
  BY <1>4, <1>5, <1>9, DirectoriesKept, TablesKept DEF FrameInv
<1>11. FramesMapped'
  <2>1. SUFFICES ASSUME NEW g \in PageFrame, frametab'[g].type # "FREE",
                        NEW r, r = frametab'[g].pid, NEW w, w = frametab'[g].vpn
                 PROVE  /\ r \in Proc /\ pc'[r] \notin Gone /\ w < proctab[r].prpages
                        /\ Mapped(r, w)' /\ Pte(r, w)'.base = g
    BY DEF FramesMapped, Owner
  <2>2. g # f /\ frametab'[g] = frametab[g]
    BY <1>6, <2>1, FrameKinds
  <2>3. /\ r \in Proc /\ w \in Vpn /\ Standing(r) /\ w < proctab[r].prpages
        /\ Mapped(r, w) /\ Pte(r, w).base = g
    <3>1. /\ pc[p] \in Serving \ {"load"} /\ frametab[g].type # "FREE"
          /\ r = Owner(g) /\ w = frametab[g].vpn
      BY <2>1, <2>2 DEF Serving, Owner
    <3> QED
      BY <3>1, FramesInPlace
  <2>4. Pte(q, v).base = f
    BY <1>q, FramesInPlace DEF Serving
  <2>5. r # q \/ w # v
    BY <2>2, <2>3, <2>4
  <2>6. pc'[r] \notin Gone
    BY <1>4, <2>3 DEF Standing
  <2> QED
    BY <1>5, <2>3, <2>5, <2>6
<1>12. PagesFramed'
  <2>1. SUFFICES ASSUME NEW r \in Proc, NEW w \in Vpn, Standing(r)', Mapped(r, w)',
                        ~(pc'[r] \in Serving /\ job'[r].vpn = w)
                 PROVE  frametab'[Pte(r, w)'.base] = [type |-> "PG", pid |-> r, vpn |-> w]
    BY DEF PagesFramed
  <2>2. Standing(r) /\ (r # q \/ w # v)
    BY <1>4, <1>5, <2>1
  <2>3. Mapped(r, w) /\ Pte(r, w)' = Pte(r, w)
    BY <1>5, <2>1, <2>2
  <2>4. ~(pc[r] \in Serving /\ job[r].vpn = w)
    BY <1>2, <2>1 DEF Serving
  <2>5. frametab[Pte(r, w).base] = [type |-> "PG", pid |-> r, vpn |-> w]
    BY <2>2, <2>3, <2>4 DEF FrameInv, PagesFramed
  <2>6. Pte(r, w).base \in PageFrame
    BY <2>3, <2>5, EntryFrame DEF FrameInv, Mapped
  <2>7. Pte(r, w).base # f
    BY <1>q, <2>2, <2>5 DEF Owner
  <2> QED
    BY <1>6, <2>3, <2>5, <2>6, <2>7, FrameKinds
<1>13. Services'
  <2>1. \A r \in Proc : r # p => pc'[r] \notin Serving
    BY <1>2, <1>3
  <2>2. Served(p) /\ job[p].vpn \in Vpn /\ Standing(p)
    BY <1>t DEF FrameInv, Services, Serving, Standing, Gone, Dead
  <2>3. Mapped(p, job[p].vpn)'
    <3>1. Mapped(p, job[p].vpn)
      BY <2>2 DEF Served
    <3>2. PICK w \in Vpn : w = job[p].vpn
      BY <2>2
    <3> QED
      BY <1>1, <1>2, <1>5, <2>2, <3>1, <3>2
  <2>4. \A g \in PageFrame : frametab'[g].type # "FREE" =>
           ~(frametab'[g].pid = p /\ frametab'[g].vpn = job[p].vpn)
    BY <1>6, <2>2, FrameKinds DEF Served
  <2>5. job[p].vpn < proctab'[p].prpages
    BY <2>2 DEF Served
  <2>6. Served(p)'
    BY <1>2, <1>6, <2>3, <2>4, <2>5 DEF Served
  <2> QED
    BY <2>1, <2>6 DEF Services
<1> QED
  BY <1>7, <1>8, <1>10, <1>11, <1>12, <1>13 DEF FrameInv

\* What a victim is when no page frame is free: a frame in use, and with the FIFO its
\* oldest.
LEMMA VictimFacts ==
    ASSUME FrameInv, NEW p \in Proc, pc[p] = "alloc", NoneFree(PageFrame),
           NEW f \in PageFrame, Victim(f), dropHead
    PROVE  /\ frametab[f].type # "FREE" /\ ~Astray(f)
           /\ fifo' \in Seq(PageFrame)
           /\ Policy = "FIFO" => /\ Once(fifo')
                                 /\ \A g \in PageFrame : On(g, fifo') <=>
                                       g # f /\ frametab[g].type # "FREE"
<1>1. frametab[f].type # "FREE"
  BY DEF NoneFree
<1>2. ~Astray(f)
  BY <1>1, FramesInPlace DEF Serving, Astray
<1>3. \A q \in Proc : pc[q] \notin Moving
  BY OthersOutside DEF Serving, Moving
<1>4. fifo \in Seq(PageFrame)
  BY DEF FrameInv, Typed
<1>5. CASE Policy = "FIFO"
  <2>1. fifo # << >> /\ f = Head(fifo) /\ fifo' = Tail(fifo)
    BY <1>5 DEF Victim, dropHead
  <2>2. /\ Once(fifo)
        /\ \A g \in PageFrame : On(g, fifo) <=> frametab[g].type # "FREE"
    BY <1>3, <1>5 DEF FrameInv, Listed
  <2>3. /\ Tail(fifo) \in Seq(PageFrame) /\ Once(Tail(fifo))
        /\ \A g \in PageFrame : On(g, Tail(fifo)) <=> g # Head(fifo) /\ On(g, fifo)
    BY <1>4, <2>1, <2>2, TailOnce
  <2> QED
    BY <1>1, <1>2, <2>1, <2>2, <2>3
<1>6. CASE Policy # "FIFO"
  BY <1>1, <1>2, <1>4, <1>6 DEF dropHead
<1> QED
  BY <1>5, <1>6

\* A step of the service that moves p alone, and no process table entry or store.
LEMMA ServiceGoesOn ==
    ASSUME FrameInv, NEW p \in Proc, pc[p] \in Serving, NEW next \in Serving,
           pc' = [pc EXCEPT ![p] = next], UNCHANGED <<proctab, victim, cr2>>,
           \A b \in Store : /\ bstab'[b].isallocated = bstab[b].isallocated
                            /\ bstab'[b].npages = bstab[b].npages
    PROVE  /\ pc'[p] = next /\ \A q \in Proc : q # p => pc'[q] = pc[q]
           /\ \A q \in Proc : q # p => pc'[q] \notin Serving /\ pc[q] # "killw"
           /\ \A q \in Proc : Standing(q)' = Standing(q)
           /\ Stores' /\ KillsOwn' /\ FaultsInHeap'
<1>1. pc'[p] = next /\ \A q \in Proc : q # p => pc'[q] = pc[q]
  BY DEF FrameInv, SemInv, SemTypeOK
<1>2. \A q \in Proc : q # p => pc'[q] \notin Serving /\ pc[q] # "killw"
  BY <1>1, OthersOutside
<1>3. \A q \in Proc : Standing(q)' = Standing(q)
  BY <1>1 DEF Standing, Gone, Dead, Serving
<1>4. Stores'
  <2>1. \A q \in Proc : /\ pc'[q] \in Gone <=> pc[q] \in Gone
                        /\ pc'[q] \notin Dead => pc[q] \notin Dead
    BY <1>1 DEF Gone, Dead, Serving
  <2> QED
    BY <2>1, StoresKept DEF FrameInv
<1>5. KillsOwn' /\ FaultsInHeap'
  <2>1. \A q \in Proc : /\ (pc'[q] \in Leaving <=> pc[q] \in Leaving) /\ pc'[q] # "lkill"
                        /\ pc'[q] \in Faulted => pc[q] \in Faulted
    BY <1>1 DEF Leaving, Faulted, Serving, FrameInv, KillsOwn
  <2> QED
    BY <2>1, KillsKept, HeapsKept DEF FrameInv
<1> QED
  BY <1>1, <1>2, <1>3, <1>4, <1>5

LEMMA CleanFrames ==
    ASSUME FrameInv, SemInv', NEW p \in Proc, removeClean(p)
    PROVE  FrameInv'
<1>1. /\ pc[p] = "alloc" /\ NoneFree(PageFrame)
      /\ pc' = [pc EXCEPT ![p] = "assign"]
      /\ UNCHANGED <<cur, prSem, victim, cr2, fault, proctab, pdmem, tlb, bsVars, dataVars,
                     created, histVars>>
  BY DEF removeClean
<1>2. PICK f \in PageFrame :
         /\ Victim(f) /\ dropHead
         /\ ptmem' = SetPte(Owner(f), frametab[f].vpn, [FramePte(f) EXCEPT !.pres = FALSE])
         /\ frametab' = [frametab EXCEPT ![f] = FreeFrame]
         /\ job' = [job EXCEPT ![p].frame = f]
  BY DEF removeClean
<1>3. /\ frametab[f].type # "FREE" /\ fifo' \in Seq(PageFrame)
      /\ Policy = "FIFO" => /\ Once(fifo')
                            /\ \A g \in PageFrame : On(g, fifo') <=>
                                  g # f /\ frametab[g].type # "FREE"
  BY <1>1, <1>2, VictimFacts
<1>4. /\ pc'[p] = "assign" /\ Stores'
      /\ \A q \in Proc : q # p => pc'[q] \notin Serving
  BY <1>1, ServiceGoesOn DEF Serving, bsVars
<1>5. \A q \in Proc : pc'[q] \notin Moving
  BY <1>4 DEF Serving, Moving
<1>6. Uses'
  BY <1>1, <1>5, StoresClosed, NoTransfers DEF bsVars
<1>7. Listed'
  <2>1. \A g \in PageFrame : frametab'[g].type # "FREE" <=> g # f /\ frametab[g].type # "FREE"
    BY <1>2, FrameKinds DEF FreeFrame, FrameInv, Typed
  <2> QED
    BY <1>3, <1>5, <2>1 DEF Listed
<1>8. PICK e : e = [FramePte(f) EXCEPT !.pres = FALSE]
  OBVIOUS
<1>9. /\ e \in [pres : BOOLEAN, dirty : BOOLEAN, base : Frame] /\ e.pres = FALSE
      /\ ptmem' = SetPte(Owner(f), frametab[f].vpn, e)
  <2>1. FramePte(f) \in [pres : BOOLEAN, dirty : BOOLEAN, base : Frame]
    BY <1>1, <1>3, FramesInPlace DEF Serving
  <2> QED
    BY <1>2, <1>8, <2>1
<1>10. /\ bstab' \in [Store -> [isallocated : BOOLEAN, usecount : Nat, npages : 0..MaxPages]]
       /\ bsdtab' \in [Store -> [Vpn -> {"BS_IGNORE", "BS_NPRES", "BS_PRES"}]]
  BY <1>1 DEF bsVars, FrameInv, Typed
<1> QED
  BY <1>1, <1>2, <1>3, <1>4, <1>6, <1>7, <1>9, <1>10, UnmapFrames

\* The victim has been written out: its store is closed and it is unmapped.
LEMMA SendDoneFrames ==
    ASSUME FrameInv, SemInv', NEW p \in Proc, sendBsDone(p)
    PROVE  FrameInv'
<1>f. PICK f, b : f = job[p].frame /\ b = job[p].bs
  OBVIOUS
<1>1. /\ pc[p] = "copied" /\ pc' = [pc EXCEPT ![p] = "assign"]
      /\ bstab' = [bstab EXCEPT ![b].usecount = @ - 1]
      /\ bsdtab' = [bsdtab EXCEPT ![StoreOf(f)][frametab[f].vpn] = "BS_PRES"]
      /\ ptmem' = SetPte(Owner(f), frametab[f].vpn, [FramePte(f) EXCEPT !.pres = FALSE])
      /\ frametab' = [frametab EXCEPT ![f] = FreeFrame]
      /\ UNCHANGED <<cur, prSem, victim, faultVars, fifo, proctab, pdmem, tlb, dataVars,
                     created, histVars>>
  BY <1>f DEF sendBsDone
<1>2. f \in PageFrame /\ frametab[f].type # "FREE"
  BY <1>1, <1>f DEF FrameInv, Services, Served, Serving
<1>3. b \in Store /\ b = StoreOf(f) /\ frametab[f].vpn \in Vpn
  <2>1. Owner(f) \in Proc /\ Holding(Owner(f)) /\ frametab[f].vpn \in Vpn
    BY <1>1, <1>2, FramesInPlace DEF Serving
  <2>2. b = StoreOf(f)
    BY <1>1, <1>f DEF FrameInv, Uses
  <2> QED
    BY <2>1, <2>2 DEF FrameInv, Stores, StoreOf
<1>4. /\ bstab' \in [Store -> [isallocated : BOOLEAN, usecount : Nat, npages : 0..MaxPages]]
      /\ \A c \in Store : /\ bstab'[c].isallocated = bstab[c].isallocated
                          /\ bstab'[c].npages = bstab[c].npages
                          /\ bstab'[c].usecount = 0
  <2>1. \A c \in Store : bstab[c].usecount = IF c = b THEN 1 ELSE 0
    BY <1>1, <1>f, <1>3, StoreOpen DEF Moving, Transfer
  <2> QED
    BY <1>1, <1>3, <2>1, StoreCloses DEF FrameInv
<1>5. /\ pc'[p] = "assign" /\ Stores'
      /\ \A q \in Proc : q # p => pc[q] \notin Serving /\ pc'[q] \notin Serving
  BY <1>1, <1>4, ServiceGoesOn, OthersOutside DEF Serving, faultVars
<1>6. \A q \in Proc : pc'[q] \notin Moving
  BY <1>5 DEF Serving, Moving
<1>7. Uses'
  BY <1>4, <1>6, NoTransfers
<1>8. Listed'
  <2>1. \A g \in PageFrame : frametab'[g].type # "FREE" <=> g # f /\ frametab[g].type # "FREE"
    BY <1>1, <1>2, FrameKinds DEF FreeFrame, FrameInv, Typed
  <2>2. \A g \in PageFrame : (\E q \in Proc : pc[q] \in Moving /\ job[q].frame = g) <=> g = f
    BY <1>1, <1>f, <1>5 DEF Moving, Serving
  <2> QED
    BY <1>1, <1>6, <2>1, <2>2 DEF FrameInv, Listed
<1>9. PICK e : e = [FramePte(f) EXCEPT !.pres = FALSE]
  OBVIOUS
<1>10. /\ e \in [pres : BOOLEAN, dirty : BOOLEAN, base : Frame] /\ e.pres = FALSE
       /\ ptmem' = SetPte(Owner(f), frametab[f].vpn, e)
  <2>1. FramePte(f) \in [pres : BOOLEAN, dirty : BOOLEAN, base : Frame]
    BY <1>1, <1>2, FramesInPlace DEF Serving
  <2> QED
    BY <1>1, <1>9, <2>1
<1>11. bsdtab' \in [Store -> [Vpn -> {"BS_IGNORE", "BS_NPRES", "BS_PRES"}]]
  <2>1. bsdtab \in [Store -> [Vpn -> {"BS_IGNORE", "BS_NPRES", "BS_PRES"}]]
    BY DEF FrameInv, Typed
  <2> QED
    BY <1>1, <1>3, <2>1
<1>12. job' = [job EXCEPT ![p].frame = f] /\ UNCHANGED <<cr2, fault>>
  <2>1. job \in [Proc -> [frame : Frame, vpn : Vpn, bs : Store \cup {SYSERR}]]
    BY DEF FrameInv, Typed
  <2> QED
    BY <1>1, <1>f, <2>1 DEF faultVars
<1>13. fifo' \in Seq(PageFrame)
  BY <1>1 DEF FrameInv, Typed
<1> QED
  BY <1>1, <1>2, <1>4, <1>5, <1>7, <1>8, <1>10, <1>11, <1>12, <1>13, UnmapFrames

-------------------------------------------------------------------------------

\* A dirty victim: its store, which is its owner's, is opened to write it out.
LEMMA DirtyFrames ==
    ASSUME FrameInv, SemInv', NEW p \in Proc, removeDirty(p)
    PROVE  FrameInv'
<1> DEFINE E == [pres : BOOLEAN, dirty : BOOLEAN, base : Frame]
           J == [frame : Frame, vpn : Vpn, bs : Store \cup {SYSERR}]
<1>1. /\ pc[p] = "alloc" /\ NoneFree(PageFrame)
      /\ UNCHANGED <<cur, prSem, cr2, fault, frametab, proctab, pdmem, tlb, bsdtab, dataVars,
                     created, histVars>>
  BY DEF removeDirty
<1>2. PICK f \in PageFrame :
         LET b == StoreOf(f) IN
         /\ Victim(f) /\ ~Astray(f) /\ FramePte(f).dirty
         /\ dropHead
         /\ ptmem' = SetPte(Owner(f), frametab[f].vpn, [FramePte(f) EXCEPT !.dirty = FALSE])
         /\ job' = [job EXCEPT ![p].frame = f, ![p].bs = b]
         /\ bstab' = IF Allocated(b) THEN [bstab EXCEPT ![b].usecount = @ + 1] ELSE bstab
         /\ IF Allocated(b) /\ frametab[f].vpn < bstab[b].npages
            THEN pc' = [pc EXCEPT ![p] = "evict"] /\ UNCHANGED victim
            ELSE CallKill(p, Owner(f), "lkill")
  BY DEF removeDirty
<1>3. PICK q, v, b : q = Owner(f) /\ v = frametab[f].vpn /\ b = StoreOf(f)
  OBVIOUS
<1>4. /\ frametab[f].type # "FREE" /\ fifo' \in Seq(PageFrame)
      /\ Policy = "FIFO" => /\ Once(fifo')
                            /\ \A g \in PageFrame : On(g, fifo') <=>
                                  g # f /\ frametab[g].type # "FREE"
  BY <1>1, <1>2, VictimFacts
<1>5. /\ q \in Proc /\ v \in Vpn /\ Standing(q) /\ Holding(q) /\ v < proctab[q].prpages
      /\ PTFrame(q) # NoFrame /\ Mapped(q, v) /\ FramePte(f) \in E /\ FramePte(f) = Pte(q, v)
  BY <1>1, <1>3, <1>4, FramesInPlace DEF Serving, FramePte
<1>6. b \in Store /\ bstab[b].isallocated /\ v < bstab[b].npages
  <2>1. b = proctab[q].prbsd
    BY <1>3 DEF StoreOf
  <2> QED
    BY <1>5, <2>1 DEF FrameInv, Stores
<1>7. /\ pc' = [pc EXCEPT ![p] = "evict"] /\ UNCHANGED victim
      /\ bstab' = [bstab EXCEPT ![b].usecount = @ + 1]
      /\ job' = [job EXCEPT ![p].frame = f, ![p].bs = b]
  BY <1>2, <1>3, <1>6 DEF Allocated
<1>8. /\ bstab' \in [Store -> [isallocated : BOOLEAN, usecount : Nat, npages : 0..MaxPages]]
      /\ \A c \in Store : /\ bstab'[c].isallocated = bstab[c].isallocated
                          /\ bstab'[c].npages = bstab[c].npages
                          /\ bstab'[c].usecount = IF c = b THEN 1 ELSE 0
  BY <1>1, <1>6, <1>7, StoresClosed, StoreOpens DEF FrameInv
<1>9. /\ pc'[p] = "evict" /\ Stores' /\ KillsOwn' /\ FaultsInHeap'
      /\ \A r \in Proc : r # p => pc'[r] = pc[r] /\ pc'[r] \notin Serving /\ pc[r] # "killw"
      /\ \A r \in Proc : Standing(r)' = Standing(r)
  BY <1>1, <1>7, <1>8, ServiceGoesOn DEF Serving
<1>10. /\ job'[p].frame = f /\ job'[p].bs = b /\ job'[p].vpn = job[p].vpn
       /\ job' \in [Proc -> J]
       /\ \A r \in Proc : r # p => job'[r] = job[r]
  <2>1. PICK j : j = [[job[p] EXCEPT !.frame = f] EXCEPT !.bs = b]
    OBVIOUS
  <2>2. job \in [Proc -> J] /\ job[p] \in J /\ f \in Frame
    BY FrameKinds DEF FrameInv, Typed
  <2>3. j \in J /\ j.frame = f /\ j.bs = b /\ j.vpn = job[p].vpn
    BY <1>6, <2>1, <2>2
  <2>4. job' = [job EXCEPT ![p] = j]
    BY <1>7, <2>1, <2>2
  <2> HIDE DEF J
  <2>5. job'[p] = j /\ job' \in [Proc -> J] /\ \A r \in Proc : r # p => job'[r] = job[r]
    BY <2>2, <2>3, <2>4
  <2> QED
    BY <2>3, <2>5
<1>11. /\ ptmem' \in [DSFrame -> [Vpn -> E]]
       /\ \A r \in Proc : PTFrame(r)' = PTFrame(r)
       /\ SameEntries
  <2>1. PICK e : e = [FramePte(f) EXCEPT !.dirty = FALSE]
    OBVIOUS
  <2>2. e \in E /\ e.pres = Pte(q, v).pres /\ e.base = Pte(q, v).base
    BY <1>5, <2>1
  <2>3. Pte(q, v).pres
    BY <1>5 DEF Mapped, Pte
  <2>4. ptmem' = SetPte(q, v, e)
    BY <1>2, <1>3, <2>1
  <2>5. Typed /\ Tables /\ UNCHANGED <<pdmem, proctab>>
    BY <1>1 DEF FrameInv
  <2>6. /\ ptmem' \in [DSFrame -> [Vpn -> E]]
        /\ \A r \in Proc : PTFrame(r)' = PTFrame(r)
        /\ Mapped(q, v)' = e.pres
        /\ Pte(q, v)' = e
        /\ \A r \in Proc, w \in Vpn : Standing(r) /\ (r # q \/ w # v) =>
              /\ Mapped(r, w)' = Mapped(r, w)
              /\ Mapped(r, w) => Pte(r, w)' = Pte(r, w)
    BY <1>5, <2>2, <2>4, <2>5, EntryStored
  <2>7. SUFFICES ASSUME NEW r \in Proc, NEW w \in Vpn, Standing(r)
                 PROVE  /\ Mapped(r, w)' = Mapped(r, w)
                        /\ Mapped(r, w) => Pte(r, w).base' = Pte(r, w).base
    BY <2>6 DEF SameEntries
  <2>8. CASE r # q \/ w # v
    BY <2>6, <2>7, <2>8
  <2>9. CASE r = q /\ w = v
    <3>1. Mapped(q, v) /\ Mapped(q, v)' /\ Pte(q, v)'.base = Pte(q, v).base
      BY <1>5, <2>2, <2>3, <2>6
    <3>2. Mapped(r, w) \in BOOLEAN /\ Mapped(r, w)' \in BOOLEAN
      BY DEF Mapped
    <3> QED
      BY <2>9, <3>1, <3>2
  <2> QED
    BY <2>8, <2>9
<1> HIDE DEF E, J
<1>12. Typed'
  BY <1>1, <1>4, <1>8, <1>10, <1>11 DEF FrameInv, Typed, dataVars, histVars, E, J
<1>13. Directories' /\ Tables'
  <2>1. \A g \in PageFrame : frametab'[g].type \in {"FREE", "PG"}
    BY <1>1 DEF FrameInv, Directories
  <2>2. \A g \in DSFrame : frametab'[g] = frametab[g]
    BY <1>1
  <2> QED
    BY <1>1, <1>9, <1>11, <2>1, <2>2, DirectoriesKept, TablesKept DEF FrameInv
<1>14. FramesMapped'
  <2>1. SUFFICES ASSUME NEW g \in PageFrame, frametab[g].type # "FREE",
                        NEW r, r = Owner(g), NEW w, w = frametab[g].vpn
                 PROVE  /\ r \in Proc /\ pc'[r] \notin Gone /\ w < proctab[r].prpages
                        /\ Mapped(r, w)' /\ Pte(r, w)'.base = g
    BY <1>1 DEF FramesMapped, Owner
  <2>2. /\ r \in Proc /\ w \in Vpn /\ Standing(r) /\ w < proctab[r].prpages
        /\ Mapped(r, w) /\ Pte(r, w).base = g
    BY <1>1, <2>1, FramesInPlace DEF Serving
  <2>3. pc'[r] \notin Gone
    BY <1>9, <2>2 DEF Standing
  <2> QED
    BY <1>11, <2>2, <2>3 DEF SameEntries
<1>15. PagesFramed'
  <2>1. SUFFICES ASSUME NEW r \in Proc, NEW w \in Vpn, Standing(r)', Mapped(r, w)',
                        ~(pc'[r] \in Serving /\ job'[r].vpn = w)
                 PROVE  frametab[Pte(r, w)'.base] = [type |-> "PG", pid |-> r, vpn |-> w]
    BY <1>1 DEF PagesFramed
  <2>2. Standing(r) /\ Mapped(r, w) /\ Pte(r, w)'.base = Pte(r, w).base
    BY <1>9, <1>11, <2>1 DEF SameEntries
  <2>3. ~(pc[r] \in Serving /\ job[r].vpn = w)
    BY <1>1, <1>9, <1>10, <2>1 DEF Serving
  <2> QED
    BY <2>2, <2>3 DEF FrameInv, PagesFramed
<1>16. Services'
  <2>1. Served(p) /\ job[p].vpn \in Vpn /\ Standing(p)
    BY <1>1 DEF FrameInv, Services, Serving, Typed, Standing, Gone, Dead
  <2>2. Mapped(p, job[p].vpn)'
    <3>1. PICK w \in Vpn : w = job[p].vpn
      BY <2>1
    <3>2. Mapped(p, w)
      BY <2>1, <3>1 DEF Served
    <3>3. Mapped(p, w)'
      BY <1>11, <2>1, <3>2 DEF SameEntries
    <3> QED
      BY <1>10, <3>1, <3>3 DEF Mapped, PTFrame
  <2>3. Served(p)'
    BY <1>1, <1>4, <1>9, <1>10, <2>1, <2>2 DEF Served
  <2> QED
    BY <1>9, <2>3 DEF Services
<1>17. Listed'
  <2>1. \A g \in PageFrame : (\E r \in Proc : pc'[r] \in Moving /\ job'[r].frame = g) <=> g = f
    BY <1>9, <1>10 DEF Moving, Serving
  <2> QED
    BY <1>1, <1>4, <2>1 DEF Listed
<1>18. Uses'
  <2>1. StoreOf(f)' = b
    BY <1>1, <1>3 DEF StoreOf, Owner
  <2>2. \A r \in Proc : r # p => pc'[r] \notin {"evict", "copied", "load"}
    BY <1>9 DEF Serving
  <2>3. \A r \in Proc : pc'[r] \in {"evict", "copied"} => job'[r].bs = StoreOf(job[r].frame)'
    BY <1>9, <1>10, <2>1, <2>2 DEF StoreOf, Owner
  <2>4. \A c \in Store : (\E r \in Proc : Transfer(r, c)') <=> c = b
    BY <1>9, <1>10, <2>2 DEF Transfer
  <2> QED
    BY <1>8, <2>3, <2>4 DEF Uses
<1> QED
  BY <1>9, <1>12, <1>13, <1>14, <1>15, <1>16, <1>17, <1>18 DEF FrameInv

\* The victim's frame is recorded for the page served, and the store of the process, whose
\* page it is, is opened to read it.
LEMMA StoredFrames ==
    ASSUME FrameInv, SemInv', NEW p \in Proc, assignStored(p)
    PROVE  FrameInv'
<1>v. PICK f, b, v : f = job[p].frame /\ b = proctab[p].prbsd /\ v = job[p].vpn
  OBVIOUS
<1> DEFINE r0 == [type |-> "PG", pid |-> p, vpn |-> v]
<1>1. /\ pc[p] = "assign"
      /\ frametab' = [frametab EXCEPT ![f] = r0]
      /\ bstab' = IF Allocated(b) THEN [bstab EXCEPT ![b].usecount = @ + 1] ELSE bstab
      /\ IF Allocated(b) /\ v < bstab[b].npages
         THEN pc' = [pc EXCEPT ![p] = "load"] /\ UNCHANGED victim
         ELSE CallKill(p, p, "lkill")
      /\ UNCHANGED <<cur, prSem, faultVars, fifo, tableVars, tlb, bsdtab, dataVars,
                     created, histVars>>
  BY <1>v DEF assignStored
<1>2. /\ Served(p) /\ f \in PageFrame /\ frametab[f].type = "FREE"
      /\ v \in Vpn /\ v < proctab[p].prpages /\ Mapped(p, v)
  <2>1. Served(p)
    BY <1>1 DEF FrameInv, Services, Serving
  <2> QED
    BY <1>1, <1>v, <2>1 DEF Served, FrameInv, Typed
<1>3. b \in Store /\ bstab[b].isallocated /\ v < bstab[b].npages
  <2>1. Holding(p)
    BY <1>1 DEF Holding, Gone, Dead, Faulted, Serving, FrameInv, FaultsInHeap
  <2> QED
    BY <1>v, <1>2, <2>1 DEF FrameInv, Stores
<1>4. /\ pc' = [pc EXCEPT ![p] = "load"] /\ UNCHANGED victim
      /\ bstab' = [bstab EXCEPT ![b].usecount = @ + 1]
  BY <1>1, <1>3 DEF Allocated
<1>u. UNCHANGED <<job, cr2, fault, fifo, proctab, pdmem, ptmem>>
  BY <1>1 DEF faultVars, tableVars
<1>5. /\ bstab' \in [Store -> [isallocated : BOOLEAN, usecount : Nat, npages : 0..MaxPages]]
      /\ \A c \in Store : /\ bstab'[c].isallocated = bstab[c].isallocated
                          /\ bstab'[c].npages = bstab[c].npages
                          /\ bstab'[c].usecount = IF c = b THEN 1 ELSE 0
  BY <1>1, <1>3, <1>4, StoresClosed, StoreOpens DEF FrameInv
<1>6. /\ pc'[p] = "load" /\ Stores' /\ KillsOwn' /\ FaultsInHeap'
      /\ \A r \in Proc : r # p => pc'[r] = pc[r] /\ pc'[r] \notin Serving /\ pc[r] # "killw"
      /\ \A r \in Proc : Standing(r)' = Standing(r)
  BY <1>1, <1>4, <1>5, <1>u, ServiceGoesOn DEF Serving
<1>7. \A r \in Proc, w \in Vpn : /\ PTFrame(r)' = PTFrame(r) /\ Mapped(r, w)' = Mapped(r, w)
                                 /\ Pte(r, w)' = Pte(r, w)
  BY <1>u DEF PTFrame, Mapped, Pte
<1>8. /\ frametab' \in [Frame -> [type : {"FREE", "PD", "PT", "PG"},
                                  pid : Proc \cup {NULLPROC}, vpn : Vpn]]
      /\ frametab'[f] = r0
      /\ \A g \in Frame : g # f => frametab'[g] = frametab[g]
  <2>1. frametab \in [Frame -> [type : {"FREE", "PD", "PT", "PG"},
                                pid : Proc \cup {NULLPROC}, vpn : Vpn]]
    BY DEF FrameInv, Typed
  <2> QED
    BY <1>1, <1>2, <2>1, FrameKinds
<1> HIDE DEF r0
<1>9. Typed'
  BY <1>1, <1>5, <1>8, <1>u DEF FrameInv, Typed, dataVars, histVars
<1>10. /\ \A g \in DSFrame : frametab'[g] = frametab[g]
       /\ \A g \in PageFrame : frametab'[g].type \in {"FREE", "PG"}
  <2>1. \A g \in PageFrame : frametab[g].type \in {"FREE", "PG"}
    BY DEF FrameInv, Directories
  <2> QED
    BY <1>2, <1>8, <2>1, FrameKinds DEF r0
<1>11. Directories' /\ Tables'
  <2>1. \A q \in Proc : PTFrame(q)' = PTFrame(q)
    BY <1>u DEF PTFrame
  <2> QED
    BY <1>6, <1>10, <1>u, <2>1, DirectoriesKept, TablesKept DEF FrameInv
<1>12. FramesMapped'
  <2>1. SUFFICES ASSUME NEW g \in PageFrame, frametab'[g].type # "FREE",
                        NEW r, r = frametab'[g].pid, NEW w, w = frametab'[g].vpn
                 PROVE  /\ r \in Proc /\ pc'[r] \notin Gone /\ w < proctab[r].prpages
                        /\ Mapped(r, w)'
                        /\ Pte(r, w)'.base = g \/ (pc'[r] = "load" /\ job[r].frame = g)
    BY <1>u DEF FramesMapped, Owner
  <2>2. CASE g = f
    <3>1. r = p /\ w = v
      BY <1>8, <2>1, <2>2 DEF r0
    <3> QED
      BY <1>2, <1>6, <1>7, <1>v, <2>2, <3>1 DEF Gone, Dead
  <2>3. CASE g # f
    <3>1. frametab'[g] = frametab[g]
      BY <1>8, <2>3, FrameKinds
    <3>2. /\ r \in Proc /\ w \in Vpn /\ Standing(r) /\ w < proctab[r].prpages
          /\ Mapped(r, w) /\ Pte(r, w).base = g
      <4>1. /\ pc[p] \in Serving \ {"load"} /\ frametab[g].type # "FREE"
            /\ r = Owner(g) /\ w = frametab[g].vpn
        BY <1>1, <2>1, <3>1 DEF Serving, Owner
      <4> QED
        BY <4>1, FramesInPlace
    <3>3. pc'[r] \notin Gone
      BY <1>6, <3>2 DEF Standing
    <3> QED
      BY <1>7, <3>2, <3>3
  <2> QED
    BY <2>2, <2>3
<1>13. PagesFramed'
  <2>1. SUFFICES ASSUME NEW r \in Proc, NEW w \in Vpn, Standing(r)', Mapped(r, w)',
                        ~(pc'[r] \in Serving /\ job'[r].vpn = w)
                 PROVE  frametab'[Pte(r, w)'.base] = [type |-> "PG", pid |-> r, vpn |-> w]
    BY DEF PagesFramed
  <2>2. Standing(r) /\ Mapped(r, w) /\ ~(pc[r] \in Serving /\ job[r].vpn = w)
    BY <1>1, <1>6, <1>7, <1>u, <2>1 DEF Serving
  <2>3. frametab[Pte(r, w).base] = [type |-> "PG", pid |-> r, vpn |-> w]
    BY <2>2 DEF FrameInv, PagesFramed
  <2>4. Pte(r, w).base \in PageFrame
    BY <2>2, <2>3, EntryFrame DEF FrameInv, Mapped
  <2>5. Pte(r, w).base # f
    BY <1>2, <2>3
  <2> QED
    BY <1>7, <1>8, <2>3, <2>4, <2>5, FrameKinds
<1>14. Services'
  <2>1. Mapped(p, v)'
    BY <1>2, <1>7
  <2>2. \A g \in PageFrame : g # f => frametab'[g] = frametab[g]
    BY <1>8, FrameKinds
  <2>3. \A g \in PageFrame : frametab'[g].type # "FREE" /\ frametab'[g].pid = p
                             /\ frametab'[g].vpn = v => g = f
    BY <1>1, <1>2, <1>v, <2>2 DEF Served
  <2>4. Mapped(p, job[p].vpn)'
    BY <1>u, <1>v, <2>1 DEF Mapped, PTFrame
  <2>5. Served(p)'
    BY <1>2, <1>6, <1>8, <1>u, <1>v, <2>3, <2>4 DEF Served, r0
  <2> QED
    BY <1>6, <2>5 DEF Services
<1>15. Listed'
  <2>1. SUFFICES ASSUME Policy = "FIFO" PROVE Listed'
    BY DEF Listed
  <2>2. \A q \in Proc : pc[q] \notin Moving
    BY <1>1, <1>6 DEF Moving, Serving
  <2>3. /\ Once(fifo)
        /\ \A g \in PageFrame : On(g, fifo) <=> frametab[g].type # "FREE"
    BY <2>1, <2>2 DEF FrameInv, Listed
  <2>4. \A g \in PageFrame : (\E q \in Proc : pc'[q] \in Moving /\ job'[q].frame = g) <=> g = f
    BY <1>6, <1>u, <1>v DEF Moving, Serving
  <2>5. \A g \in PageFrame : g # f => frametab'[g] = frametab[g]
    BY <1>8, FrameKinds
  <2> QED
    BY <1>2, <1>u, <2>3, <2>4, <2>5 DEF Listed
<1>16. Uses'
  <2>1. \A r \in Proc : r # p => pc'[r] \notin {"evict", "copied", "load"}
    BY <1>6 DEF Serving
  <2>2. \A r \in Proc : pc'[r] \notin {"evict", "copied"}
    BY <1>6, <2>1
  <2>3. \A c \in Store : (\E r \in Proc : Transfer(r, c)') <=> c = b
    BY <1>6, <1>u, <1>v, <2>1 DEF Transfer
  <2> QED
    BY <1>5, <2>2, <2>3 DEF Uses
<1> QED
  BY <1>6, <1>9, <1>11, <1>12, <1>13, <1>14, <1>15, <1>16 DEF FrameInv

-------------------------------------------------------------------------------

THEOREM FrameInit == Init => FrameInv
<1> SUFFICES ASSUME Init PROVE FrameInv
  OBVIOUS
<1> USE DEF Init
<1>1. SemInv
  BY SemInit
<1>2. /\ \A p \in Proc : pc[p] \in {"user", "free"} /\ victim[p] = NoProc
      /\ \A p \in Proc : pc[p] = "user" <=> p = Main
  OBVIOUS
<1>3. /\ NoPte \in [pres : BOOLEAN, dirty : BOOLEAN, base : Frame]
      /\ FreeFrame \in [type : {"FREE", "PD", "PT", "PG"}, pid : Proc \cup {NULLPROC}, vpn : Vpn]
      /\ [FreeFrame EXCEPT !.type = "PD"]
            \in [type : {"FREE", "PD", "PT", "PG"}, pid : Proc \cup {NULLPROC}, vpn : Vpn]
  BY ZeroTyped DEF NoPte, FreeFrame
<1>4. /\ frametab \in [Frame -> [type : {"FREE", "PD", "PT", "PG"},
                                 pid : Proc \cup {NULLPROC}, vpn : Vpn]]
      /\ frametab[0].type = "PD" /\ frametab[0].pid = NULLPROC
      /\ \A f \in Frame : f # 0 => frametab[f].type = "FREE"
  BY <1>3, ZeroTyped DEF FreeFrame
<1>5. 0 \in DSFrame /\ 0 \notin PageFrame /\ NoFrame # 0
  BY ZeroTyped, FrameKinds, NoPageFrame
<1>6. /\ proctab \in [Proc -> [prpd : DSFrame \cup {NoFrame}, prpages : 0..MaxPages,
                               prbsd : Store \cup {SYSERR}]]
      /\ \A p \in Proc : /\ proctab[p].prpages = 0 /\ proctab[p].prbsd = 0
                         /\ proctab[p].prpd = IF p = Main THEN 0 ELSE NoFrame
  <2>1. 0 \in 0..MaxPages
    BY SizeAssumption
  <2> QED
    BY <2>1, ZeroTyped
<1>7. Typed
  <2>1. /\ fifo \in Seq(PageFrame)
        /\ tlb \subseteq [vpn : Vpn, base : PageFrame, dirty : BOOLEAN]
        /\ raced \subseteq Proc \X Vpn /\ created \in 0..MaxCreate
    BY SizeAssumption, EmptySeq
  <2>2. bstab \in [Store -> [isallocated : BOOLEAN, usecount : Nat, npages : 0..MaxPages]]
    BY SizeAssumption
  <2>3. /\ job \in [Proc -> [frame : Frame, vpn : Vpn, bs : Store \cup {SYSERR}]]
        /\ cr2 \in Address /\ fault \in [Proc -> Address]
    BY ZeroTyped
  <2>4. ptmem \in [DSFrame -> [Vpn -> [pres : BOOLEAN, dirty : BOOLEAN, base : Frame]]]
    BY <1>3
  <2>5. /\ pdmem \in [DSFrame -> DSFrame \cup {NoFrame}]
        /\ bsdtab \in [Store -> [Vpn -> {"BS_IGNORE", "BS_NPRES", "BS_PRES"}]]
        /\ content \in [PageFrame -> Value \cup {NoValue}]
        /\ store \in [Store -> [Vpn -> Value \cup {NoValue}]]
        /\ mem \in [Proc -> [Vpn -> Value \cup {NoValue}]]
    OBVIOUS
  <2> QED
    BY <1>4, <1>6, <2>1, <2>2, <2>3, <2>4, <2>5 DEF Typed
<1>8. \A p \in Proc : pc[p] \notin Leaving /\ pc[p] \notin Faulted /\ pc[p] \notin Serving
                      /\ pc[p] \notin Moving /\ pc[p] # "lkill" /\ ~Holding(p)
  BY <1>2, <1>6 DEF Leaving, Faulted, Serving, Moving, Holding
<1>9. \A p \in Proc : PTFrame(p) = NoFrame
  BY <1>5, <1>6 DEF PTFrame
<1>10. KillsOwn /\ FaultsInHeap
  BY <1>2, <1>6, <1>8 DEF KillsOwn, FaultsInHeap
<1>11. \A f \in PageFrame : frametab[f].type = "FREE"
  BY <1>4, <1>5, FrameKinds
<1>12. Directories
  <2>1. NULLPROC \notin Exits
    BY ProcAssumption
  <2> QED
    BY <1>4, <1>5, <1>6, <1>11, <2>1, FrameKinds DEF Directories
<1>13. Tables /\ PagesFramed
  BY <1>9 DEF Tables, PagesFramed, Mapped
<1>14. FramesMapped /\ Services
  BY <1>8, <1>11 DEF FramesMapped, Services
<1>15. Listed
  <2>1. Once(fifo) /\ \A f \in PageFrame : ~On(f, fifo)
    BY EmptySeq DEF Once, On
  <2> QED
    BY <1>11, <2>1 DEF Listed
<1>16. Stores
  BY <1>6, <1>8 DEF Stores
<1>17. Uses
  <2>1. \A p \in Proc, b \in Store : ~Transfer(p, b)
    BY <1>2 DEF Transfer
  <2> QED
    BY <1>2, <2>1 DEF Uses
<1> QED
  BY <1>1, <1>7, <1>10, <1>12, <1>13, <1>14, <1>15, <1>16, <1>17 DEF FrameInv

\* removeFifo() finds a page table behind every frame, and kill() is not called from
\* inside the handler.
LEMMA NeverAstray ==
    ASSUME FrameInv, NEW p \in Proc
    PROVE  ~removeAstray(p) /\ ~pfhandlerOutOfRange(p)
<1>1. ASSUME removeAstray(p) PROVE FALSE
  <2>1. PICK f \in PageFrame : Victim(f) /\ Astray(f) /\ pc[p] = "alloc" /\ NoneFree(PageFrame)
    BY <1>1 DEF removeAstray
  <2>2. dropHead
    BY <1>1 DEF removeAstray
  <2> QED
    BY <2>1, <2>2, VictimFacts
<1>2. ASSUME pfhandlerOutOfRange(p) PROVE FALSE
  <2>1. pc[p] = "enter"
    BY <1>2 DEF pfhandlerOutOfRange
  <2> QED
    BY <1>2, <2>1, PageServed
<1> QED
  BY <1>1, <1>2

\* The invariant is kept by every step of orderly programs.
THEOREM FrameNext ==
    ASSUME Orderly PROVE FrameInv /\ [Next]_vars => FrameInv'
<1> SUFFICES ASSUME FrameInv, [Next]_vars PROVE FrameInv'
  OBVIOUS
<1>s. SemInv'
  BY SemNext DEF FrameInv
<1>1. ASSUME NEW p \in Proc \cup {NULLPROC}, Switch(p) PROVE FrameInv'
  BY <1>s, <1>1, SwitchFrames
<1>2. ASSUME NEW p \in Proc, NEW q \in Proc, NEW n \in Sizes, vcreate(p, q, n) PROVE FrameInv'
  BY <1>s, <1>2, CreateFrames
<1>3. ASSUME NEW p \in Proc, NEW q \in Proc, kill(p, q) PROVE FrameInv'
  BY <1>s, <1>3, KillFrames
<1>4. ASSUME NEW p \in Proc, NEW a \in Address, Read(p, a) PROVE FrameInv'
  BY <1>s, <1>4, ReadFrames
<1>5. ASSUME NEW p \in Proc, NEW a \in Address, Fault(p, a) PROVE FrameInv'
  BY <1>s, <1>5, FaultFrames
<1>6. ASSUME NEW p \in Proc, NEW a \in Address, NEW x \in Writes[p], Write(p, a, x)
      PROVE  FrameInv'
  BY <1>s, <1>6, WriteFrames
<1>7. ASSUME NEW p \in Proc, Handler(p) PROVE FrameInv'
  <2>1. \/ pfhandlerNewTable(p) \/ pfhandlerNewPage(p) \/ pfhandlerNothing(p)
        \/ getPFrameFree(p) \/ removeClean(p) \/ removeDirty(p)
        \/ sendBsCopy(p) \/ sendBsDone(p)
        \/ assignFresh(p) \/ assignStored(p) \/ getBsDone(p)
    BY <1>7, NeverAstray DEF Handler
  <2> QED
    BY <1>s, <2>1, NewTableFrames, NewPageFrames, NothingFrames, FreeFrameFrames, CleanFrames,
       DirtyFrames, SendCopyFrames, SendDoneFrames, FreshFrames, StoredFrames, LoadFrames
<1>8. ASSUME NEW p \in Proc, Killing(p) PROVE FrameInv'
  BY <1>s, <1>8, KillWaitFrames, FreeFramesFrames, KillUnmapFrames, KillDoneFrames DEF Killing
<1>9. CASE UNCHANGED vars
  <2>1. UNCHANGED <<pc, victim, job, cr2, fault, frametab, fifo, proctab, pdmem, ptmem, tlb, bstab,
                    bsdtab, content, store, created, mem, raced>>
    BY <1>9 DEF vars, procVars, faultVars, frameVars, tableVars, bsVars, dataVars, histVars
  <2>2. Typed' /\ KillsOwn' /\ FaultsInHeap'
    BY <2>1 DEF FrameInv, Typed, KillsOwn, FaultsInHeap
  <2>3. \A q \in Proc : Calm(q)
    BY <2>1 DEF Calm, Standing
  <2> QED
    BY <1>s, <2>1, <2>2, <2>3, TablesStill, CalmInv
<1> QED
  BY <1>1, <1>2, <1>3, <1>4, <1>5, <1>6, <1>7, <1>8, <1>9 DEF Next

-------------------------------------------------------------------------------

\* The paging structures agree with each other at every step of orderly programs.
THEOREM FrameInvAlways ==
    ASSUME Orderly PROVE Spec => []FrameInv
<1>1. Init => FrameInv
  BY FrameInit
<1>2. FrameInv /\ [Next]_vars => FrameInv'
  BY FrameNext
<1> QED
  BY <1>1, <1>2, PTL DEF Spec

\* A process is the target of a kill() exactly when it is inside its own.
LEMMA KilledAreLeaving ==
    ASSUME FrameInv, NEW p \in Proc
    PROVE  BeingKilled(p) <=> pc[p] \in Leaving
<1>1. \A k \in Proc : victim[k] = IF pc[k] \in Leaving THEN k ELSE NoProc
  BY DEF FrameInv, KillsOwn
<1> QED
  BY <1>1, ProcAssumption DEF BeingKilled

\* The inverted page table and the page tables describe the same mapping, whatever the
\* numbers of processes, frames, stores and pages and with either replacement policy.
THEOREM FrameTableAlwaysConsistent ==
    ASSUME Orderly PROVE Spec => []FrameTableConsistent
<1>1. ASSUME FrameInv PROVE FrameTableConsistent
  <2>1. TypeOK
    BY <1>1 DEF FrameInv, SemInv, SemTypeOK, Typed, TypeOK
  <2>2. ASSUME NEW f \in PageFrame, NEW p, p = Owner(f),
               frametab[f].type = "PG", ~BeingKilled(p)
        PROVE  /\ Live(p) /\ Mapped(p, frametab[f].vpn)
               /\ \/ Pte(p, frametab[f].vpn).base = f
                  \/ pc[p] = "load" /\ job[p].frame = f
    <3>1. /\ p \in Proc /\ pc[p] \notin Gone
          /\ \/ pc[p] = "killw"
             \/ /\ Mapped(p, frametab[f].vpn)
                /\ \/ Pte(p, frametab[f].vpn).base = f
                   \/ pc[p] = "load" /\ job[p].frame = f
      BY <1>1, <2>2 DEF FrameInv, FramesMapped
    <3>2. pc[p] # "killw"
      BY <1>1, <2>2, <3>1, KilledAreLeaving DEF Leaving
    <3> QED
      BY <3>1, <3>2 DEF Live, Gone
  <2>3. ASSUME NEW p \in Proc, NEW v \in Vpn,
               Live(p), ~BeingKilled(p), Mapped(p, v), ~InService(p, v)
        PROVE  frametab[Pte(p, v).base] = [type |-> "PG", pid |-> p, vpn |-> v]
    <3>1. Standing(p)
      BY <1>1, <2>3, KilledAreLeaving DEF Live, Standing, Gone, Leaving
    <3>2. ~(pc[p] \in Serving /\ job[p].vpn = v)
      BY <2>3 DEF InService, Serving
    <3> QED
      BY <1>1, <2>3, <3>1, <3>2 DEF FrameInv, PagesFramed
  <2> QED
    BY <2>1, <2>2, <2>3 DEF FrameTableConsistent
<1> QED
  BY <1>1, FrameInvAlways, PTL

\* With the FIFO policy the list holds each page frame in use exactly once, the one being
\* replaced or filled excepted.
THEOREM FifoAlwaysExact ==
    ASSUME Orderly, Policy = "FIFO" PROVE Spec => []FifoExact
<1>1. ASSUME FrameInv PROVE FifoExact
  <2>1. \A f \in PageFrame : frametab[f].type # "FREE" <=> frametab[f].type = "PG"
    BY <1>1 DEF FrameInv, Directories
  <2> QED
    BY <1>1, <2>1 DEF FrameInv, Listed, FifoExact, Once, On, Moving
<1> QED
  BY <1>1, FrameInvAlways, PTL

\* Each running process with a heap has a store of its own, allocated with its size, and
\* no store but 0 stays allocated without one.
THEOREM StoresAlwaysOwned ==
    ASSUME Orderly PROVE Spec => []StoresOwned
<1>1. ASSUME FrameInv PROVE StoresOwned
  <2>1. \A p \in Proc : Live(p) /\ ~BeingKilled(p) /\ proctab[p].prpages > 0 => Holding(p)
    BY <1>1, KilledAreLeaving DEF Live, Holding, Gone, Leaving
  <2>2. StoreIsolation
    BY <1>1, <2>1 DEF FrameInv, Stores, StoreIsolation
  <2>3. StoresReturned
    BY <1>1 DEF FrameInv, Stores, StoresReturned, Holding, Live, Gone
  <2> QED
    BY <2>2, <2>3 DEF StoresOwned
<1> QED
  BY <1>1, FrameInvAlways, PTL

\* While no service is cut short by kill() (Orderly) and the disk carries out every transfer,
\* the open_bs() and close_bs() of evictions, reloads and exits that overlap add up: the use
\* count of a store is the number of transfers in progress on it.  The paths of bsdent.c on
\* which a transfer fails kill the process and leave the store open.
THEOREM UseCountsAlwaysBalanced ==
    ASSUME Orderly PROVE Spec => []UseCountsBalanced
<1>1. ASSUME FrameInv PROVE UseCountsBalanced
  <2>1. SUFFICES ASSUME NEW b \in Store
                 PROVE  bstab[b].usecount =
                           Cardinality({p \in Proc : /\ pc[p] \in {"evict", "copied"}
                                                     /\ job[p].bs = b})
                         + Cardinality({p \in Proc : pc[p] = "load" /\ proctab[p].prbsd = b})
    BY DEF UseCountsBalanced
  <2> DEFINE out  == {p \in Proc : pc[p] \in {"evict", "copied"} /\ job[p].bs = b}
             into == {p \in Proc : pc[p] = "load" /\ proctab[p].prbsd = b}
  <2>2. \A p, q \in Proc : Transfer(p, b) /\ Transfer(q, b) => p = q
    BY <1>1, OneCritical DEF FrameInv, Transfer, Critical
  <2>3. bstab[b].usecount = IF \E p \in Proc : Transfer(p, b) THEN 1 ELSE 0
    BY <1>1 DEF FrameInv, Uses
  <2>4. CASE \E p \in Proc : pc[p] \in {"evict", "copied"} /\ job[p].bs = b
    <3>1. PICK p \in Proc : pc[p] \in {"evict", "copied"} /\ job[p].bs = b
      BY <2>4
    <3>2. Transfer(p, b) /\ bstab[b].usecount = 1
      BY <2>3, <3>1 DEF Transfer
    <3>3. out = {p} /\ into = {}
      BY <2>2, <3>1, <3>2 DEF Transfer
    <3>4. Cardinality(out) = 1 /\ Cardinality(into) = 0
      BY <3>3, FS_EmptySet, FS_Singleton
    <3> QED
      BY <3>2, <3>4
  <2>5. CASE \E p \in Proc : pc[p] = "load" /\ proctab[p].prbsd = b
    <3>1. PICK p \in Proc : pc[p] = "load" /\ proctab[p].prbsd = b
      BY <2>5
    <3>2. Transfer(p, b) /\ bstab[b].usecount = 1
      BY <2>3, <3>1 DEF Transfer
    <3>3. out = {} /\ into = {p}
      BY <2>2, <3>1, <3>2 DEF Transfer
    <3>4. Cardinality(out) = 0 /\ Cardinality(into) = 1
      BY <3>3, FS_EmptySet, FS_Singleton
    <3> QED
      BY <3>2, <3>4
  <2>6. CASE ~\E p \in Proc : Transfer(p, b)
    <3>1. bstab[b].usecount = 0 /\ out = {} /\ into = {}
      BY <2>3, <2>6 DEF Transfer
    <3>2. Cardinality(out) = 0 /\ Cardinality(into) = 0
      BY <3>1, FS_EmptySet
    <3> QED
      BY <3>1, <3>2
  <2> QED
    BY <2>4, <2>5, <2>6 DEF Transfer
<1> QED
  BY <1>1, FrameInvAlways, PTL
===============================================================================
