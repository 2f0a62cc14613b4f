------------------------------ MODULE DataProofs ------------------------------
(***************************************************************************)
(* Paging loses nothing that a program wrote, and uses no stale             *)
(* translation, as long as no process leaves.                               *)
(*                                                                          *)
(* Both hypotheses beyond those of FrameProofs are the code's own: after an  *)
(* exit getPFrame() hands out a free frame without looking at the store,     *)
(* and nothing invalidates the translation of a page that its own process   *)
(* evicts, so with a TLB a heap may have only one page.                     *)
(***************************************************************************)
EXTENDS FrameProofs

Steady ==
    /\ Orderly
    /\ Exits = {}
    /\ CacheTLB => \A n \in Sizes : n <= 1

-------------------------------------------------------------------------------

\* The page v of p is the one its page-fault service is about, for ever if it is lost.
InHand(p, v) == pc[p] \in Serving \cup {"lost"} /\ job[p].vpn = v

\* What p wrote to its page v last is to be kept.
Due(p, v) == pc[p] \notin Dead /\ <<p, v>> \notin raced /\ mem[p][v] # NoValue

\* The store of p holds it.
Stored(p, v) ==
    LET b == proctab[p].prbsd
    IN  bsdtab[b][v] = "BS_PRES" /\ store[b][v] = mem[p][v]

\* sendBs() is writing out the frame f: its dirty bit is cleared already.
BeingSent(f) == \E h \in Proc : pc[h] \in {"evict", "copied"} /\ job[h].frame = f

\* What is to be kept is in the page's frame, and marked dirty or on its way to the store
\* if the store does not hold it too; without a frame, in the store.
PageKept(p, v) ==
    Due(p, v) =>
       IF Mapped(p, v) /\ ~InHand(p, v)
       THEN /\ content[Pte(p, v).base] = mem[p][v]
            /\ Pte(p, v).dirty \/ Stored(p, v) \/ BeingSent(Pte(p, v).base)
       ELSE Stored(p, v)

PagesKept == \A p \in Proc, v \in Vpn : PageKept(p, v)

\* Only pages of heaps are written.
Written == \A p \in Proc, v \in Vpn :
    mem[p][v] # NoValue => pc[p] # "free" /\ v < proctab[p].prpages

\* After the copy the store has what the frame had, unless it was written since.
Copied ==
    \A h \in Proc : pc[h] = "copied" =>
        LET f == job[h].frame
            q == Owner(f)
            v == frametab[f].vpn
        IN  Due(q, v) => store[job[h].bs][v] = mem[q][v]

\* Once a page has gone out the frames are all in use, but for the one that a service has
\* emptied: no page that is in a store is given a free frame.
NoneToSpare ==
    \/ \E b \in Store, v \in Vpn : bsdtab[b][v] = "BS_PRES"
    \/ \E h \in Proc : pc[h] \in {"evict", "copied"}
    => \A f \in PageFrame :
          frametab[f].type # "FREE" \/ \E h \in Proc : pc[h] = "assign" /\ job[h].frame = f

\* The translations cached are those of a program that runs, taken from its tables.
Translations ==
    tlb # {} =>
        /\ CacheTLB /\ cur \in Proc /\ pc[cur] = "user"
        /\ \A e \in tlb : /\ Mapped(cur, e.vpn) /\ Pte(cur, e.vpn).base = e.base
                          /\ e.dirty => Pte(cur, e.vpn).dirty

DataInv ==
    /\ FrameInv
    /\ PagesKept /\ Written /\ Copied /\ NoneToSpare /\ Translations

-------------------------------------------------------------------------------

\* Without exits no kill() begins, and the tables of whoever is not dead stand.
LEMMA NobodyLeaves ==
    ASSUME Steady, FrameInv, NEW p \in Proc
    PROVE  /\ pc[p] \notin Leaving
           /\ pc[p] \notin Dead <=> Standing(p)
           /\ pc[p] \notin Dead /\ proctab[p].prpages > 0 <=> Holding(p)
<1>1. pc[p] \notin Leaving
  BY DEF Steady, FrameInv, KillsOwn
<1> QED
  BY <1>1 DEF Leaving, Standing, Holding, Gone, Dead

\* What is to be kept is a page of a heap, and that of a process with a store.
LEMMA DuePage ==
    ASSUME Steady, FrameInv, Written, NEW p \in Proc, NEW v \in Vpn, Due(p, v)
    PROVE  /\ pc[p] \notin Dead /\ Standing(p) /\ Holding(p)
           /\ proctab[p].prbsd \in Store /\ bstab[proctab[p].prbsd].isallocated
           /\ v < proctab[p].prpages
<1>1. pc[p] \notin Dead /\ v < proctab[p].prpages
  BY DEF Due, Written
<1>2. proctab[p].prpages > 0
  <2>1. v \in Int /\ v >= 0 /\ proctab[p].prpages \in Int
    BY SizeAssumption DEF Vpn, FrameInv, Typed
  <2> QED
    BY <1>1, <2>1
<1>3. Standing(p) /\ Holding(p)
  BY <1>1, <1>2, NobodyLeaves
<1> QED
  BY <1>1, <1>3 DEF FrameInv, Stores

\* A page marked present that nobody serves lies in a page frame recorded as its own.
LEMMA PagePlaced ==
    ASSUME FrameInv, NEW p \in Proc, NEW v \in Vpn, Standing(p), Mapped(p, v), ~InHand(p, v)
    PROVE  /\ PTFrame(p) # NoFrame
           /\ Pte(p, v) \in [pres : BOOLEAN, dirty : BOOLEAN, base : PageFrame]
           /\ frametab[Pte(p, v).base] = [type |-> "PG", pid |-> p, vpn |-> v]
<1>1. PTFrame(p) # NoFrame
  BY DEF Mapped
<1>2. frametab[Pte(p, v).base] = [type |-> "PG", pid |-> p, vpn |-> v]
  BY DEF FrameInv, PagesFramed, InHand
<1> QED
  BY <1>1, <1>2, EntryFrame DEF FrameInv

\* One process at a time serves a page, or sends one.
LEMMA OneInHand ==
    ASSUME FrameInv, NEW p \in Proc, pc[p] \in Serving \cup {"enter", "killw"}
    PROVE  /\ \A q \in Proc, v \in Vpn : InHand(q, v) =>
                 q = p /\ v = job[p].vpn /\ pc[p] \in Serving
           /\ \A f : BeingSent(f) => pc[p] \in {"evict", "copied"} /\ f = job[p].frame
           /\ \A q \in Proc : pc[q] \in Serving \cup {"lost"} => q = p
<1>1. \A q \in Proc : q # p => pc[q] \notin Critical
  BY OneCritical DEF FrameInv, Serving, Critical
<1> QED
  BY <1>1 DEF InHand, BeingSent, Serving, Critical

\* A page that stays where it is, with what it has, is kept.
LEMMA PageStays ==
    ASSUME NEW p \in Proc, NEW v \in Vpn, PageKept(p, v),
           Due(p, v)' => Due(p, v), mem'[p][v] = mem[p][v],
           Mapped(p, v)' = Mapped(p, v),
           InHand(p, v)' <=> InHand(p, v),
           Mapped(p, v) /\ ~InHand(p, v) =>
               /\ Pte(p, v)' = Pte(p, v)
               /\ content'[Pte(p, v).base] = content[Pte(p, v).base]
               /\ BeingSent(Pte(p, v).base) => BeingSent(Pte(p, v).base)',
           Due(p, v) /\ Stored(p, v) => Stored(p, v)'
    PROVE  PageKept(p, v)'
<1> SUFFICES ASSUME Due(p, v)'
             PROVE  IF Mapped(p, v)' /\ ~InHand(p, v)'
                    THEN /\ content'[Pte(p, v)'.base] = mem'[p][v]
                         /\ \/ Pte(p, v)'.dirty \/ Stored(p, v)'
                            \/ BeingSent(Pte(p, v).base)'
                    ELSE Stored(p, v)'
  BY DEF PageKept
<1>1. Due(p, v)
  OBVIOUS
<1>2. CASE Mapped(p, v) /\ ~InHand(p, v)
  BY <1>1, <1>2 DEF PageKept
<1>3. CASE ~(Mapped(p, v) /\ ~InHand(p, v))
  BY <1>1, <1>3 DEF PageKept
<1> QED
  BY <1>2, <1>3

\* Steps that touch neither pages nor tables, and keep every process in its place in the
\* handler, or out of it.
LEMMA QuietData ==
    ASSUME Steady, DataInv,
           UNCHANGED <<frametab, proctab, pdmem, ptmem, bsdtab, content, store, mem, raced>>,
           \A q \in Proc : /\ pc'[q] \in Dead <=> pc[q] \in Dead
                           /\ pc'[q] = "free" <=> pc[q] = "free"
                           /\ \/ pc'[q] = pc[q] /\ job'[q] = job[q]
                              \/ /\ pc[q] \notin Serving \cup {"lost"}
                                 /\ pc'[q] \notin Serving \cup {"lost"}
    PROVE  PagesKept' /\ Written' /\ Copied' /\ NoneToSpare'
<1>1. \A q \in Proc : LET S == Serving \cup {"lost"} IN
                      /\ pc'[q] \in S <=> pc[q] \in S
                      /\ pc[q] \in S => pc'[q] = pc[q] /\ job'[q] = job[q]
  OBVIOUS
<1>2. \A q \in Proc, v \in Vpn : InHand(q, v)' <=> InHand(q, v)
  BY <1>1 DEF InHand
<1>3. \A f : BeingSent(f)' <=> BeingSent(f)
  BY <1>1 DEF BeingSent, Serving
<1>4. \A q \in Proc, v \in Vpn : /\ Mapped(q, v)' = Mapped(q, v)
                                 /\ Pte(q, v)' = Pte(q, v)
                                 /\ Stored(q, v)' <=> Stored(q, v)
                                 /\ Due(q, v)' <=> Due(q, v)
  BY DEF Mapped, Pte, PTFrame, Stored, Due
<1>5. PagesKept'
  <2>1. ASSUME NEW q \in Proc, NEW v \in Vpn PROVE PageKept(q, v)'
    <3>1. PageKept(q, v)
      BY DEF DataInv, PagesKept
    <3>2. InHand(q, v)' <=> InHand(q, v)
      BY <1>2
    <3>3. /\ Mapped(q, v)' = Mapped(q, v) /\ Pte(q, v)' = Pte(q, v)
          /\ Stored(q, v) => Stored(q, v)'
          /\ Due(q, v)' => Due(q, v)
      BY <1>4
    <3>4. BeingSent(Pte(q, v).base) => BeingSent(Pte(q, v).base)'
      BY <1>3, <3>3
    <3> QED
      BY <3>1, <3>2, <3>3, <3>4, PageStays
  <2> QED
    BY <2>1 DEF PagesKept
<1>6. Written'
  BY DEF DataInv, Written
<1>7. Copied'
  <2>1. ASSUME NEW h \in Proc, pc'[h] = "copied",
               NEW q, NEW v, q = Owner(job[h].frame), v = frametab[job[h].frame].vpn
        PROVE  pc[h] = "copied" /\ job'[h] = job[h] /\ (Due(q, v)' <=> Due(q, v))
    <3>1. pc[h] = "copied" /\ job'[h] = job[h]
      BY <1>1, <2>1 DEF Serving
    <3>2. q \in Proc
      BY <2>1, <3>1, FrameOwners DEF DataInv
    <3> QED
      BY <3>1, <3>2 DEF Due
  <2>2. ASSUME NEW h \in Proc, pc'[h] = "copied",
               NEW q, NEW v, q = Owner(job[h].frame), v = frametab[job[h].frame].vpn,
               Due(q, v)'
        PROVE  store'[job'[h].bs][v] = mem'[q][v]
    <3>1. pc[h] = "copied" /\ job'[h] = job[h] /\ Due(q, v)
      BY <2>1, <2>2
    <3>2. Copied
      BY DEF DataInv
    <3>3. store[job[h].bs][v] = mem[q][v]
      BY <2>2, <3>1, <3>2 DEF Copied
    <3> QED
      BY <3>1, <3>3
  <2>3. \A h \in Proc : pc'[h] = "copied" => job'[h] = job[h]
    BY <1>1 DEF Serving
  <2> QED
    BY <2>2, <2>3 DEF Copied, Owner
<1>8. NoneToSpare'
  <2>1. \A h \in Proc :
           ( \/ pc[h] \in {"evict", "copied", "assign"}
             \/ pc'[h] \in {"evict", "copied", "assign"} )
           => pc'[h] = pc[h] /\ job'[h] = job[h]
    BY <1>1 DEF Serving
  <2> QED
    BY <2>1 DEF DataInv, NoneToSpare
<1> QED
  BY <1>5, <1>6, <1>7, <1>8

\* In the handler no translation is cached, so none is used before resched() empties the
\* cache again or the tables are walked.
LEMMA NoneCached ==
    ASSUME Translations, NEW p \in Proc, cur = p, pc[p] # "user", UNCHANGED tlb
    PROVE  Translations'
BY DEF Translations


LEMMA SwitchData ==
    ASSUME Steady, DataInv, FrameInv', NEW p \in Proc \cup {NULLPROC}, Switch(p)
    PROVE  DataInv'
<1>1. /\ UNCHANGED <<pc, job, frametab, proctab, pdmem, ptmem, bsdtab, content, store, mem, raced>>
      /\ tlb' = {}
  BY DEF Switch, faultVars, frameVars, tableVars, bsVars, dataVars, histVars
<1>2. Translations'
  BY <1>1 DEF Translations
<1> QED
  BY <1>1, <1>2, QuietData DEF DataInv

LEMMA ReadData ==
    ASSUME Steady, DataInv, FrameInv', NEW p \in Proc, NEW a \in Address, Read(p, a)
    PROVE  DataInv'
<1>v. PICK v \in Vpn : v = PageOf(a)
  BY AddressPage
<1>1. /\ UNCHANGED <<pc, cur, job, frametab, proctab, pdmem, ptmem, bsdtab, content, store, mem,
                     raced>>
      /\ CacheTLB /\ cur = p /\ pc[p] = "user" /\ Mapped(p, v)
      /\ tlb' = tlb \cup {[vpn |-> v, base |-> Pte(p, v).base, dirty |-> Pte(p, v).dirty]}
  BY <1>v DEF Read, MayTouch, procVars, faultVars, frameVars, tableVars, bsVars, dataVars, histVars
<1>2. Translations'
  <2>1. PICK e : e = [vpn |-> v, base |-> Pte(p, v).base, dirty |-> Pte(p, v).dirty]
    OBVIOUS
  <2>2. e.vpn = v /\ e.base = Pte(p, v).base /\ e.dirty = Pte(p, v).dirty /\ tlb' = tlb \cup {e}
    BY <1>1, <2>1
  <2>3. \A w \in Vpn : Mapped(p, w)' = Mapped(p, w) /\ Pte(p, w)' = Pte(p, w)
    BY <1>1 DEF Mapped, Pte, PTFrame
  <2>4. \A d \in tlb : /\ d.vpn \in Vpn /\ Mapped(p, d.vpn) /\ Pte(p, d.vpn).base = d.base
                       /\ d.dirty => Pte(p, d.vpn).dirty
    BY <1>1 DEF DataInv, Translations, FrameInv, Typed
  <2>5. \A d \in tlb' : /\ Mapped(p, d.vpn)' /\ Pte(p, d.vpn)'.base = d.base
                        /\ d.dirty => Pte(p, d.vpn)'.dirty
    BY <1>1, <2>2, <2>3, <2>4
  <2> QED
    BY <1>1, <2>5 DEF Translations
<1> QED
  BY <1>1, <1>2, QuietData DEF DataInv

\* A cached translation is that of a page of the heap; with heaps of one page no page of the
\* heap is missing, so no fault meets one.
LEMMA FaultData ==
    ASSUME Steady, DataInv, FrameInv', NEW p \in Proc, NEW a \in Address, Fault(p, a)
    PROVE  DataInv'
<1>v. PICK v \in Vpn : v = PageOf(a)
  BY AddressPage
<1>1. /\ pc[p] = "user" /\ cur = p /\ wait(p, "enter", "queued")
      /\ UNCHANGED <<job, frametab, proctab, pdmem, ptmem, bsdtab, content, store, mem, raced>>
      /\ a < proctab[p].prpages * NBPG /\ ~Mapped(p, v)
  BY <1>v DEF Fault, MayTouch, Steady, Orderly, frameVars, tableVars, bsVars, dataVars, histVars
<1>2. /\ pc'[p] \in {"enter", "queued"}
      /\ \A q \in Proc : q # p => Bystander(q)
  <2>1. "enter" \in Critical /\ "queued" \in Waiting /\ pc[p] \notin Waiting
    BY <1>1 DEF Critical, Waiting
  <2> QED
    BY <1>1, <2>1, WaitBystanders DEF DataInv, FrameInv
<1>3. tlb = {}
  <2>1. SUFFICES ASSUME NEW e \in tlb PROVE FALSE
    OBVIOUS
  <2>w. PICK w \in Vpn : w = e.vpn
    BY DEF DataInv, FrameInv, Typed
  <2>2. CacheTLB /\ Mapped(p, w)
    BY <1>1, <2>w DEF DataInv, Translations
  <2>3. Standing(p) /\ ~InHand(p, w)
    BY <1>1 DEF Standing, Gone, Dead, InHand, Serving
  <2>4. w < proctab[p].prpages
    <3>1. /\ Pte(p, w).base \in PageFrame
          /\ frametab[Pte(p, w).base] = [type |-> "PG", pid |-> p, vpn |-> w]
      BY <2>2, <2>3, PagePlaced DEF DataInv
    <3> QED
      BY <3>1 DEF DataInv, FrameInv, FramesMapped, Owner
  <2>5. proctab[p].prpages \in Sizes \cup {0} /\ proctab[p].prpages \in 0..MaxPages
    BY DEF DataInv, FrameInv, FaultsInHeap, Typed
  <2>6. proctab[p].prpages <= 1
    BY <2>2, <2>5 DEF Steady
  <2>7. v < proctab[p].prpages
    <3>1. proctab[p].prpages \in 0..(MaxPages + 1)
      BY <2>5, SizeAssumption
    <3> QED
      BY <1>v, <1>1, <3>1, PageInHeap
  <2>8. v = w
    BY <2>4, <2>5, <2>6, <2>7, SizeAssumption DEF Vpn
  <2> QED
    BY <1>1, <2>2, <2>8
<1>4. Translations'
  BY <1>1, <1>3 DEF Translations, wait, resched
<1>5. \A q \in Proc : /\ pc'[q] \in Dead <=> pc[q] \in Dead
                      /\ pc'[q] = "free" <=> pc[q] = "free"
                      /\ \/ pc'[q] = pc[q] /\ job'[q] = job[q]
                         \/ /\ pc[q] \notin Serving \cup {"lost"}
                            /\ pc'[q] \notin Serving \cup {"lost"}
  BY <1>1, <1>2 DEF Bystander, Serving, Dead
<1> QED
  BY <1>1, <1>4, <1>5, QuietData DEF DataInv

LEMMA NothingData ==
    ASSUME Steady, DataInv, FrameInv', NEW p \in Proc, pfhandlerNothing(p)
    PROVE  DataInv'
<1>1. /\ pc[p] = "enter" /\ cur = p /\ signal(p, "user")
      /\ job' = [job EXCEPT ![p] = NoJob]
      /\ UNCHANGED <<cur, tlb, frametab, proctab, pdmem, ptmem, bsdtab, content, store, mem, raced>>
  BY DEF pfhandlerNothing, Leave, frameVars, tableVars, bsVars, dataVars, histVars
<1>2. pc'[p] = "user" /\ \A q \in Proc : q # p => Bystander(q)
  BY <1>1, SignalBystanders DEF DataInv, FrameInv, Critical
<1>3. \A q \in Proc : /\ pc'[q] \in Dead <=> pc[q] \in Dead
                      /\ pc'[q] = "free" <=> pc[q] = "free"
                      /\ \/ pc'[q] = pc[q] /\ job'[q] = job[q]
                         \/ /\ pc[q] \notin Serving \cup {"lost"}
                            /\ pc'[q] \notin Serving \cup {"lost"}
  BY <1>1, <1>2 DEF Bystander, Serving, Dead, DataInv, FrameInv, Typed
<1>4. Translations'
  BY <1>1, NoneCached DEF DataInv
<1> QED
  BY <1>1, <1>3, <1>4, QuietData DEF DataInv


-------------------------------------------------------------------------------

\* A write goes to the page's frame, by a cached translation or by the tables, and marks it
\* dirty there.
LEMMA WriteLands ==
    ASSUME Steady, DataInv, NEW p \in Proc, NEW a \in Address, NEW x \in Writes[p],
           NEW v \in Vpn, v = PageOf(a), NEW f, f = Pte(p, v).base, Write(p, a, x)
    PROVE  /\ cur = p /\ pc[p] = "user" /\ Standing(p) /\ Mapped(p, v)
           /\ f \in PageFrame /\ frametab[f] = [type |-> "PG", pid |-> p, vpn |-> v]
           /\ Put(p, v, f, x)
           /\ Mapped(p, v)' /\ Pte(p, v)'.base = f /\ Pte(p, v)'.dirty
           /\ \A r \in Proc, w \in Vpn : Standing(r) /\ (r # p \/ w # v) =>
                 /\ Mapped(r, w)' = Mapped(r, w)
                 /\ Mapped(r, w) => Pte(r, w)' = Pte(r, w)
           /\ \A d \in tlb' : CacheTLB /\ (d \in tlb \/ (d.vpn = v /\ d.base = f))
<1>1. cur = p /\ pc[p] = "user" /\ UNCHANGED <<proctab, pdmem>>
  BY DEF Write, MayTouch
<1>2. Standing(p) /\ ~InHand(p, v)
  BY <1>1 DEF Standing, Gone, Dead, InHand, Serving
<1>3. CASE \E e \in Cached(v) : e.dirty /\ Put(p, v, e.base, x) /\ UNCHANGED <<ptmem, tlb>>
  <2>1. PICK e \in tlb : /\ e.vpn = v /\ e.dirty /\ Put(p, v, e.base, x)
                         /\ UNCHANGED <<ptmem, tlb>>
    BY <1>3 DEF Cached
  <2>2. CacheTLB /\ Mapped(p, v) /\ Pte(p, v).base = e.base /\ Pte(p, v).dirty
    BY <1>1, <2>1 DEF DataInv, Translations
  <2>3. f \in PageFrame /\ frametab[f] = [type |-> "PG", pid |-> p, vpn |-> v]
    BY <1>2, <2>2, PagePlaced DEF DataInv
  <2>4. \A r \in Proc, w \in Vpn : Mapped(r, w)' = Mapped(r, w) /\ Pte(r, w)' = Pte(r, w)
    BY <1>1, <2>1 DEF Mapped, Pte, PTFrame
  <2> QED
    BY <1>1, <1>2, <2>1, <2>2, <2>3, <2>4
<1>4. CASE /\ Mapped(p, v) /\ Put(p, v, Pte(p, v).base, x)
           /\ ptmem' = SetPte(p, v, [Pte(p, v) EXCEPT !.dirty = TRUE])
           /\ tlb' = IF CacheTLB
                     THEN (tlb \ Cached(v))
                            \cup {[vpn |-> v, base |-> Pte(p, v).base, dirty |-> TRUE]}
                     ELSE tlb
  <2>1. /\ PTFrame(p) # NoFrame /\ f \in PageFrame
        /\ Pte(p, v) \in [pres : BOOLEAN, dirty : BOOLEAN, base : PageFrame]
        /\ frametab[f] = [type |-> "PG", pid |-> p, vpn |-> v]
    BY <1>2, <1>4, PagePlaced DEF DataInv
  <2>e. PICK e : e = [Pte(p, v) EXCEPT !.dirty = TRUE]
    OBVIOUS
  <2>2. /\ e \in [pres : BOOLEAN, dirty : BOOLEAN, base : Frame]
        /\ e.dirty = TRUE /\ e.base = f /\ e.pres = Pte(p, v).pres
    BY <2>1, <2>e, FrameKinds
  <2>3. e.pres
    BY <1>4, <2>2 DEF Mapped, Pte
  <2>4. /\ Mapped(p, v)' = e.pres /\ Pte(p, v)' = e
        /\ \A r \in Proc, w \in Vpn : Standing(r) /\ (r # p \/ w # v) =>
              /\ Mapped(r, w)' = Mapped(r, w)
              /\ Mapped(r, w) => Pte(r, w)' = Pte(r, w)
    <3>1. ptmem' = SetPte(p, v, e)
      BY <1>4, <2>e
    <3>2. Typed /\ Tables
      BY DEF DataInv, FrameInv
    <3> QED
      BY <1>1, <1>2, <2>1, <2>2, <3>1, <3>2, EntryStored
  <2>5. \A d \in tlb' : CacheTLB /\ (d \in tlb \/ (d.vpn = v /\ d.base = f))
    <3>1. tlb # {} => CacheTLB
      BY DEF DataInv, Translations
    <3>2. \A d \in tlb' : CacheTLB
      BY <1>4, <3>1
    <3>3. \A d \in tlb' : d \in tlb \/ d = [vpn |-> v, base |-> Pte(p, v).base, dirty |-> TRUE]
      BY <1>4
    <3> QED
      BY <3>2, <3>3
  <2> QED
    BY <1>1, <1>2, <1>4, <2>1, <2>2, <2>3, <2>4, <2>5
<1> QED
  BY <1>3, <1>4 DEF Write


LEMMA WriteData ==
    ASSUME Steady, DataInv, FrameInv', NEW p \in Proc, NEW a \in Address, NEW x \in Writes[p],
           Write(p, a, x)
    PROVE  DataInv'
<1>v. PICK v \in Vpn : v = PageOf(a)
  BY AddressPage
<1>f. PICK f : f = Pte(p, v).base
  OBVIOUS
<1>1. /\ cur = p /\ pc[p] = "user" /\ Standing(p) /\ Mapped(p, v)
      /\ f \in PageFrame /\ frametab[f] = [type |-> "PG", pid |-> p, vpn |-> v]
      /\ Put(p, v, f, x)
      /\ Mapped(p, v)' /\ Pte(p, v)'.base = f /\ Pte(p, v)'.dirty
      /\ \A r \in Proc, w \in Vpn : Standing(r) /\ (r # p \/ w # v) =>
            /\ Mapped(r, w)' = Mapped(r, w)
            /\ Mapped(r, w) => Pte(r, w)' = Pte(r, w)
      /\ \A d \in tlb' : CacheTLB /\ (d \in tlb \/ (d.vpn = v /\ d.base = f))
  BY <1>v, <1>f, WriteLands
<1>2. UNCHANGED <<pc, cur, job, frametab, proctab, bsdtab, store>>
  BY DEF Write, procVars, faultVars, frameVars, bsVars
<1>3. /\ content' = [content EXCEPT ![f] = x]
      /\ mem' = [mem EXCEPT ![p][v] = x]
      /\ raced' = IF BeingCopied(f) THEN raced \cup {<<p, v>>} ELSE raced \ {<<p, v>>}
  BY <1>1 DEF Put
<1>4. /\ content'[f] = x /\ \A g \in PageFrame : g # f => content'[g] = content[g]
      /\ mem'[p][v] = x
      /\ \A r \in Proc, w \in Vpn : r # p \/ w # v => mem'[r][w] = mem[r][w]
  BY <1>1, <1>3 DEF DataInv, FrameInv, Typed
<1>5. \A r \in Proc, w \in Vpn : r # p \/ w # v =>
         /\ Due(r, w)' <=> Due(r, w)
         /\ Stored(r, w)' <=> Stored(r, w)
  BY <1>2, <1>3, <1>4 DEF Due, Stored
<1>6. /\ \A r \in Proc, w \in Vpn : InHand(r, w)' <=> InHand(r, w)
      /\ \A g : BeingSent(g)' <=> BeingSent(g)
  BY <1>2 DEF InHand, BeingSent
<1>7. PagesKept'
  <2>1. PageKept(p, v)'
    <3>1. ~InHand(p, v)'
      BY <1>1, <1>2 DEF InHand, Serving
    <3> QED
      BY <1>1, <1>4, <3>1 DEF PageKept
  <2>2. ASSUME NEW r \in Proc, NEW w \in Vpn, r # p \/ w # v
        PROVE  PageKept(r, w)'
    <3>1. PageKept(r, w)
      BY DEF DataInv, PagesKept
    <3>2. CASE Standing(r)
      <4>1. Mapped(r, w) /\ ~InHand(r, w) =>
               Pte(r, w)' = Pte(r, w) /\ content'[Pte(r, w).base] = content[Pte(r, w).base]
        <5>1. SUFFICES ASSUME Mapped(r, w), ~InHand(r, w)
                       PROVE  /\ Pte(r, w)' = Pte(r, w)
                              /\ content'[Pte(r, w).base] = content[Pte(r, w).base]
          OBVIOUS
        <5>2. /\ Pte(r, w).base \in PageFrame
              /\ frametab[Pte(r, w).base] = [type |-> "PG", pid |-> r, vpn |-> w]
          BY <3>2, <5>1, PagePlaced DEF DataInv
        <5>3. Pte(r, w).base # f
          BY <1>1, <2>2, <5>2
        <5> QED
          BY <1>1, <1>4, <2>2, <3>2, <5>1, <5>2, <5>3
      <4>2. /\ Due(r, w)' => Due(r, w)
            /\ Stored(r, w) => Stored(r, w)'
            /\ mem'[r][w] = mem[r][w]
            /\ Mapped(r, w)' = Mapped(r, w)
        BY <1>1, <1>4, <1>5, <2>2, <3>2
      <4>3. InHand(r, w)' <=> InHand(r, w)
        BY <1>6
      <4>4. Mapped(r, w) /\ ~InHand(r, w) /\ BeingSent(Pte(r, w).base) =>
               BeingSent(Pte(r, w).base)'
        BY <1>6, <4>1
      <4> QED
        BY <3>1, <4>1, <4>2, <4>3, <4>4, PageStays
    <3>3. CASE ~Standing(r)
      <4>1. pc[r] \in Dead
        BY <3>3, NobodyLeaves DEF DataInv
      <4> QED
        BY <1>2, <4>1 DEF PageKept, Due
    <3> QED
      BY <3>2, <3>3
  <2> QED
    BY <2>1, <2>2 DEF PagesKept
<1>8. Written'
  <2>1. v < proctab[p].prpages /\ pc[p] # "free"
    BY <1>1 DEF DataInv, FrameInv, FramesMapped, Owner
  <2>2. ASSUME NEW r \in Proc, NEW w \in Vpn, mem'[r][w] # NoValue
        PROVE  pc'[r] # "free" /\ w < proctab'[r].prpages
    <3>1. CASE r = p /\ w = v
      BY <1>2, <2>1, <3>1
    <3>2. CASE r # p \/ w # v
      <4>1. mem'[r][w] = mem[r][w]
        BY <1>2, <1>4, <3>2
      <4>2. pc[r] # "free" /\ w < proctab[r].prpages
        BY <2>2, <4>1 DEF DataInv, Written
      <4> QED
        BY <1>2, <4>2
    <3> QED
      BY <3>1, <3>2
  <2> QED
    BY <2>2 DEF Written
\* A write between the copy and its end is the one history calls raced.
<1>9. Copied'
  <2>1. SUFFICES ASSUME NEW h \in Proc, pc[h] = "copied", NEW q, NEW w,
                        q = Owner(job[h].frame), w = frametab[job[h].frame].vpn, Due(q, w)'
                 PROVE  store[job[h].bs][w] = mem'[q][w]
    <3>1. /\ pc' = pc /\ job' = job /\ frametab' = frametab /\ store' = store
      BY <1>2
    <3> QED
      BY <3>1 DEF Copied, Owner
  <2>2. job[h].frame \in PageFrame /\ frametab[job[h].frame].type # "FREE"
    BY <2>1 DEF DataInv, FrameInv, Services, Served, Serving
  <2>3. q \in Proc /\ w \in Vpn
    BY <2>1, <2>2, FrameOwners, FrameKinds DEF DataInv, FrameInv, Typed
  <2>4. CASE q = p /\ w = v
    <3>1. Pte(p, v).base = job[h].frame
      <4>g. PICK g \in PageFrame : g = job[h].frame
        BY <2>2
      <4>1. frametab[g].type # "FREE" /\ frametab[g].pid = p /\ frametab[g].vpn = v
        BY <2>1, <2>2, <2>4, <4>g DEF Owner
      <4>2. pc[p] # "killw" /\ pc[p] # "load"
        BY <1>1
      <4>3. Pte(p, v).base = g
        BY <4>1, <4>2 DEF DataInv, FrameInv, FramesMapped, Owner
      <4> QED
        BY <4>g, <4>3
    <3>2. BeingCopied(f)
      BY <1>f, <2>1, <3>1 DEF BeingCopied
    <3>3. <<q, w>> \in raced'
      BY <1>3, <2>4, <3>2
    <3> QED
      BY <2>1, <3>3 DEF Due
  <2>5. CASE q # p \/ w # v
    <3>1. Due(q, w) /\ mem'[q][w] = mem[q][w]
      BY <1>4, <1>5, <2>1, <2>3, <2>5
    <3> QED
      BY <2>1, <3>1 DEF DataInv, Copied
  <2> QED
    BY <2>4, <2>5
<1>10. NoneToSpare'
  BY <1>2 DEF DataInv, NoneToSpare
<1>11. Translations'
  <2>1. ASSUME NEW d \in tlb'
        PROVE  /\ CacheTLB /\ Mapped(p, d.vpn)' /\ Pte(p, d.vpn)'.base = d.base
               /\ d.dirty => Pte(p, d.vpn)'.dirty
    <3>1. CASE d.vpn = v /\ d.base = f
      BY <1>1, <2>1, <3>1
    <3>2. CASE d \in tlb
      <4>w. PICK w \in Vpn : w = d.vpn
        BY <3>2 DEF DataInv, FrameInv, Typed
      <4>1. /\ Mapped(p, w) /\ Pte(p, w).base = d.base
            /\ d.dirty => Pte(p, w).dirty
        BY <1>1, <3>2, <4>w DEF DataInv, Translations
      <4>2. CASE w = v
        BY <1>f, <1>1, <2>1, <4>w, <4>1, <4>2
      <4>3. CASE w # v
        <5>1. Mapped(p, w)' = Mapped(p, w) /\ (Mapped(p, w) => Pte(p, w)' = Pte(p, w))
          BY <1>1, <4>3
        <5> QED
          BY <1>1, <2>1, <4>w, <4>1, <5>1
      <4> QED
        BY <4>2, <4>3
    <3> QED
      BY <1>1, <2>1, <3>1, <3>2
  <2> QED
    BY <1>1, <1>2, <2>1 DEF Translations
<1> QED
  BY <1>7, <1>8, <1>9, <1>10, <1>11 DEF DataInv


-------------------------------------------------------------------------------

\* A step of the handler keeps every page when it keeps the one it serves, v, and the one
\* whose frame it takes, w of q, and leaves the others alone.
LEMMA ServiceKeeps ==
    ASSUME Steady, DataInv, NEW p \in Proc, pc[p] \in Serving \cup {"enter"},
           NEW v \in Vpn, NEW q \in Proc, NEW w \in Vpn,
           UNCHANGED <<mem, raced>>,
           \A r \in Proc : pc'[r] \in Dead <=> pc[r] \in Dead,
           \A r \in Proc, u \in Vpn : InHand(r, u) \/ InHand(r, u)' => r = p /\ u = v,
           PageKept(p, v)', PageKept(q, w)',
           \A g \in PageFrame :
              \/ content'[g] = content[g]
              \/ frametab[g].pid = p /\ frametab[g].vpn = v,
           \A g \in PageFrame :
              \/ BeingSent(g) => BeingSent(g)'
              \/ frametab[g].pid = q /\ frametab[g].vpn = w,
           \A r \in Proc, u \in Vpn : Standing(r) /\ (r # p \/ u # v) /\ (r # q \/ u # w) =>
              /\ Mapped(r, u)' = Mapped(r, u)
              /\ Mapped(r, u) => Pte(r, u)' = Pte(r, u),
           \A r \in Proc, u \in Vpn : Due(r, u) /\ (r # p \/ u # v) /\ (r # q \/ u # w) =>
              (Stored(r, u) => Stored(r, u)')
    PROVE  PagesKept'
<1>1. SUFFICES ASSUME NEW r \in Proc, NEW u \in Vpn, r # p \/ u # v, r # q \/ u # w
               PROVE  PageKept(r, u)'
  BY DEF PagesKept
<1>2. PageKept(r, u) /\ ~InHand(r, u) /\ ~InHand(r, u)'
  BY <1>1 DEF DataInv, PagesKept
<1>3. Due(r, u)' <=> Due(r, u)
  BY DEF Due
<1>4. CASE Standing(r)
  <2>1. Mapped(r, u)' = Mapped(r, u) /\ (Mapped(r, u) => Pte(r, u)' = Pte(r, u))
    BY <1>1, <1>4
  <2>2. ASSUME Mapped(r, u)
        PROVE  /\ content'[Pte(r, u).base] = content[Pte(r, u).base]
               /\ BeingSent(Pte(r, u).base) => BeingSent(Pte(r, u).base)'
    <3>g. PICK g : g = Pte(r, u).base
      OBVIOUS
    <3>1. g \in PageFrame /\ frametab[g] = [type |-> "PG", pid |-> r, vpn |-> u]
      BY <1>2, <1>4, <2>2, <3>g, PagePlaced DEF DataInv
    <3>2. frametab[g].pid = r /\ frametab[g].vpn = u
      BY <3>1
    <3>3. content'[g] = content[g] /\ (BeingSent(g) => BeingSent(g)')
      BY <1>1, <3>1, <3>2
    <3>4. Pte(r, u)'.base = g
      BY <2>1, <2>2, <3>g
    <3> QED
      BY <3>g, <3>3, <3>4
  <2>3. Due(r, u) /\ Stored(r, u) => Stored(r, u)'
    BY <1>1
  <2>4. mem'[r][u] = mem[r][u]
    OBVIOUS
  <2> QED
    BY <1>2, <1>3, <2>1, <2>2, <2>3, <2>4, PageStays
<1>5. CASE ~Standing(r)
  <2>1. pc[r] \in Dead
    BY <1>5, NobodyLeaves DEF DataInv
  <2> QED
    BY <1>3, <2>1 DEF PageKept, Due
<1> QED
  BY <1>4, <1>5

\* What a step of the handler that serves p leaves as it is.
LEMMA ServiceLeaves ==
    ASSUME DataInv, NEW p \in Proc, cur = p, pc[p] # "user",
           UNCHANGED <<mem, proctab, tlb>>,
           \A q \in Proc : pc'[q] \in Dead <=> pc[q] \in Dead,
           \A q \in Proc : pc'[q] = "free" <=> pc[q] = "free"
    PROVE  Written' /\ Translations'
<1>1. Written'
  BY DEF DataInv, Written
<1> QED
  BY <1>1, NoneCached DEF DataInv

\* A frame is handed out while p serves a page: no page is in a store unless every frame
\* was in use, but the one p has in hand.
LEMMA NoneLeft ==
    ASSUME DataInv, NEW p \in Proc, pc[p] \in Serving,
           \/ \E b \in Store, v \in Vpn : bsdtab[b][v] = "BS_PRES"
           \/ pc[p] \in {"evict", "copied"}
    PROVE  \A f \in PageFrame :
              frametab[f].type # "FREE" \/ (pc[p] = "assign" /\ job[p].frame = f)
<1>1. \A h \in Proc : pc[h] = "assign" => h = p
  BY OneInHand DEF DataInv, Serving
<1> QED
  BY <1>1 DEF DataInv, NoneToSpare

\* It holds on once a frame is emptied for p, or given to it.
LEMMA SparesKept ==
    ASSUME DataInv, NEW p \in Proc, pc[p] \in Serving,
           \A f \in PageFrame : frametab[f].type # "FREE" \/ (pc[p] = "assign" /\ job[p].frame = f)
              => frametab'[f].type # "FREE" \/ (pc'[p] = "assign" /\ job'[p].frame = f),
           \/ \A f \in PageFrame : frametab[f].type # "FREE"
           \/ pc[p] \in {"evict", "copied"}
           \/ /\ UNCHANGED bsdtab
              /\ \A h \in Proc : pc'[h] \notin {"evict", "copied"}
    PROVE  NoneToSpare'
<1>1. SUFFICES ASSUME \/ \E b \in Store, v \in Vpn : bsdtab'[b][v] = "BS_PRES"
                      \/ \E h \in Proc : pc'[h] \in {"evict", "copied"},
                      NEW f \in PageFrame
               PROVE  frametab'[f].type # "FREE" \/ (pc'[p] = "assign" /\ job'[p].frame = f)
  BY DEF NoneToSpare
<1>2. frametab[f].type # "FREE" \/ (pc[p] = "assign" /\ job[p].frame = f)
  BY <1>1, NoneLeft
<1> QED
  BY <1>2


-------------------------------------------------------------------------------

\* A page that begins to be served has no frame: what is to be kept is in its store.
LEMMA BeginData ==
    ASSUME Steady, DataInv, FrameInv', NEW p \in Proc, NEW v \in Vpn,
           cur = p, pc[p] = "enter", ~Mapped(p, v),
           NEW next \in {"alloc", "lost"}, pc' = [pc EXCEPT ![p] = next],
           job' = [job EXCEPT ![p].vpn = v],
           UNCHANGED <<mem, raced, proctab, tlb, content, store, bsdtab>>,
           \A g \in PageFrame : frametab'[g] = frametab[g],
           \A r \in Proc, u \in Vpn : Standing(r) /\ (r # p \/ u # v) =>
              /\ Mapped(r, u)' = Mapped(r, u)
              /\ Mapped(r, u) => Pte(r, u)' = Pte(r, u)
    PROVE  DataInv'
<1>1. /\ pc'[p] = next /\ job'[p].vpn = v
      /\ \A q \in Proc : q # p => pc'[q] = pc[q]
  BY DEF DataInv, FrameInv, SemInv, SemTypeOK, Typed
<1>2. /\ \A q \in Proc : pc[q] \notin Serving \cup {"lost"}
      /\ \A q \in Proc : q # p => pc'[q] \notin Serving \cup {"lost"}
  BY <1>1, OneInHand DEF DataInv, Serving
<1>3. Written' /\ Translations'
  <2>1. \A q \in Proc : /\ pc'[q] \in Dead <=> pc[q] \in Dead
                        /\ pc'[q] = "free" <=> pc[q] = "free"
    BY <1>1 DEF Dead
  <2> QED
    BY <2>1, ServiceLeaves
<1>4. PagesKept'
  <2>1. InHand(p, v)' /\ ~InHand(p, v)
    BY <1>1 DEF InHand, Serving
  <2>2. PageKept(p, v)'
    <3>1. Due(p, v)' => Stored(p, v)
      <4>1. Due(p, v)' => Due(p, v)
        BY <1>1 DEF Due, Dead
      <4> QED
        BY <4>1 DEF DataInv, PagesKept, PageKept
    <3>2. Stored(p, v) => Stored(p, v)'
      BY DEF Stored
    <3> QED
      BY <2>1, <3>1, <3>2 DEF PageKept
  <2>3. \A r \in Proc, u \in Vpn : InHand(r, u) \/ InHand(r, u)' => r = p /\ u = v
    BY <1>1, <1>2 DEF InHand
  <2>4. \A r \in Proc : pc'[r] \in Dead <=> pc[r] \in Dead
    BY <1>1 DEF Dead
  <2>5. \A g : ~BeingSent(g)
    BY <1>2 DEF BeingSent, Serving
  <2>6. \A r \in Proc, u \in Vpn : Stored(r, u) => Stored(r, u)'
    BY DEF Stored
  <2> QED
    BY <2>2, <2>3, <2>4, <2>5, <2>6, ServiceKeeps
<1>5. Copied'
  BY <1>1, <1>2 DEF Copied, Serving
<1>6. NoneToSpare'
  <2>1. \A h \in Proc : /\ pc'[h] \notin {"evict", "copied"}
                        /\ pc[h] \notin {"evict", "copied", "assign"}
    BY <1>1, <1>2 DEF Serving
  <2> QED
    BY <2>1 DEF DataInv, NoneToSpare
<1> QED
  BY <1>3, <1>4, <1>5, <1>6 DEF DataInv

LEMMA NewPageData ==
    ASSUME Steady, DataInv, FrameInv', NEW p \in Proc, pfhandlerNewPage(p)
    PROVE  DataInv'
<1>v. PICK v \in Vpn : v = PageOf(cr2)
  BY PageServed DEF pfhandlerNewPage, DataInv
<1>e. PICK e : e = [Pte(p, v) EXCEPT !.pres = TRUE]
  OBVIOUS
<1>1. /\ cur = p /\ pc[p] = "enter" /\ PTFrame(p) # NoFrame /\ ~Mapped(p, v)
      /\ ptmem' = SetPte(p, v, e)
      /\ pc' = [pc EXCEPT ![p] = "alloc"]
      /\ job' = [job EXCEPT ![p].vpn = v]
      /\ UNCHANGED <<mem, raced, proctab, pdmem, frametab, tlb, content, store, bsdtab>>
  BY <1>v, <1>e DEF pfhandlerNewPage, frameVars, bsVars, dataVars, histVars
<1>2. Standing(p) /\ Typed /\ Tables
  BY <1>1, PageServed DEF DataInv, FrameInv
<1>3. e \in [pres : BOOLEAN, dirty : BOOLEAN, base : Frame]
  <2>1. Pte(p, v) \in [pres : BOOLEAN, dirty : BOOLEAN, base : Frame]
    BY <1>1, <1>2, TableFacts
  <2> QED
    BY <1>e, <2>1
<1>4. \A r \in Proc, u \in Vpn : Standing(r) /\ (r # p \/ u # v) =>
         /\ Mapped(r, u)' = Mapped(r, u)
         /\ Mapped(r, u) => Pte(r, u)' = Pte(r, u)
  BY <1>1, <1>2, <1>3, EntryStored
<1> QED
  BY <1>1, <1>4, BeginData

LEMMA NewTableData ==
    ASSUME Steady, DataInv, FrameInv', NEW p \in Proc, pfhandlerNewTable(p)
    PROVE  DataInv'
<1>v. PICK v \in Vpn : v = PageOf(cr2)
  BY PageServed DEF pfhandlerNewTable, DataInv
<1>1. /\ cur = p /\ pc[p] = "enter" /\ PTFrame(p) = NoFrame
      /\ \/ /\ \E f \in DSFrame : getPT(p, f)
            /\ pc' = [pc EXCEPT ![p] = "alloc"]
         \/ /\ pc' = [pc EXCEPT ![p] = "lost"]
            /\ UNCHANGED <<frametab, pdmem, ptmem>>
      /\ job' = [job EXCEPT ![p].vpn = v]
      /\ UNCHANGED <<cur, tlb, mem, raced, proctab, content, store, bsdtab>>
  BY <1>v DEF pfhandlerNewTable, bsVars, dataVars, histVars
<1>2. CASE /\ pc' = [pc EXCEPT ![p] = "lost"]
           /\ UNCHANGED <<frametab, pdmem, ptmem>>
  <2>1. ~Mapped(p, v)
    BY <1>1 DEF Mapped
  <2>2. \A r \in Proc, u \in Vpn : Mapped(r, u)' = Mapped(r, u) /\ Pte(r, u)' = Pte(r, u)
    BY <1>1, <1>2 DEF Mapped, Pte, PTFrame
  <2> QED
    BY <1>1, <1>2, <2>1, <2>2, BeginData
<1>3. CASE /\ \E f \in DSFrame : getPT(p, f)
           /\ pc' = [pc EXCEPT ![p] = "alloc"]
  <2>1. PICK f \in DSFrame : getPT(p, f)
    BY <1>3
  <2>2. /\ \A g \in Frame : g # f => frametab'[g] = frametab[g]
        /\ ~Mapped(p, v)
        /\ \A r \in Proc, w \in Vpn : Standing(r) /\ (r # p \/ w # v) =>
              /\ Mapped(r, w)' = Mapped(r, w)
              /\ Mapped(r, w) => Pte(r, w)' = Pte(r, w)
    BY <1>v, <1>1, <2>1, TableBuilt DEF DataInv
  <2>3. \A g \in PageFrame : frametab'[g] = frametab[g]
    BY <2>2, FrameKinds
  <2> QED
    BY <1>1, <1>3, <2>2, <2>3, BeginData
<1> QED
  BY <1>1, <1>2, <1>3


-------------------------------------------------------------------------------

\* The end of a service: p's page lies in the frame f, with what the store holds if that is
\* to be kept, and every other page is where it was.
LEMMA InstallData ==
    ASSUME Steady, DataInv, FrameInv', NEW p \in Proc, NEW v \in Vpn, NEW f \in PageFrame,
           v = job[p].vpn, cur = p, pc[p] \in {"alloc", "assign", "load"},
           Install(p, f),
           UNCHANGED <<proctab, pdmem, tlb, mem, raced, store, bsdtab>>,
           pc[p] # "alloc" => f = job[p].frame,
           frametab' = [frametab EXCEPT ![f] = [type |-> "PG", pid |-> p, vpn |-> v]],
           Due(p, v) => content'[f] = store[proctab[p].prbsd][v],
           \A g \in PageFrame : content'[g] = content[g]
                                \/ (frametab[g].pid = p /\ frametab[g].vpn = v),
           pc[p] = "alloc" => frametab[f].type = "FREE"
    PROVE  DataInv'
<1>e. PICK e : e = [Pte(p, v) EXCEPT !.base = f]
  OBVIOUS
<1>1. /\ ptmem' = SetPte(p, v, e) /\ signal(p, "user")
      /\ job' = [job EXCEPT ![p] = NoJob]
  BY <1>e DEF Install, Leave
<1>2. /\ pc'[p] = "user"
      /\ \A q \in Proc : q # p => Bystander(q)
  BY <1>1, SignalBystanders DEF DataInv, FrameInv, Critical
<1>3. \A q \in Proc : pc'[q] \notin Serving \cup {"lost"}
  <2>1. \A q \in Proc : q # p => pc[q] \notin Serving \cup {"lost"}
    BY OneInHand DEF DataInv, Serving
  <2> QED
    BY <1>2, <2>1 DEF Bystander, Serving
<1>4. \A q \in Proc : /\ pc'[q] \in Dead <=> pc[q] \in Dead
                      /\ pc'[q] = "free" <=> pc[q] = "free"
  BY <1>2 DEF Bystander, Dead
<1>5. Written' /\ Translations'
  BY <1>4, ServiceLeaves
<1>6. /\ Standing(p) /\ Mapped(p, v) /\ PTFrame(p) # NoFrame /\ InHand(p, v)
      /\ Typed /\ Tables
  BY DEF Standing, Gone, Dead, DataInv, FrameInv, Services, Served, Serving, Mapped, InHand
<1>7. /\ e \in [pres : BOOLEAN, dirty : BOOLEAN, base : Frame]
      /\ e.base = f /\ e.pres = Pte(p, v).pres
  <2>1. Pte(p, v) \in [pres : BOOLEAN, dirty : BOOLEAN, base : Frame] /\ f \in Frame
    BY <1>6, TableFacts, FrameKinds
  <2> QED
    BY <1>e, <2>1
<1>8. e.pres
  BY <1>6, <1>7 DEF Mapped, Pte
<1>9. /\ Mapped(p, v)' /\ Pte(p, v)'.base = f
      /\ \A r \in Proc, u \in Vpn : Standing(r) /\ (r # p \/ u # v) =>
            /\ Mapped(r, u)' = Mapped(r, u)
            /\ Mapped(r, u) => Pte(r, u)' = Pte(r, u)
  BY <1>1, <1>6, <1>7, <1>8, EntryStored
<1>10. PagesKept'
  <2>1. PageKept(p, v)'
    <3>1. SUFFICES ASSUME Due(p, v)'
                   PROVE  content'[f] = mem'[p][v] /\ Stored(p, v)'
      BY <1>9 DEF PageKept
    <3>2. Due(p, v)
      BY <1>4, <3>1 DEF Due
    <3>3. Stored(p, v)
      BY <1>6, <3>2 DEF DataInv, PagesKept, PageKept
    <3> QED
      BY <3>2, <3>3 DEF Stored
  <2>2. \A r \in Proc, u \in Vpn : InHand(r, u) \/ InHand(r, u)' => r = p /\ u = v
    BY <1>3, OneInHand DEF InHand, DataInv, Serving
  <2>3. \A g : ~BeingSent(g)
    BY OneInHand DEF DataInv, Serving
  <2>4. \A r \in Proc, u \in Vpn : Stored(r, u) => Stored(r, u)'
    BY DEF Stored
  <2>5. pc[p] \in Serving
    BY DEF Serving
  <2> QED
    BY <1>4, <1>9, <2>1, <2>2, <2>3, <2>4, <2>5, ServiceKeeps
<1>11. Copied'
  BY <1>3 DEF Copied, Serving
<1>12. NoneToSpare'
  <2>1. \A g \in PageFrame : frametab[g].type # "FREE" \/ (pc[p] = "assign" /\ job[p].frame = g)
           => frametab'[g].type # "FREE"
    BY FrameKinds DEF DataInv, FrameInv, Typed
  <2>2. \A h \in Proc : pc'[h] \notin {"evict", "copied"}
    BY <1>3 DEF Serving
  <2>3. pc[p] \in Serving
    BY DEF Serving
  <2> QED
    BY <2>1, <2>2, <2>3, SparesKept
<1> QED
  BY <1>5, <1>10, <1>11, <1>12 DEF DataInv

\* A free frame is found only while no page has ever gone out, so the page is new.
LEMMA FreeData ==
    ASSUME Steady, DataInv, FrameInv', NEW p \in Proc, getPFrameFree(p)
    PROVE  DataInv'
<1>v. PICK v \in Vpn : v = job[p].vpn
  BY DEF DataInv, FrameInv, Typed
<1>1. /\ cur = p /\ pc[p] = "alloc"
      /\ UNCHANGED <<proctab, pdmem, tlb, mem, raced, content, store, bsdtab>>
  BY DEF getPFrameFree, bsVars, dataVars, histVars
<1>2. PICK f \in PageFrame :
         /\ FirstFree(PageFrame, f)
         /\ frametab' = [frametab EXCEPT ![f] = [type |-> "PG", pid |-> p, vpn |-> v]]
         /\ Install(p, f)
  BY <1>v DEF getPFrameFree
<1>3. frametab[f].type = "FREE"
  BY <1>2 DEF FirstFree
<1>4. ~Due(p, v)
  <2>1. SUFFICES ASSUME Due(p, v) PROVE FALSE
    OBVIOUS
  <2>2. InHand(p, v)
    BY <1>v, <1>1 DEF InHand, Serving
  <2>3. bsdtab[proctab[p].prbsd][v] = "BS_PRES"
    BY <2>1, <2>2 DEF DataInv, PagesKept, PageKept, Stored
  <2>4. proctab[p].prbsd \in Store
    BY <2>1, DuePage DEF DataInv
  <2> QED
    BY <1>1, <1>3, <2>3, <2>4, NoneLeft DEF Serving
<1> QED
  BY <1>v, <1>1, <1>2, <1>3, <1>4, InstallData

\* A page that was never written out, as the store's table says, is new.
LEMMA FreshData ==
    ASSUME Steady, DataInv, FrameInv', NEW p \in Proc, assignFresh(p)
    PROVE  DataInv'
<1>v. PICK v \in Vpn : v = job[p].vpn
  BY DEF DataInv, FrameInv, Typed
<1>f. PICK f : f = job[p].frame
  OBVIOUS
<1>1. /\ cur = p /\ pc[p] = "assign"
      /\ bsdtab[proctab[p].prbsd][v] = "BS_NPRES"
      /\ frametab' = [frametab EXCEPT ![f] = [type |-> "PG", pid |-> p, vpn |-> v]]
      /\ Install(p, f)
      /\ UNCHANGED <<proctab, pdmem, tlb, mem, raced, content, store, bsdtab>>
  BY <1>v, <1>f DEF assignFresh, bsVars, dataVars, histVars
<1>2. f \in PageFrame
  BY <1>f, <1>1 DEF DataInv, FrameInv, Services, Served, Serving
<1>3. ~Due(p, v)
  <2>1. InHand(p, v)
    BY <1>v, <1>1 DEF InHand, Serving
  <2> QED
    BY <1>1, <2>1 DEF DataInv, PagesKept, PageKept, Stored
<1> QED
  BY <1>v, <1>f, <1>1, <1>2, <1>3, InstallData

\* The page comes back with what was stored.
LEMMA LoadData ==
    ASSUME Steady, DataInv, FrameInv', NEW p \in Proc, getBsDone(p)
    PROVE  DataInv'
<1>v. PICK v \in Vpn : v = job[p].vpn
  BY DEF DataInv, FrameInv, Typed
<1>f. PICK f : f = job[p].frame
  OBVIOUS
<1>1. /\ cur = p /\ pc[p] = "load"
      /\ content' = [content EXCEPT ![f] = store[proctab[p].prbsd][v]]
      /\ Install(p, f)
      /\ UNCHANGED <<frametab, proctab, pdmem, tlb, mem, raced, store, bsdtab>>
  BY <1>v, <1>f DEF getBsDone, histVars
<1>2. f \in PageFrame /\ frametab[f] = [type |-> "PG", pid |-> p, vpn |-> v]
  BY <1>v, <1>f, <1>1 DEF DataInv, FrameInv, Services, Served, Serving
<1>3. frametab' = [frametab EXCEPT ![f] = [type |-> "PG", pid |-> p, vpn |-> v]]
  <2>1. frametab \in [Frame -> [type : {"FREE", "PD", "PT", "PG"},
                                pid : Proc \cup {NULLPROC}, vpn : Vpn]] /\ f \in Frame
    BY <1>2, FrameKinds DEF DataInv, FrameInv, Typed
  <2> QED
    BY <1>1, <1>2, <2>1
<1>4. /\ content'[f] = store[proctab[p].prbsd][v]
      /\ \A g \in PageFrame : content'[g] = content[g]
                              \/ (frametab[g].pid = p /\ frametab[g].vpn = v)
  <2>1. content'[f] = store[proctab[p].prbsd][v]
        /\ \A g \in PageFrame : g # f => content'[g] = content[g]
    <3>1. content \in [PageFrame -> Value \cup {NoValue}]
      BY DEF DataInv, FrameInv, Typed
    <3> QED
      BY <1>1, <1>2, <3>1
  <2>2. frametab[f].pid = p /\ frametab[f].vpn = v
    BY <1>2
  <2> QED
    BY <2>1, <2>2
<1>5. /\ cur = p /\ pc[p] \in {"alloc", "assign", "load"} /\ pc[p] # "alloc"
      /\ f \in PageFrame /\ f = job[p].frame /\ Install(p, f)
      /\ UNCHANGED <<proctab, pdmem, tlb, mem, raced, store, bsdtab>>
  BY <1>f, <1>1, <1>2
<1> QED
  BY <1>v, <1>3, <1>4, <1>5, InstallData


-------------------------------------------------------------------------------

\* The frame in the hands of the handler holds a page of some process, not the one served.
LEMMA VictimHolds ==
    ASSUME Steady, DataInv, NEW p \in Proc, pc[p] \in Serving \ {"load"},
           NEW f \in PageFrame, frametab[f].type # "FREE",
           NEW q, NEW w, q = Owner(f), w = frametab[f].vpn
    PROVE  /\ q \in Proc /\ w \in Vpn /\ Standing(q) /\ Holding(q)
           /\ PTFrame(q) # NoFrame /\ Mapped(q, w) /\ Pte(q, w).base = f
           /\ Pte(q, w) \in [pres : BOOLEAN, dirty : BOOLEAN, base : Frame]
           /\ FramePte(f) = Pte(q, w)
           /\ q # p \/ w # job[p].vpn
           /\ Due(q, w) => /\ content[f] = mem[q][w]
                           /\ Pte(q, w).dirty \/ Stored(q, w) \/ BeingSent(f)
<1>1. FrameInv
  BY DEF DataInv
<1>2. /\ q \in Proc /\ w \in Vpn /\ Standing(q) /\ Holding(q)
      /\ PTFrame(q) # NoFrame /\ Mapped(q, w) /\ Pte(q, w).base = f
      /\ q # p \/ w # job[p].vpn
  BY <1>1, FramesInPlace
<1>3. FramePte(f) = Pte(q, w)
  BY DEF FramePte
<1>4. Pte(q, w) \in [pres : BOOLEAN, dirty : BOOLEAN, base : Frame]
  BY <1>1, <1>3, FramesInPlace
<1>5. ~InHand(q, w)
  BY <1>1, <1>2, OneInHand
<1>6. PageKept(q, w)
  BY <1>2 DEF DataInv, PagesKept
<1>7. Due(q, w) => /\ content[f] = mem[q][w]
                   /\ Pte(q, w).dirty \/ Stored(q, w) \/ BeingSent(f)
  BY <1>2, <1>5, <1>6 DEF PageKept
<1> QED
  BY <1>2, <1>3, <1>4, <1>7

\* A service that goes on keeps its page in hand, which is in the store if it is to be kept.
LEMMA StaysInHand ==
    ASSUME DataInv, NEW p \in Proc, pc[p] \in Serving, NEW next \in Serving,
           pc' = [pc EXCEPT ![p] = next], job'[p].vpn = job[p].vpn,
           NEW v \in Vpn, v = job[p].vpn
    PROVE  /\ pc'[p] = next
           /\ \A q \in Proc : q # p => pc'[q] = pc[q] /\ pc[q] \notin Serving
           /\ \A q \in Proc : /\ pc'[q] \in Dead <=> pc[q] \in Dead
                              /\ pc'[q] = "free" <=> pc[q] = "free"
           /\ \A r \in Proc, u \in Vpn : InHand(r, u) \/ InHand(r, u)' => r = p /\ u = v
           /\ Due(p, v) => Stored(p, v)
           /\ PageKept(p, v)' <=> (Due(p, v)' => Stored(p, v)')
<1>1. pc'[p] = next /\ \A q \in Proc : q # p => pc'[q] = pc[q]
  BY DEF DataInv, FrameInv, SemInv, SemTypeOK
<1>2. \A q \in Proc : q # p => pc[q] \notin Serving \cup {"lost"}
  BY OneInHand DEF DataInv
<1>3. \A q \in Proc : /\ pc'[q] \in Dead <=> pc[q] \in Dead
                      /\ pc'[q] = "free" <=> pc[q] = "free"
  BY <1>1 DEF Dead, Serving
<1>4. \A r \in Proc, u \in Vpn : InHand(r, u) \/ InHand(r, u)' => r = p /\ u = v
  BY <1>1, <1>2 DEF InHand
<1>5. InHand(p, v) /\ InHand(p, v)'
  BY <1>1 DEF InHand
<1> QED
  BY <1>1, <1>2, <1>3, <1>4, <1>5 DEF DataInv, PagesKept, PageKept

\* The slots of two pages with stores differ.
LEMMA SlotsApart ==
    ASSUME Steady, DataInv, NEW q \in Proc, Holding(q), NEW w \in Vpn,
           NEW r \in Proc, NEW u \in Vpn, Due(r, u), r # q \/ u # w
    PROVE  /\ proctab[r].prbsd \in Store /\ proctab[q].prbsd \in Store
           /\ proctab[r].prbsd # proctab[q].prbsd \/ u # w
<1>1. Holding(r) /\ proctab[r].prbsd \in Store
  BY DuePage DEF DataInv
<1> QED
  BY <1>1 DEF DataInv, FrameInv, Stores

\* A clean victim is in its store.
LEMMA CleanData ==
    ASSUME Steady, DataInv, FrameInv', NEW p \in Proc, removeClean(p)
    PROVE  DataInv'
<1>v. PICK v \in Vpn : v = job[p].vpn
  BY DEF DataInv, FrameInv, Typed
<1>1. /\ cur = p /\ pc[p] = "alloc" /\ NoneFree(PageFrame)
      /\ pc' = [pc EXCEPT ![p] = "assign"]
      /\ UNCHANGED <<proctab, pdmem, tlb, mem, raced, content, store, bsdtab>>
  BY DEF removeClean, bsVars, dataVars, histVars
<1>2. PICK f \in PageFrame :
         /\ ~FramePte(f).dirty
         /\ ptmem' = SetPte(Owner(f), frametab[f].vpn, [FramePte(f) EXCEPT !.pres = FALSE])
         /\ frametab' = [frametab EXCEPT ![f] = FreeFrame]
         /\ job' = [job EXCEPT ![p].frame = f]
  BY DEF removeClean
<1>q. PICK q, w, e : /\ q = Owner(f) /\ w = frametab[f].vpn
                     /\ e = [FramePte(f) EXCEPT !.pres = FALSE]
  OBVIOUS
<1>3. /\ q \in Proc /\ w \in Vpn /\ Standing(q) /\ PTFrame(q) # NoFrame
      /\ Mapped(q, w) /\ Pte(q, w).base = f
      /\ Pte(q, w) \in [pres : BOOLEAN, dirty : BOOLEAN, base : Frame]
      /\ FramePte(f) = Pte(q, w) /\ (q # p \/ w # v)
      /\ Due(q, w) => Pte(q, w).dirty \/ Stored(q, w) \/ BeingSent(f)
  BY <1>v, <1>q, <1>1, VictimHolds DEF NoneFree, Serving
<1>4. /\ job'[p].vpn = v /\ job'[p].frame = f
      /\ \A g \in PageFrame : g # f => frametab'[g] = frametab[g]
  <2>1. job \in [Proc -> [frame : Frame, vpn : Vpn, bs : Store \cup {SYSERR}]]
    BY DEF DataInv, FrameInv, Typed
  <2>2. job'[p].vpn = v /\ job'[p].frame = f
    BY <1>v, <1>2, <2>1
  <2> QED
    BY <1>2, <2>2, FrameKinds DEF DataInv, FrameInv, Typed
<1>5. /\ pc'[p] = "assign"
      /\ \A r \in Proc : r # p => pc'[r] = pc[r] /\ pc[r] \notin Serving
      /\ \A r \in Proc : /\ pc'[r] \in Dead <=> pc[r] \in Dead
                         /\ pc'[r] = "free" <=> pc[r] = "free"
      /\ \A r \in Proc, u \in Vpn : InHand(r, u) \/ InHand(r, u)' => r = p /\ u = v
      /\ Due(p, v) => Stored(p, v)
      /\ PageKept(p, v)' <=> (Due(p, v)' => Stored(p, v)')
  BY <1>v, <1>1, <1>4, StaysInHand DEF Serving
<1>6. /\ ~Mapped(q, w)'
      /\ \A r \in Proc, u \in Vpn : Standing(r) /\ (r # q \/ u # w) =>
            /\ Mapped(r, u)' = Mapped(r, u)
            /\ Mapped(r, u) => Pte(r, u)' = Pte(r, u)
  <2>1. e \in [pres : BOOLEAN, dirty : BOOLEAN, base : Frame] /\ e.pres = FALSE
    BY <1>q, <1>3
  <2>2. ptmem' = SetPte(q, w, e) /\ Typed /\ Tables
    BY <1>q, <1>2 DEF DataInv, FrameInv
  <2> QED
    BY <1>1, <1>3, <2>1, <2>2, EntryStored
<1>7. \A r \in Proc, u \in Vpn : /\ Stored(r, u)' <=> Stored(r, u)
                                 /\ Due(r, u)' <=> Due(r, u)
  BY <1>1, <1>5 DEF Stored, Due
<1>8. \A g : ~BeingSent(g)
  BY <1>1, OneInHand DEF DataInv, Serving
<1>9. PagesKept'
  <2>1. PageKept(q, w)'
    BY <1>2, <1>3, <1>6, <1>7, <1>8 DEF PageKept
  <2>2. PageKept(p, v)'
    BY <1>5, <1>7
  <2> QED
    BY <1>1, <1>3, <1>5, <1>6, <1>7, <1>8, <2>1, <2>2, ServiceKeeps DEF Serving
<1>10. Copied'
  BY <1>5 DEF Copied, Serving
<1>11. NoneToSpare'
  <2>1. \A g \in PageFrame : frametab[g].type # "FREE"
    BY <1>1 DEF NoneFree
  <2> QED
    BY <1>1, <1>4, <1>5, <2>1, SparesKept DEF Serving
<1>12. Written' /\ Translations'
  BY <1>1, <1>5, ServiceLeaves
<1> QED
  BY <1>9, <1>10, <1>11, <1>12 DEF DataInv


\* A dirty victim loses its mark and is on its way.
LEMMA DirtyData ==
    ASSUME Steady, DataInv, FrameInv', NEW p \in Proc, removeDirty(p)
    PROVE  DataInv'
<1>v. PICK v \in Vpn : v = job[p].vpn
  BY DEF DataInv, FrameInv, Typed
<1>1. /\ cur = p /\ pc[p] = "alloc" /\ NoneFree(PageFrame)
      /\ UNCHANGED <<frametab, proctab, pdmem, tlb, mem, raced, content, store, bsdtab>>
  BY DEF removeDirty, dataVars, histVars
<1>2. PICK f \in PageFrame :
         /\ ptmem' = SetPte(Owner(f), frametab[f].vpn, [FramePte(f) EXCEPT !.dirty = FALSE])
         /\ job' = [job EXCEPT ![p].frame = f, ![p].bs = StoreOf(f)]
         /\ \/ pc' = [pc EXCEPT ![p] = "evict"]
            \/ pc' = [pc EXCEPT ![p] = "lkill"]
  BY DEF removeDirty, CallKill
<1>k. pc' = [pc EXCEPT ![p] = "evict"]
  <2>1. pc'[p] # "lkill"
    BY DEF FrameInv, KillsOwn
  <2>2. pc \in [Proc -> PC]
    BY DEF DataInv, FrameInv, SemInv, SemTypeOK
  <2> QED
    BY <1>2, <2>1, <2>2
<1>q. PICK q, w, e : /\ q = Owner(f) /\ w = frametab[f].vpn
                     /\ e = [FramePte(f) EXCEPT !.dirty = FALSE]
  OBVIOUS
<1>3. /\ q \in Proc /\ w \in Vpn /\ Standing(q) /\ PTFrame(q) # NoFrame
      /\ Mapped(q, w) /\ Pte(q, w).base = f
      /\ Pte(q, w) \in [pres : BOOLEAN, dirty : BOOLEAN, base : Frame]
      /\ FramePte(f) = Pte(q, w) /\ (q # p \/ w # v)
      /\ Due(q, w) => content[f] = mem[q][w]
  BY <1>v, <1>q, <1>1, VictimHolds DEF NoneFree, Serving
<1>4. job'[p].vpn = v /\ job'[p].frame = f
  <2>1. job \in [Proc -> [frame : Frame, vpn : Vpn, bs : Store \cup {SYSERR}]]
    BY DEF DataInv, FrameInv, Typed
  <2> QED
    BY <1>v, <1>2, <2>1
<1>5. /\ pc'[p] = "evict"
      /\ \A r \in Proc : r # p => pc'[r] = pc[r] /\ pc[r] \notin Serving
      /\ \A r \in Proc : /\ pc'[r] \in Dead <=> pc[r] \in Dead
                         /\ pc'[r] = "free" <=> pc[r] = "free"
      /\ \A r \in Proc, u \in Vpn : InHand(r, u) \/ InHand(r, u)' => r = p /\ u = v
      /\ Due(p, v) => Stored(p, v)
      /\ PageKept(p, v)' <=> (Due(p, v)' => Stored(p, v)')
  BY <1>v, <1>1, <1>k, <1>4, StaysInHand DEF Serving
<1>6. /\ Mapped(q, w)' /\ Pte(q, w)'.base = f
      /\ \A r \in Proc, u \in Vpn : Standing(r) /\ (r # q \/ u # w) =>
            /\ Mapped(r, u)' = Mapped(r, u)
            /\ Mapped(r, u) => Pte(r, u)' = Pte(r, u)
  <2>1. /\ e \in [pres : BOOLEAN, dirty : BOOLEAN, base : Frame]
        /\ e.pres = Pte(q, w).pres /\ e.base = f
    BY <1>q, <1>3
  <2>2. e.pres
    BY <1>3, <2>1 DEF Mapped, Pte
  <2>3. ptmem' = SetPte(q, w, e) /\ Typed /\ Tables
    BY <1>q, <1>2 DEF DataInv, FrameInv
  <2> QED
    BY <1>1, <1>3, <2>1, <2>2, <2>3, EntryStored
<1>7. \A r \in Proc, u \in Vpn : /\ Stored(r, u)' <=> Stored(r, u)
                                 /\ Due(r, u)' <=> Due(r, u)
  BY <1>1, <1>5 DEF Stored, Due
<1>8. (\A g : ~BeingSent(g)) /\ BeingSent(f)'
  <2>1. \A g : ~BeingSent(g)
    BY <1>1, OneInHand DEF DataInv, Serving
  <2>2. BeingSent(f)'
    BY <1>4, <1>5 DEF BeingSent
  <2> QED
    BY <2>1, <2>2
<1>9. PagesKept'
  <2>1. PageKept(q, w)'
    <3>1. BeingSent(Pte(q, w).base)'
      BY <1>6, <1>8
    <3>2. ~InHand(q, w)'
      BY <1>3, <1>5
    <3>3. Due(q, w)' => content'[f] = mem'[q][w]
      BY <1>1, <1>3, <1>7
    <3> QED
      BY <1>6, <3>1, <3>2, <3>3 DEF PageKept
  <2>2. PageKept(p, v)'
    BY <1>5, <1>7
  <2> QED
    BY <1>1, <1>3, <1>5, <1>6, <1>7, <1>8, <2>1, <2>2, ServiceKeeps DEF Serving
<1>10. Copied'
  BY <1>5 DEF Copied, Serving
<1>11. NoneToSpare'
  <2>1. \A g \in PageFrame : frametab[g].type # "FREE"
    BY <1>1 DEF NoneFree
  <2> QED
    BY <1>1, <2>1, SparesKept DEF Serving
<1>12. Written' /\ Translations'
  BY <1>1, <1>5, ServiceLeaves
<1> QED
  BY <1>9, <1>10, <1>11, <1>12 DEF DataInv

\* What the frame has is written to the page's own slot of its owner's own store.
LEMMA CopyData ==
    ASSUME Steady, DataInv, FrameInv', NEW p \in Proc, sendBsCopy(p)
    PROVE  DataInv'
<1>v. PICK v \in Vpn : v = job[p].vpn
  BY DEF DataInv, FrameInv, Typed
<1>q. PICK f, q, w, b : /\ f = job[p].frame /\ q = Owner(f) /\ w = frametab[f].vpn
                        /\ b = proctab[q].prbsd
  OBVIOUS
<1>f. f \in PageFrame /\ frametab[f].type # "FREE" /\ job[p].bs = b
  BY <1>q DEF sendBsCopy, DataInv, FrameInv, Services, Served, Serving, Uses, StoreOf
<1>1. /\ cur = p /\ pc[p] = "evict"
      /\ store' = [store EXCEPT ![b][w] = content[f]]
      /\ pc' = [pc EXCEPT ![p] = "copied"]
      /\ UNCHANGED <<job, frametab, proctab, pdmem, ptmem, tlb, mem, raced, content, bsdtab>>
  BY <1>q, <1>f DEF sendBsCopy, faultVars, frameVars, tableVars, bsVars, histVars
<1>3. /\ q \in Proc /\ w \in Vpn /\ Standing(q) /\ Holding(q)
      /\ Mapped(q, w) /\ Pte(q, w).base = f
      /\ (q # p \/ w # v)
      /\ Due(q, w) => content[f] = mem[q][w]
  <2>1. pc[p] \in Serving \ {"load"}
    BY <1>1 DEF Serving
  <2>2. f = job[p].frame /\ q = Owner(f) /\ w = frametab[f].vpn
    BY <1>q
  <2> QED
    BY <1>v, <1>f, <2>1, <2>2, VictimHolds
<1>4. b \in Store
  BY <1>q, <1>3 DEF DataInv, FrameInv, Stores
<1>5. /\ pc'[p] = "copied"
      /\ \A r \in Proc : r # p => pc'[r] = pc[r] /\ pc[r] \notin Serving
      /\ \A r \in Proc : /\ pc'[r] \in Dead <=> pc[r] \in Dead
                         /\ pc'[r] = "free" <=> pc[r] = "free"
      /\ \A r \in Proc, u \in Vpn : InHand(r, u) \/ InHand(r, u)' => r = p /\ u = v
      /\ Due(p, v) => Stored(p, v)
      /\ PageKept(p, v)' <=> (Due(p, v)' => Stored(p, v)')
  <2>1. pc[p] \in Serving /\ "copied" \in Serving
    BY <1>1 DEF Serving
  <2>2. pc' = [pc EXCEPT ![p] = "copied"] /\ job'[p].vpn = job[p].vpn
    BY <1>1
  <2> QED
    BY <1>v, <2>1, <2>2, StaysInHand
<1>6. \A r \in Proc, u \in Vpn : /\ Mapped(r, u)' = Mapped(r, u)
                                 /\ Pte(r, u)' = Pte(r, u)
                                 /\ Due(r, u)' <=> Due(r, u)
  <2>1. \A r \in Proc, u \in Vpn : Mapped(r, u)' = Mapped(r, u) /\ Pte(r, u)' = Pte(r, u)
    BY <1>1 DEF Mapped, Pte, PTFrame
  <2>2. \A r \in Proc, u \in Vpn : Due(r, u)' <=> Due(r, u)
    BY <1>1, <1>5 DEF Due
  <2> QED
    BY <2>1, <2>2
<1>7. /\ store'[b][w] = content[f]
      /\ \A c \in Store, u \in Vpn : c # b \/ u # w => store'[c][u] = store[c][u]
  <2>1. store \in [Store -> [Vpn -> Value \cup {NoValue}]]
    BY DEF DataInv, FrameInv, Typed
  <2> QED
    BY <1>1, <1>3, <1>4, <2>1
<1>8. \A r \in Proc, u \in Vpn : Due(r, u) /\ (r # q \/ u # w) =>
         (Stored(r, u) => Stored(r, u)')
  <2>1. \A r \in Proc, u \in Vpn : Due(r, u) /\ (r # q \/ u # w) =>
           proctab[r].prbsd \in Store /\ (proctab[r].prbsd # b \/ u # w)
    <3>1. ASSUME NEW r \in Proc, NEW u \in Vpn, Due(r, u), r # q \/ u # w
          PROVE  proctab[r].prbsd \in Store /\ (proctab[r].prbsd # proctab[q].prbsd \/ u # w)
      BY <1>3, <3>1, SlotsApart
    <3> QED
      BY <1>q, <3>1
  <2>2. \A r \in Proc, u \in Vpn : Due(r, u) /\ (r # q \/ u # w) =>
           store'[proctab[r].prbsd][u] = store[proctab[r].prbsd][u]
    BY <1>7, <2>1
  <2> QED
    BY <1>1, <2>2 DEF Stored
<1>9. \A g : BeingSent(g) => g = f /\ BeingSent(g)'
  <2>1. \A g : BeingSent(g) => g = f
    BY <1>q, <1>1, OneInHand DEF DataInv, Serving
  <2>2. BeingSent(f)'
    BY <1>q, <1>1, <1>5 DEF BeingSent
  <2> QED
    BY <2>1, <2>2 DEF BeingSent
<1>10. PagesKept'
  <2>1. PageKept(q, w)'
    <3>1. BeingSent(Pte(q, w).base)'
      BY <1>q, <1>1, <1>3, <1>5, <1>6 DEF BeingSent
    <3>2. ~InHand(q, w)'
      BY <1>3, <1>5
    <3>3. Due(q, w)' => content'[f] = mem'[q][w]
      BY <1>1, <1>3, <1>6
    <3> QED
      BY <1>3, <1>6, <3>1, <3>2, <3>3 DEF PageKept
  <2>2. PageKept(p, v)'
    BY <1>3, <1>5, <1>6, <1>8
  <2>3. pc[p] \in Serving
    BY <1>1 DEF Serving
  <2> QED
    BY <1>1, <1>3, <1>5, <1>6, <1>8, <1>9, <2>1, <2>2, <2>3, ServiceKeeps
<1>11. Copied'
  <2>1. \A h \in Proc : pc'[h] = "copied" => h = p
    BY <1>5 DEF Serving
  <2>2. /\ job'[p].frame = f /\ job'[p].bs = b
        /\ Owner(f)' = q /\ frametab'[f].vpn = w
    BY <1>q, <1>f, <1>1 DEF Owner
  <2>3. Due(q, w)' => store'[b][w] = mem'[q][w]
    BY <1>1, <1>3, <1>6, <1>7
  <2> QED
    BY <2>1, <2>2, <2>3 DEF Copied
<1>12. NoneToSpare'
  BY <1>1, <1>5, SparesKept DEF Serving
<1>13. Written' /\ Translations'
  BY <1>1, <1>5, ServiceLeaves
<1> QED
  BY <1>10, <1>11, <1>12, <1>13 DEF DataInv


\* The victim's page has gone out when its frame is taken.
LEMMA SentData ==
    ASSUME Steady, DataInv, FrameInv', NEW p \in Proc, sendBsDone(p)
    PROVE  DataInv'
<1>v. PICK v \in Vpn : v = job[p].vpn
  BY DEF DataInv, FrameInv, Typed
<1>q. PICK f, q, w, b, e : /\ f = job[p].frame /\ q = Owner(f) /\ w = frametab[f].vpn
                           /\ b = proctab[q].prbsd
                           /\ e = [FramePte(f) EXCEPT !.pres = FALSE]
  OBVIOUS
<1>f. f \in PageFrame /\ frametab[f].type # "FREE" /\ job[p].bs = b
  BY <1>q DEF sendBsDone, DataInv, FrameInv, Services, Served, Serving, Uses, StoreOf
<1>1. /\ cur = p /\ pc[p] = "copied"
      /\ bsdtab' = [bsdtab EXCEPT ![b][w] = "BS_PRES"]
      /\ ptmem' = SetPte(q, w, e)
      /\ frametab' = [frametab EXCEPT ![f] = FreeFrame]
      /\ pc' = [pc EXCEPT ![p] = "assign"]
      /\ UNCHANGED <<job, proctab, pdmem, tlb, mem, raced, content, store>>
  BY <1>q DEF sendBsDone, StoreOf, faultVars, dataVars, histVars
<1>3. /\ q \in Proc /\ w \in Vpn /\ Standing(q) /\ Holding(q) /\ PTFrame(q) # NoFrame
      /\ Pte(q, w) \in [pres : BOOLEAN, dirty : BOOLEAN, base : Frame]
      /\ FramePte(f) = Pte(q, w) /\ (q # p \/ w # v)
  <2>1. pc[p] \in Serving \ {"load"}
    BY <1>1 DEF Serving
  <2>2. q = Owner(f) /\ w = frametab[f].vpn
    BY <1>q
  <2> QED
    BY <1>v, <1>f, <2>1, <2>2, VictimHolds
<1>4. b \in Store
  BY <1>q, <1>3 DEF DataInv, FrameInv, Stores
<1>5. /\ pc'[p] = "assign"
      /\ \A r \in Proc : r # p => pc'[r] = pc[r] /\ pc[r] \notin Serving
      /\ \A r \in Proc : /\ pc'[r] \in Dead <=> pc[r] \in Dead
                         /\ pc'[r] = "free" <=> pc[r] = "free"
      /\ \A r \in Proc, u \in Vpn : InHand(r, u) \/ InHand(r, u)' => r = p /\ u = v
      /\ Due(p, v) => Stored(p, v)
      /\ PageKept(p, v)' <=> (Due(p, v)' => Stored(p, v)')
  BY <1>v, <1>1, StaysInHand DEF Serving
<1>6. /\ ~Mapped(q, w)'
      /\ \A r \in Proc, u \in Vpn : Standing(r) /\ (r # q \/ u # w) =>
            /\ Mapped(r, u)' = Mapped(r, u)
            /\ Mapped(r, u) => Pte(r, u)' = Pte(r, u)
  <2>1. e \in [pres : BOOLEAN, dirty : BOOLEAN, base : Frame] /\ e.pres = FALSE
    BY <1>q, <1>3
  <2>2. Typed /\ Tables
    BY DEF DataInv, FrameInv
  <2> QED
    BY <1>1, <1>3, <2>1, <2>2, EntryStored
<1>7. \A r \in Proc, u \in Vpn : Due(r, u)' <=> Due(r, u)
  BY <1>1, <1>5 DEF Due
<1>8. /\ bsdtab'[b][w] = "BS_PRES"
      /\ \A c \in Store, u \in Vpn : c # b \/ u # w => bsdtab'[c][u] = bsdtab[c][u]
  <2>1. bsdtab \in [Store -> [Vpn -> {"BS_IGNORE", "BS_NPRES", "BS_PRES"}]]
    BY DEF DataInv, FrameInv, Typed
  <2> QED
    BY <1>1, <1>3, <1>4, <2>1
<1>9. \A r \in Proc, u \in Vpn : Due(r, u) /\ (r # q \/ u # w) =>
         (Stored(r, u) => Stored(r, u)')
  <2>1. \A r \in Proc, u \in Vpn : Due(r, u) /\ (r # q \/ u # w) =>
           proctab[r].prbsd \in Store /\ (proctab[r].prbsd # b \/ u # w)
    <3>1. ASSUME NEW r \in Proc, NEW u \in Vpn, Due(r, u), r # q \/ u # w
          PROVE  proctab[r].prbsd \in Store /\ (proctab[r].prbsd # proctab[q].prbsd \/ u # w)
      BY <1>3, <3>1, SlotsApart
    <3> QED
      BY <1>q, <3>1
  <2>2. \A r \in Proc, u \in Vpn : Due(r, u) /\ (r # q \/ u # w) =>
           bsdtab'[proctab[r].prbsd][u] = bsdtab[proctab[r].prbsd][u]
    BY <1>8, <2>1
  <2> QED
    BY <1>1, <2>2 DEF Stored
<1>10. PagesKept'
  <2>1. PageKept(q, w)'
    <3>1. Due(q, w) => store[b][w] = mem[q][w]
      BY <1>q, <1>f, <1>1 DEF DataInv, Copied
    <3>2. Due(q, w)' => Stored(q, w)'
      <4>1. UNCHANGED <<proctab, store, mem>>
        BY <1>1
      <4>2. proctab'[q].prbsd = b
        BY <1>q, <4>1
      <4>3. Due(q, w)' => store'[b][w] = mem'[q][w]
        BY <1>7, <1>3, <3>1, <4>1
      <4>4. bsdtab'[b][w] = "BS_PRES"
        BY <1>8
      <4> QED
        BY <4>2, <4>3, <4>4 DEF Stored
    <3> QED
      BY <1>6, <3>2 DEF PageKept
  <2>2. PageKept(p, v)'
    BY <1>3, <1>5, <1>7, <1>9
  <2>3. \A g \in PageFrame : (BeingSent(g) => BeingSent(g)')
                             \/ (frametab[g].pid = q /\ frametab[g].vpn = w)
    BY <1>q, <1>1, OneInHand DEF Owner, DataInv, Serving
  <2>4. pc[p] \in Serving
    BY <1>1 DEF Serving
  <2> QED
    BY <1>1, <1>3, <1>5, <1>6, <1>9, <2>1, <2>2, <2>3, <2>4, ServiceKeeps
<1>11. Copied'
  BY <1>5 DEF Copied, Serving
<1>12. NoneToSpare'
  <2>1. f \in Frame /\ frametab \in [Frame -> [type : {"FREE", "PD", "PT", "PG"},
                                               pid : Proc \cup {NULLPROC}, vpn : Vpn]]
    BY <1>f, FrameKinds DEF DataInv, FrameInv, Typed
  <2>2. \A g \in PageFrame : g # f => frametab'[g] = frametab[g]
    BY <1>1, <2>1, FrameKinds
  <2>3. pc'[p] = "assign" /\ job'[p].frame = f
    BY <1>q, <1>1, <1>5
  <2> QED
    BY <1>1, <2>2, <2>3, SparesKept DEF Serving
<1>13. Written' /\ Translations'
  BY <1>1, <1>5, ServiceLeaves
<1> QED
  BY <1>10, <1>11, <1>12, <1>13 DEF DataInv

\* A stored page is to be read: its frame is recorded, its entry still points elsewhere.
LEMMA StoredData ==
    ASSUME Steady, DataInv, FrameInv', NEW p \in Proc, assignStored(p)
    PROVE  DataInv'
<1>v. PICK v \in Vpn : v = job[p].vpn
  BY DEF DataInv, FrameInv, Typed
<1>f. PICK f : f = job[p].frame
  OBVIOUS
<1>1. /\ cur = p /\ pc[p] = "assign"
      /\ frametab' = [frametab EXCEPT ![f] = [type |-> "PG", pid |-> p, vpn |-> v]]
      /\ \/ pc' = [pc EXCEPT ![p] = "load"]
         \/ pc' = [pc EXCEPT ![p] = "lkill"]
      /\ UNCHANGED <<job, proctab, pdmem, ptmem, tlb, mem, raced, content, store, bsdtab>>
  BY <1>v, <1>f DEF assignStored, CallKill, faultVars, tableVars, dataVars, histVars
<1>k. pc' = [pc EXCEPT ![p] = "load"]
  <2>1. pc'[p] # "lkill"
    BY DEF FrameInv, KillsOwn
  <2>2. pc \in [Proc -> PC]
    BY DEF DataInv, FrameInv, SemInv, SemTypeOK
  <2> QED
    BY <1>1, <2>1, <2>2
<1>2. f \in PageFrame
  BY <1>f, <1>1 DEF DataInv, FrameInv, Services, Served, Serving
<1>5. /\ pc'[p] = "load"
      /\ \A r \in Proc : r # p => pc'[r] = pc[r] /\ pc[r] \notin Serving
      /\ \A r \in Proc : /\ pc'[r] \in Dead <=> pc[r] \in Dead
                         /\ pc'[r] = "free" <=> pc[r] = "free"
      /\ \A r \in Proc, u \in Vpn : InHand(r, u) \/ InHand(r, u)' => r = p /\ u = v
      /\ Due(p, v) => Stored(p, v)
      /\ PageKept(p, v)' <=> (Due(p, v)' => Stored(p, v)')
  BY <1>v, <1>1, <1>k, StaysInHand DEF Serving
<1>6. \A r \in Proc, u \in Vpn : /\ Mapped(r, u)' = Mapped(r, u)
                                 /\ Pte(r, u)' = Pte(r, u)
                                 /\ Due(r, u)' <=> Due(r, u)
                                 /\ Stored(r, u)' <=> Stored(r, u)
  BY <1>1, <1>5 DEF Mapped, Pte, PTFrame, Due, Stored
<1>7. PagesKept'
  <2>1. PageKept(p, v)'
    BY <1>5, <1>6
  <2>2. \A g : ~BeingSent(g)
    BY <1>1, OneInHand DEF DataInv, Serving
  <2> QED
    BY <1>1, <1>5, <1>6, <2>1, <2>2, ServiceKeeps DEF Serving
<1>8. Copied'
  BY <1>5 DEF Copied, Serving
<1>9. NoneToSpare'
  <2>1. frametab \in [Frame -> [type : {"FREE", "PD", "PT", "PG"},
                                pid : Proc \cup {NULLPROC}, vpn : Vpn]]
    BY DEF DataInv, FrameInv, Typed
  <2>2. \A g \in PageFrame : frametab[g].type # "FREE" \/ g = f => frametab'[g].type # "FREE"
    BY <1>1, <2>1, FrameKinds
  <2>3. \A h \in Proc : pc'[h] \notin {"evict", "copied"}
    BY <1>5 DEF Serving
  <2> QED
    BY <1>f, <1>1, <2>2, <2>3, SparesKept DEF Serving
<1>10. Written' /\ Translations'
  BY <1>1, <1>5, ServiceLeaves
<1> QED
  BY <1>7, <1>8, <1>9, <1>10 DEF DataInv


-------------------------------------------------------------------------------

\* A process that is created has written nothing, and gets a store nobody has.
LEMMA CreateData ==
    ASSUME Steady, DataInv, FrameInv', NEW c \in Proc, NEW p \in Proc, NEW n \in Sizes,
           vcreate(c, p, n)
    PROVE  DataInv'
<1>1. /\ pc[c] = "user" /\ cur = c /\ pc[p] = "free"
      /\ UNCHANGED <<cur, job, ptmem, tlb, content, store, mem, raced>>
  BY DEF vcreate, faultVars, dataVars, histVars
<1>2. PICK d \in DSFrame \cup {NoFrame} :
         /\ \/ d \in DSFrame /\ getPD(c, d)
            \/ d = NoFrame /\ UNCHANGED <<frametab, pdmem>>
         /\ addMapping(p, n, d)
  BY CreateParts
<1>t. /\ pc \in [Proc -> PC]
      /\ frametab \in [Frame -> [type : {"FREE", "PD", "PT", "PG"},
                                 pid : Proc \cup {NULLPROC}, vpn : Vpn]]
      /\ proctab \in [Proc -> [prpd : DSFrame \cup {NoFrame}, prpages : 0..MaxPages,
                               prbsd : Store \cup {SYSERR}]]
      /\ pdmem \in [DSFrame -> DSFrame \cup {NoFrame}]
      /\ bsdtab \in [Store -> [Vpn -> {"BS_IGNORE", "BS_NPRES", "BS_PRES"}]]
  BY DEF DataInv, FrameInv, SemInv, SemTypeOK, Typed
<1>3. /\ d \in DSFrame => frametab[d].type = "FREE"
      /\ \A f \in Frame : f # d => frametab'[f] = frametab[f]
      /\ \A f \in DSFrame : f # d => pdmem'[f] = pdmem[f]
  <2>1. CASE d \in DSFrame /\ getPD(c, d)
    <3>1. frametab[d].type = "FREE"
      BY <2>1 DEF getPD, FirstFree
    <3>2. PICK e : frametab' = [frametab EXCEPT ![d] = e]
      BY <2>1 DEF getPD
    <3>3. pdmem' = [pdmem EXCEPT ![d] = NoFrame]
      BY <2>1 DEF getPD
    <3> QED
      BY <1>t, <3>1, <3>2, <3>3
  <2>2. CASE d = NoFrame /\ UNCHANGED <<frametab, pdmem>>
    BY <2>2, NoPageFrame
  <2> QED
    BY <1>2, <2>1, <2>2
<1>4. /\ pc'[p] \in {"user", "zombie"}
      /\ \A q \in Proc : q # p => pc'[q] = pc[q] /\ proctab'[q] = proctab[q]
      /\ \/ UNCHANGED bsdtab
         \/ \E b \in Store : /\ ~bstab[b].isallocated
                             /\ \A x \in Store : x # b => bsdtab'[x] = bsdtab[x]
                             /\ \A u \in Vpn : bsdtab'[b][u] = "BS_NPRES"
                                               \/ bsdtab'[b][u] = bsdtab[b][u]
  <2>1. CASE UNCHANGED bsVars
    BY <1>2, <1>t, <2>1 DEF addMapping, bsVars
  <2>2. CASE \E b \in Store :
                /\ LowestStore(n, b)
                /\ bsdtab' = [bsdtab EXCEPT ![b] =
                               [v \in Vpn |-> IF v < n THEN "BS_NPRES" ELSE @[v]]]
                /\ proctab' = [proctab EXCEPT ![p] =
                                 [prpd |-> d, prpages |-> n, prbsd |-> b]]
                /\ pc' = [pc EXCEPT ![p] = "user"]
    <3>1. PICK b \in Store :
                /\ ~bstab[b].isallocated
                /\ bsdtab' = [bsdtab EXCEPT ![b] =
                               [v \in Vpn |-> IF v < n THEN "BS_NPRES" ELSE @[v]]]
                /\ proctab' = [proctab EXCEPT ![p] =
                                 [prpd |-> d, prpages |-> n, prbsd |-> b]]
                /\ pc' = [pc EXCEPT ![p] = "user"]
      BY <2>2 DEF LowestStore
    <3> QED
      BY <1>t, <3>1
  <2> QED
    BY <1>2, <2>1, <2>2 DEF addMapping
<1>5. /\ \A f \in PageFrame : frametab'[f] = frametab[f]
      /\ \A q \in Proc, v \in Vpn : q # p => Mapped(q, v)' = Mapped(q, v) /\ Pte(q, v)' = Pte(q, v)
  <2>1. \A f \in PageFrame : frametab'[f] = frametab[f]
    BY <1>2, <1>3, FrameKinds, NoPageFrame
  <2>2. \A q \in Proc : q # p => PTFrame(q)' = PTFrame(q)
    <3>1. \A q \in Proc : proctab[q].prpd # NoFrame =>
             proctab[q].prpd \in DSFrame /\ proctab[q].prpd # d
      BY <1>t, <1>3 DEF DataInv, FrameInv, Directories
    <3> QED
      BY <1>3, <1>4, <3>1 DEF PTFrame
  <2> QED
    BY <1>1, <2>1, <2>2 DEF Mapped, Pte
<1>6. \A q \in Proc, v \in Vpn : Due(q, v)' => Due(q, v) /\ q # p
  BY <1>1, <1>4 DEF Due, DataInv, Written, Dead
<1>7. /\ \A q \in Proc, v \in Vpn : q # p => (InHand(q, v)' <=> InHand(q, v))
      /\ \A h \in Proc : pc'[h] \in Serving => h # p /\ pc[h] = pc'[h]
      /\ \A f : BeingSent(f)' <=> BeingSent(f)
  BY <1>1, <1>4 DEF InHand, BeingSent, Serving
<1>8. \A q \in Proc, v \in Vpn : q # p /\ Due(q, v) /\ Stored(q, v) => Stored(q, v)'
  <2>1. SUFFICES ASSUME NEW q \in Proc, NEW v \in Vpn, q # p, Due(q, v)
                 PROVE  bsdtab'[proctab[q].prbsd][v] = bsdtab[proctab[q].prbsd][v]
    BY <1>1, <1>4 DEF Stored
  <2>2. proctab[q].prbsd \in Store /\ bstab[proctab[q].prbsd].isallocated
    BY <2>1, DuePage DEF DataInv
  <2> QED
    BY <1>4, <2>2
<1>9. PagesKept'
  <2>1. ASSUME NEW q \in Proc, NEW v \in Vpn, q # p PROVE PageKept(q, v)'
    <3>1. PageKept(q, v) /\ mem'[q][v] = mem[q][v]
      BY <1>1 DEF DataInv, PagesKept
    <3>2. /\ Mapped(q, v)' = Mapped(q, v) /\ Pte(q, v)' = Pte(q, v)
          /\ content'[Pte(q, v).base] = content[Pte(q, v).base]
          /\ BeingSent(Pte(q, v).base) => BeingSent(Pte(q, v).base)'
      BY <1>1, <1>5, <1>7, <2>1
    <3>3. InHand(q, v)' <=> InHand(q, v)
      BY <1>7, <2>1
    <3>4. Due(q, v)' => Due(q, v)
      BY <1>6
    <3>5. Due(q, v) /\ Stored(q, v) => Stored(q, v)'
      BY <1>8, <2>1
    <3> QED
      BY <3>1, <3>2, <3>3, <3>4, <3>5, PageStays
  <2>2. \A v \in Vpn : PageKept(p, v)'
    BY <1>6 DEF PageKept
  <2> QED
    BY <2>1, <2>2 DEF PagesKept
<1>10. Written'
  BY <1>1, <1>4 DEF DataInv, Written
<1>11. Copied'
  <2>1. SUFFICES ASSUME NEW h \in Proc, pc'[h] = "copied", NEW q, NEW w,
                        q = Owner(job[h].frame), w = frametab[job[h].frame].vpn, Due(q, w)'
                 PROVE  store[job[h].bs][w] = mem[q][w]
    <3>1. \A h \in Proc : pc'[h] = "copied" =>
             /\ Owner(job[h].frame)' = Owner(job[h].frame)
             /\ frametab'[job[h].frame] = frametab[job[h].frame]
      BY <1>1, <1>5, <1>7, FrameOwners DEF DataInv, Owner, Serving
    <3> QED
      BY <1>1, <3>1 DEF Copied
  <2>2. pc[h] = "copied" /\ q \in Proc /\ w \in Vpn
    <3>1. pc[h] = "copied"
      BY <1>7, <2>1 DEF Serving
    <3>2. job[h].frame \in PageFrame /\ q \in Proc
      BY <2>1, <3>1, FrameOwners DEF DataInv
    <3> QED
      BY <1>t, <2>1, <3>1, <3>2, FrameKinds
  <2> QED
    BY <1>6, <2>1, <2>2 DEF DataInv, Copied
<1>12. NoneToSpare'
  <2>1. \A b \in Store, v \in Vpn : bsdtab'[b][v] = "BS_PRES" => bsdtab[b][v] = "BS_PRES"
    BY <1>4
  <2>2. \A h \in Proc :
           ( \/ pc'[h] \in {"evict", "copied", "assign"}
             \/ pc[h] \in {"evict", "copied", "assign"} )
           => pc'[h] = pc[h]
    BY <1>1, <1>4
  <2> QED
    BY <1>1, <1>5, <2>1, <2>2 DEF DataInv, NoneToSpare
<1>13. Translations'
  <2>1. c # p /\ pc'[c] = "user"
    BY <1>1, <1>4
  <2>2. \A e \in tlb : e.vpn \in Vpn
    BY DEF DataInv, FrameInv, Typed
  <2> QED
    BY <1>1, <1>5, <2>1, <2>2 DEF DataInv, Translations
<1> QED
  BY <1>9, <1>10, <1>11, <1>12, <1>13 DEF DataInv


-------------------------------------------------------------------------------

THEOREM DataInit == Init => DataInv
<1> SUFFICES ASSUME Init PROVE DataInv
  OBVIOUS
<1>1. FrameInv
  BY FrameInit
<1>2. PagesKept /\ Written
  BY DEF Init, PagesKept, PageKept, Due, Written
<1>3. Copied /\ NoneToSpare
  <2>1. \A h \in Proc : pc[h] \notin {"evict", "copied"}
    BY DEF Init
  <2>2. \A b \in Store, v \in Vpn : bsdtab[b][v] # "BS_PRES"
    BY DEF Init
  <2> QED
    BY <2>1, <2>2 DEF Copied, NoneToSpare
<1>4. Translations
  BY DEF Init, Translations
<1> QED
  BY <1>1, <1>2, <1>3, <1>4 DEF DataInv

\* Every page stays kept in every step, when no process leaves.
THEOREM DataNext ==
    ASSUME Steady PROVE DataInv /\ [Next]_vars => DataInv'
<1> SUFFICES ASSUME DataInv, [Next]_vars PROVE DataInv'
  OBVIOUS
<1>s. FrameInv'
  BY FrameNext DEF DataInv, Steady
<1>1. ASSUME NEW p \in Proc \cup {NULLPROC}, Switch(p) PROVE DataInv'
  BY <1>s, <1>1, SwitchData
<1>2. ASSUME NEW p \in Proc, NEW q \in Proc, NEW n \in Sizes, vcreate(p, q, n) PROVE DataInv'
  BY <1>s, <1>2, CreateData
<1>3. ASSUME NEW p \in Proc, NEW q \in Proc, kill(p, q) PROVE DataInv'
  BY <1>3 DEF kill, Steady, Orderly
<1>4. ASSUME NEW p \in Proc, NEW a \in Address, Read(p, a) PROVE DataInv'
  BY <1>s, <1>4, ReadData
<1>5. ASSUME NEW p \in Proc, NEW a \in Address, Fault(p, a) PROVE DataInv'
  BY <1>s, <1>5, FaultData
<1>6. ASSUME NEW p \in Proc, NEW a \in Address, NEW x \in Writes[p], Write(p, a, x)
      PROVE  DataInv'
  BY <1>s, <1>6, WriteData
<1>7. ASSUME NEW p \in Proc, Handler(p) PROVE DataInv'
  <2>1. \/ pfhandlerNewTable(p) \/ pfhandlerNewPage(p) \/ pfhandlerNothing(p)
        \/ getPFrameFree(p) \/ removeClean(p) \/ removeDirty(p)
        \/ sendBsCopy(p) \/ sendBsDone(p)
        \/ assignFresh(p) \/ assignStored(p) \/ getBsDone(p)
    BY <1>7, NeverAstray DEF Handler, DataInv
  <2> QED
    BY <1>s, <2>1, NewTableData, NewPageData, NothingData, FreeData, CleanData, DirtyData,
       CopyData, SentData, FreshData, StoredData, LoadData
<1>8. ASSUME NEW p \in Proc, Killing(p) PROVE FALSE
  <2>1. pc[p] \notin Leaving /\ pc[p] # "lkill"
    BY NobodyLeaves DEF DataInv, FrameInv, KillsOwn
  <2> QED
    BY <1>8, <2>1 DEF Killing, killWait, freeFrames, killUnmap, killDone, Leaving
<1>9. CASE UNCHANGED vars
  <2>1. UNCHANGED <<pc, cur, job, frametab, proctab, pdmem, ptmem, tlb, bsdtab, content, store,
                    mem, raced>>
    BY <1>9 DEF vars, procVars, faultVars, frameVars, tableVars, bsVars, dataVars, histVars
  <2>2. Translations'
    BY <2>1 DEF DataInv, Translations, Mapped, Pte, PTFrame
  <2> QED
    BY <1>s, <2>1, <2>2, QuietData DEF DataInv
<1> QED
  BY <1>1, <1>2, <1>3, <1>4, <1>5, <1>6, <1>7, <1>8, <1>9 DEF Next

\* A page keeps the last value its process wrote, through any number of evictions and
\* reloads, whatever the numbers of processes, frames, stores and pages, for as long as no
\* process leaves: sendBs() and getBs() lose nothing but a write that raced a copy.
THEOREM DataAlwaysPreserved ==
    ASSUME Steady PROVE Spec => []DataPreserved
<1>1. ASSUME DataInv PROVE DataPreserved
  <2>1. SUFFICES ASSUME NEW p \in Proc, NEW v \in Vpn, Live(p), <<p, v>> \notin raced,
                        mem[p][v] # NoValue
                 PROVE  Holds(p, v, mem[p][v])
    BY DEF DataPreserved, Intact
  <2>2. Due(p, v) /\ PageKept(p, v)
    BY <1>1, <2>1 DEF Due, Live, DataInv, PagesKept
  <2>3. InService(p, v) <=> InHand(p, v)
    BY <1>1 DEF InService, InHand, Serving, DataInv, FrameInv, KillsOwn
  <2> QED
    BY <2>2, <2>3 DEF PageKept, Holds, Stored
<1>2. Init => DataInv
  BY DataInit
<1>3. DataInv /\ [Next]_vars => DataInv'
  BY DataNext
<1> QED
  BY <1>1, <1>2, <1>3, PTL DEF Spec

\* A translation the processor uses is the one in the page table, though nothing but
\* resched() ever empties the cache: evictions are of other processes' pages.
THEOREM TlbAlwaysCoherent ==
    ASSUME Steady PROVE Spec => []TlbCoherent
<1>1. ASSUME DataInv PROVE TlbCoherent
  BY <1>1 DEF DataInv, Translations, TlbCoherent
<1>2. Init => DataInv
  BY DataInit
<1>3. DataInv /\ [Next]_vars => DataInv'
  BY DataNext
<1> QED
  BY <1>1, <1>2, <1>3, PTL DEF Spec
===============================================================================
