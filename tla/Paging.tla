-------------------------------- MODULE Paging --------------------------------
(***************************************************************************)
(* Demand paging as it runs under the Xinu scheduler: the page-fault        *)
(* handler, the frame table with its FIFO, the page tables, the backing     *)
(* stores and kill(), all serialised by the semaphore prSem.                *)
(*                                                                          *)
(* Interrupts are disabled in every one of these functions, so control only *)
(* leaves a process where it calls something that may reschedule.  Each     *)
(* action below is the code between two such points; the program counter pc *)
(* says at which of them a process stands.                                  *)
(***************************************************************************)
EXTENDS Queues, FiniteSets

CONSTANTS
    Proc,        \* process slots other than the null process
    Main,        \* the process that runs main()
    NULLPROC,    \* the null process, always ready to run
    NoProc,      \* "no process" in the field that names a kill() target
    NDSFRAMES,   \* frames reserved for page directories and page tables
    NFRAMES,     \* all frames
    NBSDS,       \* backing stores
    NBPG,        \* addresses in a page
    MaxPages,    \* largest heap, in pages
    Sizes,       \* heap sizes that callers pass to vcreate()
    Value,       \* contents of a page
    Writes,      \* Writes[p]: what process p may write
    NoValue,     \* what a frame or a store holds before any write
    Policy,      \* "FIFO" or "MYPOLICY" (random victim)
    CacheTLB,    \* TRUE: the processor caches translations
    Creators,    \* processes that call vcreate()
    Exits,       \* processes that return, and so kill themselves
    Targets,     \* processes that others kill
    Stray,       \* TRUE: programs also touch addresses outside their heap
    MaxCreate    \* bound: calls of vcreate()

ASSUME ProcAssumption ==
    /\ Main \in Proc
    /\ NULLPROC \notin Proc
    /\ NoProc \notin Proc
    /\ NoProc # NULLPROC
    /\ Creators \subseteq Proc /\ Exits \subseteq Proc /\ Targets \subseteq Proc

ASSUME SizeAssumption ==
    /\ NDSFRAMES \in Nat \ {0}
    /\ NFRAMES \in Nat /\ NFRAMES > NDSFRAMES
    /\ NBSDS \in Nat \ {0}
    /\ NBPG \in Nat \ {0}
    /\ MaxPages \in Nat
    /\ Sizes \subseteq 0..MaxPages
    /\ MaxCreate \in Nat

ASSUME ModeAssumption ==
    /\ NoValue \notin Value
    /\ Writes \in [Proc -> SUBSET Value]
    /\ Policy \in {"FIFO", "MYPOLICY"}
    /\ CacheTLB \in BOOLEAN
    /\ Stray \in BOOLEAN

Frame     == 0..(NFRAMES - 1)
DSFrame   == 0..(NDSFRAMES - 1)
PageFrame == NDSFRAMES..(NFRAMES - 1)
Vpn       == 0..MaxPages                   \* MaxPages: the page just past a full heap
Address   == 0..((MaxPages + 1) * NBPG - 1)   \* relative to V_FRAME * NBPG
Store     == 0..(NBSDS - 1)
SYSERR    == -1
NoFrame   == SYSERR                      \* getDSFrame() failed, or directory entry not present

PageOf(a) == a \div NBPG

VARIABLES
    pc,        \* where each process stands
    cur,       \* currpid
    prSem,     \* the semaphore: its count and its queue
    victim,    \* the process a kill() in progress is about
    job,       \* frame, page and open store a page-fault service is working on
    cr2,       \* the processor's fault address register
    fault,     \* history: the address each process last faulted on
    frametab,  \* inverted page table
    fifo,      \* frames in replacement order, oldest first
    proctab,   \* the paging fields of the process table
    pdmem,     \* frames read as directories: the entry that maps the heap
    ptmem,     \* frames read as page tables
    tlb,       \* cached translations of the current process
    bstab,     \* backing store table of the page server
    bsdtab,    \* which pages of a store hold data (BS_PRES)
    content,   \* data in the page frames
    store,     \* data in the backing stores
    created,   \* vcreate() calls so far
    mem,       \* history: what each process last wrote to each page
    raced      \* history: pages whose last write hit a frame already copied out

procVars  == <<pc, cur, prSem, victim>>
faultVars == <<job, cr2, fault>>
frameVars == <<frametab, fifo>>
tableVars == <<proctab, pdmem, ptmem>>
bsVars    == <<bstab, bsdtab>>
dataVars  == <<content, store>>
histVars  == <<mem, raced>>
vars == <<procVars, faultVars, frameVars, tableVars, tlb, bsVars, dataVars,
          created, histVars>>

(***************************************************************************)
(* Program counters.  "enter": owns prSem and is about to read CR2 (it may  *)
(* have just been woken and not run yet).  "evict", "copied", "load": in    *)
(* the middle of backing-store I/O.  "kill", "killd": before and after the  *)
(* critical section of kill(), "killr": after it, when signal() readied      *)
(* somebody and may have rescheduled; "lkill": kill() called from inside the *)
(* handler, still owning prSem.  "lost": running on a frame number that is   *)
(* SYSERR, or on a page table that is not there.                             *)
(***************************************************************************)
Critical == {"enter", "alloc", "evict", "copied", "assign", "load",
             "killw", "lkill", "lost"}
Waiting  == {"queued", "killq"}
Dead     == {"free", "zombie"}
PC       == Critical \cup Waiting \cup Dead \cup {"user", "kill", "killr", "killd"}

\* Where a process runs with interrupts disabled and calls nothing that reschedules.
Atomic == {"enter", "alloc", "assign", "killw", "killd"}

\* Where it may block, on a disk request or in sleep(), and so leave the processor to
\* the null process.
Blocking == {"user", "evict", "copied", "load"}

Runnable(p) == pc[p] \notin Waiting \cup Dead

NoPte  == [pres |-> FALSE, dirty |-> FALSE, base |-> 0]
NoJob  == [frame |-> 0, vpn |-> 0, bs |-> 0]
FreeFrame == [type |-> "FREE", pid |-> NULLPROC, vpn |-> 0]

Init ==
    /\ pc = [p \in Proc |-> IF p = Main THEN "user" ELSE "free"]
    /\ cur = Main
    /\ prSem = [count |-> 1, queue |-> << >>]
    /\ victim = [p \in Proc |-> NoProc]
    /\ job = [p \in Proc |-> NoJob]
    /\ cr2 = 0
    /\ fault = [p \in Proc |-> 0]
    /\ frametab = [f \in Frame |->
                     IF f = 0 THEN [FreeFrame EXCEPT !.type = "PD"] ELSE FreeFrame]
    /\ fifo = << >>
    /\ proctab = [p \in Proc |->
                    [prpd |-> IF p = Main THEN 0 ELSE NoFrame, prpages |-> 0, prbsd |-> 0]]
    /\ pdmem = [f \in DSFrame |-> NoFrame]
    /\ ptmem = [f \in DSFrame |-> [v \in Vpn |-> NoPte]]
    /\ tlb = {}
    /\ bstab = [b \in Store |-> [isallocated |-> FALSE, usecount |-> 0, npages |-> 0]]
    /\ bsdtab = [b \in Store |-> [v \in Vpn |-> "BS_IGNORE"]]
    /\ content = [f \in PageFrame |-> NoValue]
    /\ store = [b \in Store |-> [v \in Vpn |-> NoValue]]
    /\ created = 0
    /\ mem = [p \in Proc |-> [v \in Vpn |-> NoValue]]
    /\ raced = {}

(***************************************************************************)
(* The scheduler: resched() loads CR3 of the process it dispatches, which   *)
(* empties the TLB.                                                         *)
(***************************************************************************)
Preemptible == cur \in Proc => pc[cur] \notin Atomic

resched == cur' = NULLPROC /\ tlb' = {}

\* Mutation: resched() without setPDBR(), the TLB survives the switch.
SwitchKeepsTlb(p) ==
    /\ Preemptible
    /\ p # cur
    /\ IF p = NULLPROC THEN pc[cur] \in Blocking ELSE Runnable(p)
    /\ cur' = p
    /\ UNCHANGED <<pc, prSem, victim, faultVars, frameVars, tableVars, tlb, bsVars,
                   dataVars, created, histVars>>

Switch(p) ==
    /\ Preemptible
    /\ p # cur
    /\ IF p = NULLPROC THEN pc[cur] \in Blocking ELSE Runnable(p)
    /\ cur' = p
    /\ tlb' = {}
    /\ UNCHANGED <<pc, prSem, victim, faultVars, frameVars, tableVars, bsVars,
                   dataVars, created, histVars>>

(***************************************************************************)
(* wait(prSem) and signal(prSem), called by the current process p.          *)
(***************************************************************************)
wait(p, granted, blocked) ==
    IF prSem.count > 0
    THEN /\ prSem' = [prSem EXCEPT !.count = @ - 1]
         /\ pc' = [pc EXCEPT ![p] = granted]
         /\ UNCHANGED <<cur, tlb>>
    ELSE /\ prSem' = [count |-> prSem.count - 1, queue |-> Append(prSem.queue, p)]
         /\ pc' = [pc EXCEPT ![p] = blocked]
         /\ resched

\* Mutation: signal() that counts but readies nobody.
signalNoWake(p, next) ==
    /\ prSem' = [prSem EXCEPT !.count = @ + 1]
    /\ pc' = [pc EXCEPT ![p] = next]

signal(p, next) ==
    IF prSem.count < 0
    THEN LET q == Head(prSem.queue) IN
         /\ prSem' = [count |-> prSem.count + 1, queue |-> Tail(prSem.queue)]
         /\ pc' = [pc EXCEPT ![p] = next,
                             ![q] = IF pc[q] = "queued" THEN "enter" ELSE "killw"]
    ELSE /\ prSem' = [prSem EXCEPT !.count = @ + 1]
         /\ pc' = [pc EXCEPT ![p] = next]

(***************************************************************************)
(* Page tables.  All heap addresses lie under one directory entry.          *)
(***************************************************************************)
PTFrame(p) == IF proctab[p].prpd = NoFrame THEN NoFrame ELSE pdmem[proctab[p].prpd]

Mapped(p, v) == PTFrame(p) # NoFrame /\ ptmem[PTFrame(p)][v].pres

Pte(p, v) == ptmem[PTFrame(p)][v]

\* Mutation: a page table is updated through the directory of the current process.
SetPteCurrent(p, v, e) ==
    IF PTFrame(cur) = NoFrame THEN ptmem ELSE [ptmem EXCEPT ![PTFrame(cur)][v] = e]

\* A page-table update; with no page table it goes to physical page 0, outside the model.
SetPte(p, v, e) ==
    IF PTFrame(p) = NoFrame THEN ptmem ELSE [ptmem EXCEPT ![PTFrame(p)][v] = e]

FirstFree(frames, f) ==
    /\ f \in frames /\ frametab[f].type = "FREE"
    /\ \A g \in frames : g < f => frametab[g].type # "FREE"

NoneFree(frames) == \A f \in frames : frametab[f].type # "FREE"

(***************************************************************************)
(* vcreate() and resume() of the new process, both with interrupts          *)
(* disabled.  The directory frame is marked with the pid of the caller.     *)
(* When no store is left the slot stays suspended for good.                 *)
(***************************************************************************)
\* Mutation: allocate_bs() does not look whether the store is taken.
LowestStoreTaken(n, b) == n > 0 /\ \A c \in Store : b <= c

LowestStore(n, b) ==
    /\ n > 0
    /\ ~bstab[b].isallocated
    /\ \A c \in Store : c < b => bstab[c].isallocated

NoStore(n) == n = 0 \/ \A b \in Store : bstab[b].isallocated

addMapping(p, n, prpd) ==
    \/ \E b \in Store :
          /\ LowestStore(n, b)
          /\ bstab' = [bstab EXCEPT ![b] = [isallocated |-> TRUE, usecount |-> 0, npages |-> n]]
          /\ bsdtab' = [bsdtab EXCEPT ![b] =
                          [v \in Vpn |-> IF v < n THEN "BS_NPRES" ELSE @[v]]]
          /\ proctab' = [proctab EXCEPT ![p] = [prpd |-> prpd, prpages |-> n, prbsd |-> b]]
          /\ pc' = [pc EXCEPT ![p] = "user"]
    \/ /\ NoStore(n)
       /\ proctab' = [proctab EXCEPT ![p] = [prpd |-> prpd, prpages |-> n, prbsd |-> SYSERR]]
       /\ pc' = [pc EXCEPT ![p] = "zombie"]
       /\ UNCHANGED bsVars

getPD(caller, f) ==
    /\ FirstFree(DSFrame, f)
    /\ frametab' = [frametab EXCEPT ![f] = [@ EXCEPT !.type = "PD", !.pid = caller]]
    /\ pdmem' = [pdmem EXCEPT ![f] = NoFrame]

vcreate(caller, p, n) ==
    /\ cur = caller /\ pc[caller] = "user" /\ caller \in Creators
    /\ created < MaxCreate
    /\ pc[p] = "free"
    /\ \/ \E f \in DSFrame : getPD(caller, f) /\ addMapping(p, n, f)
       \/ /\ NoneFree(DSFrame)
          /\ addMapping(p, n, NoFrame)
          /\ UNCHANGED <<frametab, pdmem>>
    /\ created' = created + 1
    /\ UNCHANGED <<cur, prSem, victim, faultVars, fifo, ptmem, tlb, dataVars, histVars>>

(***************************************************************************)
(* Memory accesses of programs, as the processor performs them.  A cached   *)
(* translation is used without looking at the tables; a write through one   *)
(* that does not carry the dirty bit walks the tables to set it.            *)
(***************************************************************************)
MayTouch(p, a) ==
    /\ cur = p /\ pc[p] = "user" /\ proctab[p].prpd # NoFrame
    /\ Stray \/ a < proctab[p].prpages * NBPG

Cached(v) == {e \in tlb : e.vpn = v}

BeingCopied(f) == \E h \in Proc : pc[h] = "copied" /\ job[h].frame = f

Put(p, v, f, x) ==
    /\ content' = [content EXCEPT ![f] = x]
    /\ mem' = [mem EXCEPT ![p][v] = x]
    /\ raced' = IF BeingCopied(f) THEN raced \cup {<<p, v>>} ELSE raced \ {<<p, v>>}

Write(p, a, x) ==
    LET v == PageOf(a) IN
    /\ MayTouch(p, a)
    /\ \/ \E e \in Cached(v) :
             /\ e.dirty
             /\ Put(p, v, e.base, x)
             /\ UNCHANGED <<ptmem, tlb>>
       \/ /\ \A e \in Cached(v) : ~e.dirty
          /\ Mapped(p, v)
          /\ Put(p, v, Pte(p, v).base, x)
          /\ ptmem' = SetPte(p, v, [Pte(p, v) EXCEPT !.dirty = TRUE])
          /\ tlb' = IF CacheTLB
                    THEN (tlb \ Cached(v))
                           \cup {[vpn |-> v, base |-> Pte(p, v).base, dirty |-> TRUE]}
                    ELSE tlb
    /\ UNCHANGED <<procVars, faultVars, frameVars, proctab, pdmem, bsVars, store,
                   created>>

\* A read that misses the TLB leaves the translation there.
Read(p, a) ==
    LET v == PageOf(a) IN
    /\ CacheTLB
    /\ MayTouch(p, a)
    /\ Cached(v) = {} /\ Mapped(p, v)
    /\ tlb' = tlb \cup {[vpn |-> v, base |-> Pte(p, v).base, dirty |-> Pte(p, v).dirty]}
    /\ UNCHANGED <<procVars, faultVars, frameVars, tableVars, bsVars, dataVars,
                   created, histVars>>

(***************************************************************************)
(* The page fault: the processor latches the address in CR2, and pfhandler  *)
(* first of all waits for prSem.                                            *)
(***************************************************************************)
Fault(p, a) ==
    /\ MayTouch(p, a)
    /\ \A e \in Cached(PageOf(a)) : ~e.dirty
    /\ ~Mapped(p, PageOf(a))
    /\ cr2' = a
    /\ fault' = [fault EXCEPT ![p] = a]
    /\ wait(p, "enter", "queued")
    /\ UNCHANGED <<victim, job, frameVars, tableVars, bsVars, dataVars, created, histVars>>

CallKill(p, t, how) ==
    /\ pc' = [pc EXCEPT ![p] = how]
    /\ victim' = [victim EXCEPT ![p] = t]

\* An address past the heap; the test accepts the first one past it.
pfhandlerOutOfRange(p) ==
    /\ cur = p /\ pc[p] = "enter"
    /\ cr2 > proctab[p].prpages * NBPG
    /\ CallKill(p, p, "lkill")
    /\ UNCHANGED <<cur, prSem, faultVars, frameVars, tableVars, tlb, bsVars, dataVars,
                   created, histVars>>

getPT(p, f) ==
    /\ FirstFree(DSFrame, f)
    /\ frametab' = [frametab EXCEPT ![f] = [@ EXCEPT !.type = "PT", !.pid = p]]
    /\ pdmem' = [pdmem EXCEPT ![proctab[p].prpd] = f]
    /\ ptmem' = [ptmem EXCEPT ![f] =
                   [v \in Vpn |-> [NoPte EXCEPT !.pres = (v = PageOf(cr2))]]]

\* The directory entry is missing: build a page table.  The entry of the page is
\* marked present before a frame for it is found.
pfhandlerNewTable(p) ==
    /\ cur = p /\ pc[p] = "enter"
    /\ cr2 <= proctab[p].prpages * NBPG
    /\ PTFrame(p) = NoFrame
    /\ \/ /\ \E f \in DSFrame : getPT(p, f)
          /\ pc' = [pc EXCEPT ![p] = "alloc"]
       \/ /\ NoneFree(DSFrame)
          /\ pc' = [pc EXCEPT ![p] = "lost"]
          /\ UNCHANGED <<frametab, pdmem, ptmem>>
    /\ job' = [job EXCEPT ![p].vpn = PageOf(cr2)]
    /\ UNCHANGED <<cur, prSem, victim, cr2, fault, fifo, proctab, tlb, bsVars, dataVars,
                   created, histVars>>

pfhandlerNewPage(p) ==
    /\ cur = p /\ pc[p] = "enter"
    /\ cr2 <= proctab[p].prpages * NBPG
    /\ PTFrame(p) # NoFrame /\ ~Mapped(p, PageOf(cr2))
    /\ ptmem' = SetPte(p, PageOf(cr2), [Pte(p, PageOf(cr2)) EXCEPT !.pres = TRUE])
    /\ pc' = [pc EXCEPT ![p] = "alloc"]
    /\ job' = [job EXCEPT ![p].vpn = PageOf(cr2)]
    /\ UNCHANGED <<cur, prSem, victim, cr2, fault, frameVars, proctab, pdmem, tlb, bsVars,
                   dataVars, created, histVars>>

\* Leave the handler: prSem goes back, the handler's locals are gone.
Leave(p) ==
    /\ signal(p, "user")
    /\ job' = [job EXCEPT ![p] = NoJob]
    /\ fault' = [fault EXCEPT ![p] = 0]

\* The page is there already: give prSem back and let the program retry.
pfhandlerNothing(p) ==
    /\ cur = p /\ pc[p] = "enter"
    /\ cr2 <= proctab[p].prpages * NBPG
    /\ Mapped(p, PageOf(cr2))
    /\ Leave(p)
    /\ UNCHANGED <<cur, victim, cr2, frameVars, tableVars, tlb, bsVars, dataVars,
                   created, histVars>>

(***************************************************************************)
(* getPFrame().  A free frame is taken as it is, whatever the page held      *)
(* before; when there is none a victim is written out if dirty, unmapped,    *)
(* and the page is read back if its store holds it.                          *)
(***************************************************************************)
addFifo(f) == fifo' = IF Policy = "FIFO" THEN Append(fifo, f) ELSE fifo

\* Mutation: the page index is computed again from CR2 after the disk request.
InstallAtCR2(p, f) ==
    /\ addFifo(f)
    /\ ptmem' = SetPte(p, PageOf(cr2), [Pte(p, PageOf(cr2)) EXCEPT !.base = f])
    /\ Leave(p)

\* Store the frame number in the page-table entry, give prSem back, return.
Install(p, f) ==
    /\ addFifo(f)
    /\ ptmem' = SetPte(p, job[p].vpn, [Pte(p, job[p].vpn) EXCEPT !.base = f])
    /\ Leave(p)

getPFrameFree(p) ==
    /\ cur = p /\ pc[p] = "alloc"
    /\ \E f \in PageFrame :
          /\ FirstFree(PageFrame, f)
          /\ frametab' = [frametab EXCEPT ![f] = [type |-> "PG", pid |-> p, vpn |-> job[p].vpn]]
          /\ Install(p, f)
    /\ UNCHANGED <<cur, victim, cr2, proctab, pdmem, tlb, bsVars, dataVars,
                   created, histVars>>

\* removeFifo() takes the oldest frame, removeRand() any.
Victim(f) ==
    /\ f \in PageFrame
    /\ Policy = "FIFO" => fifo # << >> /\ f = Head(fifo)

Owner(f) == frametab[f].pid
FramePte(f) == Pte(Owner(f), frametab[f].vpn)
StoreOf(f) == proctab[Owner(f)].prbsd

\* The frame outlived its owner, whose slot has a new directory without a page table.
Astray(f) == PTFrame(Owner(f)) = NoFrame

\* Mutation: removeFifo() leaves the frame in the list.
dropNothing == UNCHANGED fifo

dropHead == fifo' = IF Policy = "FIFO" THEN Tail(fifo) ELSE fifo

\* A clean victim is only unmapped.
removeClean(p) ==
    /\ cur = p /\ pc[p] = "alloc" /\ NoneFree(PageFrame)
    /\ \E f \in PageFrame :
          /\ Victim(f) /\ ~Astray(f) /\ ~FramePte(f).dirty
          /\ dropHead
          /\ ptmem' = SetPte(Owner(f), frametab[f].vpn, [FramePte(f) EXCEPT !.pres = FALSE])
          /\ frametab' = [frametab EXCEPT ![f] = FreeFrame]
          /\ job' = [job EXCEPT ![p].frame = f]
    /\ pc' = [pc EXCEPT ![p] = "assign"]
    /\ UNCHANGED <<cur, prSem, victim, cr2, fault, proctab, pdmem, tlb, bsVars, dataVars,
                   created, histVars>>

\* The victim's page-table entry would be read at physical address 0: undefined.
removeAstray(p) ==
    /\ cur = p /\ pc[p] = "alloc" /\ NoneFree(PageFrame)
    /\ \E f \in PageFrame : Victim(f) /\ Astray(f)
    /\ dropHead
    /\ pc' = [pc EXCEPT ![p] = "lost"]
    /\ UNCHANGED <<cur, prSem, victim, faultVars, frametab, tableVars, tlb, bsVars, dataVars,
                   created, histVars>>

Allocated(b) == b \in Store /\ bstab[b].isallocated

\* A dirty victim: isDirty() clears the bit, sendBs() opens the store.  If the store
\* cannot be opened or the page lies past its end, the owner is killed from here.
removeDirty(p) ==
    /\ cur = p /\ pc[p] = "alloc" /\ NoneFree(PageFrame)
    /\ \E f \in PageFrame :
          LET b == StoreOf(f) IN
          /\ Victim(f) /\ ~Astray(f) /\ FramePte(f).dirty
          /\ dropHead
          /\ ptmem' = SetPte(Owner(f), frametab[f].vpn, [FramePte(f) EXCEPT !.dirty = FALSE])
          /\ job' = [job EXCEPT ![p].frame = f, ![p].bs = b]
          /\ bstab' = IF Allocated(b) THEN [bstab EXCEPT ![b].usecount = @ + 1] ELSE bstab
          /\ IF Allocated(b) /\ frametab[f].vpn < bstab[b].npages
             THEN pc' = [pc EXCEPT ![p] = "evict"] /\ UNCHANGED victim
             ELSE CallKill(p, Owner(f), "lkill")
    /\ UNCHANGED <<cur, prSem, cr2, fault, frametab, proctab, pdmem, tlb, bsdtab, dataVars,
                   created, histVars>>

\* write_bs(): the frame is copied to the store; other processes may run before and after.
sendBsCopy(p) ==
    LET f == job[p].frame IN
    /\ cur = p /\ pc[p] = "evict"
    /\ store' = [store EXCEPT ![job[p].bs][frametab[f].vpn] = content[f]]
    /\ pc' = [pc EXCEPT ![p] = "copied"]
    /\ UNCHANGED <<cur, prSem, victim, faultVars, frameVars, tableVars, tlb, bsVars, content,
                   created, histVars>>

\* Mutation: the store's page is not marked BS_PRES.
sendBsDoneUnmarked(p) ==
    LET f == job[p].frame IN
    /\ cur = p /\ pc[p] = "copied"
    /\ bstab' = [bstab EXCEPT ![job[p].bs].usecount = @ - 1]
    /\ ptmem' = SetPte(Owner(f), frametab[f].vpn, [FramePte(f) EXCEPT !.pres = FALSE])
    /\ frametab' = [frametab EXCEPT ![f] = FreeFrame]
    /\ pc' = [pc EXCEPT ![p] = "assign"]
    /\ UNCHANGED <<cur, prSem, victim, faultVars, fifo, proctab, pdmem, tlb, bsdtab, dataVars,
                   created, histVars>>

\* close_bs(), the rest of sendBs(), updatePT(): the victim is unmapped.
sendBsDone(p) ==
    LET f == job[p].frame IN
    /\ cur = p /\ pc[p] = "copied"
    /\ bstab' = [bstab EXCEPT ![job[p].bs].usecount = @ - 1]
    /\ bsdtab' = [bsdtab EXCEPT ![StoreOf(f)][frametab[f].vpn] = "BS_PRES"]
    /\ ptmem' = SetPte(Owner(f), frametab[f].vpn, [FramePte(f) EXCEPT !.pres = FALSE])
    /\ frametab' = [frametab EXCEPT ![f] = FreeFrame]
    /\ pc' = [pc EXCEPT ![p] = "assign"]
    /\ UNCHANGED <<cur, prSem, victim, faultVars, fifo, proctab, pdmem, tlb, dataVars,
                   created, histVars>>

\* The frame gets its new owner; a page never written out needs nothing from the store.
assignFresh(p) ==
    LET f == job[p].frame IN
    /\ cur = p /\ pc[p] = "assign"
    /\ bsdtab[proctab[p].prbsd][job[p].vpn] = "BS_NPRES"
    /\ frametab' = [frametab EXCEPT ![f] = [type |-> "PG", pid |-> p, vpn |-> job[p].vpn]]
    /\ Install(p, f)
    /\ UNCHANGED <<cur, victim, cr2, proctab, pdmem, tlb, bsVars, dataVars,
                   created, histVars>>

\* Otherwise getBs() opens the store and reads; a failure kills the current process.
assignStored(p) ==
    LET f == job[p].frame
        b == proctab[p].prbsd
    IN
    /\ cur = p /\ pc[p] = "assign"
    /\ bsdtab[b][job[p].vpn] # "BS_NPRES"
    /\ frametab' = [frametab EXCEPT ![f] = [type |-> "PG", pid |-> p, vpn |-> job[p].vpn]]
    /\ bstab' = IF Allocated(b) THEN [bstab EXCEPT ![b].usecount = @ + 1] ELSE bstab
    /\ IF Allocated(b) /\ job[p].vpn < bstab[b].npages
       THEN pc' = [pc EXCEPT ![p] = "load"] /\ UNCHANGED victim
       ELSE CallKill(p, p, "lkill")
    /\ UNCHANGED <<cur, prSem, faultVars, fifo, tableVars, tlb, bsdtab, dataVars,
                   created, histVars>>

\* Mutation: getBs() returns without close_bs().
getBsDoneLeftOpen(p) ==
    LET f == job[p].frame
        b == proctab[p].prbsd
    IN
    /\ cur = p /\ pc[p] = "load"
    /\ content' = [content EXCEPT ![f] = store[b][job[p].vpn]]
    /\ Install(p, f)
    /\ UNCHANGED <<cur, victim, cr2, frametab, proctab, pdmem, tlb, bsVars, store,
                   created, histVars>>

getBsDone(p) ==
    LET f == job[p].frame
        b == proctab[p].prbsd
    IN
    /\ cur = p /\ pc[p] = "load"
    /\ content' = [content EXCEPT ![f] = store[b][job[p].vpn]]
    /\ bstab' = [bstab EXCEPT ![b].usecount = @ - 1]
    /\ Install(p, f)
    /\ UNCHANGED <<cur, victim, cr2, frametab, proctab, pdmem, tlb, bsdtab, store,
                   created, histVars>>

(***************************************************************************)
(* kill().  send() to the parent may reschedule before the stack goes; then  *)
(* the caller waits for prSem, and everything up to signal() is one section. *)
(***************************************************************************)
kill(p, t) ==
    /\ cur = p /\ pc[p] = "user"
    /\ \/ t = p /\ p \in Exits
       \/ t # p /\ t \in Targets
    /\ pc[t] # "free"
    /\ CallKill(p, t, "kill")
    /\ UNCHANGED <<cur, prSem, faultVars, frameVars, tableVars, tlb, bsVars, dataVars,
                   created, histVars>>

killWait(p) ==
    /\ cur = p /\ pc[p] \in {"kill", "lkill"}
    /\ wait(p, "killw", "killq")
    /\ UNCHANGED <<victim, faultVars, frameVars, tableVars, bsVars, dataVars, created,
                   histVars>>

Owned(t) == {f \in Frame : frametab[f].pid = t}

\* One turn of the loop of freeFrames() that finds a frame of the target.
freeFrames(p) ==
    /\ cur = p /\ pc[p] = "killw"
    /\ \E f \in Owned(victim[p]) :
          /\ \A g \in Owned(victim[p]) : f <= g
          /\ frametab' = [frametab EXCEPT ![f] = FreeFrame]
          /\ fifo' = IF frametab[f].type = "PG" /\ Policy = "FIFO" THEN Unlink(fifo, f) ELSE fifo
    /\ UNCHANGED <<procVars, faultVars, tableVars, tlb, bsVars, dataVars, created,
                   histVars>>

\* removeMapping(), which refuses to deallocate a store that is in use.
removeMapping(b) ==
    /\ bsdtab' = [bsdtab EXCEPT ![b] =
                    [v \in Vpn |-> IF v < bstab[b].npages THEN "BS_IGNORE" ELSE @[v]]]
    /\ bstab' = IF bstab[b].isallocated /\ bstab[b].usecount = 0
                THEN [bstab EXCEPT ![b] = [isallocated |-> FALSE, usecount |-> 0, npages |-> 0]]
                ELSE bstab

\* The end of kill()'s critical section; store 0 looks like "no store".
killUnmap(p) ==
    LET t == victim[p]
        b == proctab[t].prbsd
    IN
    /\ cur = p /\ pc[p] = "killw" /\ Owned(t) = {}
    /\ IF b = 0
       THEN UNCHANGED <<proctab, bsVars>>
       ELSE /\ proctab' = [proctab EXCEPT ![t].prbsd = 0]
            /\ IF b = SYSERR THEN UNCHANGED bsVars ELSE removeMapping(b)
    /\ signal(p, IF prSem.count < 0 THEN "killr" ELSE "killd")
    /\ UNCHANGED <<cur, victim, faultVars, frameVars, pdmem, ptmem, tlb, dataVars, created, histVars>>

\* Out of the critical section: the target leaves the queue it waits on and its slot
\* becomes free; a process that killed itself never returns.
killDone(p) ==
    LET t == victim[p] IN
    /\ cur = p /\ pc[p] \in {"killr", "killd"}
    /\ victim' = [victim EXCEPT ![p] = NoProc, ![t] = NoProc]
    /\ IF t = p
       THEN pc' = [pc EXCEPT ![p] = "free"] /\ resched
       ELSE pc' = [pc EXCEPT ![p] = "user", ![t] = "free"] /\ UNCHANGED <<cur, tlb>>
    /\ prSem' = IF pc[t] \in Waiting
                THEN [count |-> prSem.count + 1, queue |-> Unlink(prSem.queue, t)]
                ELSE prSem
    /\ mem' = [mem EXCEPT ![t] = [v \in Vpn |-> NoValue]]
    /\ raced' = {r \in raced : r[1] # t}
    /\ UNCHANGED <<faultVars, frameVars, tableVars, bsVars, dataVars, created>>

Handler(p) ==
    \/ pfhandlerOutOfRange(p) \/ pfhandlerNewTable(p)
    \/ pfhandlerNewPage(p) \/ pfhandlerNothing(p)
    \/ getPFrameFree(p) \/ removeAstray(p) \/ removeClean(p) \/ removeDirty(p)
    \/ sendBsCopy(p) \/ sendBsDone(p)
    \/ assignFresh(p) \/ assignStored(p) \/ getBsDone(p)

Killing(p) == killWait(p) \/ freeFrames(p) \/ killUnmap(p) \/ killDone(p)

Next ==
    \/ \E p \in Proc \cup {NULLPROC} : Switch(p)
    \/ \E p, q \in Proc : (\E n \in Sizes : vcreate(p, q, n)) \/ kill(p, q)
    \/ \E p \in Proc :
          \/ \E a \in Address : Read(p, a) \/ Fault(p, a) \/ \E x \in Writes[p] : Write(p, a, x)
          \/ Handler(p)
          \/ Killing(p)

Spec == Init /\ [][Next]_vars

(***************************************************************************)
(* Every runnable process is dispatched again and again (round robin among   *)
(* equal priorities at each clock quantum, resched.c), disk requests are     *)
(* answered, and a process in the handler or in kill() carries on when it    *)
(* has the processor.  Programs owe nothing.                                 *)
(***************************************************************************)
Fairness ==
    \A p \in Proc :
        /\ SF_vars(Switch(p))
        /\ SF_vars(Handler(p))
        /\ SF_vars(Killing(p))

FairSpec == Spec /\ Fairness

-------------------------------------------------------------------------------

TypeOK ==
    /\ pc \in [Proc -> PC]
    /\ cur \in Proc \cup {NULLPROC}
    /\ prSem \in [count : Int, queue : Seq(Proc)]
    /\ victim \in [Proc -> Proc \cup {NoProc}]
    /\ job \in [Proc -> [frame : Frame, vpn : Vpn, bs : Store \cup {SYSERR}]]
    /\ cr2 \in Address /\ fault \in [Proc -> Address]
    /\ frametab \in [Frame -> [type : {"FREE", "PD", "PT", "PG"},
                               pid : Proc \cup {NULLPROC}, vpn : Vpn]]
    /\ fifo \in Seq(PageFrame)
    /\ proctab \in [Proc -> [prpd : DSFrame \cup {NoFrame}, prpages : 0..MaxPages,
                             prbsd : Store \cup {SYSERR}]]
    /\ pdmem \in [DSFrame -> DSFrame \cup {NoFrame}]
    /\ ptmem \in [DSFrame -> [Vpn -> [pres : BOOLEAN, dirty : BOOLEAN, base : Frame]]]
    /\ tlb \subseteq [vpn : Vpn, base : PageFrame, dirty : BOOLEAN]
    /\ bstab \in [Store -> [isallocated : BOOLEAN, usecount : Nat, npages : 0..MaxPages]]
    /\ bsdtab \in [Store -> [Vpn -> {"BS_IGNORE", "BS_NPRES", "BS_PRES"}]]
    /\ content \in [PageFrame -> Value \cup {NoValue}]
    /\ store \in [Store -> [Vpn -> Value \cup {NoValue}]]
    /\ created \in 0..MaxCreate
    /\ mem \in [Proc -> [Vpn -> Value \cup {NoValue}]]
    /\ raced \subseteq Proc \X Vpn

InCritical(p) == pc[p] \in Critical
Live(p) == pc[p] \notin Dead
BeingKilled(p) == \E k \in Proc : victim[k] = p

\* prSem admits one process at a time to the paging structures, across every
\* hand-over by signal() and every kill() of a process that waits for it
\* (wait.c, signal.c, kill.c).
MutualExclusion == \A p, q \in Proc : InCritical(p) /\ InCritical(q) => p = q

\* The count of prSem and the processes agree: free means nobody holds it or waits;
\* otherwise the negated count is the number of waiting processes, each queued once.
PrSemConsistent ==
    /\ MutualExclusion
    /\ prSem.count <= 1
    /\ prSem.count = 1 => \A p \in Proc : ~InCritical(p)
    /\ Len(prSem.queue) = IF prSem.count = 1 THEN 0 ELSE 0 - prSem.count
    /\ \A i, j \in 1..Len(prSem.queue) : prSem.queue[i] = prSem.queue[j] => i = j
    /\ \A p \in Proc :
          pc[p] \in Waiting <=> \E i \in 1..Len(prSem.queue) : prSem.queue[i] = p

InService(p, v) ==
    pc[p] \in {"alloc", "evict", "copied", "assign", "load", "lkill", "lost"} /\ job[p].vpn = v

\* The inverted page table and the page tables describe the same mapping, whoever's
\* fault is being served: a page frame in use is mapped by its owner at the recorded
\* page, and a present page lies in a frame recorded as its own.  (The tables are well
\* typed, so no entry is an error code stored as a frame or a store.)
FrameTableConsistent ==
    /\ TypeOK
    /\ \A f \in PageFrame :
          LET p == Owner(f) IN
          frametab[f].type = "PG" /\ ~BeingKilled(p) =>
             /\ Live(p) /\ Mapped(p, frametab[f].vpn)
             /\ \/ Pte(p, frametab[f].vpn).base = f
                \/ pc[p] = "load" /\ job[p].frame = f
    /\ \A p \in Proc, v \in Vpn :
          Live(p) /\ ~BeingKilled(p) /\ Mapped(p, v) /\ ~InService(p, v) =>
             frametab[Pte(p, v).base] = [type |-> "PG", pid |-> p, vpn |-> v]

\* The replacement FIFO lists each page frame in use exactly once, the frame being
\* replaced excepted; so removeFifo(), called when no page frame is free, finds one,
\* and deleteFifo() never meets a frame that is not listed.
FifoExact ==
    /\ \A i, j \in 1..Len(fifo) : fifo[i] = fifo[j] => i = j
    /\ \A f \in PageFrame :
          (\E i \in 1..Len(fifo) : fifo[i] = f) <=>
             /\ frametab[f].type = "PG"
             /\ ~\E p \in Proc : pc[p] \in {"evict", "copied", "load"} /\ job[p].frame = f

\* Two running processes with heaps never page to the same backing store, and the store
\* they page to is allocated with their size.
StoreIsolation ==
    \A p, q \in Proc :
        Live(p) /\ ~BeingKilled(p) /\ proctab[p].prpages > 0 =>
           LET b == proctab[p].prbsd IN
           /\ bstab[b].isallocated /\ bstab[b].npages = proctab[p].prpages
           /\ Live(q) /\ ~BeingKilled(q) /\ proctab[q].prpages > 0 /\ q # p =>
                 proctab[q].prbsd # b

\* A store's use count is the number of transfers in progress on it, so that
\* deallocate_bs() at the end of a kill() never finds the store in use.
UseCountsBalanced ==
    \A b \in Store :
        bstab[b].usecount =
           Cardinality({p \in Proc : pc[p] \in {"evict", "copied"} /\ job[p].bs = b})
         + Cardinality({p \in Proc : pc[p] = "load" /\ proctab[p].prbsd = b})

\* What a page of p holds: the frame if the page is in one, the store otherwise.
Holds(p, v, x) ==
    IF Mapped(p, v) /\ ~InService(p, v)
    THEN content[Pte(p, v).base] = x
    ELSE LET b == proctab[p].prbsd IN bsdtab[b][v] = "BS_PRES" /\ store[b][v] = x

Intact(p, v) == mem[p][v] # NoValue => Holds(p, v, mem[p][v])

\* A page keeps the last value its process wrote through any number of evictions and
\* reloads, unless that write landed in a frame whose copy had already gone out.
DataPreserved ==
    \A p \in Proc, v \in Vpn :
        Live(p) /\ ~BeingKilled(p) /\ <<p, v>> \notin raced => Intact(p, v)

\* The address pfhandler reads from CR2 is the one its own process faulted on.
FaultAddressIsOwn == \A p \in Proc : cur = p /\ pc[p] = "enter" => cr2 = fault[p]

\* A translation the processor uses is the one in the page table.
TlbCoherent ==
    \A e \in tlb : Mapped(cur, e.vpn) /\ Pte(cur, e.vpn).base = e.base

\* kill() returns the store of the process it removes: a store is allocated only as long as
\* its process lives.  Store 0 is excepted, which kill() takes for "no store" (kill.c:41).
StoresReturned ==
    \A b \in Store \ {0} :
        bstab[b].isallocated =>
           \E p \in Proc : Live(p) /\ proctab[p].prpages > 0 /\ proctab[p].prbsd = b

\* The backing stores in use are those of the processes that live, each its own.
StoresOwned == StoreIsolation /\ StoresReturned

\* A page fault that waits for prSem is served: the process gets back to its program.
FaultServed == \A p \in Proc : pc[p] = "queued" ~> pc[p] = "user"
===============================================================================
