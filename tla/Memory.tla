--------------------------------- MODULE Memory --------------------------------
(***************************************************************************)
(* Memory: the heap and the stacks (getmem, getstk, freemem), the virtual   *)
(* heap of a process (vgetmem, vfreemem), and the buffer pools that         *)
(* mkbufpool() cuts out of the heap (getbuf, freebuf).                      *)
(*                                                                          *)
(* The unit is a word of four bytes; a block of the free list starts with a *)
(* struct memblk of two words, so sizes are rounded to two.  A free list is *)
(* a sequence of blocks.  Interrupts are disabled in every call; only       *)
(* getbuf() waits.  A vgetmem() may fault, and others run meanwhile, but    *)
(* its list is its process's own.                                           *)
(***************************************************************************)
EXTENDS Semaphores, Tables, FiniteSets

CONSTANTS
    BufUser,     \* processes that use the buffer pool
    HeapWords,   \* maxheap - minheap
    VHeapWords,  \* size of the virtual heap
    Requests,    \* arguments of getmem() and getstk()
    VRequests,   \* arguments of vgetmem()
    BufSize, NumBufs,   \* arguments of mkbufpool()
    MaxOwned     \* bound: blocks that are allocated at a time

\* Both heaps begin and end at a page (ld.script aligns the end of the image); getmem(),
\* getstk() and vgetmem() refuse a request for nothing.
ASSUME MemoryAssumption ==
    /\ IsFiniteSet(BufUser)
    /\ HeapWords \in Nat \ {0} /\ HeapWords % 2 = 0 /\ VHeapWords \in Nat \ {0} /\ VHeapWords % 2 = 0
    /\ Requests \subseteq Nat \ {0} /\ VRequests \subseteq Nat \ {0}
    /\ BufSize \in Nat \ {0} /\ NumBufs \in Nat \ {0} /\ MaxOwned \in Nat

VARIABLES
    memlist,     \* free blocks of the heap, by address
    memlength,   \* memlist.mlength
    vheap,       \* prhasheap and the free list of the process with a virtual heap
    owned,       \* blocks in use: heap, stack or virtual, with the size asked for
    leaked,      \* words of the heap that nobody will free
    pool,        \* the buffer pool: its memory, its free buffers and its semaphore
    held,        \* buffers in use
    getting,     \* processes between wait() and the end of getbuf()
    drift        \* history: what processes with a virtual heap left in memlength

mvars == <<memlist, memlength, vheap, owned, leaked, pool, held, getting, drift>>

roundmb(n) == 2 * ((n + 1) \div 2)

Words(at, n) == at..(at + n - 1)

NoPool == [made |-> FALSE, at |-> 0, list |-> <<>>, bpsem |-> NoSemaphore]

NoHeap == [prhasheap |-> FALSE, list |-> <<>>]

\* meminit(), bufinit(), and a process made by vcreate()
meminit ==
    /\ memlist = <<[at |-> 0, len |-> HeapWords]>>
    /\ memlength = HeapWords
    /\ vheap = NoHeap
    /\ owned = {} /\ leaked = {}
    /\ pool = NoPool
    /\ held = {} /\ getting = {}
    /\ drift = 0

(***************************************************************************)
(* Free lists.                                                              *)
(***************************************************************************)
Fits(list, n) == {i \in 1..Len(list) : list[i].len >= n}
Highest(S) == {i \in S : \A j \in S : j <= i}

\* list without n words at the bottom, or at the top, of its i-th block
Cut(list, i, n, bottom) ==
    IF list[i].len = n THEN SubSeq(list, 1, i - 1) \o SubSeq(list, i + 1, Len(list))
    ELSE [list EXCEPT ![i] = [at |-> IF bottom THEN @.at + n ELSE @.at, len |-> @.len - n]]

\* Mutation: a block is joined to the one above and never to the one below.
ReturnedUpwards(list, at, n) ==
    LET i == Cardinality({k \in 1..Len(list) : list[k].at < at})
        above == i < Len(list) /\ at + n = list[i + 1].at
        block == [at |-> at, len |-> IF above THEN n + list[i + 1].len ELSE n]
    IN  SubSeq(list, 1, i) \o <<block>> \o SubSeq(list, IF above THEN i + 2 ELSE i + 1, Len(list))

\* list with the block put back, joined to its neighbours
Returned(list, at, n) ==
    LET i == Cardinality({k \in 1..Len(list) : list[k].at < at})
        below == i > 0 /\ list[i].at + list[i].len = at
        above == i < Len(list) /\ at + n = list[i + 1].at
        block == [at  |-> IF below THEN list[i].at ELSE at,
                  len |-> (IF below THEN list[i].len ELSE 0) + n + (IF above THEN list[i + 1].len ELSE 0)]
    IN  SubSeq(list, 1, IF below THEN i - 1 ELSE i) \o <<block>>
            \o SubSeq(list, IF above THEN i + 2 ELSE i + 1, Len(list))

\* The tests of freemem() against the blocks below and above.
Overlaps(list, at, n) ==
    LET i == Cardinality({k \in 1..Len(list) : list[k].at < at})
    IN  (i > 0 /\ at < list[i].at + list[i].len) \/ (i < Len(list) /\ at + n > list[i + 1].at)

(***************************************************************************)
(* The heap.                                                                *)
(***************************************************************************)
Allowed == Cardinality(owned) < MaxOwned

\* What getmem(n) and getstk(n) take: n words at the bottom of the first block that is
\* large enough, at the top of the last one.  Empty when there is none (SYSERR).
getmemAt(n) == {[i |-> i, at |-> memlist[i].at] : i \in First(Fits(memlist, roundmb(n)))}
getstkAt(n) == {[i |-> i, at |-> memlist[i].at + memlist[i].len - roundmb(n)] :
                    i \in Highest(Fits(memlist, roundmb(n)))}

take(n, where, bottom) ==
    /\ memlist' = Cut(memlist, where.i, roundmb(n), bottom)
    /\ memlength' = memlength - roundmb(n)

getmem(n) ==
    /\ Allowed
    /\ \E where \in getmemAt(n) :
        /\ take(n, where, TRUE)
        /\ owned' = owned \cup {[kind |-> "heap", at |-> where.at, size |-> n]}
    /\ UNCHANGED <<vheap, leaked, pool, held, getting, drift>>

\* The caller has the address of the highest word.
getstk(n) ==
    /\ Allowed
    /\ \E where \in getstkAt(n) :
        /\ take(n, where, FALSE)
        /\ owned' = owned \cup {[kind |-> "stack", at |-> where.at + roundmb(n) - 1, size |-> n]}
    /\ UNCHANGED <<vheap, leaked, pool, held, getting, drift>>

\* create() and vcreate() take the stack before they look for a slot of proctab.
createFails(n) ==
    /\ \E where \in getstkAt(n) :
        /\ take(n, where, FALSE)
        /\ leaked' = leaked \cup Words(where.at, roundmb(n))
    /\ UNCHANGED <<vheap, owned, pool, held, getting, drift>>

giveBack(at, n) ==
    /\ memlist' = Returned(memlist, at, roundmb(n))
    /\ memlength' = memlength + roundmb(n)

freemem(b) ==
    /\ b.kind = "heap"
    /\ ~Overlaps(memlist, b.at, roundmb(b.size))
    /\ giveBack(b.at, b.size)
    /\ owned' = owned \ {b}
    /\ UNCHANGED <<vheap, leaked, pool, held, getting, drift>>

freestk(b) ==
    /\ b.kind = "stack"
    /\ ~Overlaps(memlist, b.at - roundmb(b.size) + 1, roundmb(b.size))
    /\ giveBack(b.at - roundmb(b.size) + 1, b.size)
    /\ owned' = owned \ {b}
    /\ UNCHANGED <<vheap, leaked, pool, held, getting, drift>>

\* A block that was freed before and is still free: refused if it overlaps the list.
freeAgain(at, n) ==
    /\ \E i \in 1..Len(memlist) : Words(at, roundmb(n)) \subseteq Words(memlist[i].at, memlist[i].len)
    /\ IF Overlaps(memlist, at, roundmb(n)) THEN UNCHANGED <<memlist, memlength>> ELSE giveBack(at, n)
    /\ UNCHANGED <<vheap, owned, leaked, pool, held, getting, drift>>

(***************************************************************************)
(* The virtual heap.  Its size is set up by vcreate(); the list begins with *)
(* the first vgetmem().  The words are counted in memlist.mlength, like     *)
(* those of the heap.                                                       *)
(***************************************************************************)
vlist == IF vheap.prhasheap THEN vheap.list ELSE <<[at |-> 0, len |-> VHeapWords]>>

vgetmem(n) ==
    /\ Allowed
    /\ IF Fits(vlist, roundmb(n)) = {}
       THEN vheap' = [prhasheap |-> TRUE, list |-> vlist] /\ UNCHANGED <<memlength, owned>>
       ELSE \E i \in First(Fits(vlist, roundmb(n))) :
              /\ vheap' = [prhasheap |-> TRUE, list |-> Cut(vlist, i, roundmb(n), TRUE)]
              /\ owned' = owned \cup {[kind |-> "virtual", at |-> vlist[i].at, size |-> n]}
              /\ memlength' = memlength - roundmb(n)
    /\ UNCHANGED <<memlist, leaked, pool, held, getting, drift>>

vfreemem(b) ==
    /\ b.kind = "virtual" /\ vheap.prhasheap
    /\ ~Overlaps(vheap.list, b.at, roundmb(b.size))
    /\ vheap' = [vheap EXCEPT !.list = Returned(@, b.at, roundmb(b.size))]
    /\ memlength' = memlength + roundmb(b.size)
    /\ owned' = owned \ {b}
    /\ UNCHANGED <<memlist, leaked, pool, held, getting, drift>>

\* The words of a block in use
Extent(b) ==
    IF b.kind = "stack" THEN Words(b.at - roundmb(b.size) + 1, roundmb(b.size))
    ELSE Words(b.at, roundmb(b.size))

\* The process ends, and another one is made: what it had stays counted as in use.
vend ==
    /\ vheap.prhasheap
    /\ LET gone == {b \in owned : b.kind = "virtual"}
           lost == Cardinality(UNION {Extent(b) : b \in gone})
       IN  /\ owned' = owned \ gone
           /\ drift + lost <= VHeapWords
           /\ drift' = drift + lost
    /\ vheap' = NoHeap
    /\ UNCHANGED <<memlist, memlength, leaked, pool, held, getting>>

(***************************************************************************)
(* Buffer pools.  The first word of a buffer in use is the number of its    *)
(* pool.                                                                    *)
(***************************************************************************)
poolWords == NumBufs * (BufSize + 1)

\* When there is no semaphore left the memory is not given back.
mkbufpool(created) ==
    /\ ~pool.made
    /\ \E where \in getmemAt(poolWords) :
        /\ take(poolWords, where, TRUE)
        /\ IF created
           THEN /\ pool' = [made |-> TRUE, at |-> where.at,
                            list |-> [i \in 1..NumBufs |-> where.at + (i - 1) * (BufSize + 1)],
                            bpsem |-> Semaphore(NumBufs)]
                /\ UNCHANGED leaked
           ELSE leaked' = leaked \cup Words(where.at, roundmb(poolWords)) /\ UNCHANGED pool
    /\ UNCHANGED <<vheap, owned, held, getting, drift>>

getbuf(p) ==
    /\ pool.made /\ p \notin getting
    /\ pool' = [pool EXCEPT !.bpsem = Wait(@, p)]
    /\ getting' = getting \cup {p}
    /\ UNCHANGED <<memlist, memlength, vheap, owned, leaked, held, drift>>

getbufTake(p) ==
    /\ p \in getting /\ ~Waits(pool.bpsem, p)
    /\ pool' = [pool EXCEPT !.list = Tail(@)]
    /\ held' = held \cup {Head(pool.list)}
    /\ getting' = getting \ {p}
    /\ UNCHANGED <<memlist, memlength, vheap, owned, leaked, drift>>

freebuf(buf) ==
    /\ pool' = [pool EXCEPT !.list = <<buf>> \o @, !.bpsem = Signal(@)]
    /\ held' = held \ {buf}
    /\ UNCHANGED <<memlist, memlength, vheap, owned, leaked, getting, drift>>

MemNext ==
    \/ \E n \in Requests : getmem(n) \/ getstk(n) \/ createFails(n)
    \/ \E b \in owned : freemem(b) \/ freestk(b) \/ vfreemem(b)
    \/ \E at \in {2 * i : i \in 0..(HeapWords \div 2)}, n \in Requests : freeAgain(at, n)
    \/ \E n \in VRequests : vgetmem(n)
    \/ vend
    \/ \E created \in BOOLEAN : mkbufpool(created)
    \/ \E p \in BufUser : getbuf(p) \/ getbufTake(p)
    \/ \E buf \in held : freebuf(buf)

MemSpec == meminit /\ [][MemNext]_mvars

MTypeOK ==
    /\ memlist \in Seq([at : 0..HeapWords, len : 1..HeapWords])
    /\ memlength \in (0 - VHeapWords - HeapWords)..HeapWords
    /\ vheap \in [prhasheap : BOOLEAN, list : Seq([at : 0..VHeapWords, len : 1..VHeapWords])]
    /\ owned \subseteq [kind : {"heap", "stack", "virtual"}, at : 0..(HeapWords + VHeapWords),
                         size : Requests \cup VRequests]
    /\ leaked \subseteq 0..HeapWords
    /\ pool \in [made : BOOLEAN, at : 0..HeapWords, list : Seq(0..HeapWords),
                  bpsem : [used : BOOLEAN, count : Int, queue : Seq(BufUser)]]
    /\ held \subseteq 0..HeapWords /\ getting \subseteq BufUser
    /\ drift \in 0..VHeapWords

Uses == {Extent(b) : b \in {c \in owned : c.kind # "virtual"}}
            \cup (IF leaked = {} THEN {} ELSE {leaked})
            \cup (IF pool.made THEN {Words(pool.at, roundmb(poolWords))} ELSE {})

\* Sorted blocks of an even size with something in use between any two of them.
Coalesced(list) ==
    /\ \A i \in 1..Len(list) : list[i].at % 2 = 0 /\ list[i].len % 2 = 0
    /\ \A i \in 1..(Len(list) - 1) : list[i].at + list[i].len < list[i + 1].at

\* The free blocks and the blocks in use make up the region, without overlap.
Partition(list, uses, n) ==
    /\ \A w \in 0..(n - 1) :
          Cardinality({i \in 1..Len(list) : w \in Words(list[i].at, list[i].len)})
             + Cardinality({u \in uses : w \in u}) = 1

\* After any sequence of getmem(), getstk() and mkbufpool() from both ends of the heap
\* and of frees in any order, double frees included, each word of the heap is free, in one
\* block in use, or lost by a create() or mkbufpool() that failed half-way; no two free
\* blocks touch, so a request fails only when no gap is large enough; and the same of the
\* virtual heap.  The common counter memlist.mlength is what is free less what was
\* allocated in virtual heaps, those of processes that have ended included.
HeapPartitioned ==
    /\ Coalesced(memlist) /\ Partition(memlist, Uses, HeapWords)
    /\ Coalesced(vlist) /\ Partition(vlist, {Extent(b) : b \in {c \in owned : c.kind = "virtual"}}, VHeapWords)
    /\ memlength = Cardinality(UNION {Words(memlist[i].at, memlist[i].len) : i \in 1..Len(memlist)})
                    + Cardinality(UNION {Words(vlist[i].at, vlist[i].len) : i \in 1..Len(vlist)})
                    - VHeapWords - drift

\* A process that getbuf() lets in finds a buffer, however many were freed and taken
\* between its wait() and its turn: the list has as many buffers as the semaphore counts
\* and processes let in; the buffers on the list and in use are those of the pool, each
\* once, and lie in its memory without overlap.
PoolExact ==
    pool.made =>
        /\ CountIsQueue(pool.bpsem)
        /\ Len(pool.list) = (IF pool.bpsem.count > 0 THEN pool.bpsem.count ELSE 0)
                              + Cardinality({p \in getting : ~Waits(pool.bpsem, p)})
        /\ Len(pool.list) + Cardinality(held) = NumBufs
        /\ \A b \in held : \A i \in 1..Len(pool.list) : pool.list[i] # b
        /\ \A i, j \in 1..Len(pool.list) : pool.list[i] = pool.list[j] => i = j
        /\ UNION {Words(b, BufSize + 1) : b \in held \cup {pool.list[i] : i \in 1..Len(pool.list)}}
                = Words(pool.at, poolWords)

\* Free blocks, blocks in use and buffers make up the heap, and a process that getbuf()
\* lets in finds a buffer.
MemoryExact == HeapPartitioned /\ PoolExact
===============================================================================
