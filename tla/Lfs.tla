---------------------------------- MODULE Lfs ----------------------------------
(***************************************************************************)
(* The local file system (device/lfs) on its RAM disk: a directory sector,   *)
(* index blocks and data blocks on free lists or in files, the copy of the   *)
(* directory in memory, and a control block for every open file with the     *)
(* index block and the data block of its position.                          *)
(*                                                                          *)
(* open(), close(), read(), write(), seek(), control() keep interrupts off,   *)
(* and the RAM disk never waits: each call is one step, and the mutexes of  *)
(* the files and of the directory are free whenever a call begins.  Calls   *)
(* are written here one byte long; a longer one is several in a row.  The   *)
(* mode bits of an open file are never looked at again and are left out.    *)
(***************************************************************************)
EXTENDS Integers, Sequences, FiniteSets

LOCAL INSTANCE SequencesExt

CONSTANTS
    Name,              \* names of files
    Modes,             \* mode strings
    Byte,
    First, Rewritten,  \* bounds: the byte a file grows by, and the positions where others are written
    Nlfl, LF_NUM_DIR_ENT, LF_BLKSIZ, LF_IBLEN,
    lfiblks, dblks,    \* index and data blocks on the disk
    ibpersector,
    MaxSize            \* bound on the size of each file

VARIABLES
    fs,        \* lf_dir, lf_dirpresent, lf_dirdirty; and the disk: directory, index and data blocks
    lfltab,
    halted,    \* "no"; "panic"; "twice": a file on two pseudo-devices
    content,   \* history: what has been written to each file
    misread    \* history: has a read returned anything else?

lvars == <<fs, lfltab, halted, content, misread>>

NULL == -1                                  \* LF_INULL and LF_DNULL
LF_IDATA == LF_BLKSIZ * LF_IBLEN
IBlock == 0..(lfiblks - 1)
FirstD == (lfiblks + ibpersector - 1) \div ibpersector + 1
DBlock == FirstD..(FirstD + dblks - 1)
Slave == 0..(Nlfl - 1)

\* lfibclear()
Clear(offset) == [next |-> NULL, offset |-> offset, dba |-> [i \in 0..(LF_IBLEN - 1) |-> NULL]]

Filled == [i \in 0..(LF_BLKSIZ - 1) |-> "+"]
FreeBlock(next) == [next |-> next, data |-> Filled]
DataBlock(bytes) == [next |-> NULL, data |-> bytes]

Closed == [state |-> "free", name |-> CHOOSE n \in Name : TRUE, entry |-> 0, pos |-> 0, inum |-> NULL,
           iblock |-> Clear(0), dnum |-> NULL, dblock |-> Filled, byte |-> LF_BLKSIZ,
           ibdirty |-> FALSE, dbdirty |-> FALSE]
\* An open file at its start, with nothing of it in memory
Fresh(n, e) == [Closed EXCEPT !.state = "used", !.name = n, !.entry = e]

\* lfscreate(): lfd_ifree is 0 because the directory is zeroed
Created == [dfree |-> FirstD, ifree |-> 0, files |-> <<>>]
NextOf(b, last) == IF b = last THEN NULL ELSE b + 1

Init ==
    /\ fs = [dir |-> [dfree |-> 0, ifree |-> 0, files |-> <<>>], present |-> FALSE, dirty |-> FALSE,
             ddir |-> Created,
             iblk |-> [b \in IBlock |-> [Clear(0) EXCEPT !.next = NextOf(b, lfiblks - 1)]],
             dblk |-> [b \in DBlock |-> FreeBlock(NextOf(b, FirstD + dblks - 1))]]
    /\ lfltab = [i \in Slave |-> Closed]
    /\ halted = "no"
    /\ content = [n \in Name |-> <<>>]
    /\ misread = FALSE

\* The list that starts at block head
Chain(next, head) ==
    LET first[k \in 0..Cardinality(DOMAIN next)] ==
            IF k = 0 THEN <<>>
            ELSE LET s == first[k - 1]
                     b == IF s = <<>> THEN head ELSE next[s[Len(s)]]
                 IN IF b = NULL THEN s ELSE Append(s, b)
    IN first[Cardinality(DOMAIN next)]
Indexes(iblk, head) == Chain([b \in IBlock |-> iblk[b].next], head)

\* lfsckfmt() follows the free lists that the directory on the disk names.
lfsckfmt == [iblks |-> Indexes(fs.iblk, fs.ddir.ifree),
             dblks |-> Chain([b \in DBlock |-> fs.dblk[b].next], fs.ddir.dfree)]

(***************************************************************************)
(* Blocks.  A state in the middle of a call is s: the file system, the      *)
(* control block of the file, and whether there were blocks enough so far.  *)
(***************************************************************************)
WriteDir(f) == [f EXCEPT !.ddir = f.dir, !.dirty = FALSE]

\* lfibput() reads the sector of the index block, and writes it with the others as they are.
lfflush(s) ==
    [s EXCEPT
        !.fs = LET f == IF s.fs.dirty THEN WriteDir(s.fs) ELSE s.fs
                   g == IF s.c.dbdirty THEN [f EXCEPT !.dblk[s.c.dnum] = DataBlock(s.c.dblock)] ELSE f
               IN IF s.c.ibdirty THEN [g EXCEPT !.iblk[s.c.inum] = s.c.iblock] ELSE g,
        !.c.dbdirty = FALSE, !.c.ibdirty = FALSE]

\* The directory is written before anything else refers to the block.
lfiballoc(f) == WriteDir([f EXCEPT !.dir.ifree = f.iblk[@].next])
lfdballoc(f) == WriteDir([f EXCEPT !.dir.dfree = f.dblk[@].next])

\* The directory is written, and what else has changed in it with it; lf_dirdirty stays.
lfdbfree(f, d) ==
    LET dir == [f.dir EXCEPT !.dfree = d]
    IN [f EXCEPT !.dblk[d] = FreeBlock(f.dir.dfree), !.dir = dir, !.ddir = dir]

lfibget(s, ib) == [s EXCEPT !.c.inum = ib, !.c.iblock = s.fs.iblk[ib]]

\* The first index block of the file
firstIndex(s) ==
    LET ilist == s.fs.dir.files[s.c.entry].ilist
        ib == s.fs.dir.ifree
    IN CASE ilist # NULL -> lfibget(s, ilist)
         [] ilist = NULL /\ ib = NULL -> [s EXCEPT !.ok = FALSE]
         [] OTHER -> [s EXCEPT !.fs = [lfiballoc(s.fs) EXCEPT !.dir.files[s.c.entry].ilist = ib],
                               !.c = [s.c EXCEPT !.inum = ib, !.iblock = Clear(0), !.ibdirty = TRUE]]

\* Mutation: the old index block is not written with its link to the new one.
nextIndexUnlinked(s) ==
    LET ib == s.fs.dir.ifree
        t == [s EXCEPT !.c.dnum = NULL]
    IN CASE s.c.iblock.next # NULL -> lfibget(t, s.c.iblock.next)
         [] s.c.iblock.next = NULL /\ ib = NULL -> [s EXCEPT !.ok = FALSE]
         [] OTHER -> [t EXCEPT !.fs = lfiballoc(s.fs),
                               !.c.inum = ib, !.c.iblock = Clear(s.c.iblock.offset + LF_IDATA),
                               !.c.ibdirty = TRUE]

\* The index block after the one in memory; the data block in memory is none of its own.
nextIndex(s) ==
    LET ib == s.fs.dir.ifree
        t == [s EXCEPT !.c.dnum = NULL]
    IN CASE s.c.iblock.next # NULL -> lfibget(t, s.c.iblock.next)
         [] s.c.iblock.next = NULL /\ ib = NULL -> [s EXCEPT !.ok = FALSE]
         [] OTHER -> [t EXCEPT !.fs = [lfiballoc(s.fs) EXCEPT !.iblk[s.c.inum] = [s.c.iblock EXCEPT !.next = ib]],
                               !.c.inum = ib, !.c.iblock = Clear(s.c.iblock.offset + LF_IDATA),
                               !.c.ibdirty = TRUE]

\* The index block that covers the position
index(s) ==
    LET start == IF s.c.inum = NULL \/ s.c.pos < s.c.iblock.offset THEN firstIndex(s) ELSE s
        ahead == (s.c.pos - start.c.iblock.offset) \div LF_IDATA
        walk[k \in 0..ahead] == IF k = 0 THEN start ELSE nextIndex(walk[k - 1])
    IN IF start.ok THEN walk[ahead] ELSE start

\* The data block that covers the position, once the index block does
data(s) ==
    LET i == (s.c.pos % LF_IDATA) \div LF_BLKSIZ
        d == s.c.iblock.dba[i]
        new == s.fs.dir.dfree
    IN CASE ~s.ok \/ (d = NULL /\ new = NULL) -> [s EXCEPT !.ok = FALSE]
         [] s.ok /\ d = NULL /\ new # NULL ->
                [s EXCEPT !.fs = lfdballoc(s.fs), !.c.iblock.dba[i] = new, !.c.ibdirty = TRUE,
                          !.c.dblock = Filled, !.c.dnum = new]
         [] s.ok /\ d # NULL /\ d # s.c.dnum ->
                [s EXCEPT !.c.dblock = s.fs.dblk[d].data, !.c.dbdirty = FALSE, !.c.dnum = d]
         [] OTHER -> s

lfsetup(s) ==
    LET t == data(index(IF s.c.ibdirty \/ s.c.dbdirty THEN lfflush(s) ELSE s))
    IN [t EXCEPT !.c.byte = t.c.pos % LF_BLKSIZ]

Open(i) == lfltab[i].state = "used"
SizeOf(i) == fs.dir.files[lfltab[i].entry].size

\* File i before a call, and with its position in memory
Before(i) == [fs |-> fs, c |-> lfltab[i], ok |-> TRUE]
SetUp(i) == IF lfltab[i].byte = LF_BLKSIZ THEN lfsetup(Before(i)) ELSE Before(i)

Panics == halted' = "panic" /\ UNCHANGED <<fs, lfltab, content, misread>>
Commit(i, s) == fs' = s.fs /\ lfltab' = [lfltab EXCEPT ![i] = s.c] /\ UNCHANGED halted

(***************************************************************************)
(* Calls on an open file                                                    *)
(***************************************************************************)
lflgetc(i) ==
    /\ Open(i) /\ lfltab[i].pos < SizeOf(i)
    /\ LET s == SetUp(i)
           n == lfltab[i].name
       IN /\ Commit(i, [s EXCEPT !.c.byte = @ + 1, !.c.pos = @ + 1])
          /\ misread' = (misread \/ s.c.dblock[s.c.byte] # content[n][s.c.pos + 1])
    /\ UNCHANGED content

\* lflread() and lflwrite() call lflgetc() and lflputc() for one byte after another.
lflread(i) == lflgetc(i)

\* Bound: the bytes that processes write to file i at its position
Written(i) ==
    IF lfltab[i].pos >= SizeOf(i) THEN {First[lfltab[i].name]}
    ELSE {b \in Byte : lfltab[i].pos \in Rewritten} \ {First[lfltab[i].name]}

lflputc(i, b) ==
    /\ Open(i) /\ lfltab[i].pos < MaxSize[lfltab[i].name] /\ b \in Written(i)
    /\ LET s == SetUp(i)
           c == s.c
           n == c.name
           grows == c.pos >= SizeOf(i)
       IN IF ~s.ok THEN Panics
          ELSE /\ Commit(i, [s EXCEPT !.c = [c EXCEPT !.dblock[c.byte] = b, !.byte = @ + 1, !.pos = @ + 1,
                                                      !.dbdirty = TRUE],
                                      !.fs = IF grows THEN [s.fs EXCEPT !.dir.files[c.entry].size = @ + 1,
                                                                        !.dirty = TRUE]
                                             ELSE s.fs])
               /\ content' = [content EXCEPT ![n] = IF grows THEN Append(@, b) ELSE [@ EXCEPT ![c.pos + 1] = b]]
               /\ UNCHANGED misread

lflwrite(i, b) == lflputc(i, b)

\* The offsets that lflseek() accepts
Offsets(i) == IF Open(i) THEN 0..SizeOf(i) ELSE {}

lflseek(i, offset) ==
    /\ Open(i)
    /\ lfltab' = [lfltab EXCEPT ![i].pos = offset, ![i].byte = LF_BLKSIZ]
    /\ UNCHANGED <<fs, halted, content, misread>>

\* Frees the data blocks of index block ib, which becomes a block of the free list.
freeIndex(f, ib, ifree) ==
    LET dba == f.iblk[ib].dba
        freed[k \in 0..LF_IBLEN] ==
            IF k = 0 THEN f
            ELSE IF dba[k - 1] = NULL THEN freed[k - 1] ELSE lfdbfree(freed[k - 1], dba[k - 1])
    IN [freed[LF_IBLEN] EXCEPT
           !.iblk[ib] = [Clear(0) EXCEPT !.next = IF f.iblk[ib].next = NULL THEN ifree ELSE f.iblk[ib].next]]

\* Mutation: what is in memory is not written before the blocks are freed.
lftruncateNoFlush(s) ==
    LET firstib == s.fs.dir.files[s.c.entry].ilist
        ifree == s.fs.dir.ifree
        blocks == Indexes(s.fs.iblk, firstib)
        emptied == [s.fs EXCEPT !.dir.files[s.c.entry].ilist = NULL, !.dir.files[s.c.entry].size = 0, !.dirty = TRUE]
        freed[k \in 0..Len(blocks)] == IF k = 0 THEN emptied ELSE freeIndex(freed[k - 1], blocks[k], ifree)
    IN [s EXCEPT !.fs = [freed[Len(blocks)] EXCEPT !.dir.ifree = firstib],
                 !.c = Fresh(s.c.name, s.c.entry)]

\* lftruncate() of a file that is not empty
lftruncate(s) ==
    LET t == IF s.c.ibdirty \/ s.c.dbdirty THEN lfflush(s) ELSE s
        firstib == t.fs.dir.files[t.c.entry].ilist
        ifree == t.fs.dir.ifree
        blocks == Indexes(t.fs.iblk, firstib)
        emptied == [t.fs EXCEPT !.dir.files[t.c.entry].ilist = NULL, !.dir.files[t.c.entry].size = 0, !.dirty = TRUE]
        freed[k \in 0..Len(blocks)] == IF k = 0 THEN emptied ELSE freeIndex(freed[k - 1], blocks[k], ifree)
    IN [t EXCEPT !.fs = [freed[Len(blocks)] EXCEPT !.dir.ifree = firstib],
                 !.c = Fresh(t.c.name, t.c.entry)]

lflcontrol(i) ==
    /\ Open(i) /\ SizeOf(i) > 0
    /\ Commit(i, lftruncate(Before(i)))
    /\ content' = [content EXCEPT ![lfltab[i].name] = <<>>]
    /\ UNCHANGED misread

(***************************************************************************)
(* lfsopen() and lflclose().  The test for a file that is open already       *)
(* compares with lfname, which is always empty: the loop that copies the    *)
(* name stays at its first character (lfsopen.c:161).                       *)
(***************************************************************************)
OpenNames == {lfltab[i].name : i \in {j \in Slave : lfltab[j].state = "used"}}
FreeSlaves == {i \in Slave : lfltab[i].state = "free"}

\* Every character once, and not both "o" and "n"
lfgetmode(mode) ==
    /\ \A j, k \in DOMAIN mode : j # k => mode[j] # mode[k]
    /\ {mode[j] : j \in DOMAIN mode} \subseteq {"r", "w", "o", "n"}
    /\ ~ {"o", "n"} \subseteq {mode[j] : j \in DOMAIN mode}
Has(mode, ch) == \E j \in DOMAIN mode : mode[j] = ch

Entries(dir, n) == {e \in DOMAIN dir.files : dir.files[e].name = n}
LeastOf(S) == CHOOSE x \in S : \A y \in S : x <= y

lfsopen(n, mode) ==
    LET i == LeastOf(FreeSlaves)
        f == IF fs.present THEN fs ELSE [fs EXCEPT !.dir = fs.ddir, !.present = TRUE]
        found == Entries(f.dir, n)
        refused == IF found = {} THEN Has(mode, "o") \/ Len(f.dir.files) >= LF_NUM_DIR_ENT
                   ELSE Has(mode, "n")
        e == IF found = {} THEN Len(f.dir.files) + 1 ELSE LeastOf(found)
    IN /\ lfgetmode(mode) /\ FreeSlaves # {}
       /\ IF refused THEN fs' = f /\ UNCHANGED <<lfltab, halted>>
          ELSE /\ fs' = IF found # {} THEN f
                        ELSE [f EXCEPT !.dir.files = Append(@, [name |-> n, size |-> 0, ilist |-> NULL])]
               /\ lfltab' = [lfltab EXCEPT ![i] = Fresh(n, e)]
               /\ halted' = IF n \in OpenNames THEN "twice" ELSE halted
       /\ UNCHANGED <<content, misread>>

\* Mutation: the directory is not written when the blocks of the file are clean.
lflcloseClean(i) ==
    /\ Open(i)
    /\ fs' = IF lfltab[i].dbdirty \/ lfltab[i].ibdirty THEN lfflush(Before(i)).fs ELSE fs
    /\ lfltab' = [lfltab EXCEPT ![i] = Closed]
    /\ UNCHANGED <<halted, content, misread>>

lflclose(i) ==
    /\ Open(i)
    /\ fs' = IF fs.dirty \/ lfltab[i].dbdirty \/ lfltab[i].ibdirty THEN lfflush(Before(i)).fs ELSE fs
    /\ lfltab' = [lfltab EXCEPT ![i] = Closed]
    /\ UNCHANGED <<halted, content, misread>>

Next ==
    /\ halted = "no"
    /\ \/ \E i \in Slave : lflread(i) \/ lflcontrol(i) \/ lflclose(i)
       \/ \E i \in Slave, b \in Byte : lflwrite(i, b)
       \/ \E i \in Slave : \E offset \in Offsets(i) : lflseek(i, offset)
       \/ \E n \in Name, mode \in Modes : lfsopen(n, mode)

Spec == Init /\ [][Next]_lvars

(***************************************************************************)
(* Properties                                                               *)
(***************************************************************************)
Followed == halted \in {"no", "panic"}

IBlocks == [next : IBlock \cup {NULL}, offset : Nat, dba : [0..(LF_IBLEN - 1) -> DBlock \cup {NULL}]]
Blocks == [0..(LF_BLKSIZ - 1) -> Byte \cup {"+"}]

\* Index blocks and data blocks as they are, in memory or on the disk
IndexNow == [b \in IBlock |->
    LET in == {i \in Slave : lfltab[i].state = "used" /\ lfltab[i].inum = b /\ lfltab[i].ibdirty}
    IN IF in = {} THEN fs.iblk[b] ELSE lfltab[CHOOSE i \in in : TRUE].iblock]
DataNow == [d \in DBlock |->
    LET in == {i \in Slave : lfltab[i].state = "used" /\ lfltab[i].dnum = d /\ lfltab[i].dbdirty}
    IN IF in = {} THEN fs.dblk[d] ELSE DataBlock(lfltab[CHOOSE i \in in : TRUE].dblock)]
DirNow == IF fs.present THEN fs.dir ELSE fs.ddir

\* The data blocks that a list of index blocks refers to
Pointers(iblk, blocks) ==
    FlattenSeq([k \in DOMAIN blocks |->
                   SelectSeq([j \in 1..LF_IBLEN |-> iblk[blocks[k]].dba[j - 1]], LAMBDA d : d # NULL)])
Once(lists, blocks) ==
    LET all == FlattenSeq(lists)
    IN Len(all) = Cardinality(blocks) /\ {all[k] : k \in DOMAIN all} = blocks

\* The bytes of the file in entry e of directory dir, "none" where there is no block
Bytes(dir, iblk, dblk, e) ==
    LET blocks == Indexes(iblk, dir.files[e].ilist)
        block(k) == IF k \div LF_IDATA < Len(blocks)
                    THEN iblk[blocks[k \div LF_IDATA + 1]].dba[(k % LF_IDATA) \div LF_BLKSIZ] ELSE NULL
    IN [k \in 1..dir.files[e].size |->
           IF block(k - 1) = NULL THEN "none" ELSE dblk[block(k - 1)].data[(k - 1) % LF_BLKSIZ]]

\* Types of the file system: block numbers are numbers of blocks, the byte pointer points
\* into the data block or just past it, and a dirty block is a block (struct lflcblk).
LTypeOK ==
    /\ fs.iblk \in [IBlock -> IBlocks]
    /\ \A d \in DBlock : fs.dblk[d].next \in DBlock \cup {NULL} /\ fs.dblk[d].data \in Blocks
    /\ \A i \in Slave :
          LET c == lfltab[i]
          IN /\ c.state \in {"free", "used"} /\ c.name \in Name
             /\ c.pos \in 0..MaxSize[c.name] /\ c.byte \in 0..LF_BLKSIZ
             /\ c.inum \in IBlock \cup {NULL} /\ c.iblock \in IBlocks
             /\ c.dnum \in DBlock \cup {NULL} /\ c.dblock \in Blocks
             /\ c.ibdirty => c.inum # NULL
             /\ c.dbdirty => c.dnum # NULL
    /\ halted \in {"no", "panic", "twice"}

\* Every index block and every data block is on its free list or in one file, once, and a
\* file has no more data blocks than its size takes (lfiballoc, lfdballoc, lftruncate).
BlocksPartitioned ==
    Followed =>
        LET files == DirNow.files
            iblk == IndexNow
            indexes == <<Indexes(iblk, DirNow.ifree)>> \o [e \in DOMAIN files |-> Indexes(iblk, files[e].ilist)]
            datas == <<Chain([d \in DBlock |-> DataNow[d].next], DirNow.dfree)>> \o
                     [e \in DOMAIN files |-> Pointers(iblk, indexes[e + 1])]
        IN /\ Once(indexes, IBlock) /\ Once(datas, DBlock)
           /\ \A e \in DOMAIN files : Len(datas[e + 1]) = (files[e].size + LF_BLKSIZ - 1) \div LF_BLKSIZ

\* A file holds what was written to it, wherever its blocks are, and reads return that
\* (lfsetup, lflputc, lflgetc).
FileIsContent ==
    Followed =>
        /\ \A e \in DOMAIN DirNow.files :
              Bytes(DirNow, IndexNow, DataNow, e) = content[DirNow.files[e].name]
        /\ ~misread

\* What is in a closed file is on the disk, and can be found from the directory there; with
\* all files closed lfsckfmt() finds the blocks that are free.  The name of a file that was
\* created and never written is in memory only (lflclose, lfflush, lfsopen).
ClosedOnDisk ==
    Followed =>
        /\ \A n \in Name :
              content[n] = <<>> \/ n \in OpenNames \/
              \E e \in Entries(fs.ddir, n) : Bytes(fs.ddir, fs.iblk, fs.dblk, e) = content[n]
        /\ (halted = "no" /\ OpenNames = {}) =>
              /\ lfsckfmt.iblks = Indexes(fs.iblk, DirNow.ifree)
              /\ lfsckfmt.dblks = Chain([d \in DBlock |-> fs.dblk[d].next], DirNow.dfree)

\* No file is open on two pseudo-devices, each with its own idea of the blocks and the
\* position (lfsopen.c:46, "If named file is already open, return SYSERR").
OpenOnce ==
    \A i, j \in Slave :
        (i # j /\ lfltab[i].state = "used" /\ lfltab[j].state = "used") => lfltab[i].name # lfltab[j].name
===============================================================================
