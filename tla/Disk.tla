--------------------------------- MODULE Disk ---------------------------------
(***************************************************************************)
(* What the users of the remote disk count on: a memory of blocks.  A write *)
(* takes effect at once, and a read returns what was written last.  The     *)
(* paging model uses its backing stores in this way.                        *)
(***************************************************************************)
CONSTANTS Client, Block, Value,
          Hole     \* a block that was never written

VARIABLES
    mem,      \* the content of each block
    answer    \* the last block each client read, with what it got

Nothing == [blk |-> Hole, val |-> Hole]

Init ==
    /\ mem \in [Block -> Value \cup {Hole}]
    /\ answer = [c \in Client |-> Nothing]

Write(b, v) ==
    /\ mem' = [mem EXCEPT ![b] = v]
    /\ UNCHANGED answer

Read(c, b) ==
    /\ mem[b] # Hole
    /\ answer' = [answer EXCEPT ![c] = [blk |-> b, val |-> mem[b]]]
    /\ UNCHANGED mem

Next == \E b \in Block : \/ \E v \in Value : Write(b, v)
                         \/ \E c \in Client : Read(c, b)

Spec == Init /\ [][Next]_<<mem, answer>>
===============================================================================
