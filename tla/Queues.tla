-------------------------------- MODULE Queues --------------------------------
(***************************************************************************)
(* The queues of queuetab (insert.c, insertd.c, queue.c, getitem.c) and the *)
(* doubly linked lists built like them, as sequences.  A process is on one  *)
(* queue at a time, so its node, and its key, are found from the process:   *)
(* keys are a function of the elements.                                     *)
(***************************************************************************)
EXTENDS Integers, Sequences

\* x is on s; no element is on s twice
On(x, s) == \E i \in 1..Len(s) : s[i] = x
Once(s)  == \A i, j \in 1..Len(s) : s[i] = s[j] => i = j

\* s without its i-th element
DropAt(s, i) ==
    [j \in 1..(Len(s) - 1) |-> IF j < i THEN s[j] ELSE s[j + 1]]

\* Mutation: the element stays in the queue.
UnlinkNothing(s, x) == s

\* getitem() and deleteFifo(): take one element out of a queue, if it is there
Unlink(s, x) ==
    IF On(x, s)
    THEN DropAt(s, CHOOSE i \in 1..Len(s) : s[i] = x)
    ELSE s

\* s with x put in after its i-th element
InsertAfter(s, i, x) ==
    [j \in 1..(Len(s) + 1) |-> IF j <= i THEN s[j] ELSE IF j = i + 1 THEN x ELSE s[j - 1]]

\* s from the last element to the first
Backwards(s) == [i \in 1..Len(s) |-> s[Len(s) + 1 - i]]

\* insert(): keys descend, and x goes behind the elements with a key equal to its own.
\* The walk ends at one place, so this is a set of one queue.
Insert(s, key, x, k) ==
    {InsertAfter(s, i, x) : i \in
        {i \in 0..Len(s) : /\ \A j \in 1..i : key[s[j]] >= k
                           /\ i < Len(s) => key[s[i + 1]] < k}}

\* Time until the i-th element of a delta list is due: the sum of the keys up to it.
DueIn(s, key, i) ==
    LET sum[j \in 0..Len(s)] == IF j = 0 THEN 0 ELSE sum[j - 1] + key[s[j]]
    IN  sum[i]

\* insertd(): the places in a delta list where the walk with delay k can end
DeltaPlaces(s, key, k) ==
    {i \in 0..Len(s) : /\ \A j \in 1..i : DueIn(s, key, j) <= k
                       /\ i < Len(s) => DueIn(s, key, i + 1) > k}
===============================================================================
