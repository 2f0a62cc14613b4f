------------------------------- MODULE MCPaging -------------------------------
(* Instances of Paging for TLC.  Processes are model values: main() and two    *)
(* children, p1 to p3.                                                         *)
EXTENDS Paging, TLC

CONSTANTS m0, p1, p2, p3

\* A process writes its own name; or only p1 writes, or p1 and p2.
OwnName == [p \in Proc |-> {p}]
OnlyFirst == [p \in Proc |-> IF p = p1 THEN {p1} ELSE {}]
FirstTwo == [p \in Proc |-> IF p \in {p1, p2} THEN {p} ELSE {}]

\* The children are interchangeable.
Children == Permutations(Proc \ {Main})
===============================================================================
