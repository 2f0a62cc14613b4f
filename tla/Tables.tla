-------------------------------- MODULE Tables --------------------------------
(***************************************************************************)
(* Searches that walk through a table, or a list, from its first entry on.  *)
(***************************************************************************)
EXTENDS Integers

\* The first of the entries S, as a set: empty when the search finds none.
First(S) == {s \in S : \A t \in S : s <= t}
===============================================================================
