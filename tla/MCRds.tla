-------------------------------- MODULE MCRds ---------------------------------
(* Instances of Rds for TLC.  Paging uses the device with prSem held, so there is *)
(* one client; the only other program that uses it is the shell's test of it.     *)
EXTENDS Rds, TLC

CONSTANTS c1, v1

Everything == (c1 :> {"open", "close", "read", "write", "notice"})

\* What the file holds when the system starts.
Uniform == [b \in Block |-> v1]

Symmetry == Permutations(Buf) \cup Permutations(Block)
===============================================================================
