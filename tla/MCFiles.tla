-------------------------------- MODULE MCFiles --------------------------------
(***************************************************************************)
(* Lfs for TLC: file f may grow into a second index block, g into its only  *)
(* data block, and the blocks of both kinds and the entries of the          *)
(* directory may run out.                                                   *)
(***************************************************************************)
EXTENDS Lfs

MCModes == {<<>>, <<"o">>, <<"n", "r">>, <<"o", "n">>}
MCFirst == [n \in Name |-> IF n = "f" THEN "a" ELSE "b"]
MCMaxSize == [n \in Name |-> CASE n = "f" -> 5 [] n = "g" -> 2 [] OTHER -> 0]
===============================================================================
