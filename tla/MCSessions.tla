------------------------------ MODULE MCSessions ------------------------------
(***************************************************************************)
(* Two logins and two requests under way at once; which of them is which,  *)
(* and which id is minted first, does not matter.                          *)
(***************************************************************************)
EXTENDS Sessions, TLC

Symmetry == Permutations(Ids) \cup Permutations(Logins) \cup Permutations(Requests)
=============================================================================
