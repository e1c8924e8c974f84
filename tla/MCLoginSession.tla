--------------------------- MODULE MCLoginSession ---------------------------
(***************************************************************************)
(* Instances of LoginSession for TLC: requests are alike, and so are the   *)
(* passwords other than the default.                                       *)
(***************************************************************************)
EXTENDS LoginSession, TLC

Symmetry == Permutations(Request) \cup Permutations(Password \ {Default})
=============================================================================
