--------------------------- MODULE MCSecondFactor ---------------------------
(***************************************************************************)
(* Instances of SecondFactor for TLC: the requests are alike, and so are   *)
(* the keys.                                                               *)
(***************************************************************************)
EXTENDS SecondFactor, TLC

Symmetry == Permutations(Handler) \cup Permutations(Key)
=============================================================================
