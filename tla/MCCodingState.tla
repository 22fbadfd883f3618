--------------------------- MODULE MCCodingState ----------------------------
(* Instances of CodingState for TLC.                                       *)
EXTENDS CodingState, TLC

\* Callers are alike, and so are users.
Symmetry == Permutations(Callers) \cup Permutations(Users)
=============================================================================
