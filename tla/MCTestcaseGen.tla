--------------------------- MODULE MCTestcaseGen ----------------------------
(* Instances of TestcaseGen for TLC.                                       *)
EXTENDS TestcaseGen, TLC

\* Submissions are alike.
Symmetry == Permutations(Subs)
=============================================================================
