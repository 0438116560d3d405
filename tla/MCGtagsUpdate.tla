--------------------------- MODULE MCGtagsUpdate ---------------------------
(* GtagsUpdate and its refinement, for TLC.  The paths that start on the   *)
(* same side of langmap are interchangeable.                               *)
EXTENDS GtagsRefines, TLC

PathSymmetry == Permutations(Sources) \cup Permutations(Paths \ Sources)

=============================================================================
