----------------------------- MODULE MCSession ------------------------------
(***************************************************************************)
(* Session for TLC: the files are alike.                                   *)
(***************************************************************************)
EXTENDS Session, TLC

Symmetry == Permutations(Files)

=============================================================================
