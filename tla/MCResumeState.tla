---------------------------- MODULE MCResumeState ----------------------------
(* TLC instances of ResumeState. *)
EXTENDS ResumeState, TLC

Symmetry == Permutations(Writer)
=============================================================================
