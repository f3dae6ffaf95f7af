--------------------------- MODULE MCAwElcHandoff ---------------------------
(* TLC instances of AwElcHandoff: the processes, frames and bounds are given  *)
(* by the configurations.                                                     *)
EXTENDS AwElcHandoff
=============================================================================
