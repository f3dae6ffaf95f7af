------------------------------ MODULE MCRestore ------------------------------
(* TLC instances of Restore: two zones where a stage has several, one for the *)
(* combined AW static plan.                                                   *)
EXTENDS Restore, TLC

FewZones == (KB :> 2) @@ (STATIC :> 1) @@ (POWER :> 2)
=============================================================================
