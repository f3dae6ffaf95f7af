------------------------------ MODULE MCExecutor ------------------------------
(* TLC instances of Executor: the shortest plans that keep the status read    *)
(* third, a color frame behind it and two frames in one AW-ELC plan.          *)
EXTENDS Executor, TLC

ShortSteps == (KB :> 4) @@ (STATIC :> 1) @@ (POWER :> 2) @@ (STATUS :> 2)
=============================================================================
