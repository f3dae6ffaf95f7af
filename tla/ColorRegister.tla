---------------------------- MODULE ColorRegister ----------------------------
(***************************************************************************)
(* What the resume state promises to the commands that write it and to the *)
(* helper that reads it: a register that always holds one whole version,   *)
(* replaced at once, together with the versions a power loss may bring     *)
(* back.  Version 0 is the absent file; a greater number is a later one.   *)
(***************************************************************************)
EXTENDS Naturals

VARIABLES
  value,    \* the version a reader finds
  safe      \* the versions a power loss may leave

vars == <<value, safe>>

Init == value = 0 /\ safe = {0}

\* A newer version replaces the register; it may or may not be durable yet.
Put ==
  /\ value' \in Nat
  /\ \A v \in safe : value' > v
  /\ safe' = safe \cup {value'}

\* Older versions are out of the reach of a power loss.
Settle ==
  /\ value' = value
  /\ value \in safe'
  /\ safe' \subseteq safe

\* A power loss leaves one of the versions that were safe, or no file.
Lose ==
  /\ value' \in safe
  /\ safe' = {value'}

Next == Put \/ Settle \/ Lose

Spec == Init /\ [][Next]_vars
=============================================================================
