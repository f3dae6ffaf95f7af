---------------------------- MODULE DeviceSession ----------------------------
(***************************************************************************)
(* What the AW-ELC transport promises about the controller, whatever the   *)
(* steps of the kernel-driver handoff are: a process writes only inside a  *)
(* session it alone holds, and each session presents the frames of its     *)
(* plan to the controller in order from the first one, none twice and none *)
(* skipped.  A session may end anywhere: there is no retry and no rollback.*)
(***************************************************************************)
EXTENDS Naturals

CONSTANTS
  Proc,     \* the operating-system processes that may run alienrgb
  None,     \* no process
  Frames    \* the number of frames of one canonical plan

VARIABLES
  holder,   \* the process whose session is open, or None
  next,     \* the frame the open session presents next
  wire      \* the last frame the controller took, and whose it was

vars == <<holder, next, wire>>

Frame == [by : Proc \cup {None}, frame : 0..Frames]

Init ==
  /\ holder = None
  /\ next = 1
  /\ wire = [by |-> None, frame |-> 0]

\* A session opens only when no other one is open.
Open(p) ==
  /\ holder = None
  /\ holder' = p
  /\ next' = 1
  /\ UNCHANGED wire

\* The controller takes the next frame of the plan from the session's holder.
Take(p) ==
  /\ holder = p
  /\ next <= Frames
  /\ wire' = [by |-> p, frame |-> next]
  /\ next' = next + 1
  /\ UNCHANGED holder

\* The session ends, after any number of frames.
Close(p) ==
  /\ holder = p
  /\ holder' = None
  /\ next' = 1
  /\ UNCHANGED wire

Next == \E p \in Proc : Open(p) \/ Take(p) \/ Close(p)

Spec == Init /\ [][Next]_vars
=============================================================================
