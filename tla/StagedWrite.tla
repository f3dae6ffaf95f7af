------------------------------ MODULE StagedWrite ------------------------------
(***************************************************************************)
(* What a live command promises to the controllers and to the state file,  *)
(* whatever guards, claims and error paths carry it: the parts of a plan   *)
(* are written in their order, each frame of a part once and in order, and *)
(* the first thing that goes wrong ends the command where it is.  Recording *)
(* a color is the last part of the plan of a set-all, so that a color is   *)
(* recorded only behind all that was to be written.  Two commands never    *)
(* interleave the frames of parts that share an exclusive controller.      *)
(***************************************************************************)
EXTENDS Naturals

CONSTANTS
  Actor,    \* who runs commands
  Part,     \* the parts of all plans, in the order of their numbers
  Frames,   \* Frames[s]: the frames of part s
  Plans,    \* the plans: sets of parts
  Shared    \* for each controller used exclusively, its parts

VARIABLES
  plan,     \* plan[a]: the parts a's command may still write; {} when it ended
  taken     \* taken[a][s]: the frames of part s taken from a's last command

vars == <<plan, taken>>

Nothing == [s \in Part |-> 0]

Init ==
  /\ plan = [a \in Actor |-> {}]
  /\ taken = [a \in Actor |-> Nothing]

Running(a) == plan[a] # {}

Amid(a, s) == s \in plan[a] /\ taken[a][s] \in 1..(Frames[s] - 1)

\* Nobody else is between two frames of a part on the controller of s.
Clear(a, s) ==
  \A D \in Shared : s \in D => \A b \in Actor \ {a} : \A t \in D : ~Amid(b, t)

\* The next frame of the plan is one of part s.
Due(a, s) ==
  /\ s \in plan[a]
  /\ taken[a][s] < Frames[s]
  /\ \A r \in plan[a] : r < s => taken[a][r] = Frames[r]

Accept(a) ==
  /\ ~Running(a)
  /\ \E P \in Plans : plan' = [plan EXCEPT ![a] = P]
  /\ taken' = [taken EXCEPT ![a] = Nothing]

\* The next frame is taken; the command may end with it, failed or complete.
Take(a) ==
  /\ \E s \in Part : /\ Due(a, s) /\ Clear(a, s)
                     /\ taken' = [taken EXCEPT ![a][s] = @ + 1]
  /\ plan' = plan \/ plan' = [plan EXCEPT ![a] = {}]

End(a) ==
  /\ Running(a)
  /\ plan' = [plan EXCEPT ![a] = {}]
  /\ UNCHANGED taken

\* A command that has ended is forgotten.
Forget(a) ==
  /\ ~Running(a)
  /\ taken' = [taken EXCEPT ![a] = Nothing]
  /\ UNCHANGED plan

Next == \E a \in Actor : Accept(a) \/ Take(a) \/ End(a) \/ Forget(a)

Spec == Init /\ [][Next]_vars
================================================================================
