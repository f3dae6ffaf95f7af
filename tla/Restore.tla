------------------------------- MODULE Restore -------------------------------
(***************************************************************************)
(* The whole of alienrgb seen from the lights: commands of several         *)
(* processes, the recorded color and the restoration helper                *)
(* contrib/systemd/alienrgb-resume.  A live command runs its stages one    *)
(* after the other; what the stages do inside a process is the subject of  *)
(* Executor, how an AW-ELC stage gets the interface that of AwElcHandoff,  *)
(* and how the color is recorded that of ResumeState.  Here the claim is   *)
(* taken and given back in one step, and the file is replaced in one step. *)
(*                                                                         *)
(* A zone is a part of a controller one frame colors by itself: a group of *)
(* keys, the touchpad and back together, one power state.  A frame that    *)
(* colors nothing (reset, status, update, play) is not a step here.        *)
(***************************************************************************)
EXTENDS Naturals, FiniteSets

CONSTANTS
  User,       \* the processes users start
  Helper,     \* the service instances that run the helper
  Color,
  None,       \* no process; no color
  Zones,      \* Zones[s]: the zones stage s colors, in order
  Readiness,  \* MAX_READINESS_ATTEMPTS
  MaxRuns,    \* bound: commands or activations of each process
  MaxKills    \* bound: processes killed

Proc == User \cup Helper

\* The stages of execute_set_all.
KB     == 1
STATIC == 2
POWER  == 3
Stages == {KB, STATIC, POWER}

\* What a command leaves behind: the stages, and the record of its color.
RECORD == 4
Parts == Stages \cup {RECORD}

ASSUME RestoreAssumption ==
  /\ User \cap Helper = {}
  /\ None \notin Proc \cup Color
  /\ Zones \in [Stages -> Nat \ {0}]
  /\ Readiness \in Nat \ {0}
  /\ MaxRuns \in Nat
  /\ MaxKills \in Nat

VARIABLES
  lights,   \* lights[s][z]: the color zone z of stage s shows
  claim,    \* the process whose claim of the AW-ELC interface is alive
  file,     \* the recorded color, or None
  pc,       \* where each process is
  color,    \* the color it applies
  plan,     \* the stages of its command
  stage,    \* the stage it is in
  zone,     \* the zone this stage colors next
  attempt,  \* the helper's readiness attempt
  result,   \* how its last run ended
  runs,     \* its runs so far, for the bound
  kills,    \* processes killed, for the bound
  whole,    \* history: the colors of the set-alls that completed
  latest,   \* history: the color of the last one of them
  lapsed,   \* history: a command could not record its color since then
  raced,    \* history: when it completed, another set-all had still to record
  alone,    \* history: nobody else colored a zone since its run began
  torn,     \* history: the last power profile was broken off
  taken     \* history: the zones of each stage the last command of a process
            \* has colored, and whether it has replaced the file

command == <<color, plan, stage, zone>>
counters == <<runs, kills>>
success == <<whole, latest, lapsed, raced>>
vars == <<lights, claim, file, pc, command, attempt, result, counters,
          success, alone, torn, taken>>

\* set-all, set of keyboard targets, of chassis targets, power-profile.
Plans == {Stages, {KB}, {STATIC}, {POWER}}

LightsType ==
  /\ DOMAIN lights = Stages
  /\ \A s \in Stages : lights[s] \in [1..Zones[s] -> Color \cup {None}]

CommandType ==
  /\ color \in [Proc -> Color \cup {None}]
  /\ plan \in [Proc -> SUBSET Stages]
  /\ stage \in [Proc -> Stages]
  /\ zone \in [Proc -> Nat]
  /\ \A p \in Proc : zone[p] \in 1..(Zones[stage[p]] + 1)

ProcessType ==
  /\ pc \in [Proc -> {"idle", "read", "ready", "begin", "color", "persist"}]
  /\ attempt \in [Proc -> 0..Readiness]
  /\ result \in [Proc -> {"none", "ok", "absent", "failed", "unsaved", "killed"}]
  /\ runs \in [Proc -> 0..MaxRuns]

SharedType ==
  /\ claim \in Proc \cup {None}
  /\ file \in Color \cup {None}
  /\ kills \in 0..MaxKills

HistoryType ==
  /\ whole \in SUBSET Color
  /\ latest \in Color \cup {None}
  /\ lapsed \in BOOLEAN
  /\ raced \in BOOLEAN
  /\ alone \in [Proc -> BOOLEAN]
  /\ torn \in BOOLEAN
  /\ taken \in [Proc -> [Parts -> Nat]]

TypeOK ==
  /\ LightsType
  /\ CommandType
  /\ ProcessType
  /\ SharedType
  /\ HistoryType

Init ==
  /\ lights = [s \in Stages |-> [z \in 1..Zones[s] |-> None]]
  /\ claim = None
  /\ file = None
  /\ pc = [p \in Proc |-> "idle"]
  /\ color = [p \in Proc |-> None]
  /\ plan = [p \in Proc |-> {}]
  /\ stage = [p \in Proc |-> KB]
  /\ zone = [p \in Proc |-> 1]
  /\ attempt = [p \in Proc |-> 0]
  /\ result = [p \in Proc |-> "none"]
  /\ runs = [p \in Proc |-> 0]
  /\ kills = 0
  /\ whole = {}
  /\ latest = None
  /\ lapsed = FALSE
  /\ raced = FALSE
  /\ alone = [p \in Proc |-> FALSE]
  /\ torn = FALSE
  /\ taken = [p \in Proc |-> [s \in Parts |-> 0]]

Goto(p, point) == pc' = [pc EXCEPT ![p] = point]

Unclaim(p) == claim' = IF claim = p THEN None ELSE claim

\* The process ends, and with it the claim it may hold.
End(p, how) ==
  /\ Goto(p, "idle")
  /\ result' = [result EXCEPT ![p] = how]
  /\ Unclaim(p)
  /\ color' = [color EXCEPT ![p] = None]
  /\ plan' = [plan EXCEPT ![p] = {}]
  /\ stage' = [stage EXCEPT ![p] = KB]
  /\ zone' = [zone EXCEPT ![p] = 1]
  /\ attempt' = [attempt EXCEPT ![p] = 0]

\* The end of a run that leaves the lights as they are.
Quit(p, how) == End(p, how) /\ alone' = [alone EXCEPT ![p] = FALSE]

First(P) == CHOOSE s \in P : \A t \in P : s <= t

\* A validated live command with color c and the stages of P begins.
Run(p, c, P) ==
  /\ color' = [color EXCEPT ![p] = c]
  /\ plan' = [plan EXCEPT ![p] = P]
  /\ stage' = [stage EXCEPT ![p] = First(P)]
  /\ attempt' = [attempt EXCEPT ![p] = 0]
  /\ alone' = [alone EXCEPT ![p] = TRUE]
  /\ taken' = [taken EXCEPT ![p] = [s \in Parts |-> 0]]
  /\ Goto(p, "begin")

Start(p) ==
  /\ pc[p] = "idle"
  /\ runs[p] < MaxRuns
  /\ runs' = [runs EXCEPT ![p] = @ + 1]

------------------------------------------------------------------------------
(* The commands of users, and the helper up to its exec of set-all. *)

Command(u) ==
  /\ Start(u)
  /\ \E c \in Color, P \in Plans : Run(u, c, P)
  /\ result' = [result EXCEPT ![u] = "none"]
  /\ UNCHANGED <<lights, claim, file, zone, kills, success, torn>>

\* The service starts the helper; without a state file it exits with success.
Activate(h) ==
  /\ Start(h)
  /\ IF file = None
       THEN result' = [result EXCEPT ![h] = "absent"] /\ UNCHANGED pc
       ELSE result' = [result EXCEPT ![h] = "none"] /\ Goto(h, "read")
  /\ UNCHANGED <<lights, claim, file, command, attempt, kills, success, alone,
                 torn, taken>>

\* The color is read once, before the readiness checks.
ReadColor(h) ==
  /\ pc[h] = "read"
  /\ color' = [color EXCEPT ![h] = file]
  /\ attempt' = [attempt EXCEPT ![h] = 1]
  /\ Goto(h, "ready")
  /\ UNCHANGED <<lights, claim, file, plan, stage, zone, result, counters,
                 success, alone, torn, taken>>

\* `doctor --json' says ready_for_writes: the helper becomes the set-all.
Ready(h) ==
  /\ pc[h] = "ready"
  /\ Run(h, color[h], Stages)
  /\ UNCHANGED <<lights, claim, file, zone, result, counters, success, torn>>

\* Mutant: the attempts start over.
NotReadyForever(h) ==
  /\ pc[h] = "ready"
  /\ attempt' = [attempt EXCEPT ![h] = (@ % Readiness) + 1]
  /\ UNCHANGED <<lights, claim, file, pc, command, result, counters, success,
                 alone, torn, taken>>

NotReady(h) ==
  /\ pc[h] = "ready"
  /\ IF attempt[h] < Readiness
       THEN /\ attempt' = [attempt EXCEPT ![h] = @ + 1]
            /\ UNCHANGED <<claim, pc, command, result, alone>>
       ELSE Quit(h, "failed")
  /\ UNCHANGED <<lights, file, counters, success, torn, taken>>

------------------------------------------------------------------------------
(* The stages. *)

\* Mutant: the claim of another process is overridden.
BeginAnyway(p) ==
  /\ pc[p] = "begin"
  /\ claim' = IF stage[p] = KB THEN claim ELSE p
  /\ Goto(p, "color")
  /\ UNCHANGED <<lights, file, command, attempt, result, counters, success,
                 alone, torn, taken>>

\* Between processes only the AW-ELC stages exclude each other, by the claim.
Begin(p) ==
  /\ pc[p] = "begin"
  /\ IF stage[p] = KB THEN UNCHANGED claim ELSE claim = None /\ claim' = p
  /\ Goto(p, "color")
  /\ UNCHANGED <<lights, file, command, attempt, result, counters, success,
                 alone, torn, taken>>

\* Mutant: a set-all goes on behind a stage that could not be acquired.
BeginSkips(p) ==
  /\ pc[p] = "begin"
  /\ IF stage[p] + 1 \in plan[p]
       THEN /\ stage' = [stage EXCEPT ![p] = @ + 1]
            /\ UNCHANGED <<claim, pc, color, plan, zone, attempt, result, alone>>
       ELSE Quit(p, "failed")
  /\ UNCHANGED <<lights, file, counters, success, torn, taken>>

BeginFails(p) ==
  /\ pc[p] = "begin"
  /\ Quit(p, "failed")
  /\ UNCHANGED <<lights, file, counters, success, torn, taken>>

\* The next zone of the stage takes the color.
Show(p) ==
  /\ lights' = [lights EXCEPT ![stage[p]][zone[p]] = color[p]]
  /\ taken' = [taken EXCEPT ![p][stage[p]] = zone[p]]

ColorZone(p) ==
  /\ pc[p] = "color"
  /\ zone[p] <= Zones[stage[p]]
  /\ Show(p)
  /\ alone' = [q \in Proc |-> alone[q] /\ q = p]
  /\ zone' = [zone EXCEPT ![p] = @ + 1]
  /\ UNCHANGED <<claim, file, pc, color, plan, stage, attempt, result, counters,
                 success, torn>>

\* A frame or the cleanup fails and ends the command; the frame may have
\* reached the controller.
StageFails(p) ==
  /\ pc[p] = "color"
  /\ \/ zone[p] <= Zones[stage[p]] /\ Show(p)
     \/ UNCHANGED <<lights, taken>>
  /\ End(p, "failed")
  /\ alone' = [q \in Proc |-> alone[q] /\ q # p /\ lights' = lights]
  /\ torn' = (torn \/ stage[p] = POWER)
  /\ UNCHANGED <<file, counters, success>>

\* The stage is done and its backend is dropped.
StageDone(p) ==
  /\ pc[p] = "color"
  /\ zone[p] = Zones[stage[p]] + 1
  /\ torn' = (torn /\ stage[p] # POWER)
  /\ UNCHANGED <<lights, file, counters, taken>>

\* Mutant: the position in the plan is not reset.
NextStageKeepsZone(p) ==
  /\ StageDone(p)
  /\ stage[p] + 1 \in plan[p]
  /\ stage' = [stage EXCEPT ![p] = @ + 1]
  /\ Unclaim(p)
  /\ Goto(p, "begin")
  /\ UNCHANGED <<color, plan, zone, attempt, result, success, alone>>

NextStage(p) ==
  /\ StageDone(p)
  /\ stage[p] + 1 \in plan[p]
  /\ stage' = [stage EXCEPT ![p] = @ + 1]
  /\ zone' = [zone EXCEPT ![p] = 1]
  /\ Unclaim(p)
  /\ Goto(p, "begin")
  /\ UNCHANGED <<color, plan, attempt, result, success, alone>>

\* A set-all has colored everything and goes on to record its color.
Complete(p) ==
  /\ StageDone(p)
  /\ plan[p] = Stages /\ stage[p] = POWER
  /\ Unclaim(p)
  /\ whole' = whole \cup {color[p]}
  /\ latest' = color[p]
  /\ lapsed' = FALSE
  /\ raced' = \E q \in Proc \ {p} : pc[q] = "persist"
  /\ Goto(p, "persist")
  /\ UNCHANGED <<command, attempt, result, alone>>

\* Mutant: every command records its color.
DoneRecords(p) ==
  /\ StageDone(p)
  /\ plan[p] = {stage[p]}
  /\ Unclaim(p)
  /\ Goto(p, "persist")
  /\ UNCHANGED <<command, attempt, result, success, alone>>

\* Another command is done and records nothing.
Done(p) ==
  /\ StageDone(p)
  /\ plan[p] = {stage[p]}
  /\ Quit(p, "ok")
  /\ UNCHANGED success

Replace(p) ==
  /\ file' = color[p]
  /\ taken' = [taken EXCEPT ![p][RECORD] = @ + 1]

\* persist_color: the file is replaced; its error may come behind that.
Persist(p) ==
  /\ pc[p] = "persist"
  /\ Replace(p)
  /\ Quit(p, "ok")
  /\ UNCHANGED <<lights, counters, success, torn>>

PersistFails(p) ==
  /\ pc[p] = "persist"
  /\ Replace(p) \/ UNCHANGED <<file, taken>>
  /\ lapsed' = TRUE
  /\ Quit(p, "unsaved")
  /\ UNCHANGED <<lights, counters, whole, latest, raced, torn>>

\* The process is killed: Ctrl-C, or the timeout of the service.
Kill(p) ==
  /\ pc[p] # "idle"
  /\ kills < MaxKills
  /\ kills' = kills + 1
  /\ Quit(p, "killed")
  /\ torn' = (torn \/ (pc[p] = "color" /\ stage[p] = POWER))
  /\ lapsed' = (lapsed \/ pc[p] = "persist")
  /\ UNCHANGED <<lights, file, runs, whole, latest, raced, taken>>

------------------------------------------------------------------------------

Live(p) ==
  \/ Begin(p) \/ BeginFails(p)
  \/ ColorZone(p) \/ StageFails(p)
  \/ NextStage(p) \/ Complete(p) \/ Done(p)
  \/ Persist(p) \/ PersistFails(p)

HelperStep(h) == ReadColor(h) \/ Ready(h) \/ NotReady(h)

Next ==
  \/ \E p \in Proc : Live(p) \/ Kill(p)
  \/ \E u \in User : Command(u)
  \/ \E h \in Helper : Activate(h) \/ HelperStep(h)

\* A running process keeps running: each of its calls returns, and the sleeps
\* of the helper end.  Nobody has to start one.
Fairness ==
  /\ \A p \in Proc : WF_vars(Live(p))
  /\ \A h \in Helper : WF_vars(HelperStep(h))

Spec == Init /\ [][Next]_vars
FairSpec == Spec /\ Fairness

------------------------------------------------------------------------------
(* Properties *)

\* Whatever processes run, fail or are killed, the recorded color and the color
\* a helper restores are colors of a set-all that completed all its stages; a
\* helper that finds no such color applies none.
OnlyWholeColors ==
  /\ file # None => file \in whole
  /\ \A h \in Helper :
       pc[h] \in {"ready", "begin", "color", "persist"} => color[h] \in whole

\* A set-all that completed without another process coloring anything since it
\* began shows its color everywhere when it records it: the restoration after
\* an undisturbed resume restores every light.
LoneSetAllShows ==
  \A p \in Proc : (pc[p] = "persist" /\ alone[p]) =>
    \A s \in Stages : \A z \in 1..Zones[s] : lights[s][z] = color[p]

\* The states of the power profile have one color whenever no AW-ELC stage is
\* running, unless the last profile was broken off: commands of other processes
\* never mix two profiles (the claim is held for the whole stage).
PowerProfileUnmixed ==
  (claim = None /\ ~torn) =>
    \A y, z \in 1..Zones[POWER] : lights[POWER][y] = lights[POWER][z]

\* The helper ends: its checks are bounded, and its set-all is not retried.
HelperEnds == \A h \in Helper : pc[h] # "idle" ~> pc[h] = "idle"

\* Every completed set-all has been recorded or has reported that it was not.
Settled == ~lapsed /\ \A p \in Proc : pc[p] # "persist"

\* The README of the units holds as long as no set-all completes while another
\* one has still to record its color: the file is then the color of the last
\* one that completed, whatever was killed, failed or refused in between.
StateIsLastUnlessRaced == (Settled /\ ~raced) => file = latest

\* A process that runs has only so many steps left, and no step of any process
\* gives it more: the readiness checks are counted, no stage is entered twice
\* and the set-all of the helper is not retried.  The steps of a later stage,
\* and those of the process as it is.
StepsOf(s) == Zones[s] + 2

StepsBehind(p) ==
  (IF STATIC \in plan[p] /\ stage[p] < STATIC THEN StepsOf(STATIC) ELSE 0)
  + (IF POWER \in plan[p] /\ stage[p] < POWER THEN StepsOf(POWER) ELSE 0)

StepsOfAll == StepsOf(KB) + StepsOf(STATIC) + StepsOf(POWER) + 1

StepsLeft(p) ==
  CASE pc[p] = "read" -> StepsOfAll + Readiness + 2
    [] pc[p] = "ready" -> StepsOfAll + (Readiness - attempt[p]) + 1
    [] pc[p] = "begin" -> StepsBehind(p) + StepsOf(stage[p]) + 1
    [] pc[p] = "color" -> StepsBehind(p) + (Zones[stage[p]] + 1 - zone[p]) + 2
    [] pc[p] = "persist" -> 1
    [] OTHER -> 0

CommandBounded ==
  [][\A p \in Proc : pc[p] # "idle" =>
       /\ StepsLeft(p)' <= StepsLeft(p)
       /\ Live(p) \/ HelperStep(p) => StepsLeft(p)' < StepsLeft(p)]_vars

\* Commands of all processes write as StagedWrite says: the zones of a stage in
\* order, the stages in order, nothing behind a failure or a kill, the file only
\* behind a whole set-all, and no zones of two commands mixed in one AW-ELC
\* stage.
Recorded(P) == IF P = Stages THEN Parts ELSE P

Writes == INSTANCE StagedWrite WITH
  Actor <- Proc,
  Part <- Parts,
  Frames <- [s \in Parts |-> IF s = RECORD THEN 1 ELSE Zones[s]],
  Plans <- {Recorded(P) : P \in Plans},
  Shared <- {{STATIC, POWER}},
  plan <- [p \in Proc |-> Recorded(plan[p])]

StagedWrites == Writes!Spec

\* contrib/systemd/README: the units restore the "last fully successful global
\* profile", which the file therefore has to be once everything is settled.
StateIsLastSuccess == Settled => file = latest

\* The same sentence, for what the helper begins to restore.
RestoresLatest ==
  \A h \in Helper :
    (Settled /\ pc[h] = "begin" /\ stage[h] = KB) => color[h] = latest
=============================================================================
