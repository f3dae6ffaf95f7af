------------------------------- MODULE Executor -------------------------------
(***************************************************************************)
(* The executors of src/src/transport/mod.rs inside one process, and what  *)
(* src/src/cli.rs makes of their results.  A call holds the process guards *)
(* of the controllers it touches, runs its stages in order (discover,      *)
(* acquire, transfer each frame once, clean up), gives the guards back and *)
(* reports; a set-all that went through records its color.                 *)
(*                                                                         *)
(* An operation is an interval of the stages keyboard, AW static, power    *)
(* profile and keyboard status.  What one AW-ELC stage does to the kernel  *)
(* driver is the subject of AwElcHandoff; here it is a Begin, transfers    *)
(* and a Finish.                                                           *)
(***************************************************************************)
EXTENDS Naturals, FiniteSets

CONSTANTS
  Caller,     \* the threads that may call an executor
  Steps       \* Steps[s]: the frames of the canonical plan of stage s

KB     == 1   \* "keyboard": reset, query_status, read_status, colors, update
STATIC == 2   \* "aw_static_touchpad_back"
POWER  == 3   \* "power_profile"
STATUS == 4   \* keyboard-status: query_status, read_status

Stages == {KB, STATIC, POWER, STATUS}

ASSUME ExecutorAssumption == Steps \in [Stages -> Nat \ {0}]

Ops == {"set_all", "keyboard", "chassis", "power", "status"}

First(o) == CASE o \in {"set_all", "keyboard"} -> KB
              [] o = "chassis" -> STATIC
              [] o = "power" -> POWER
              [] OTHER -> STATUS

Last(o) == IF o = "set_all" THEN POWER ELSE First(o)
Plan(o) == First(o)..Last(o)

Guard == {"keyboard", "aw"}
Controller(s) == IF s \in {KB, STATUS} THEN "keyboard" ELSE "aw"
\* Mutant: a set-all takes the guard of its first controller only.
GuardsOfFirst(o) == {Controller(First(o))}

Guards(o) == {Controller(s) : s \in Plan(o)}

VARIABLES
  active,    \* KEYBOARD_EXECUTION_ACTIVE and AW_ELC_EXECUTION_ACTIVE
  held,      \* the execution guards alive in each caller
  op,        \* the operation of each caller
  pc,        \* where its call is
  stage,     \* the stage it is in
  done,      \* result.steps.len() of that stage
  error,     \* the error that ended the call or the dispatch, or "none"
  outcome,   \* what the executor says of each stage
  answer,    \* what the command reports
  taken,     \* history: frames of each stage the controller took
  invoked,   \* history: stages in which a transfer method was called
  saved      \* history: the call replaced the recorded color

call == <<op, stage, done, error>>
history == <<taken, invoked, saved>>
vars == <<active, held, pc, call, outcome, answer, history>>

Points == {"idle", "guard", "begin", "transfer", "finish", "unlock", "answer",
           "persist", "answered"}
Errors == {"none", "refused", "begin", "backend", "short", "status", "cleanup"}

NotStarted == [completed |-> 0, attempted |-> FALSE, failed |-> FALSE]
Outcomes   == [completed : Nat, attempted : BOOLEAN, failed : BOOLEAN]
Unanswered == [code |-> "none", performed |-> FALSE]
Answers    == [code : {"none", "ok", "preflight", "failed", "unsaved"},
               performed : BOOLEAN]

TypeOK ==
  /\ active \in [Guard -> BOOLEAN]
  /\ held \in [Caller -> SUBSET Guard]
  /\ op \in [Caller -> Ops \cup {"none"}]
  /\ pc \in [Caller -> Points]
  /\ stage \in [Caller -> Stages]
  /\ done \in [Caller -> Nat]
  /\ error \in [Caller -> Errors]
  /\ outcome \in [Caller -> [Stages -> Outcomes]]
  /\ answer \in [Caller -> Answers]
  /\ taken \in [Caller -> [Stages -> Nat]]
  /\ invoked \in [Caller -> SUBSET Stages]
  /\ saved \in [Caller -> BOOLEAN]
  /\ \A c \in Caller :
       done[c] <= Steps[stage[c]] /\ \A s \in Stages : taken[c][s] <= Steps[s]

Init ==
  /\ active = [g \in Guard |-> FALSE]
  /\ held = [c \in Caller |-> {}]
  /\ op = [c \in Caller |-> "none"]
  /\ pc = [c \in Caller |-> "idle"]
  /\ stage = [c \in Caller |-> KB]
  /\ done = [c \in Caller |-> 0]
  /\ error = [c \in Caller |-> "none"]
  /\ outcome = [c \in Caller |-> [s \in Stages |-> NotStarted]]
  /\ answer = [c \in Caller |-> Unanswered]
  /\ taken = [c \in Caller |-> [s \in Stages |-> 0]]
  /\ invoked = [c \in Caller |-> {}]
  /\ saved = [c \in Caller |-> FALSE]

Goto(c, point) == pc' = [pc EXCEPT ![c] = point]

------------------------------------------------------------------------------
(* Entry: validation and the nonblocking guards, keyboard before AW-ELC. *)

\* The command and its plan are validated before any guard is tried.
Call(c, o) ==
  /\ pc[c] = "idle"
  /\ op' = [op EXCEPT ![c] = o]
  /\ stage' = [stage EXCEPT ![c] = First(o)]
  /\ \/ Goto(c, "guard") /\ UNCHANGED error
     \/ Goto(c, "answer") /\ error' = [error EXCEPT ![c] = "refused"]
  /\ UNCHANGED <<active, held, done, outcome, answer, history>>

\* The guard the call tries next.
Wanted(c) ==
  LET missing == Guards(op[c]) \ held[c]
  IN  IF "keyboard" \in missing THEN "keyboard" ELSE "aw"

\* try_acquire: compare_exchange(false, true).
TakeGuard(c) ==
  /\ pc[c] = "guard"
  /\ ~active[Wanted(c)]
  /\ active' = [active EXCEPT ![Wanted(c)] = TRUE]
  /\ held' = [held EXCEPT ![c] = @ \cup {Wanted(c)}]
  /\ Goto(c, IF held[c] \cup {Wanted(c)} = Guards(op[c]) THEN "begin"
                                                          ELSE "guard")
  /\ UNCHANGED <<call, outcome, answer, history>>

\* Mutant: a busy call leaves with the guard it has.
BusyLeaks(c) ==
  /\ pc[c] = "guard"
  /\ active[Wanted(c)]
  /\ error' = [error EXCEPT ![c] = "refused"]
  /\ Goto(c, "answer")
  /\ UNCHANGED <<active, held, op, stage, done, outcome, answer, history>>

\* Mutant: the guards wait.
BusyWaits(c) ==
  /\ pc[c] = "guard"
  /\ active[Wanted(c)]
  /\ UNCHANGED vars

\* Busy: the call fails at once, and gives back the guard it may hold.
Busy(c) ==
  /\ pc[c] = "guard"
  /\ active[Wanted(c)]
  /\ error' = [error EXCEPT ![c] = "refused"]
  /\ Goto(c, "unlock")
  /\ UNCHANGED <<active, held, op, stage, done, outcome, answer, history>>

------------------------------------------------------------------------------
(* One stage: execute_keyboard_lock_held, execute_aw_elc_lock_held,        *)
(* execute_keyboard_status.                                                *)

\* Mutant: the stages behind a failed one are run all the same.
EndStageGoesOn(c, record) ==
  /\ outcome' = [outcome EXCEPT ![c][stage[c]] = record]
  /\ done' = [done EXCEPT ![c] = 0]
  /\ IF stage[c] < Last(op[c])
       THEN Goto(c, "begin") /\ stage' = [stage EXCEPT ![c] = @ + 1]
       ELSE Goto(c, "unlock") /\ UNCHANGED stage

\* The stage ends and its backend is dropped.  compound_completed or
\* compound_failed: the first failure ends the call, all later stages stay
\* NotStarted.
EndStage(c, record) ==
  /\ outcome' = [outcome EXCEPT ![c][stage[c]] = record]
  /\ done' = [done EXCEPT ![c] = 0]
  /\ IF ~record.failed /\ stage[c] < Last(op[c])
       THEN Goto(c, "begin") /\ stage' = [stage EXCEPT ![c] = @ + 1]
       ELSE Goto(c, "unlock") /\ UNCHANGED stage

Completed(n) == [completed |-> n, attempted |-> n > 0, failed |-> FALSE]

\* Mutant: an error is marked as attempted only behind a completed step.
BrokenUnmarked(s, e, n) ==
  [completed |-> IF Controller(s) = "aw" \/ (s = KB /\ e = "backend")
                   THEN n ELSE 0,
   attempted |-> n > 0,
   failed |-> TRUE]

\* The error a stage returns after its backend was acquired.  The AW-ELC
\* dispatch and a keyboard backend error keep the completed steps; a keyboard
\* short read or status error does not, and keyboard-status marks nothing.
Broken(s, e, n) ==
  [completed |-> IF Controller(s) = "aw" \/ (s = KB /\ e = "backend")
                   THEN n ELSE 0,
   attempted |-> s # STATUS,
   failed |-> TRUE]

\* Fresh discovery, selection, the BIOS pin, factory.acquire.
Begin(c) ==
  /\ pc[c] = "begin"
  /\ Goto(c, "transfer")
  /\ UNCHANGED <<active, held, call, outcome, answer, history>>

BeginFails(c) ==
  /\ pc[c] = "begin"
  /\ error' = [error EXCEPT ![c] = "begin"]
  /\ EndStage(c, [NotStarted EXCEPT !.failed = TRUE])
  /\ UNCHANGED <<active, held, op, answer, history>>

\* The next frame is handed to the backend; the controller takes it or not.
Invoke(c, reached) ==
  /\ invoked' = [invoked EXCEPT ![c] = @ \cup {stage[c]}]
  /\ taken' = [taken EXCEPT ![c][stage[c]] = IF reached THEN @ + 1 ELSE @]
  /\ UNCHANGED saved

\* Mutant: the loop runs one frame past the plan.
TransferOneMore(c) ==
  /\ pc[c] = "transfer"
  /\ Invoke(c, TRUE)
  /\ IF done[c] < Steps[stage[c]]
       THEN /\ done' = [done EXCEPT ![c] = @ + 1]
            /\ UNCHANGED <<pc, stage, outcome>>
       ELSE EndStage(c, Completed(done[c] + 1))
  /\ UNCHANGED <<active, held, op, error, answer>>

\* The frame is written in full, or the status read returns the signature.
Transfer(c) ==
  /\ pc[c] = "transfer"
  /\ Invoke(c, TRUE)
  /\ IF done[c] + 1 < Steps[stage[c]]
       THEN /\ done' = [done EXCEPT ![c] = @ + 1]
            /\ UNCHANGED <<pc, stage, outcome>>
       ELSE IF Controller(stage[c]) = "aw"
         THEN /\ done' = [done EXCEPT ![c] = @ + 1]
              /\ Goto(c, "finish")
              /\ UNCHANGED <<stage, outcome>>
         ELSE EndStage(c, Completed(done[c] + 1))
  /\ UNCHANGED <<active, held, op, error, answer>>

\* What can end a dispatch: a backend error at any frame, a short write of an
\* AW-ELC frame, a short or unsupported response to the keyboard status read
\* (hidapi reports every keyboard write in full or as an error).
Failures(c) ==
  CASE Controller(stage[c]) = "aw" -> {"backend", "short"}
    [] stage[c] = KB /\ done[c] = 2 -> {"backend", "short", "status"}
    [] stage[c] = STATUS /\ done[c] = 1 -> {"backend", "short", "status"}
    [] OTHER -> {"backend"}

TransferFails(c) ==
  /\ pc[c] = "transfer"
  /\ \E e \in Failures(c) :
       /\ error' = [error EXCEPT ![c] = e]
       /\ \E reached \in IF e = "status" THEN {TRUE} ELSE BOOLEAN :
            Invoke(c, reached)
       /\ IF Controller(stage[c]) = "aw"
            THEN Goto(c, "finish") /\ UNCHANGED <<stage, done, outcome>>
            ELSE EndStage(c, Broken(stage[c], e, done[c]))
  /\ UNCHANGED <<active, held, op, answer>>

\* AwElcBackend::finish after every dispatch, and the match on both results.
Finish(c) ==
  /\ pc[c] = "finish"
  /\ EndStage(c, IF error[c] = "none" THEN Completed(done[c])
                                      ELSE Broken(stage[c], error[c], done[c]))
  /\ UNCHANGED <<active, held, op, error, answer, history>>

FinishFails(c) ==
  /\ pc[c] = "finish"
  /\ error' = [error EXCEPT ![c] = IF @ = "none" THEN "cleanup" ELSE @]
  /\ EndStage(c, Broken(stage[c], error'[c], done[c]))
  /\ UNCHANGED <<active, held, op, answer, history>>

------------------------------------------------------------------------------
(* Exit: the guards drop in reverse order, the command reports. *)

Unlock(c) ==
  /\ pc[c] = "unlock"
  /\ held[c] # {}
  /\ LET g == IF "aw" \in held[c] THEN "aw" ELSE "keyboard"
     IN  /\ active' = [active EXCEPT ![g] = FALSE]
         /\ held' = [held EXCEPT ![c] = @ \ {g}]
  /\ UNCHANGED <<pc, call, outcome, answer, history>>

Unlocked(c) ==
  /\ pc[c] = "unlock"
  /\ held[c] = {}
  /\ Goto(c, "answer")
  /\ UNCHANGED <<active, held, call, outcome, answer, history>>

\* SetAllExecutionOutcome::transport_performed.
Performed(c) ==
  \E s \in Plan("set_all") :
    outcome[c][s].attempted \/ outcome[c][s].completed > 0

\* Mutant: the cleanup failures are not looked at.
CompletedIgnoringFailure(c) ==
  \A s \in Plan("set_all") :
    outcome[c][s].completed = Steps[s] /\ outcome[c][s].attempted

\* set_all_completed_canonically.
CompletedCanonically(c) ==
  \A s \in Plan("set_all") :
    outcome[c][s] = [completed |-> Steps[s], attempted |-> TRUE, failed |-> FALSE]

\* run_set_all_with_services_and_state: the report of a set-all; an error of
\* the executor itself, before its first stage, is a preflight failure.
ReportSetAll(c) ==
  /\ op[c] = "set_all"
  /\ \/ /\ error[c] # "refused"
        /\ CompletedCanonically(c)
        /\ Goto(c, "persist")
        /\ UNCHANGED answer
     \/ /\ error[c] = "refused" \/ ~CompletedCanonically(c)
        /\ answer' = [answer EXCEPT ![c] =
             IF error[c] = "refused"
               THEN [code |-> "preflight", performed |-> FALSE]
               ELSE [code |-> "failed", performed |-> Performed(c)]]
        /\ Goto(c, "answered")

\* The other commands: CliRunError::transport keeps only the message.
ReportOther(c) ==
  /\ op[c] # "set_all"
  /\ answer' = [answer EXCEPT ![c] =
       IF error[c] = "none" THEN [code |-> "ok", performed |-> TRUE]
                            ELSE [code |-> "failed", performed |-> FALSE]]
  /\ Goto(c, "answered")

Answer(c) ==
  /\ pc[c] = "answer"
  /\ ReportSetAll(c) \/ ReportOther(c)
  /\ UNCHANGED <<active, held, call, outcome, history>>

\* persist_color (module ResumeState): its error may come after the file was
\* replaced, when the directory cannot be synced.
Persist(c) ==
  /\ pc[c] = "persist"
  /\ \/ /\ saved' = [saved EXCEPT ![c] = TRUE]
        /\ answer' = [answer EXCEPT ![c] = [code |-> "ok", performed |-> TRUE]]
     \/ /\ \E replaced \in BOOLEAN : saved' = [saved EXCEPT ![c] = replaced]
        /\ answer' = [answer EXCEPT ![c] =
                        [code |-> "unsaved", performed |-> TRUE]]
  /\ Goto(c, "answered")
  /\ UNCHANGED <<active, held, call, outcome, taken, invoked>>

\* The caller takes the answer; nothing of the call is left.
Return(c) ==
  /\ pc[c] = "answered"
  /\ Goto(c, "idle")
  /\ op' = [op EXCEPT ![c] = "none"]
  /\ stage' = [stage EXCEPT ![c] = KB]
  /\ error' = [error EXCEPT ![c] = "none"]
  /\ outcome' = [outcome EXCEPT ![c] = [s \in Stages |-> NotStarted]]
  /\ answer' = [answer EXCEPT ![c] = Unanswered]
  /\ taken' = [taken EXCEPT ![c] = [s \in Stages |-> 0]]
  /\ invoked' = [invoked EXCEPT ![c] = {}]
  /\ saved' = [saved EXCEPT ![c] = FALSE]
  /\ UNCHANGED <<active, held, done>>

------------------------------------------------------------------------------

Step(c) ==
  \/ TakeGuard(c) \/ Busy(c)
  \/ Begin(c) \/ BeginFails(c)
  \/ Transfer(c) \/ TransferFails(c)
  \/ Finish(c) \/ FinishFails(c)
  \/ Unlock(c) \/ Unlocked(c)
  \/ Answer(c) \/ Persist(c) \/ Return(c)

Next == \E c \in Caller : Step(c) \/ \E o \in Ops : Call(c, o)

\* A running call keeps running: each of its system calls returns.
Fairness == \A c \in Caller : WF_vars(Step(c))

Spec == Init /\ [][Next]_vars
FairSpec == Spec /\ Fairness

------------------------------------------------------------------------------
(* Properties *)

\* The controllers a call reserves while it discovers, transfers and cleans up.
Using(c) ==
  IF pc[c] \in {"begin", "transfer", "finish"}
    THEN {Controller(s) : s \in Plan(op[c])} ELSE {}

\* Two calls never use the same controller, and a set-all keeps both of its
\* controllers from its first discovery to its last cleanup (the two guards of
\* execute_set_all, and the guard shared by static and power executions).
ControllersExclusive ==
  \A c, d \in Caller : c # d => Using(c) \cap Using(d) = {}

\* A guard is active exactly while a call holds it, whatever way the call ends:
\* a leaked guard would make every later call of the process Busy.
NoGuardLeaks ==
  /\ \A g \in Guard : active[g] <=> \E c \in Caller : g \in held[c]
  /\ \A c \in Caller : pc[c] \in {"idle", "answer", "persist", "answered"} =>
       held[c] = {}

\* No frame of a stage is handed to its controller before every frame of every
\* earlier stage was taken and that stage ended without an error, cleanup
\* included (the early returns of execute_set_all).
StagesInOrder ==
  \A c \in Caller : \A s, t \in Plan(op[c]) :
    (s < t /\ t \in invoked[c]) =>
      /\ taken[c][s] = Steps[s]
      /\ ~outcome[c][s].failed
      /\ outcome[c][s].completed = Steps[s]

\* The report of a set-all agrees with the controllers: a stage is attempted
\* when a transfer method was called and only then, no completed step is one
\* the controller did not take, the AW-ELC counts are off by the frame in doubt
\* at most, and transport_performed says whether anything can have moved.
ReportAgrees ==
  \A c \in Caller : (pc[c] = "answered" /\ op[c] = "set_all") =>
    /\ \A s \in Plan("set_all") :
         /\ outcome[c][s].attempted <=> s \in invoked[c]
         /\ outcome[c][s].completed <= taken[c][s]
         /\ Controller(s) = "aw" =>
              taken[c][s] <= outcome[c][s].completed + 1
    /\ answer[c].performed <=> invoked[c] # {}
    /\ answer[c].code = "preflight" => invoked[c] = {}

\* A color is recorded only by a set-all whose 49 frames were all taken and all
\* of whose cleanups succeeded, and "ok" means that it was recorded.
SavedOnlyWhole ==
  \A c \in Caller :
    /\ saved[c] => /\ op[c] = "set_all"
                   /\ \A s \in Plan("set_all") :
                        taken[c][s] = Steps[s] /\ ~outcome[c][s].failed
    /\ (op[c] = "set_all" /\ answer[c].code = "ok") => saved[c]

\* Every call returns: the guards never wait, nothing is retried.
CallsReturn == \A c \in Caller : pc[c] # "idle" ~> pc[c] = "idle"

\* A running call has only so many steps left, and no step of any caller gives
\* it more: the guards are tried once, no stage is run again, nothing is retried.
\* The steps of a later stage, and those of the call as it is.
StepsOf(s) == Steps[s] + 2

StepsBehind(c) ==
  (IF STATIC \in Plan(op[c]) /\ stage[c] < STATIC THEN StepsOf(STATIC) ELSE 0)
  + (IF POWER \in Plan(op[c]) /\ stage[c] < POWER THEN StepsOf(POWER) ELSE 0)

GuardsHeld(c) ==
  (IF "keyboard" \in held[c] THEN 1 ELSE 0) + (IF "aw" \in held[c] THEN 1 ELSE 0)

StepsLeft(c) ==
  CASE pc[c] = "guard" -> StepsBehind(c) + StepsOf(stage[c]) + 9 - GuardsHeld(c)
    [] pc[c] = "begin" -> StepsBehind(c) + StepsOf(stage[c]) + 6
    [] pc[c] = "transfer" -> StepsBehind(c) + (Steps[stage[c]] - done[c]) + 7
    [] pc[c] = "finish" -> StepsBehind(c) + 7
    [] pc[c] = "unlock" -> 4 + GuardsHeld(c)
    [] pc[c] = "answer" -> 3
    [] pc[c] = "persist" -> 2
    [] pc[c] = "answered" -> 1
    [] OTHER -> 0

CallBounded ==
  [][\A c \in Caller : pc[c] # "idle" =>
       /\ StepsLeft(c)' <= StepsLeft(c)
       /\ Step(c) => StepsLeft(c)' < StepsLeft(c)]_vars

\* A call writes as StagedWrite says: its stages in order, each frame once, none
\* behind an error of any kind, the color last, and no frames of two calls mixed
\* on one controller.
RECORD == 5

Parts(o) == Plan(o) \cup (IF o = "set_all" THEN {RECORD} ELSE {})

Writing(c) == error[c] = "none" /\ pc[c] \notin {"idle", "answered"}

Writes == INSTANCE StagedWrite WITH
  Actor <- Caller,
  Part <- Stages \cup {RECORD},
  Frames <- [s \in Stages \cup {RECORD} |-> IF s = RECORD THEN 1 ELSE Steps[s]],
  Plans <- {Parts(o) : o \in Ops},
  Shared <- {{KB, STATUS}, {STATIC, POWER}},
  plan <- [c \in Caller |-> IF Writing(c) THEN Parts(op[c]) ELSE {}],
  taken <- [c \in Caller |-> [s \in Stages \cup {RECORD} |->
              IF s = RECORD THEN (IF saved[c] THEN 1 ELSE 0) ELSE taken[c][s]]]

StagedWrites == Writes!Spec

\* README: "Structured reports preserve completed, failed, and not-started
\* stage counts", of the keyboard stage too.
KeyboardProgressKept ==
  \A c \in Caller : (pc[c] = "answered" /\ op[c] = "set_all") =>
    taken[c][KB] <= outcome[c][KB].completed + 1

\* README on the power profile: a release or reattach failure "preserves
\* completed transfer progress".
CleanupKeepsProgress ==
  \A c \in Caller :
    (pc[c] = "answered" /\ op[c] = "power" /\ error[c] = "cleanup") =>
      answer[c].performed
=============================================================================
