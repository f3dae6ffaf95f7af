------------------------------- MODULE Commands -------------------------------
(***************************************************************************)
(* One run of the program, from its first argument to its exit code:       *)
(* src/src/main.rs and the commands of src/src/cli.rs, with the plans of   *)
(* module Plans.  An argument is read per step; then the line is judged,   *)
(* its command runs, and a live command sends its plan frame by frame.     *)
(*                                                                         *)
(* What an executor does around a frame (guards, acquisition, cleanup,     *)
(* progress) is the subject of Executor, and when a gate is passed that of *)
(* Selection: here a gate may pass or not and any frame may fail.  --json, *)
(* which chooses how a result is written, is left out.                     *)
(***************************************************************************)
EXTENDS Plans

CONSTANTS
  Lists,     \* the values of --target, as sequences of names
  MoreNames  \* bound: names given by a line with several --target options

ASSUME CommandsAssumption ==
  MoreNames \in Nat /\ \A names \in Lists : names \in Seq(STRING)

ReadOnly == {"list", "info", "doctor", "zones"}
Live     == {"set", "set-all", "power-profile", "keyboard-status"}

DryRun == "--dry-run"
Apply  == "--apply"

Confirmations(c) ==
  CASE c = "set" -> {"--experimental", "--confirm-live-write"}
    [] c = "set-all" -> {"--experimental", "--confirm-live-write",
                         "--confirm-power-profile-write",
                         "--confirm-set-all-write"}
    [] c = "power-profile" -> {"--experimental",
                               "--confirm-power-profile-write"}
    [] c = "keyboard-status" -> {"--experimental", "--confirm-live-query"}
    [] OTHER -> {}

Modes(c)    == IF c \in Live \ {"keyboard-status"} THEN {DryRun, Apply} ELSE {}
Switches(c) == Confirmations(c) \cup Modes(c)

VARIABLES
  pc,       \* "start", "args", "run", "send" or "exited"
  cmd,      \* the command
  flags,    \* the switches seen
  color,    \* "none", "plain" (RRGGBB) or "hashed" (#RRGGBB)
  device,   \* the value of --device, or "none"
  targets,  \* the names of the --target options
  options,  \* how many --target options there were
  plan,     \* the plan encoded by the command
  sent,     \* the frames of the plan the controllers have taken
  code,     \* the error of the run, or "none"
  exit,     \* the exit code
  report    \* the counts reported on success, stage by stage

line == <<cmd, flags, color, device, targets, options>>
vars == <<pc, line, plan, sent, code, exit, report>>

Reports == [assignments : Seq(Nat), color_frames : Nat, steps : Seq(Nat),
            total : Nat]
NoReport == [assignments |-> <<>>, color_frames |-> 0, steps |-> <<>>, total |-> 0]

Errors == {"none", "invalid_arguments", "refused", "invalid_keyboard_targets",
           "single_known_target_required", "invalid_target",
           "keyboard_target_limit_exceeded", "hardware_gate_failed",
           "invalid_plan", "discovery", "transport", "incomplete", "unsaved"}

Init ==
  /\ pc = "start" /\ cmd = "none" /\ flags = {} /\ color = "none"
  /\ device = "none" /\ targets = <<>> /\ options = 0
  /\ plan = <<>> /\ sent = 0 /\ code = "none" /\ exit = "none"
  /\ report = NoReport

Exit(status, error) ==
  /\ pc' = "exited"
  /\ exit' = status
  /\ code' = error

Proceed(point) == pc' = point /\ UNCHANGED <<exit, code>>

------------------------------------------------------------------------------
(* The arguments *)

\* main exits with 2 when the arguments cannot be parsed.
Usage(error) == Exit("usage", error) /\ UNCHANGED <<line, plan, sent, report>>

Begin(c) ==
  /\ pc = "start"
  /\ cmd' = c
  /\ Proceed("args")
  /\ UNCHANGED <<flags, color, device, targets, options, plan, sent, report>>

Parsing == pc = "args" /\ Proceed("args") /\ UNCHANGED <<cmd, plan, sent, report>>

\* A switch is taken once.
Switch(s) ==
  /\ Parsing
  /\ s \in Switches(cmd) \ flags
  /\ flags' = flags \cup {s}
  /\ UNCHANGED <<color, device, targets, options>>

Color(value) ==
  /\ Parsing
  /\ cmd \in {"set", "set-all", "power-profile"}
  /\ color = "none"
  /\ color' = value
  /\ UNCHANGED <<flags, device, targets, options>>

GiveDevice(d) ==
  /\ Parsing
  /\ cmd \in {"set", "zones"}
  /\ device = "none"
  /\ device' = d
  /\ UNCHANGED <<flags, color, targets, options>>

\* --target may come again; its value is cut at the commas, and none of the
\* names may be empty.
Target(names) ==
  /\ Parsing
  /\ cmd = "set"
  /\ options = 0 \/ Len(targets) + Len(names) <= MoreNames
  /\ ~Mentions(names, {""})
  /\ targets' = targets \o names
  /\ options' = options + 1
  /\ UNCHANGED <<flags, color, device>>

\* No command, an unknown one, help, and any argument that is repeated,
\* unknown, without its value or with a malformed one.
Misuse == pc \in {"start", "args"} /\ Usage("invalid_arguments")

\* Exactly one of --dry-run and --apply, and the confirmations with the
\* latter only.
ModeIsConfirmed ==
  /\ (DryRun \in flags) # (Apply \in flags)
  /\ Confirmations(cmd) \cap flags = IF Apply \in flags THEN Confirmations(cmd)
                                                        ELSE {}

\* Mutant: --experimental alone confirms a write.
ExperimentalIsEnough ==
  /\ color # "none"
  /\ (DryRun \in flags) # (Apply \in flags)
  /\ Apply \in flags => "--experimental" \in flags /\ color # "hashed"

\* Mutant: the color of the restoration helper is taken for one with a '#'.
PlainIsRefused ==
  /\ color # "none"
  /\ ModeIsConfirmed
  /\ Apply \in flags => color # "plain"

\* parse_set_all and parse_power_profile, after their last argument.
parse_power_profile ==
  /\ color # "none"
  /\ ModeIsConfirmed
  /\ Apply \in flags => color # "hashed"

parse_set_all ==
  /\ color # "none"
  /\ ModeIsConfirmed
  /\ Apply \in flags => color # "hashed"

parse_keyboard_status == Confirmations(cmd) \subseteq flags

parse_set ==
  /\ device # "none" /\ targets # <<>> /\ color # "none"
  /\ ModeIsConfirmed
  /\ device = "chassis" => ~Mentions(targets, {"power", "power-button", All})
  /\ (device = "keyboard" /\ Apply \in flags) =>
       options = 1 /\ validate_keyboard_live_target_names(targets)

Accepted ==
  CASE cmd = "set" -> parse_set
    [] cmd = "set-all" -> parse_set_all
    [] cmd = "power-profile" -> parse_power_profile
    [] cmd = "keyboard-status" -> parse_keyboard_status
    [] OTHER -> TRUE

EndOfArguments ==
  /\ pc = "args"
  /\ IF Accepted THEN Proceed("run") /\ UNCHANGED <<line, plan, sent, report>>
                 ELSE Usage("refused")

------------------------------------------------------------------------------
(* The commands *)

Running(c) == pc = "run" /\ cmd = c /\ UNCHANGED <<line, sent>>

Fail(error) == Exit("failure", error) /\ UNCHANGED <<plan, report>>

Succeed(r) == Exit("success", "none") /\ report' = r

\* The read-only commands report what discovery found; zones needs none.
RunReadOnly ==
  \E c \in ReadOnly :
    /\ Running(c)
    /\ \/ Succeed(NoReport) /\ UNCHANGED plan
       \/ c # "zones" /\ Fail("discovery")

\* keyboard-status sends the query and reads the answer.
RunKeyboardStatus ==
  /\ Running("keyboard-status")
  /\ plan' = <<QueryStatus, ReadStatus>>
  /\ Proceed("send")
  /\ UNCHANGED report

ResolvedIds == expand(device, targets)

Encode(d, S) == IF d = "keyboard" THEN KeyboardPlan(S) ELSE StaticPlan(S)
Encodes(d, S) == IF d = "keyboard" THEN KeyboardEncodes(S) ELSE StaticEncodes(S)

\* prepare_keyboard or prepare_aw_elc, then the validation of the plan.
Sealed(d, S) ==
  IF d = "keyboard"
    THEN PreparesKeyboard(S) /\ validate_keyboard_plan(KeyboardPlan(S))
    ELSE StaticEncodes(S) /\ validate_aw_elc_plan(StaticPlan(S))

\* What stops a dry run of set, in the order of the checks.
DryRunSetError(gate) ==
  IF ~resolve_targets(device, targets) THEN "invalid_target"
  ELSE IF ~gate THEN "hardware_gate_failed"
  ELSE IF ~Encodes(device, ResolvedIds) THEN "invalid_plan"
  ELSE "none"

DryRunSet(gate) ==
  /\ Running("set") /\ DryRun \in flags
  /\ LET error == DryRunSetError(gate)
     IN  \/ error # "none" /\ Fail(error)
         \/ /\ error = "none"
            /\ plan' = Encode(device, ResolvedIds)
            /\ Succeed(NoReport)

\* What stops a live set before its first frame, in the order of the checks.
LiveSetError(gate) ==
  IF device = "keyboard" /\ ~validate_keyboard_live_target_names(targets)
    THEN "invalid_keyboard_targets"
  ELSE IF device = "chassis" /\ (Len(targets) # 1 \/ targets = <<All>>)
    THEN "single_known_target_required"
  ELSE IF ~resolve_targets(device, targets) THEN "invalid_target"
  ELSE IF ResolvedIds = {} \/ (device = "keyboard" /\
            Cardinality(ResolvedIds) > Cardinality(Ids("keyboard")))
    THEN "keyboard_target_limit_exceeded"
  ELSE IF device = "chassis" /\ Cardinality(ResolvedIds) # 1
    THEN "single_known_target_required"
  ELSE IF ~gate THEN "hardware_gate_failed"
  ELSE IF ~Sealed(device, ResolvedIds) THEN "invalid_plan"
  ELSE "none"

ApplySet(gate) ==
  /\ Running("set") /\ Apply \in flags
  /\ LET error == LiveSetError(gate)
     IN  \/ error # "none" /\ Fail(error)
         \/ /\ error = "none"
            /\ plan' = Encode(device, ResolvedIds)
            /\ Proceed("send")
            /\ UNCHANGED report

\* power_profile_report.
PowerCounts == [assignments |-> <<1>>, color_frames |-> 0,
                steps |-> <<Len(PowerPlan)>>, total |-> Len(PowerPlan)]

\* set_all_report: what a dry run shows, and a live run reports.
SetAllCounts == [assignments |-> <<85, 2, 1>>, color_frames |-> 6,
                 steps |-> <<11, 4, 34>>, total |-> 49]

set_all_report ==
  KeyboardPlan(Ids("keyboard")) \o StaticPlan({0, 2}) \o PowerPlan

DryRunSetAll ==
  /\ Running("set-all") /\ DryRun \in flags
  /\ plan' = set_all_report
  /\ Succeed(SetAllCounts)

\* prepare_set_all: the plans a live run sends.
prepare_set_all ==
  KeyboardPlan(Ids("keyboard")) \o StaticPlan({0, 2}) \o PowerPlan

SealedSetAll ==
  /\ Sealed("keyboard", Ids("keyboard"))
  /\ Sealed("chassis", {0, 2})
  /\ validate_power_profile_plan(PowerPlan)

ApplySetAll ==
  /\ Running("set-all") /\ Apply \in flags
  /\ IF SealedSetAll
       THEN plan' = prepare_set_all /\ Proceed("send") /\ UNCHANGED report
       ELSE Fail("invalid_plan")

\* The gate comes first in both modes.
PowerProfileError(gate) ==
  IF ~gate THEN "hardware_gate_failed"
  ELSE IF Apply \in flags /\ ~validate_power_profile_plan(PowerPlan)
    THEN "invalid_plan"
  ELSE "none"

RunPowerProfile(gate) ==
  /\ Running("power-profile")
  /\ LET error == PowerProfileError(gate)
     IN  \/ error # "none" /\ Fail(error)
         \/ /\ error = "none"
            /\ plan' = PowerPlan
            /\ \/ DryRun \in flags /\ Succeed(PowerCounts)
               \/ Apply \in flags /\ Proceed("send") /\ UNCHANGED report

\* Discovery itself fails before set and power-profile do anything else.
DiscoveryFails ==
  \E c \in {"set", "power-profile"} : Running(c) /\ Fail("discovery")

------------------------------------------------------------------------------
(* The executors, frame by frame *)

Sending == pc = "send" /\ UNCHANGED <<line, plan>>

\* Mutant: one frame is sent beyond the last.
SendOneMore ==
  /\ Sending
  /\ sent <= Len(plan)
  /\ sent' = sent + 1
  /\ Proceed("send")
  /\ UNCHANGED report

Send ==
  /\ Sending
  /\ sent < Len(plan)
  /\ sent' = sent + 1
  /\ Proceed("send")
  /\ UNCHANGED report

\* A guard, the fresh gates or the acquisition before a frame, the transfer
\* itself, which may have reached the controller, or the cleanup.
SendFails ==
  /\ Sending
  /\ \/ UNCHANGED sent
     \/ sent < Len(plan) /\ sent' = sent + 1
  /\ Exit("failure", "transport")
  /\ UNCHANGED report

\* The steps of each stage the executor completed, against the counts of
\* set_all_completed_canonically.
Stage(k) ==
  IF plan[k].transfer # "usb_output" THEN 1
  ELSE IF plan[k].state = 0 /\ plan[k].step # "final_play" THEN 2
  ELSE 3

set_all_completed_canonically ==
  \A s \in 1..3 :
    Cardinality({k \in 1..sent : Stage(k) = s}) = <<11, 4, 34>>[s]

\* The receipt of a power profile, compared with the plan encoded again.
CanonicalReceipt ==
  /\ sent = Len(PowerPlan)
  /\ \A k \in 1..sent : plan[k].step = PowerPlan[k].step
                        /\ plan[k].state = PowerPlan[k].state

SetReport(keyboard_frames) ==
  [assignments  |-> <<Cardinality(ResolvedIds)>>,
   color_frames |-> IF device = "keyboard" THEN keyboard_frames ELSE 1,
   steps        |-> <<sent>>,
   total        |-> sent]

\* Mutant: the number of color frames is rounded down.
RoundedDown ==
  CASE cmd = "set" -> SetReport(Cardinality(ResolvedIds) \div 15 + 1)
    [] cmd = "set-all" -> SetAllCounts
    [] cmd = "power-profile" -> PowerCounts
    [] OTHER -> NoReport

Report ==
  CASE cmd = "set" -> SetReport(div_ceil(Cardinality(ResolvedIds), 15))
    [] cmd = "set-all" -> SetAllCounts
    [] cmd = "power-profile" -> PowerCounts
    [] OTHER -> NoReport

\* The comparison the command makes of what the executor returned.
Canonical ==
  CASE cmd = "set-all" -> set_all_completed_canonically
    [] cmd = "power-profile" -> CanonicalReceipt
    [] OTHER -> TRUE

\* A set-all also records its color, which may fail.
Finish ==
  /\ Sending /\ UNCHANGED sent
  /\ sent = Len(plan)
  /\ IF Canonical
       THEN \/ Succeed(Report)
            \/ cmd = "set-all" /\ Exit("failure", "unsaved") /\ UNCHANGED report
       ELSE Exit("failure", "incomplete") /\ UNCHANGED report

Ended == pc = "exited" /\ UNCHANGED vars

Arguments ==
  \/ \E c \in ReadOnly \cup Live : Begin(c)
  \/ \E s \in Switches(cmd) : Switch(s)
  \/ \E value \in {"plain", "hashed"} : Color(value)
  \/ \E d \in Device : GiveDevice(d)
  \/ \E names \in Lists : Target(names)
  \/ Misuse
  \/ EndOfArguments

Run ==
  \/ RunReadOnly
  \/ RunKeyboardStatus
  \/ \E gate \in BOOLEAN :
       DryRunSet(gate) \/ ApplySet(gate) \/ RunPowerProfile(gate)
  \/ DryRunSetAll
  \/ ApplySetAll
  \/ DiscoveryFails

Next == Arguments \/ Run \/ Send \/ SendFails \/ Finish \/ Ended

Spec == Init /\ [][Next]_vars

------------------------------------------------------------------------------
(* Properties *)

\* Every variable has its type, and no frame is sent beyond the plan's last.
TypeOK ==
  /\ pc \in {"start", "args", "run", "send", "exited"}
  /\ cmd \in ReadOnly \cup Live \cup {"none"}
  /\ flags \subseteq Switches(cmd)
  /\ color \in {"none", "plain", "hashed"}
  /\ device \in Device \cup {"none"}
  /\ targets \in Seq(STRING)
  /\ options \in Nat
  /\ plan \in Seq(Frames)
  /\ sent \in 0..Len(plan)
  /\ code \in Errors
  /\ exit \in {"none", "success", "failure", "usage"}
  /\ report \in Reports

\* Nothing leaves for a controller in a dry run, in a read-only command or
\* without every confirmation of its command; the two commands that demand it
\* got a color without '#', and keyboard-status never sends more than its
\* query (README.md, "Live AW-ELC syntax" and the lines around it).
ConfirmedOnly ==
  sent > 0 =>
    /\ cmd \in Live
    /\ Confirmations(cmd) \subseteq flags
    /\ DryRun \notin flags
    /\ cmd # "keyboard-status" => Apply \in flags
    /\ cmd \in {"set-all", "power-profile"} => color = "plain"
    /\ cmd = "keyboard-status" =>
         \A k \in 1..sent : plan[k].step \in {"query_status", "read_status"}

\* The color frames of a controller among the first n.
ColorFramesOf(d, n) ==
  {k \in 1..n : /\ plan[k].step = "set_color"
                /\ (plan[k].transfer = "feature_write") = (d = "keyboard")}

\* The ids the k-th frame colors: the keyboard takes them plus one.
Colored(d, k) ==
  IF d = "keyboard" THEN {e - 1 : e \in plan[k].ids} ELSE plan[k].ids

Addressed(d, n) == UNION {Colored(d, k) : k \in ColorFramesOf(d, n)}

Asked(d) ==
  CASE cmd = "set" /\ device = d ->
         IF Mentions(targets, {All}) THEN Ids(d)
         ELSE {i \in Ids(d) : \E k \in DOMAIN targets :
                                Known(d, targets[k]) /\ lookup(d, targets[k]) = i}
    [] cmd = "set-all" -> Ids(d) \ (IF d = "chassis" THEN {POWER_LOGICAL_ID}
                                                    ELSE {})
    [] OTHER -> {}

\* However the frames of a plan are cut and wherever sending stops, the
\* targets colored so far are the lowest of those asked for, each colored once
\* and nothing else. A command that succeeds has shown the frames for all of
\* them, and a live one has sent them: what a dry run shows and what a live run
\* prepares come from different functions, and each is held to the targets.
AddressedAsAsked ==
  \A d \in Device :
    /\ Addressed(d, sent) \subseteq Asked(d)
    /\ \A i \in Addressed(d, sent), j \in Asked(d) :
         j < i => j \in Addressed(d, sent)
    /\ \A j, k \in ColorFramesOf(d, sent) :
         j # k => Colored(d, j) \cap Colored(d, k) = {}
    /\ exit = "success" =>
         /\ Addressed(d, Len(plan)) = Asked(d)
         /\ Apply \in flags => Addressed(d, sent) = Asked(d)

\* The power button is never colored by the ordinary static operation, under
\* none of its names, shown or sent (README.md: it has a dedicated profile).
PowerOnlyByProfile ==
  \A k \in DOMAIN plan :
    plan[k].transfer = "usb_output" /\ POWER_LOGICAL_ID \in plan[k].ids =>
      plan[k].step = "color_select" /\ cmd \in {"power-profile", "set-all"}

\* Every frame of every plan, shown or sent, fits its buffer; no color frame
\* is empty, and every id on the wire is a byte.
FramesFit ==
  \A k \in DOMAIN plan :
    /\ plan[k].bytes <= IF plan[k].transfer = "usb_output" THEN AW_ELC_LENGTH
                                                          ELSE KEYBOARD_LENGTH
    /\ plan[k].step = "set_color" => plan[k].ids # {}
    /\ plan[k].ids \subseteq 0..255

\* What the parser lets through, no later layer refuses for its shape: not the
\* name checks repeated before the write, not the sealed layer's preparation
\* and validation, and a set-all or power profile whose every frame was taken
\* is recognised as complete.
AcceptedIsSendable ==
  code \notin {"invalid_keyboard_targets", "keyboard_target_limit_exceeded",
               "invalid_plan", "incomplete"}

\* The counts a successful command reports are those of its plan, for a
\* set-all stage by stage: the literals of set_all_report are those of the plans
\* it prints beside them.
ReportAgrees ==
  LET colored(d) == Cardinality(Addressed(d, Len(plan)))
      steps(s)   == Cardinality({k \in 1..Len(plan) : Stage(k) = s})
  IN  exit = "success" /\ report # NoReport =>
        /\ report.total = Len(plan)
        /\ report.color_frames =
             IF cmd = "set" /\ device = "chassis"
               THEN Cardinality(ColorFramesOf("chassis", Len(plan)))
               ELSE Cardinality(ColorFramesOf("keyboard", Len(plan)))
        /\ report.assignments =
             CASE cmd = "set"     -> <<colored(device)>>
               [] cmd = "set-all" -> <<colored("keyboard"), colored("chassis"), 1>>
               [] OTHER           -> <<1>>
        /\ report.steps = IF cmd = "set-all" THEN <<steps(1), steps(2), steps(3)>>
                                            ELSE <<Len(plan)>>

\* The live targets README.md and the usage text allow: one zone by a name of
\* its own; or, in one option, "all" alone or 1..=75 names of different keys,
\* none of them numeric.
DocumentedTargets ==
  \/ /\ device = "chassis"
     /\ Len(targets) = 1
     /\ Known("chassis", targets[1])
     /\ lookup("chassis", targets[1]) # POWER_LOGICAL_ID
  \/ /\ device = "keyboard"
     /\ options = 1
     /\ \/ targets = <<All>>
        \/ /\ Len(targets) \in 1..75
           /\ \A k \in DOMAIN targets :
                Known("keyboard", targets[k]) /\ targets[k] \notin Digits
           /\ \A j, k \in DOMAIN targets :
                j # k => lookup("keyboard", targets[j])
                           # lookup("keyboard", targets[k])

\* No other targets are written to: empty items, unknown, numeric and repeated
\* names, aliases of a key already named and "all" among others stop first.
OnlyDocumentedTargets == sent > 0 /\ cmd = "set" => DocumentedTargets

DocumentedLine ==
  /\ cmd \in Live
  /\ flags = Switches(cmd) \ {DryRun}
  /\ cmd \in {"set-all", "power-profile"} => color = "plain"
  /\ cmd = "set" => color # "none" /\ DocumentedTargets

\* Every live line of the usage text is accepted, whatever the order of its
\* arguments, among them the line of contrib/systemd/alienrgb-resume.
DocumentedLinesRun ==
  code \in {"refused", "invalid_keyboard_targets", "invalid_target",
            "single_known_target_required"} => ~DocumentedLine
=============================================================================
