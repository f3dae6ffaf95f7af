---------------------------- MODULE CommandsProofs ----------------------------
(***************************************************************************)
(* The invariants of Commands for any catalog that satisfies               *)
(* TargetsAssumption, any target lists and any number of names.            *)
(*                                                                         *)
(* The argument: once a line is judged it does not change, so what the     *)
(* parser demanded still holds when a frame leaves; the plan in hand is    *)
(* the one its command encodes for the targets of that line; and what the  *)
(* encoders make of any targets is known from PlansProofs.                 *)
(***************************************************************************)
EXTENDS Commands, PlansProofs

\* Before a command runs nothing is planned or sent, and before it ends nothing
\* is reported.
Fresh ==
  /\ pc \in {"start", "args", "run"} => plan = <<>> /\ sent = 0
  /\ pc # "exited" => code = "none" /\ exit = "none" /\ report = NoReport

\* A plan belongs to a line that was accepted.
Judged ==
  /\ pc = "start" => flags = {}
  /\ pc = "args" => cmd \in ReadOnly \cup Live
  /\ pc \in {"run", "send"} \/ plan # <<>> =>
       cmd \in ReadOnly \cup Live /\ Accepted

\* The plan in hand is that of the command for its targets.
PlanIs ==
  plan # <<>> =>
    \/ /\ cmd = "set"
       /\ resolve_targets(device, targets)
       /\ plan = Encode(device, ResolvedIds)
    \/ cmd = "set-all" /\ plan = set_all_report
    \/ cmd = "power-profile" /\ plan = PowerPlan
    \/ cmd = "keyboard-status" /\ plan = <<QueryStatus, ReadStatus>>

\* What sending takes: a live command in its live mode, with a target list the
\* checks before the first frame let through.
Vetted ==
  pc = "send" \/ sent > 0 =>
    /\ plan # <<>>
    /\ cmd \in Live
    /\ cmd # "keyboard-status" => Apply \in flags
    /\ cmd = "set" /\ device = "keyboard" =>
         validate_keyboard_live_target_names(targets)
    /\ cmd = "set" /\ device = "chassis" =>
         Len(targets) = 1 /\ targets # <<All>>

\* A command other than a read-only one succeeds with a plan, and a live one
\* when it has sent all of it.
Complete ==
  exit = "success" =>
    /\ plan # <<>> \/ cmd \in ReadOnly
    /\ Apply \in flags => plan # <<>> /\ sent = Len(plan)

IInv == TypeOK /\ Fresh /\ Judged /\ PlanIs /\ Vetted /\ Complete
-----------------------------------------------------------------------------
(* Targets *)

\* lookup finds an id of the controller for every name it knows.
LEMMA LookupIsId ==
  ASSUME NEW d \in Device, NEW t, Known(d, t)
  PROVE  lookup(d, t) \in Ids(d)
BY TargetsAssumption DEF Known, lookup, Ids

\* A resolved list is "all" alone or names targets one by one; it stands for
\* some ids of the controller.
LEMMA ResolvedTargets ==
  ASSUME NEW d \in Device, NEW ts \in Seq(STRING), ts # <<>>,
         resolve_targets(d, ts)
  PROVE  /\ expand(d, ts) \in SUBSET Ids(d)
         /\ expand(d, ts) # {}
         /\ Mentions(ts, {All}) => ts = <<All>> /\ expand(d, ts) = Ids(d)
         /\ ~Mentions(ts, {All}) =>
              /\ \A k \in DOMAIN ts : Known(d, ts[k])
              /\ expand(d, ts) = {lookup(d, ts[k]) : k \in DOMAIN ts}
<1>1. Len(ts) \in Nat \ {0} /\ DOMAIN ts = 1..Len(ts)
  BY EmptySeq, LenProperties
<1>2. Ids(d) # {}
  BY TargetsAssumption DEF Ids
<1>3. CASE Mentions(ts, {All})
  <2>1. Len(ts) = 1
    BY <1>3 DEF resolve_targets
  <2>2. DOMAIN ts = {1}
    BY <1>1, <2>1
  <2>3. ts[1] = All
    BY <1>3, <2>2 DEF Mentions
  <2>4. expand(d, ts) = Meant(d, ts[1])
    BY <2>2 DEF expand
  <2>5. expand(d, ts) = Ids(d)
    BY <2>3, <2>4 DEF Meant
  <2>6. ts = <<All>>
    <3>. DEFINE one == <<All>>
    <3>1. one \in Seq({All}) /\ Len(one) = 1 /\ one[1] = All
      OBVIOUS
    <3>2. ts \in [1..1 -> {All}]
      BY <1>1, <2>1, <2>3
    <3>3. ts \in Seq({All})
      <4>. DEFINE T == {All}
      <4>1. ts \in [1..1 -> T]
        BY <3>2
      <4>. HIDE DEF T
      <4>2. ts \in Seq(T)
        BY <4>1, IntervalIsSeq
      <4>. QED
        BY <4>2 DEF T
    <3>. HIDE DEF one
    <3>4. Len(ts) = Len(one) /\ \A i \in 1..Len(ts) : ts[i] = one[i]
      BY <2>1, <2>3, <3>1
    <3>5. ts = one
      BY <3>1, <3>3, <3>4, SeqEqual
    <3>. QED
      BY <3>5 DEF one
  <2>. QED
    BY <1>2, <1>3, <2>5, <2>6
<1>4. CASE ~Mentions(ts, {All})
  <2>1. \A k \in DOMAIN ts : ts[k] # All /\ Known(d, ts[k])
    BY <1>4 DEF Mentions, resolve_targets, Expands
  <2>2. \A k \in DOMAIN ts : Meant(d, ts[k]) = {lookup(d, ts[k])}
    BY <2>1 DEF Meant
  <2>3. expand(d, ts) = {lookup(d, ts[k]) : k \in DOMAIN ts}
    BY <2>2 DEF expand
  <2>4. \A k \in DOMAIN ts : lookup(d, ts[k]) \in Ids(d)
    BY <2>1, LookupIsId
  <2>5. 1 \in DOMAIN ts
    BY <1>1
  <2>. QED
    BY <1>4, <2>1, <2>3, <2>4, <2>5
<1>. QED
  BY <1>3, <1>4

\* A list without the names of the power button does not stand for it.
LEMMA PowerIsNamed ==
  ASSUME NEW ts \in Seq(STRING), ts # <<>>, resolve_targets("chassis", ts),
         ~Mentions(ts, {"power", "power-button", All})
  PROVE  POWER_LOGICAL_ID \notin expand("chassis", ts)
<1>1. ~Mentions(ts, {All})
  BY DEF Mentions
<1>2. /\ \A k \in DOMAIN ts : Known("chassis", ts[k])
      /\ expand("chassis", ts) = {lookup("chassis", ts[k]) : k \in DOMAIN ts}
  BY <1>1, ResolvedTargets DEF Device
<1>3. ASSUME NEW k \in DOMAIN ts, lookup("chassis", ts[k]) = POWER_LOGICAL_ID
      PROVE  FALSE
  <2>1. ts[k] \in DOMAIN Zones \cup DOMAIN ZoneAliases
    BY <1>2 DEF Known, Names, Aliases
  <2>2. lookup("chassis", ts[k]) =
          IF ts[k] \in DOMAIN Zones THEN Zones[ts[k]] ELSE ZoneAliases[ts[k]]
    BY DEF lookup, Names, Aliases
  <2>3. ts[k] \in {"power", "power-button"}
    BY <1>3, <2>1, <2>2, TargetsAssumption
  <2>. QED
    BY <2>3 DEF Mentions
<1>. QED
  BY <1>2, <1>3

\* The names a keyboard write accepts resolve, to as many keys as the catalog
\* has at most.
LEMMA LiveNamesResolve ==
  ASSUME NEW ts \in Seq(STRING), validate_keyboard_live_target_names(ts)
  PROVE  ts # <<>> /\ resolve_targets("keyboard", ts)
<1>1. CASE ts = <<All>>
  <2>1. Len(ts) = 1 /\ DOMAIN ts = {1} /\ ts[1] = All
    BY <1>1
  <2>2. \A j, k \in DOMAIN ts : j = k
    BY <2>1
  <2>3. Expands("keyboard", ts)
    BY <2>1, <2>2 DEF Expands
  <2>. QED
    BY <2>1, <2>3 DEF resolve_targets
<1>2. CASE ts # <<All>>
  <2>1. /\ resolve_targets("keyboard", ts)
        /\ Cardinality(expand("keyboard", ts)) # 0
    BY <1>2 DEF validate_keyboard_live_target_names
  <2>2. ts # <<>>
    <3>1. SUFFICES ASSUME ts = <<>> PROVE FALSE
      OBVIOUS
    <3>2. DOMAIN ts = {}
      BY <3>1
    <3>3. expand("keyboard", ts) = {}
      BY <3>2 DEF expand
    <3>. QED
      BY <2>1, <3>3, FS_EmptySet
  <2>. QED
    BY <2>1, <2>2
<1>. QED
  BY <1>1, <1>2
-----------------------------------------------------------------------------
(* The plans of the commands *)

\* A plan of the static operation for a line the parser took, and every other
\* plan, is a sequence of sound frames, and not empty.
LEMMA EncodedSound ==
  ASSUME NEW d \in Device, NEW S \in SUBSET Ids(d), S # {},
         d = "chassis" => POWER_LOGICAL_ID \notin S
  PROVE  /\ Encode(d, S) \in Seq(SoundFrames)
         /\ Encode(d, S) # <<>>
         /\ \A k \in DOMAIN Encode(d, S) : Encode(d, S)[k].step # "color_select"
<1>1. CASE d = "keyboard"
  <2>1. /\ KeyboardPlan(S) \in Seq(KeyboardFrames)
        /\ Len(KeyboardPlan(S)) = ColorFrames(S) + 5
    BY <1>1, KeyboardPlanShape
  <2>2. ColorFrames(S) \in Nat
    BY <1>1, IdsAreBytes, FS_Subset, Chunks
  <2>3. KeyboardPlan(S) \in Seq(SoundFrames)
    BY <2>1, SeqMonotonic DEF KeyboardFrames
  <2>4. KeyboardPlan(S) # <<>>
    BY <2>1, <2>2, EmptySeq
  <2>5. DOMAIN KeyboardPlan(S) = 1..ColorFrames(S) + 5
    BY <2>1, LenProperties
  <2>6. \A k \in 1..ColorFrames(S) + 5 : KeyboardPlan(S)[k].step # "color_select"
    BY <1>1, <2>2, KeyboardPlanSteps
  <2>. QED
    BY <1>1, <2>3, <2>4, <2>5, <2>6 DEF Encode
<1>2. CASE d = "chassis"
  <2>1. S \in SUBSET (Ids("chassis") \ {POWER_LOGICAL_ID})
    BY <1>2
  <2>2. StaticPlan(S) \in Seq(StaticFrames) /\ Len(StaticPlan(S)) = 4
    BY <2>1, StaticPlanShape
  <2>3. StaticPlan(S) \in Seq(SoundFrames)
    BY <2>2, SeqMonotonic DEF StaticFrames
  <2>4. StaticPlan(S) # <<>>
    BY <2>2, EmptySeq
  <2>5. \A k \in DOMAIN StaticPlan(S) : StaticPlan(S)[k] \in StaticFrames
    BY <2>2, LenProperties, ElementOfSeq
  <2>. QED
    BY <1>2, <2>3, <2>4, <2>5 DEF Encode, StaticFrames
<1>. QED
  BY <1>1, <1>2 DEF Device

\* The same for the three plans that do not depend on targets.
LEMMA FixedPlansSound ==
  /\ set_all_report \in Seq(SoundFrames) /\ set_all_report # <<>>
  /\ PowerPlan \in Seq(SoundFrames) /\ PowerPlan # <<>>
  /\ <<QueryStatus, ReadStatus>> \in Seq(SoundFrames)
  /\ <<QueryStatus, ReadStatus>> # <<>>
<1>1. PowerPlan \in Seq(SoundFrames) /\ PowerPlan # <<>>
  <2>1. PowerPlan \in Seq(PowerFrames) /\ Len(PowerPlan) = 34
    BY PowerPlanShape
  <2>. QED
    BY <2>1, SeqMonotonic, EmptySeq DEF PowerFrames
<1>2. /\ KeyboardPlan(Ids("keyboard")) \in Seq(SoundFrames)
      /\ KeyboardPlan(Ids("keyboard")) # <<>>
  <2>1. Ids("keyboard") # {}
    BY TargetsAssumption DEF Device, Ids
  <2>. QED
    BY <2>1, EncodedSound DEF Device, Encode
<1>3. StaticPlan({0, 2}) \in Seq(SoundFrames)
  <2>1. {0, 2} \in SUBSET Ids("chassis") /\ POWER_LOGICAL_ID \notin {0, 2}
    BY TargetsAssumption DEF POWER_LOGICAL_ID
  <2>2. Encode("chassis", {0, 2}) \in Seq(SoundFrames)
    BY <2>1, EncodedSound DEF Device
  <2>. QED
    BY <2>2 DEF Encode
<1>4. set_all_report \in Seq(SoundFrames) /\ set_all_report # <<>>
  <2>. DEFINE a == KeyboardPlan(Ids("keyboard"))
              b == StaticPlan({0, 2})
              F == SoundFrames
  <2>1. a \in Seq(F) /\ b \in Seq(F) /\ PowerPlan \in Seq(F) /\ a # <<>>
    BY <1>1, <1>2, <1>3
  <2>. HIDE DEF a, b, F
  <2>2. a \o b \in Seq(F)
    BY <2>1
  <2>3. a \o b # <<>>
    BY <2>1, ConcatEqualIffEmpty
  <2>4. (a \o b) \o PowerPlan \in Seq(F)
    BY <2>1, <2>2
  <2>5. (a \o b) \o PowerPlan # <<>>
    BY <2>1, <2>2, <2>3, ConcatEqualIffEmpty
  <2>. QED
    BY <2>4, <2>5 DEF set_all_report, a, b, F
<1>5. QueryStatus \in SoundFrames /\ ReadStatus \in SoundFrames
  BY DEF QueryStatus, ReadStatus, Feature, SoundFrames, Frames, Steps, Transfers,
         Codes, KEYBOARD_LENGTH
<1>6. /\ <<QueryStatus, ReadStatus>> \in Seq(SoundFrames)
      /\ <<QueryStatus, ReadStatus>> # <<>>
  BY <1>5
<1>. QED
  BY <1>1, <1>4, <1>6

\* What the parser demands of a set.
LEMMA AcceptedSet ==
  ASSUME cmd = "set", Accepted
  PROVE  /\ device # "none" /\ targets # <<>> /\ color # "none"
         /\ ModeIsConfirmed
         /\ device = "chassis" =>
              ~Mentions(targets, {"power", "power-button", All})
         /\ device = "keyboard" /\ Apply \in flags =>
              options = 1 /\ validate_keyboard_live_target_names(targets)
BY DEF Accepted, parse_set

\* The targets an accepted set resolves to: some of the controller's, never
\* the power button.
LEMMA ResolvedIdsFit ==
  ASSUME TypeOK, cmd = "set", Accepted, resolve_targets(device, targets)
  PROVE  /\ device \in Device
         /\ ResolvedIds \in SUBSET Ids(device)
         /\ ResolvedIds # {}
         /\ device = "chassis" => POWER_LOGICAL_ID \notin ResolvedIds
<1>1. device \in Device /\ targets \in Seq(STRING) /\ targets # <<>>
  BY AcceptedSet DEF TypeOK
<1>2. device = "chassis" => POWER_LOGICAL_ID \notin ResolvedIds
  BY <1>1, AcceptedSet, PowerIsNamed DEF ResolvedIds
<1>. QED
  BY <1>1, <1>2, ResolvedTargets DEF ResolvedIds

\* The plan in hand is sound.
LEMMA PlanIsSound ==
  ASSUME TypeOK, Judged, PlanIs
  PROVE  plan \in Seq(SoundFrames)
<1>1. CASE plan = <<>>
  BY <1>1, EmptySeq
<1>2. CASE plan # <<>> /\ cmd = "set"
  <2>1. /\ resolve_targets(device, targets)
        /\ plan = Encode(device, ResolvedIds)
    BY <1>2 DEF PlanIs
  <2>2. Accepted
    BY <1>2 DEF Judged
  <2>. QED
    BY <1>2, <2>1, <2>2, ResolvedIdsFit, EncodedSound
<1>3. CASE plan # <<>> /\ cmd # "set"
  BY <1>3, FixedPlansSound DEF PlanIs
<1>. QED
  BY <1>1, <1>2, <1>3
-----------------------------------------------------------------------------
(* The invariant *)

\* What is reported without counting has its type.
LEMMA FixedReports ==
  /\ NoReport \in Reports
  /\ SetAllCounts \in Reports
  /\ PowerCounts \in Reports
<1>1. /\ <<>> \in Seq(Nat) /\ <<1>> \in Seq(Nat)
      /\ <<85, 2, 1>> \in Seq(Nat) /\ <<11, 4, 34>> \in Seq(Nat)
  OBVIOUS
<1>2. NoReport \in Reports /\ SetAllCounts \in Reports
  BY <1>1 DEF NoReport, SetAllCounts, Reports
<1>3. Len(PowerPlan) \in Nat
  BY PowerPlanShape
<1>. DEFINE n == Len(PowerPlan)
<1>. HIDE DEF n
<1>4. n \in Nat => <<n>> \in Seq(Nat)
  OBVIOUS
<1>. QED
  BY <1>1, <1>2, <1>3, <1>4 DEF PowerCounts, Reports, n

\* Nothing is given, planned or sent at first.
LEMMA Initially == Init => IInv
<1>. SUFFICES ASSUME Init PROVE IInv
  OBVIOUS
<1>1. TypeOK
  <2>1. plan \in Seq(Frames) /\ Len(plan) = 0 /\ targets \in Seq(STRING)
    BY EmptySeq DEF Init
  <2>2. NoReport \in Reports
    BY FixedReports
  <2>. QED
    BY <2>1, <2>2 DEF Init, TypeOK, Errors
<1>2. Fresh /\ Judged /\ PlanIs /\ Vetted /\ Complete
  BY DEF Init, Fresh, Judged, PlanIs, Vetted, Complete
<1>. QED
  BY <1>1, <1>2 DEF IInv

\* While the arguments are read there is no plan, so only types can break.
LEMMA StillParsing ==
  ASSUME IInv, TypeOK', pc \in {"start", "args"}, pc' = "args",
         cmd' \in ReadOnly \cup Live,
         UNCHANGED <<plan, sent, code, exit, report>>
  PROVE  IInv'
<1>1. /\ plan = <<>> /\ sent = 0 /\ code = "none" /\ exit = "none"
      /\ report = NoReport
  BY DEF IInv, Fresh
<1>2. Fresh'
  BY <1>1 DEF Fresh, NoReport
<1>3. Judged' /\ PlanIs' /\ Vetted' /\ Complete'
  BY <1>1 DEF Judged, PlanIs, Vetted, Complete
<1>. QED
  BY <1>2, <1>3 DEF IInv

\* What was judged and what it stands for change only with the line.
LEMMA LineStays ==
  ASSUME UNCHANGED line
  PROVE  /\ Accepted' = Accepted /\ ResolvedIds' = ResolvedIds
         /\ UNCHANGED <<cmd, flags, color, device, targets, options>>
BY DEF line, Accepted, parse_set, parse_set_all, parse_power_profile,
       parse_keyboard_status, ModeIsConfirmed, Confirmations, ResolvedIds

\* A usage error ends the run before anything was planned.
LEMMA UsageStep ==
  ASSUME IInv, NEW error \in Errors, pc \in {"start", "args"}, Usage(error)
  PROVE  IInv'
<1>1. /\ plan = <<>> /\ sent = 0 /\ code = "none" /\ exit = "none"
      /\ report = NoReport
  BY DEF IInv, Fresh
<1>2. TypeOK'
  BY DEF IInv, TypeOK, Usage, Exit, line, Switches, Confirmations, Modes
<1>3. Fresh' /\ Judged' /\ PlanIs' /\ Vetted' /\ Complete'
  BY <1>1 DEF Usage, Exit, Fresh, Judged, PlanIs, Vetted, Complete
<1>. QED
  BY <1>2, <1>3 DEF IInv

\* The steps that read an argument.
LEMMA ArgumentStep == IInv /\ Arguments => IInv'
<1>. SUFFICES ASSUME IInv, Arguments PROVE IInv'
  OBVIOUS
<1>. USE DEF Parsing, Proceed
<1>1. ASSUME NEW c \in ReadOnly \cup Live, Begin(c) PROVE IInv'
  <2>1. TypeOK'
    <3>1. flags' = {}
      BY <1>1 DEF Begin, IInv, Judged
    <3>2. flags' \subseteq Switches(cmd')
      BY <3>1
    <3>. QED
      BY <1>1, <3>2 DEF IInv, TypeOK, Begin
  <2>. QED
    BY <1>1, <2>1, StillParsing DEF Begin
<1>2. ASSUME NEW s \in Switches(cmd), Switch(s) PROVE IInv'
  <2>1. flags' \subseteq Switches(cmd)
    BY <1>2 DEF IInv, TypeOK, Switch
  <2>2. TypeOK'
    BY <1>2, <2>1 DEF IInv, TypeOK, Switch, Switches, Confirmations, Modes
  <2>. QED
    BY <1>2, <2>2, StillParsing DEF Switch, IInv, Judged
<1>3. ASSUME NEW value \in {"plain", "hashed"}, Color(value) PROVE IInv'
  <2>1. TypeOK'
    BY <1>3 DEF IInv, TypeOK, Color, Switches, Confirmations, Modes
  <2>. QED
    BY <1>3, <2>1, StillParsing DEF Color, IInv, Judged
<1>4. ASSUME NEW d \in Device, GiveDevice(d) PROVE IInv'
  <2>1. TypeOK'
    BY <1>4 DEF IInv, TypeOK, GiveDevice, Switches, Confirmations, Modes
  <2>. QED
    BY <1>4, <2>1, StillParsing DEF GiveDevice, IInv, Judged
<1>5. ASSUME NEW names \in Lists, Target(names) PROVE IInv'
  <2>1. targets' \in Seq(STRING)
    <3>1. targets \in Seq(STRING) /\ names \in Seq(STRING)
      BY CommandsAssumption DEF IInv, TypeOK
    <3>2. targets \o names \in Seq(STRING)
      BY <3>1, ConcatProperties
    <3>. QED
      BY <1>5, <3>2 DEF Target
  <2>2. TypeOK'
    <3>1. flags' \subseteq Switches(cmd')
      BY <1>5 DEF IInv, TypeOK, Target, Switches, Confirmations, Modes
    <3>2. options' \in Nat
      <4>1. options \in Nat /\ options' = options + 1
        BY <1>5 DEF IInv, TypeOK, Target
      <4>. QED
        BY <4>1
    <3>. QED
      BY <1>5, <2>1, <3>1, <3>2 DEF IInv, TypeOK, Target
  <2>. QED
    BY <1>5, <2>2, StillParsing DEF Target, IInv, Judged
<1>6. ASSUME Misuse PROVE IInv'
  BY <1>6, UsageStep DEF Misuse, Errors
<1>7. ASSUME EndOfArguments PROVE IInv'
  <2>1. CASE Accepted
    <3>0. pc' = "run" /\ pc = "args" /\ UNCHANGED <<line, plan, sent, code, exit, report>>
      BY <1>7, <2>1 DEF EndOfArguments
    <3>1. /\ plan = <<>> /\ sent = 0 /\ code = "none" /\ exit = "none"
          /\ report = NoReport
      BY <1>7 DEF IInv, Fresh, EndOfArguments
    <3>2. TypeOK'
      <4>1. flags' \subseteq Switches(cmd')
        BY <3>0 DEF IInv, TypeOK, line, Switches, Confirmations, Modes
      <4>2. sent' \in 0..Len(plan')
        BY <3>0 DEF IInv, TypeOK
      <4>. QED
        BY <3>0, <4>1, <4>2 DEF IInv, TypeOK, line
    <3>3. Judged'
      BY <2>1, <3>0, LineStays DEF IInv, Judged
    <3>4. Fresh' /\ PlanIs' /\ Vetted' /\ Complete'
      BY <1>7, <2>1, <3>1 DEF EndOfArguments, Fresh, PlanIs, Vetted, Complete,
                              NoReport
    <3>. QED
      BY <3>2, <3>3, <3>4 DEF IInv
  <2>2. CASE ~Accepted
    BY <1>7, <2>2, UsageStep DEF EndOfArguments, Errors
  <2>. QED
    BY <2>1, <2>2
<1>. QED
  BY <1>1, <1>2, <1>3, <1>4, <1>5, <1>6, <1>7 DEF Arguments

\* The mode of an accepted command that writes is one of two.
LEMMA AcceptedMode ==
  ASSUME Accepted, cmd \in {"set", "set-all", "power-profile"}
  PROVE  /\ (DryRun \in flags) # (Apply \in flags)
         /\ Apply \in flags => Confirmations(cmd) \subseteq flags
         /\ cmd \in {"set-all", "power-profile"} /\ Apply \in flags =>
              color # "hashed"
         /\ color # "none"
<1>1. ModeIsConfirmed /\ color # "none"
  BY DEF Accepted, parse_set, parse_set_all, parse_power_profile
<1>2. cmd \in {"set-all", "power-profile"} /\ Apply \in flags => color # "hashed"
  BY DEF Accepted, parse_set_all, parse_power_profile
<1>. QED
  BY <1>1, <1>2 DEF ModeIsConfirmed

\* A command that runs has a judged line, and nothing planned.
LEMMA AtRun ==
  ASSUME IInv, pc = "run"
  PROVE  /\ plan = <<>> /\ sent = 0
         /\ code = "none" /\ exit = "none" /\ report = NoReport
         /\ Accepted /\ cmd \in ReadOnly \cup Live
         /\ TypeOK
BY DEF IInv, Fresh, Judged

\* A command that ends the run, with or without a plan to show.
LEMMA RunExits ==
  ASSUME IInv, pc = "run", pc' = "exited", UNCHANGED <<line, sent>>,
         exit' \in {"success", "failure"}, code' \in Errors,
         report' \in Reports,
         plan' \in Seq(Frames), PlanIs',
         exit' = "success" => Apply \notin flags,
         exit' = "success" => plan' # <<>> \/ cmd \in ReadOnly
  PROVE  IInv'
<1>1. sent' = 0 /\ Len(plan') \in Nat
  BY AtRun, EmptySeq, LenProperties
<1>2. sent' \in 0..Len(plan')
  BY <1>1
<1>3. flags' \subseteq Switches(cmd')
  BY LineStays DEF IInv, TypeOK, Switches, Confirmations, Modes
<1>4. TypeOK'
  BY <1>2, <1>3, LineStays DEF IInv, TypeOK
<1>5. Judged'
  BY AtRun, LineStays DEF Judged
<1>6. Fresh' /\ Vetted' /\ Complete'
  BY <1>1, LineStays DEF Fresh, Vetted, Complete
<1>. QED
  BY <1>4, <1>5, <1>6 DEF IInv

\* A failure shows no plan.
LEMMA RunFails ==
  ASSUME IInv, pc = "run", UNCHANGED <<line, sent>>,
         NEW error \in Errors, Fail(error)
  PROVE  IInv'
<1>1. plan = <<>> /\ report = NoReport
  BY AtRun
<1>2. plan' = <<>> /\ plan' \in Seq(Frames)
  BY <1>1, EmptySeq DEF Fail
<1>3. PlanIs'
  BY <1>2 DEF PlanIs
<1>4. report' \in Reports
  BY DEF Fail, IInv, TypeOK
<1>. QED
  BY <1>2, <1>3, <1>4, RunExits DEF Fail, Exit

\* A live command goes on to send its plan.
LEMMA RunSends ==
  ASSUME IInv, pc = "run", pc' = "send", UNCHANGED <<line, sent>>,
         UNCHANGED <<exit, code, report>>,
         plan' \in Seq(Frames), PlanIs', Vetted'
  PROVE  IInv'
<1>1. sent' = 0 /\ Len(plan') \in Nat
  BY AtRun, EmptySeq, LenProperties
<1>2. sent' \in 0..Len(plan')
  BY <1>1
<1>3. flags' \subseteq Switches(cmd')
  BY LineStays DEF IInv, TypeOK, Switches, Confirmations, Modes
<1>4. TypeOK'
  BY <1>2, <1>3, LineStays DEF IInv, TypeOK
<1>5. Judged'
  BY AtRun, LineStays DEF Judged
<1>6. Fresh' /\ Complete'
  BY AtRun DEF Fresh, Complete
<1>. QED
  BY <1>4, <1>5, <1>6 DEF IInv

\* The plan of a set is the one PlanIs names.
LEMMA SetPlan ==
  ASSUME IInv, pc = "run", cmd = "set", UNCHANGED line,
         resolve_targets(device, targets), plan' = Encode(device, ResolvedIds)
  PROVE  plan' \in Seq(Frames) /\ plan' # <<>> /\ PlanIs'
<1>1. plan' \in Seq(SoundFrames) /\ plan' # <<>>
  BY AtRun, ResolvedIdsFit, EncodedSound
<1>2. plan' \in Seq(Frames)
  BY <1>1, SeqMonotonic DEF SoundFrames
<1>3. plan' = Encode(device', ResolvedIds')
  BY LineStays
<1>4. resolve_targets(device', targets')
  BY LineStays
<1>5. cmd' = "set"
  BY LineStays
<1>. QED
  BY <1>1, <1>2, <1>3, <1>4, <1>5 DEF PlanIs

\* The steps of the commands.
LEMMA RunStep == IInv /\ Run => IInv'
<1>. SUFFICES ASSUME IInv, Run PROVE IInv'
  OBVIOUS
<1>1. ASSUME RunReadOnly PROVE IInv'
  <2>1. PICK c \in ReadOnly : /\ Running(c)
                              /\ \/ Succeed(NoReport) /\ UNCHANGED plan
                                 \/ c # "zones" /\ Fail("discovery")
    BY <1>1 DEF RunReadOnly
  <2>2. /\ pc = "run" /\ cmd = c /\ UNCHANGED <<line, sent>>
        /\ plan = <<>> /\ cmd \in ReadOnly
    BY <2>1, AtRun DEF Running
  <2>3. CASE Fail("discovery")
    BY <2>2, <2>3, RunFails DEF Errors
  <2>4. CASE Succeed(NoReport) /\ UNCHANGED plan
    <3>1. Apply \notin flags
      BY <2>2, AtRun DEF TypeOK, Switches, Confirmations, Modes, ReadOnly, Live,
                         Apply
    <3>2. plan' = <<>> /\ plan' \in Seq(Frames)
      BY <2>2, <2>4, EmptySeq
    <3>3. PlanIs'
      BY <3>2 DEF PlanIs
    <3>4. /\ pc' = "exited" /\ exit' = "success" /\ code' \in Errors
          /\ report' \in Reports
      BY <2>4, FixedReports DEF Succeed, Exit, Errors
    <3>. QED
      BY <2>2, <3>1, <3>2, <3>3, <3>4, RunExits
  <2>. QED
    BY <2>1, <2>3, <2>4
<1>2. ASSUME RunKeyboardStatus PROVE IInv'
  <2>1. /\ pc = "run" /\ cmd = "keyboard-status" /\ UNCHANGED <<line, sent>>
        /\ plan' = <<QueryStatus, ReadStatus>> /\ pc' = "send"
        /\ UNCHANGED <<exit, code, report>>
    BY <1>2 DEF RunKeyboardStatus, Running, Proceed
  <2>2. plan' \in Seq(Frames) /\ plan' # <<>>
    BY <2>1, FixedPlansSound, SeqMonotonic DEF SoundFrames
  <2>3. cmd' = "keyboard-status"
    BY <2>1, LineStays
  <2>4. PlanIs'
    BY <2>1, <2>3 DEF PlanIs
  <2>5. Vetted'
    BY <2>2, <2>3 DEF Vetted, Live
  <2>. QED
    BY <2>1, <2>2, <2>4, <2>5, RunSends
<1>3. ASSUME NEW gate \in BOOLEAN, DryRunSet(gate) PROVE IInv'
  <2>1. /\ pc = "run" /\ cmd = "set" /\ UNCHANGED <<line, sent>>
        /\ DryRun \in flags
    BY <1>3 DEF DryRunSet, Running
  <2>2. DryRunSetError(gate) \in Errors
    BY DEF DryRunSetError, Errors
  <2>3. CASE Fail(DryRunSetError(gate))
    BY <2>1, <2>2, <2>3, RunFails
  <2>4. CASE /\ DryRunSetError(gate) = "none"
             /\ plan' = Encode(device, ResolvedIds)
             /\ Succeed(NoReport)
    <3>1. resolve_targets(device, targets)
      BY <2>4 DEF DryRunSetError
    <3>2. plan' \in Seq(Frames) /\ plan' # <<>> /\ PlanIs'
      BY <2>1, <2>4, <3>1, SetPlan
    <3>3. Apply \notin flags
      BY <2>1, AtRun, AcceptedMode
    <3>4. /\ pc' = "exited" /\ exit' = "success" /\ code' \in Errors
          /\ report' \in Reports
      BY <2>4, FixedReports DEF Succeed, Exit, Errors
    <3>. QED
      BY <2>1, <3>2, <3>3, <3>4, RunExits
  <2>. QED
    BY <1>3, <2>3, <2>4 DEF DryRunSet
<1>4. ASSUME NEW gate \in BOOLEAN, ApplySet(gate) PROVE IInv'
  <2>1. /\ pc = "run" /\ cmd = "set" /\ UNCHANGED <<line, sent>>
        /\ Apply \in flags
    BY <1>4 DEF ApplySet, Running
  <2>2. LiveSetError(gate) \in Errors
    BY DEF LiveSetError, Errors
  <2>3. CASE Fail(LiveSetError(gate))
    BY <2>1, <2>2, <2>3, RunFails
  <2>4. CASE /\ LiveSetError(gate) = "none"
             /\ plan' = Encode(device, ResolvedIds)
             /\ Proceed("send")
             /\ UNCHANGED report
    <3>1. /\ resolve_targets(device, targets)
          /\ device = "keyboard" => validate_keyboard_live_target_names(targets)
          /\ device = "chassis" => Len(targets) = 1 /\ targets # <<All>>
      BY <2>4 DEF LiveSetError
    <3>2. plan' \in Seq(Frames) /\ plan' # <<>> /\ PlanIs'
      BY <2>1, <2>4, <3>1, SetPlan
    <3>3. UNCHANGED <<cmd, flags, color, device, targets, options>>
      BY <2>1, LineStays
    <3>4. Vetted'
      BY <2>1, <3>1, <3>2, <3>3 DEF Vetted, Live
    <3>. QED
      BY <2>1, <2>4, <3>2, <3>4, RunSends DEF Proceed
  <2>. QED
    BY <1>4, <2>3, <2>4 DEF ApplySet
<1>5. ASSUME NEW gate \in BOOLEAN, RunPowerProfile(gate) PROVE IInv'
  <2>1. /\ pc = "run" /\ cmd = "power-profile" /\ UNCHANGED <<line, sent>>
    BY <1>5 DEF RunPowerProfile, Running
  <2>2. PowerProfileError(gate) \in Errors
    BY DEF PowerProfileError, Errors
  <2>3. CASE Fail(PowerProfileError(gate))
    BY <2>1, <2>2, <2>3, RunFails
  <2>4. CASE plan' = PowerPlan
    <3>1. plan' \in Seq(Frames) /\ plan' # <<>>
      BY <2>4, FixedPlansSound, SeqMonotonic DEF SoundFrames
    <3>2. UNCHANGED <<cmd, flags, color, device, targets, options>>
      BY <2>1, LineStays
    <3>3. PlanIs'
      BY <2>1, <2>4, <3>2 DEF PlanIs
    <3>4. CASE DryRun \in flags /\ Succeed(PowerCounts)
      <4>1. Apply \notin flags
        BY <2>1, <3>4, AtRun, AcceptedMode
      <4>2. PowerCounts \in Reports
        BY FixedReports
      <4>3. pc' = "exited" /\ exit' = "success" /\ code' \in Errors
            /\ report' = PowerCounts
        BY <3>4 DEF Succeed, Exit, Errors
      <4>. QED
        BY <2>1, <3>1, <3>3, <4>1, <4>2, <4>3, RunExits
    <3>5. CASE Apply \in flags /\ Proceed("send") /\ UNCHANGED report
      <4>1. Vetted'
        BY <2>1, <3>1, <3>2, <3>5 DEF Vetted, Live
      <4>. QED
        BY <2>1, <3>1, <3>3, <3>5, <4>1, RunSends DEF Proceed
    <3>. QED
      BY <1>5, <2>3, <2>4, <3>4, <3>5 DEF RunPowerProfile
  <2>. QED
    BY <1>5, <2>3, <2>4 DEF RunPowerProfile
<1>6. ASSUME DryRunSetAll PROVE IInv'
  <2>1. /\ pc = "run" /\ cmd = "set-all" /\ UNCHANGED <<line, sent>>
        /\ DryRun \in flags /\ plan' = set_all_report
        /\ pc' = "exited" /\ exit' = "success" /\ code' = "none"
        /\ report' = SetAllCounts
    BY <1>6 DEF DryRunSetAll, Running, Succeed, Exit
  <2>2. plan' \in Seq(Frames)
    BY <2>1, FixedPlansSound, SeqMonotonic DEF SoundFrames
  <2>3. PlanIs'
    BY <2>1, LineStays DEF PlanIs
  <2>4. Apply \notin flags
    BY <2>1, AtRun, AcceptedMode
  <2>4a. plan' # <<>>
    BY <2>1, FixedPlansSound
  <2>5. report' \in Reports
        /\ code' \in Errors
    BY <2>1, FixedReports DEF Errors
  <2>. QED
    BY <2>1, <2>2, <2>3, <2>4, <2>4a, <2>5, RunExits
<1>7. ASSUME ApplySetAll PROVE IInv'
  <2>1. /\ pc = "run" /\ cmd = "set-all" /\ UNCHANGED <<line, sent>>
        /\ Apply \in flags
    BY <1>7 DEF ApplySetAll, Running
  <2>2. CASE Fail("invalid_plan")
    BY <2>1, <2>2, RunFails DEF Errors
  <2>3. CASE plan' = prepare_set_all /\ Proceed("send") /\ UNCHANGED report
    <3>1. plan' = set_all_report
      BY <2>3 DEF prepare_set_all, set_all_report
    <3>2. plan' \in Seq(Frames) /\ plan' # <<>>
      BY <3>1, FixedPlansSound, SeqMonotonic DEF SoundFrames
    <3>3. UNCHANGED <<cmd, flags, color, device, targets, options>>
      BY <2>1, LineStays
    <3>4. PlanIs' /\ Vetted'
      BY <2>1, <3>1, <3>2, <3>3 DEF PlanIs, Vetted, Live
    <3>. QED
      BY <2>1, <2>3, <3>2, <3>4, RunSends DEF Proceed
  <2>. QED
    BY <1>7, <2>2, <2>3 DEF ApplySetAll
<1>8. ASSUME DiscoveryFails PROVE IInv'
  BY <1>8, RunFails DEF DiscoveryFails, Running, Errors
<1>. QED
  BY <1>1, <1>2, <1>3, <1>4, <1>5, <1>6, <1>7, <1>8 DEF Run

\* A frame, a failure of one, and the end of a plan leave the line and the plan.
LEMMA SendingStep ==
  ASSUME IInv, Sending,
         \/ pc' = "send" /\ UNCHANGED <<exit, code>>
         \/ pc' = "exited" /\ exit' \in {"success", "failure"} /\ code' \in Errors,
         report' \in Reports,
         pc' = "send" => report' = report,
         sent' \in 0..Len(plan),
         exit' = "success" => sent' = Len(plan)
  PROVE  IInv'
<1>1. /\ pc = "send" /\ UNCHANGED <<line, plan>>
      /\ UNCHANGED <<cmd, flags, color, device, targets, options>>
      /\ Accepted' = Accepted /\ ResolvedIds' = ResolvedIds
  BY LineStays DEF Sending
<1>2. flags' \subseteq Switches(cmd')
  BY <1>1 DEF IInv, TypeOK, Switches, Confirmations, Modes
<1>3. TypeOK'
  BY <1>1, <1>2 DEF IInv, TypeOK
<1>4. Judged'
  BY <1>1 DEF IInv, Judged
<1>5. PlanIs'
  <2>1. CASE plan = <<>>
    BY <1>1, <2>1 DEF PlanIs
  <2>2. CASE cmd = "set" /\ plan # <<>>
    <3>1. resolve_targets(device, targets) /\ plan = Encode(device, ResolvedIds)
      BY <2>2 DEF IInv, PlanIs
    <3>2. resolve_targets(device', targets') /\ plan' = Encode(device', ResolvedIds')
      BY <1>1, <3>1
    <3>. QED
      BY <1>1, <2>2, <3>2 DEF PlanIs
  <2>3. CASE cmd # "set" /\ plan # <<>>
    BY <1>1, <2>3 DEF IInv, PlanIs
  <2>. QED
    BY <2>1, <2>2, <2>3
<1>6. Vetted'
  BY <1>1 DEF IInv, Vetted
<1>7. Fresh'
  BY <1>1 DEF IInv, Fresh, NoReport
<1>8. Complete'
  BY <1>1 DEF IInv, Vetted, Complete
<1>. QED
  BY <1>3, <1>4, <1>5, <1>6, <1>7, <1>8 DEF IInv

\* The targets of a set whose plan is being sent are finitely many.
LEMMA SetIds ==
  ASSUME IInv, plan # <<>>, cmd = "set"
  PROVE  /\ device \in Device
         /\ resolve_targets(device, targets)
         /\ plan = Encode(device, ResolvedIds)
         /\ ResolvedIds \in SUBSET Ids(device) /\ ResolvedIds # {}
         /\ device = "chassis" => POWER_LOGICAL_ID \notin ResolvedIds
         /\ IsFiniteSet(ResolvedIds) /\ Cardinality(ResolvedIds) \in Nat
<1>1. /\ resolve_targets(device, targets)
      /\ plan = Encode(device, ResolvedIds)
      /\ Accepted /\ TypeOK
  BY DEF IInv, PlanIs, Judged
<1>2. /\ device \in Device
      /\ ResolvedIds \in SUBSET Ids(device) /\ ResolvedIds # {}
      /\ device = "chassis" => POWER_LOGICAL_ID \notin ResolvedIds
  BY <1>1, ResolvedIdsFit
<1>3. IsFiniteSet(ResolvedIds)
  BY <1>2, IdsAreBytes, FS_Subset
<1>. QED
  BY <1>1, <1>2, <1>3, FS_CardinalityType

\* What is reported has counts.
LEMMA ReportTyped ==
  ASSUME IInv, plan # <<>>
  PROVE  Report \in Reports
<1>. DEFINE T == Reports
<1>0. sent \in Nat
  <2>1. plan \in Seq(Frames) /\ sent \in 0..Len(plan)
    BY DEF IInv, TypeOK
  <2>. QED
    BY <2>1
<1>1. CASE cmd = "set"
  <2>. DEFINE n == Cardinality(ResolvedIds)
              frames == IF device = "keyboard" THEN div_ceil(n, 15) ELSE 1
  <2>1. n \in Nat
    BY <1>1, SetIds
  <2>2. frames \in Nat
    <3>. HIDE DEF n
    <3>. QED
      BY <2>1 DEF div_ceil
  <2>3. Report = [assignments |-> <<n>>, color_frames |-> frames,
                  steps |-> <<sent>>, total |-> sent]
    BY <1>1 DEF Report, SetReport
  <2>. HIDE DEF n, frames
  <2>4. <<n>> \in Seq(Nat) /\ <<sent>> \in Seq(Nat)
    BY <1>0, <2>1
  <2>. QED
    BY <1>0, <2>2, <2>3, <2>4 DEF Reports
<1>2. SetAllCounts \in T /\ NoReport \in T /\ PowerCounts \in T
  BY FixedReports
<1>3. CASE cmd = "set-all"
  BY <1>2, <1>3 DEF Report
<1>4. CASE cmd = "power-profile"
  BY <1>2, <1>4 DEF Report
<1>5. CASE cmd \notin {"set", "set-all", "power-profile"}
  BY <1>2, <1>5 DEF Report
<1>. QED
  BY <1>1, <1>3, <1>4, <1>5

\* A stutter changes nothing.
LEMMA StutterStep == IInv /\ UNCHANGED vars => IInv'
<1>. SUFFICES ASSUME IInv, UNCHANGED vars PROVE IInv'
  OBVIOUS
<1>1. UNCHANGED <<pc, line, plan, sent, code, exit, report>>
  BY DEF vars
<1>2. /\ UNCHANGED <<cmd, flags, color, device, targets, options>>
      /\ Accepted' = Accepted /\ ResolvedIds' = ResolvedIds
  BY <1>1, LineStays
<1>3. flags' \subseteq Switches(cmd')
  BY <1>2 DEF IInv, TypeOK, Switches, Confirmations, Modes
<1>4. TypeOK'
  BY <1>1, <1>2, <1>3 DEF IInv, TypeOK
<1>5. Fresh' /\ Judged' /\ Vetted' /\ Complete'
  BY <1>1, <1>2 DEF IInv, Fresh, Judged, Vetted, Complete, NoReport
<1>6. PlanIs'
  <2>1. CASE plan = <<>>
    BY <1>1, <2>1 DEF PlanIs
  <2>2. CASE cmd = "set" /\ plan # <<>>
    <3>1. resolve_targets(device, targets) /\ plan = Encode(device, ResolvedIds)
      BY <2>2 DEF IInv, PlanIs
    <3>2. resolve_targets(device', targets') /\ plan' = Encode(device', ResolvedIds')
      BY <1>1, <1>2, <3>1
    <3>. QED
      BY <1>1, <1>2, <2>2, <3>2 DEF PlanIs
  <2>3. CASE cmd # "set" /\ plan # <<>>
    BY <1>1, <1>2, <2>3 DEF IInv, PlanIs
  <2>. QED
    BY <2>1, <2>2, <2>3
<1>. QED
  BY <1>4, <1>5, <1>6 DEF IInv

\* Every step keeps the invariant.
LEMMA Preserved == IInv /\ [Next]_vars => IInv'
<1>. SUFFICES ASSUME IInv, [Next]_vars PROVE IInv'
  OBVIOUS
<1>1. CASE UNCHANGED vars \/ Ended
  BY <1>1, StutterStep DEF Ended
<1>2. CASE Arguments
  BY <1>2, ArgumentStep
<1>3. CASE Run
  BY <1>3, RunStep
<1>. DEFINE T == Reports
<1>4. report \in T /\ sent \in 0..Len(plan) /\ Len(plan) \in Nat
  BY LenProperties DEF IInv, TypeOK
<1>5. CASE Send
  <2>1. /\ Sending /\ sent' \in 0..Len(plan) /\ pc' = "send"
        /\ UNCHANGED <<exit, code, report>>
    BY <1>4, <1>5 DEF Send, Proceed
  <2>2. exit = "none"
    BY <2>1 DEF Sending, IInv, Fresh
  <2>. QED
    BY <1>4, <2>1, <2>2, SendingStep
<1>6. CASE SendFails
  <2>1. /\ Sending /\ sent' \in 0..Len(plan) /\ pc' = "exited"
        /\ exit' = "failure" /\ code' = "transport" /\ report' = report
    BY <1>4, <1>6 DEF SendFails, Exit
  <2>. QED
    BY <1>4, <2>1, SendingStep DEF Errors
<1>7. CASE Finish
  <2>1. /\ Sending /\ sent' = sent /\ sent = Len(plan) /\ pc' = "exited"
        /\ exit' \in {"success", "failure"}
        /\ code' \in {"none", "unsaved", "incomplete"}
        /\ report' = report \/ report' = Report
    BY <1>7 DEF Finish, Succeed, Exit
  <2>2. plan # <<>>
    BY <2>1 DEF Sending, IInv, Vetted
  <2>3. report' \in T
    BY <1>4, <2>1, <2>2, ReportTyped
  <2>. QED
    BY <1>4, <2>1, <2>3, SendingStep DEF Errors
<1>. QED
  BY <1>1, <1>2, <1>3, <1>5, <1>6, <1>7 DEF Next

\* The invariant holds in every reachable state.
LEMMA Invariant == Spec => []IInv
<1>1. Init => IInv
  BY Initially
<1>2. IInv /\ [Next]_vars => IInv'
  BY Preserved
<1>. QED
  BY <1>1, <1>2, PTL DEF Spec

\* Types of the arguments, the plan, what was sent and what is reported.
THEOREM TypeCorrect == Spec => []TypeOK
<1>1. IInv => TypeOK
  BY DEF IInv
<1>. QED
  BY <1>1, Invariant, PTL
-----------------------------------------------------------------------------
(* What leaves is confirmed *)

\* Without all of its confirmations, in a dry run and in a read-only command
\* nothing leaves (parse_set, parse_set_all, parse_power_profile,
\* parse_keyboard_status and the commands).
THEOREM OnlyConfirmedLeaves == Spec => []ConfirmedOnly
<1>1. IInv => ConfirmedOnly
  <2>. SUFFICES ASSUME IInv, sent > 0
                PROVE  /\ cmd \in Live
                       /\ Confirmations(cmd) \subseteq flags
                       /\ DryRun \notin flags
                       /\ cmd # "keyboard-status" => Apply \in flags
                       /\ cmd \in {"set-all", "power-profile"} => color = "plain"
                       /\ cmd = "keyboard-status" =>
                            \A k \in 1..sent :
                              plan[k].step \in {"query_status", "read_status"}
    BY DEF ConfirmedOnly
  <2>1. /\ plan # <<>> /\ cmd \in Live /\ Accepted
        /\ cmd # "keyboard-status" => Apply \in flags
    BY DEF IInv, Vetted, Judged
  <2>2. CASE cmd = "keyboard-status"
    <3>1. Confirmations(cmd) \subseteq flags
      BY <2>1, <2>2 DEF Accepted, parse_keyboard_status
    <3>2. DryRun \notin flags
      BY <2>2 DEF IInv, TypeOK, Switches, Confirmations, Modes, DryRun
    <3>3. plan = <<QueryStatus, ReadStatus>> /\ sent \in 0..Len(plan)
      BY <2>1, <2>2 DEF IInv, PlanIs, TypeOK
    <3>4. \A k \in 1..sent : k = 1 \/ k = 2
      BY <3>3
    <3>5. /\ plan[1].step = "query_status" /\ plan[2].step = "read_status"
      BY <3>3 DEF QueryStatus, ReadStatus, Feature
    <3>. QED
      BY <2>1, <2>2, <3>1, <3>2, <3>4, <3>5
  <2>3. CASE cmd # "keyboard-status"
    <3>1. cmd \in {"set", "set-all", "power-profile"}
      BY <2>1, <2>3 DEF Live
    <3>2. /\ DryRun \notin flags /\ Confirmations(cmd) \subseteq flags
          /\ cmd \in {"set-all", "power-profile"} => color # "hashed"
          /\ color # "none"
      BY <2>1, <2>3, <3>1, AcceptedMode
    <3>3. color \in {"none", "plain", "hashed"}
      BY DEF IInv, TypeOK
    <3>. QED
      BY <2>1, <2>3, <3>2, <3>3
  <2>. QED
    BY <2>2, <2>3
<1>. QED
  BY <1>1, Invariant, PTL
-----------------------------------------------------------------------------
(* What leaves fits *)

\* Every frame of every plan fits its buffer, whatever the targets.
THEOREM FramesAlwaysFit == Spec => []FramesFit
<1>1. IInv => FramesFit
  <2>. SUFFICES ASSUME IInv, NEW k \in DOMAIN plan
                PROVE  /\ plan[k].bytes <= IF plan[k].transfer = "usb_output"
                                             THEN AW_ELC_LENGTH
                                             ELSE KEYBOARD_LENGTH
                       /\ plan[k].step = "set_color" => plan[k].ids # {}
                       /\ plan[k].ids \subseteq 0..255
    BY DEF FramesFit
  <2>1. plan[k] \in SoundFrames
    BY PlanIsSound, LenProperties, ElementOfSeq DEF IInv
  <2>. QED
    BY <2>1 DEF SoundFrames, Frames
<1>. QED
  BY <1>1, Invariant, PTL

\* No static operation colors the power button, under whatever name it was
\* given (the checks of parse_set, and the compound command's own zones).
THEOREM PowerButtonReserved == Spec => []PowerOnlyByProfile
<1>1. IInv => PowerOnlyByProfile
  <2>. SUFFICES ASSUME IInv, NEW k \in DOMAIN plan,
                       plan[k].transfer = "usb_output",
                       POWER_LOGICAL_ID \in plan[k].ids
                PROVE  /\ plan[k].step = "color_select"
                       /\ cmd \in {"power-profile", "set-all"}
    BY DEF PowerOnlyByProfile
  <2>1. plan[k] \in SoundFrames
    BY PlanIsSound, LenProperties, ElementOfSeq DEF IInv
  <2>2. plan[k].step = "color_select"
    BY <2>1 DEF SoundFrames
  <2>3. plan # <<>>
    OBVIOUS
  <2>4. CASE cmd = "set"
    BY <2>2, <2>3, <2>4, SetIds, EncodedSound
  <2>5. CASE cmd = "keyboard-status"
    <3>1. plan = <<QueryStatus, ReadStatus>>
      BY <2>3, <2>5 DEF IInv, PlanIs
    <3>2. k = 1 \/ k = 2
      BY <3>1
    <3>3. plan[1].step = "query_status" /\ plan[2].step = "read_status"
      BY <3>1 DEF QueryStatus, ReadStatus, Feature
    <3>. QED
      BY <2>2, <3>2, <3>3
  <2>6. cmd \in {"set", "set-all", "power-profile", "keyboard-status"}
    BY <2>3 DEF IInv, PlanIs
  <2>. QED
    BY <2>2, <2>4, <2>5, <2>6
<1>. QED
  BY <1>1, Invariant, PTL
-----------------------------------------------------------------------------
(* What leaves was asked for *)

\* The frames of a set-all: the plan of the keyboard, that of the two ordinary
\* zones and the power profile, one after the other.
LEMMA SetAllShape ==
  ASSUME NEW n \in Nat, n = ColorFrames(Ids("keyboard"))
  PROVE  /\ Len(set_all_report) = n + 43
         /\ \A k \in 1..n + 5 :
              set_all_report[k] = KeyboardPlan(Ids("keyboard"))[k]
         /\ \A k \in n + 6..n + 9 :
              set_all_report[k] = StaticPlan({0, 2})[k - (n + 5)]
         /\ \A k \in n + 10..n + 43 :
              set_all_report[k] = PowerPlan[k - (n + 9)]
<1>. DEFINE a == KeyboardPlan(Ids("keyboard"))
            b == StaticPlan({0, 2})
            c == PowerPlan
            ab == a \o b
            all == ab \o c
            F == SoundFrames
<1>1. a \in Seq(F) /\ Len(a) = n + 5
  <2>1. a \in Seq(KeyboardFrames) /\ Len(a) = n + 5
    BY KeyboardPlanShape
  <2>. QED
    BY <2>1, SeqMonotonic DEF KeyboardFrames
<1>2. b \in Seq(F) /\ Len(b) = 4
  <2>1. {0, 2} \in SUBSET (Ids("chassis") \ {POWER_LOGICAL_ID}) /\ {0, 2} # {}
    BY TargetsAssumption DEF POWER_LOGICAL_ID
  <2>2. b \in Seq(StaticFrames) /\ Len(b) = 4
    BY <2>1, StaticPlanShape
  <2>. QED
    BY <2>2, SeqMonotonic DEF StaticFrames
<1>3. c \in Seq(F) /\ Len(c) = 34
  <2>1. c \in Seq(PowerFrames) /\ Len(c) = 34
    BY PowerPlanShape
  <2>. QED
    BY <2>1, SeqMonotonic DEF PowerFrames
<1>. HIDE DEF a, b, c, F
<1>4. a \in Seq(F) /\ b \in Seq(F) /\ c \in Seq(F)
  BY <1>1, <1>2, <1>3
<1>5. ab \in Seq(F)
  BY <1>4
<1>6. /\ Len(ab) = Len(a) + Len(b)
      /\ \A k \in 1..Len(a) + Len(b) :
           ab[k] = IF k <= Len(a) THEN a[k] ELSE b[k - Len(a)]
  BY <1>4, ConcatProperties
<1>. HIDE DEF ab
<1>7. /\ Len(all) = Len(ab) + Len(c)
      /\ \A k \in 1..Len(ab) + Len(c) :
           all[k] = IF k <= Len(ab) THEN ab[k] ELSE c[k - Len(ab)]
  BY <1>4, <1>5, ConcatProperties
<1>. HIDE DEF all
<1>8. Len(a) = n + 5 /\ Len(ab) = n + 9 /\ Len(all) = n + 43
  BY <1>1, <1>2, <1>3, <1>6, <1>7
<1>9. ASSUME NEW k \in 1..n + 5 PROVE all[k] = a[k]
  <2>1. /\ k \in 1..Len(a) + Len(b) /\ k <= Len(a)
        /\ k \in 1..Len(ab) + Len(c) /\ k <= Len(ab)
    BY <1>2, <1>3, <1>8
  <2>. QED
    BY <1>6, <1>7, <2>1
<1>10. ASSUME NEW k \in n + 6..n + 9 PROVE all[k] = b[k - (n + 5)]
  <2>1. /\ k \in 1..Len(a) + Len(b) /\ ~(k <= Len(a))
        /\ k \in 1..Len(ab) + Len(c) /\ k <= Len(ab)
    BY <1>2, <1>3, <1>8
  <2>. QED
    BY <1>6, <1>7, <1>8, <2>1
<1>11. ASSUME NEW k \in n + 10..n + 43 PROVE all[k] = c[k - (n + 9)]
  <2>1. k \in 1..Len(ab) + Len(c) /\ ~(k <= Len(ab))
    BY <1>3, <1>8
  <2>. QED
    BY <1>7, <1>8, <2>1
<1>12. all = set_all_report
  BY DEF all, ab, a, b, c, set_all_report
<1>. QED
  BY <1>8, <1>9, <1>10, <1>11, <1>12 DEF a, b, c

\* Color frames of a keyboard plan, wherever sending stopped: the lowest of its
\* targets were colored, each once.
LEMMA KeyboardAddressed ==
  ASSUME NEW S \in SUBSET Ids("keyboard"), NEW n \in Nat, n = ColorFrames(S),
         NEW m \in Nat,
         ColorFramesOf("keyboard", m) = {k \in 1..m : k \in 4..n + 3},
         \A k \in 4..n + 3 : plan[k] = ColorFrame(S, k - 3)
  PROVE  /\ Addressed("keyboard", m) \subseteq S
         /\ \A i \in Addressed("keyboard", m), j \in S :
              j < i => j \in Addressed("keyboard", m)
         /\ \A j, k \in ColorFramesOf("keyboard", m) :
              j # k => Colored("keyboard", j) \cap Colored("keyboard", k) = {}
         /\ m >= n + 3 => Addressed("keyboard", m) = S
<1>. DEFINE K == ColorFramesOf("keyboard", m)
<1>1. S \in SUBSET Nat /\ IsFiniteSet(S)
  BY IdsAreBytes, FS_Subset DEF Device
<1>2. ASSUME NEW k \in 4..n + 3
      PROVE  /\ k - 3 \in 1..n
             /\ Chunk(S, k - 3) \subseteq S
             /\ Colored("keyboard", k) = Chunk(S, k - 3)
  <2>. DEFINE j == k - 3
  <2>1. j \in 1..n
    OBVIOUS
  <2>. HIDE DEF j
  <2>2. Chunk(S, j) \subseteq S
    BY DEF Chunk
  <2>2a. \A i \in Chunk(S, j) : i \in Nat
    BY <1>1, <2>2
  <2>3. plan[k].ids = {i + 1 : i \in Chunk(S, j)}
    BY <2>1, ColorFrameSound DEF j
  <2>4. {e - 1 : e \in {i + 1 : i \in Chunk(S, j)}} = Chunk(S, j)
    <3>1. \A i \in Chunk(S, j) : (i + 1) - 1 = i
      BY <2>2a
    <3>2. {e - 1 : e \in {i + 1 : i \in Chunk(S, j)}} =
            {(i + 1) - 1 : i \in Chunk(S, j)}
      OBVIOUS
    <3>3. \A x : x \in {(i + 1) - 1 : i \in Chunk(S, j)} => x \in Chunk(S, j)
      BY <3>1
    <3>4. \A x \in Chunk(S, j) : x \in {(i + 1) - 1 : i \in Chunk(S, j)}
      BY <3>1
    <3>. QED
      BY <3>2, <3>3, <3>4
  <2>5. Colored("keyboard", k) = Chunk(S, j)
    BY <2>3, <2>4 DEF Colored
  <2>. QED
    BY <2>1, <2>2, <2>5 DEF j
<1>3. Addressed("keyboard", m) = UNION {Chunk(S, k - 3) : k \in K}
  BY <1>2 DEF Addressed
<1>4. Addressed("keyboard", m) \subseteq S
  BY <1>2, <1>3
<1>5. \A i \in S : \E k \in 4..n + 3 : i \in Chunk(S, k - 3)
  <2>. TAKE i \in S
  <2>1. PICK j \in 1..n : i \in Chunk(S, j)
    BY <1>1, Chunks
  <2>2. j + 3 \in 4..n + 3 /\ (j + 3) - 3 = j
    BY <2>1
  <2>. QED
    BY <2>1, <2>2
<1>6. ASSUME NEW i \in Addressed("keyboard", m), NEW j \in S, j < i
      PROVE  j \in Addressed("keyboard", m)
  <2>1. PICK k \in K : i \in Chunk(S, k - 3)
    BY <1>3
  <2>2. PICK l \in 4..n + 3 : j \in Chunk(S, l - 3)
    BY <1>5
  <2>3. k \in 1..m /\ k \in 4..n + 3 /\ k - 3 \in Nat /\ l - 3 \in Nat
    OBVIOUS
  <2>4. i \in Nat /\ j \in Nat
    BY <1>1, <1>4
  <2>5. j <= i
    BY <1>6, <2>4
  <2>6. l - 3 <= k - 3
    BY <1>1, <2>1, <2>2, <2>3, <2>5, ChunksAscend
  <2>7. l \in K
    BY <2>2, <2>3, <2>6
  <2>. QED
    BY <1>3, <2>2, <2>7
<1>7. ASSUME NEW j \in K, NEW k \in K, j # k
      PROVE  Colored("keyboard", j) \cap Colored("keyboard", k) = {}
  <2>1. SUFFICES ASSUME NEW i \in Chunk(S, j - 3), i \in Chunk(S, k - 3)
                 PROVE  FALSE
    BY <1>2
  <2>2. j - 3 = div_ceil(Rank(S, i), RECORDS_PER_FRAME)
        /\ k - 3 = div_ceil(Rank(S, i), RECORDS_PER_FRAME)
    BY <2>1 DEF Chunk
  <2>3. j - 3 = k - 3 /\ j \in Int /\ k \in Int
    BY <2>2
  <2>. QED
    BY <1>7, <2>3
<1>8. ASSUME m >= n + 3 PROVE Addressed("keyboard", m) = S
  <2>1. \A k \in 4..n + 3 : k \in K
    BY <1>8
  <2>. QED
    BY <1>3, <1>4, <1>5, <2>1
<1>. QED
  BY <1>4, <1>6, <1>7, <1>8

\* A controller without color frames is not addressed.
LEMMA NotAddressed ==
  ASSUME NEW d \in Device, NEW m, ColorFramesOf(d, m) = {}
  PROVE  Addressed(d, m) = {}
BY DEF Addressed

\* What AddressedAsAsked says of one controller.
AsAsked(d) ==
  /\ Addressed(d, sent) \subseteq Asked(d)
  /\ \A i \in Addressed(d, sent), j \in Asked(d) :
       j < i => j \in Addressed(d, sent)
  /\ \A j, k \in ColorFramesOf(d, sent) :
       j # k => Colored(d, j) \cap Colored(d, k) = {}
  /\ exit = "success" =>
       /\ Addressed(d, Len(plan)) = Asked(d)
       /\ Apply \in flags => Addressed(d, sent) = Asked(d)

\* A resolved list asks for the ids it stands for.
LEMMA AskedIsResolved ==
  ASSUME IInv, plan # <<>>, cmd = "set"
  PROVE  /\ Asked(device) = ResolvedIds
         /\ \A d \in Device \ {device} : Asked(d) = {}
<1>1. /\ device \in Device /\ resolve_targets(device, targets)
      /\ targets \in Seq(STRING) /\ targets # <<>>
  BY SetIds, AcceptedSet DEF IInv, TypeOK, Judged
<1>2. CASE Mentions(targets, {All})
  BY <1>1, <1>2, ResolvedTargets DEF Asked, ResolvedIds
<1>3. CASE ~Mentions(targets, {All})
  <2>1. /\ \A k \in DOMAIN targets : Known(device, targets[k])
        /\ ResolvedIds = {lookup(device, targets[k]) : k \in DOMAIN targets}
        /\ ResolvedIds \subseteq Ids(device)
    BY <1>1, <1>3, ResolvedTargets DEF ResolvedIds
  <2>2. Asked(device) =
          {i \in Ids(device) : \E k \in DOMAIN targets :
             Known(device, targets[k]) /\ lookup(device, targets[k]) = i}
    BY <1>3 DEF Asked
  <2>. QED
    BY <2>1, <2>2 DEF Asked
<1>. QED
  BY <1>2, <1>3 DEF Asked

\* What the first m frames of a set color on the keyboard.
LEMMA SetKeyboardColors ==
  ASSUME IInv, plan # <<>>, cmd = "set", device = "keyboard",
         NEW m \in 0..Len(plan)
  PROVE  LET S == ResolvedIds
             n == ColorFrames(S)
         IN  /\ n \in Nat /\ Len(plan) = n + 5
             /\ ColorFramesOf("keyboard", m) = {k \in 1..m : k \in 4..n + 3}
             /\ ColorFramesOf("chassis", m) = {}
             /\ Addressed("keyboard", m) \subseteq S
             /\ \A i \in Addressed("keyboard", m), j \in S :
                  j < i => j \in Addressed("keyboard", m)
             /\ \A j, k \in ColorFramesOf("keyboard", m) :
                  j # k => Colored("keyboard", j) \cap Colored("keyboard", k) = {}
             /\ m >= n + 3 => Addressed("keyboard", m) = S
<1>. DEFINE S == ResolvedIds
            n == ColorFrames(S)
<1>1. /\ S \in SUBSET Ids("keyboard")
      /\ plan = KeyboardPlan(S)
  BY SetIds DEF Encode
<1>2. n \in Nat
  <2>1. Ids("keyboard") \subseteq 0..254 /\ IsFiniteSet(Ids("keyboard"))
    BY IdsAreBytes DEF Device
  <2>2. S \in SUBSET Ids("keyboard")
    BY <1>1
  <2>. HIDE DEF S
  <2>3. IsFiniteSet(S)
    BY <2>1, <2>2, FS_Subset
  <2>4. 0..254 \subseteq Nat
    OBVIOUS
  <2>5. S \in SUBSET Nat
    BY <2>1, <2>2, <2>4
  <2>. QED
    BY <2>3, <2>5, Chunks
<1>3. Len(plan) = n + 5
  BY <1>1, KeyboardPlanShape
<1>4. \A k \in 1..n + 5 :
        /\ plan[k].step = "set_color" <=> k \in 4..n + 3
        /\ plan[k].transfer # "usb_output"
        /\ k \in 4..n + 3 => plan[k].transfer = "feature_write"
  <2>. TAKE k \in 1..n + 5
  <2>1. /\ plan[k].step = IF k = 1 THEN "reset" ELSE IF k = 2 THEN "query_status"
                          ELSE IF k = 3 THEN "read_status"
                          ELSE IF k <= n + 3 THEN "set_color"
                          ELSE IF k = n + 4 THEN "loop" ELSE "update"
        /\ plan[k].transfer = IF k = 3 THEN "feature_read" ELSE "feature_write"
    BY <1>1, KeyboardPlanSteps
  <2>. HIDE DEF n
  <2>. QED
    BY <1>2, <2>1
<1>5. \A k \in 4..n + 3 : plan[k] = ColorFrame(S, k - 3)
  <2>. TAKE k \in 4..n + 3
  <2>1. k - 3 \in 1..n /\ 3 + (k - 3) = k
    BY <1>2
  <2>2. KeyboardPlan(S)[3 + (k - 3)] = ColorFrame(S, k - 3)
    BY <1>1, <2>1, KeyboardPlanShape
  <2>. QED
    BY <1>1, <2>1, <2>2
<1>. HIDE DEF S, n
<1>6. m \in Nat /\ \A k \in 1..m : k \in 1..n + 5
  BY <1>1, <1>2, <1>3
<1>7. ColorFramesOf("keyboard", m) = {k \in 1..m : k \in 4..n + 3}
  BY <1>4, <1>6 DEF ColorFramesOf
<1>8. ColorFramesOf("chassis", m) = {}
  <2>1. \A k \in 1..m :
          plan[k].step = "set_color" => plan[k].transfer = "feature_write"
    BY <1>4, <1>6
  <2>. QED
    BY <2>1 DEF ColorFramesOf
<1>9. /\ Addressed("keyboard", m) \subseteq S
      /\ \A i \in Addressed("keyboard", m), j \in S :
           j < i => j \in Addressed("keyboard", m)
      /\ \A j, k \in ColorFramesOf("keyboard", m) :
           j # k => Colored("keyboard", j) \cap Colored("keyboard", k) = {}
      /\ m >= n + 3 => Addressed("keyboard", m) = S
  BY <1>1, <1>2, <1>5, <1>6, <1>7, KeyboardAddressed DEF n
<1>. QED
  BY <1>2, <1>3, <1>7, <1>8, <1>9 DEF S, n

\* set on the keyboard.
LEMMA SetKeyboardAsked ==
  ASSUME IInv, plan # <<>>, cmd = "set", device = "keyboard", NEW d \in Device
  PROVE  AsAsked(d)
<1>. DEFINE S == ResolvedIds
            n == ColorFrames(S)
<1>1. /\ sent \in 0..Len(plan)
      /\ exit = "success" /\ Apply \in flags => sent = Len(plan)
  BY DEF IInv, TypeOK, Complete
<1>2. /\ n \in Nat /\ Len(plan) = n + 5
      /\ ColorFramesOf("chassis", sent) = {}
      /\ Addressed("keyboard", sent) \subseteq S
      /\ \A i \in Addressed("keyboard", sent), j \in S :
           j < i => j \in Addressed("keyboard", sent)
      /\ \A j, k \in ColorFramesOf("keyboard", sent) :
           j # k => Colored("keyboard", j) \cap Colored("keyboard", k) = {}
      /\ sent >= n + 3 => Addressed("keyboard", sent) = S
  BY <1>1, SetKeyboardColors
<1>2a. Len(plan) \in 0..Len(plan)
  BY <1>1
<1>2b. /\ ColorFramesOf("chassis", Len(plan)) = {}
       /\ Len(plan) >= n + 3 => Addressed("keyboard", Len(plan)) = S
  BY <1>2a, SetKeyboardColors
<1>. HIDE DEF S, n
<1>3. /\ exit = "success" /\ Apply \in flags => sent >= n + 3
      /\ Len(plan) >= n + 3
  BY <1>1, <1>2
<1>4. Asked("keyboard") = S /\ Asked("chassis") = {}
  BY AskedIsResolved DEF S, Device
<1>5. AsAsked("keyboard")
  BY <1>2, <1>2b, <1>3, <1>4 DEF AsAsked
<1>6. AsAsked("chassis")
  BY <1>2, <1>2b, <1>4, NotAddressed DEF AsAsked, Device
<1>. QED
  BY <1>5, <1>6 DEF Device

\* The steps of a static plan; its third frame colors the zones.
LEMMA StaticPlanSteps ==
  ASSUME NEW S \in SUBSET (Ids("chassis") \ {POWER_LOGICAL_ID}), S # {}
  PROVE  LET p == StaticPlan(S) IN
         /\ Len(p) = 4
         /\ p[1].step = "remove" /\ p[2].step = "start"
         /\ p[3].step = "set_color" /\ p[4].step = "finish_play"
         /\ p[3].transfer = "usb_output"
         /\ p[3].ids = S
<1>. DEFINE p == StaticPlan(S)
            f == Output("set_color", "0327", 7 + Cardinality(S))
<1>1. /\ Len(p) = 4
      /\ p[1] = Output("remove", "0321_remove", 6)
      /\ p[2] = Output("start", "0321_start", 6)
      /\ p[3] = [f EXCEPT !.ids = S]
      /\ p[4] = Output("finish_play", "0321_finish", 6)
  BY StaticPlanShape
<1>. HIDE DEF p
<1>2. /\ Output("remove", "0321_remove", 6).step = "remove"
      /\ Output("start", "0321_start", 6).step = "start"
      /\ Output("finish_play", "0321_finish", 6).step = "finish_play"
  BY DEF Output, Feature
<1>3. /\ f.step = "set_color" /\ f.transfer = "usb_output"
      /\ DOMAIN f = {"step", "state", "transfer", "code", "ids", "bytes"}
  BY DEF Output, Feature
<1>. HIDE DEF f
<1>4. /\ p[1].step = "remove" /\ p[2].step = "start" /\ p[4].step = "finish_play"
  BY <1>1, <1>2
<1>5. p[3].step = "set_color" /\ p[3].transfer = "usb_output" /\ p[3].ids = S
  BY <1>1, <1>3
<1>6. Len(p) = 4
  BY <1>1
<1>. QED
  BY <1>4, <1>5, <1>6 DEF p

\* What the first m frames of a set color on the chassis.
LEMMA SetChassisColors ==
  ASSUME IInv, plan # <<>>, cmd = "set", device = "chassis",
         NEW m \in 0..Len(plan)
  PROVE  /\ Len(plan) = 4
         /\ ColorFramesOf("keyboard", m) = {}
         /\ ColorFramesOf("chassis", m) = {k \in 1..m : k = 3}
         /\ Addressed("chassis", m) = IF 3 \in 1..m THEN ResolvedIds ELSE {}
<1>. DEFINE S == ResolvedIds
<1>1. /\ S \in SUBSET (Ids("chassis") \ {POWER_LOGICAL_ID}) /\ S # {}
      /\ plan = StaticPlan(S)
  BY SetIds DEF Encode
<1>2. /\ Len(plan) = 4
      /\ plan[1].step = "remove" /\ plan[2].step = "start"
      /\ plan[4].step = "finish_play"
      /\ plan[3].step = "set_color" /\ plan[3].transfer = "usb_output"
      /\ plan[3].ids = S
  BY <1>1, StaticPlanSteps
<1>. HIDE DEF S
<1>4. m \in Nat /\ \A k \in 1..m : k \in {1, 2, 3, 4}
  BY <1>1, <1>2
<1>5. ColorFramesOf("chassis", m) = {k \in 1..m : k = 3}
  BY <1>2, <1>4 DEF ColorFramesOf
<1>6. ColorFramesOf("keyboard", m) = {}
  BY <1>2, <1>4 DEF ColorFramesOf
<1>7. Addressed("chassis", m) = IF 3 \in 1..m THEN S ELSE {}
  BY <1>2, <1>5 DEF Addressed, Colored
<1>. QED
  BY <1>2, <1>5, <1>6, <1>7 DEF S

\* set on the chassis.
LEMMA SetChassisAsked ==
  ASSUME IInv, plan # <<>>, cmd = "set", device = "chassis", NEW d \in Device
  PROVE  AsAsked(d)
<1>. DEFINE S == ResolvedIds
<1>1. /\ sent \in 0..Len(plan)
      /\ exit = "success" /\ Apply \in flags => sent = Len(plan)
  BY DEF IInv, TypeOK, Complete
<1>2. /\ Len(plan) = 4
      /\ ColorFramesOf("keyboard", sent) = {}
      /\ ColorFramesOf("chassis", sent) = {k \in 1..sent : k = 3}
      /\ Addressed("chassis", sent) = IF 3 \in 1..sent THEN S ELSE {}
  BY <1>1, SetChassisColors
<1>2a. Len(plan) \in 0..Len(plan)
  BY <1>1
<1>2b. /\ ColorFramesOf("keyboard", Len(plan)) = {}
       /\ Addressed("chassis", Len(plan)) = IF 3 \in 1..Len(plan) THEN S ELSE {}
  BY <1>2a, SetChassisColors
<1>. HIDE DEF S
<1>3. Asked("chassis") = S /\ Asked("keyboard") = {}
  BY AskedIsResolved DEF S, Device
<1>4. /\ exit = "success" /\ Apply \in flags => 3 \in 1..sent
      /\ 3 \in 1..Len(plan)
  BY <1>1, <1>2
<1>5. AsAsked("chassis")
  BY <1>2, <1>2b, <1>3, <1>4 DEF AsAsked
<1>6. AsAsked("keyboard")
  BY <1>2, <1>2b, <1>3, NotAddressed DEF AsAsked, Device
<1>. QED
  BY <1>5, <1>6 DEF Device

\* The power profile has no frame of the ordinary kind.
LEMMA PowerColorsNothing ==
  /\ DOMAIN PowerPlan = 1..34
  /\ \A k \in 1..34 : PowerPlan[k].step # "set_color"
<1>. DEFINE p == PowerPlan
            F == PowerFrames
<1>1. p \in Seq(F) /\ Len(p) = 34
  BY PowerPlanShape
<1>2. \A f \in F : f.step # "set_color"
  BY DEF PowerFrames
<1>. HIDE DEF p, F
<1>3. DOMAIN p = 1..34 /\ \A k \in 1..34 : p[k] \in F
  BY <1>1, LenProperties, ElementOfSeq
<1>. QED
  BY <1>2, <1>3 DEF p

\* The number of color frames of the whole keyboard is one.
LEMMA KeyboardFramesCount == ColorFrames(Ids("keyboard")) \in Nat
<1>1. Ids("keyboard") \in SUBSET Nat /\ IsFiniteSet(Ids("keyboard"))
  BY IdsAreBytes DEF Device
<1>. QED
  BY <1>1, Chunks

\* What the first m frames of a compound write color.
LEMMA SetAllColors ==
  ASSUME plan = set_all_report, NEW m \in 0..Len(plan)
  PROVE  LET S == Ids("keyboard")
             n == ColorFrames(S)
         IN  /\ n \in Nat /\ Len(plan) = n + 43
             /\ ColorFramesOf("keyboard", m) = {k \in 1..m : k \in 4..n + 3}
             /\ ColorFramesOf("chassis", m) = {k \in 1..m : k = n + 8}
             /\ Addressed("keyboard", m) \subseteq S
             /\ \A i \in Addressed("keyboard", m), j \in S :
                  j < i => j \in Addressed("keyboard", m)
             /\ \A j, k \in ColorFramesOf("keyboard", m) :
                  j # k => Colored("keyboard", j) \cap Colored("keyboard", k) = {}
             /\ m >= n + 3 => Addressed("keyboard", m) = S
             /\ Addressed("chassis", m) =
                  IF n + 8 \in 1..m THEN {0, 2} ELSE {}
<1>. DEFINE S == Ids("keyboard")
            n == ColorFrames(S)
<1>1. n \in Nat
  BY KeyboardFramesCount
<1>2. /\ Len(plan) = n + 43
      /\ \A k \in 1..n + 5 : plan[k] = KeyboardPlan(S)[k]
      /\ \A k \in n + 6..n + 9 : plan[k] = StaticPlan({0, 2})[k - (n + 5)]
      /\ \A k \in n + 10..n + 43 : plan[k] = PowerPlan[k - (n + 9)]
  BY <1>1, SetAllShape
<1>3. \A k \in 1..n + 5 :
        /\ plan[k].step = "set_color" <=> k \in 4..n + 3
        /\ plan[k].transfer # "usb_output"
        /\ k \in 4..n + 3 => plan[k].transfer = "feature_write"
  <2>. TAKE k \in 1..n + 5
  <2>1. /\ KeyboardPlan(S)[k].step =
             IF k = 1 THEN "reset" ELSE IF k = 2 THEN "query_status"
             ELSE IF k = 3 THEN "read_status"
             ELSE IF k <= n + 3 THEN "set_color"
             ELSE IF k = n + 4 THEN "loop" ELSE "update"
        /\ KeyboardPlan(S)[k].transfer =
             IF k = 3 THEN "feature_read" ELSE "feature_write"
    BY KeyboardPlanSteps
  <2>2. plan[k] = KeyboardPlan(S)[k]
    BY <1>2
  <2>. HIDE DEF n, S
  <2>. QED
    BY <1>1, <2>1, <2>2
<1>4. \A k \in 4..n + 3 : plan[k] = ColorFrame(S, k - 3)
  <2>. TAKE k \in 4..n + 3
  <2>1. k - 3 \in 1..n /\ 3 + (k - 3) = k /\ k \in 1..n + 5
    BY <1>1
  <2>2. KeyboardPlan(S)[3 + (k - 3)] = ColorFrame(S, k - 3)
    BY <2>1, KeyboardPlanShape
  <2>. QED
    BY <1>2, <2>1, <2>2
<1>5. \A k \in n + 6..n + 9 :
        /\ plan[k].step = "set_color" <=> k = n + 8
        /\ k = n + 8 => plan[k].transfer = "usb_output" /\ plan[k].ids = {0, 2}
  <2>. DEFINE p == StaticPlan({0, 2})
  <2>1. {0, 2} \in SUBSET (Ids("chassis") \ {POWER_LOGICAL_ID}) /\ {0, 2} # {}
    BY TargetsAssumption DEF POWER_LOGICAL_ID
  <2>2. /\ p[1].step = "remove" /\ p[2].step = "start"
        /\ p[3].step = "set_color" /\ p[4].step = "finish_play"
        /\ p[3].transfer = "usb_output" /\ p[3].ids = {0, 2}
    BY <2>1, StaticPlanSteps
  <2>. TAKE k \in n + 6..n + 9
  <2>3. plan[k] = p[k - (n + 5)]
    BY <1>2
  <2>. HIDE DEF p, n
  <2>4. k - (n + 5) \in {1, 2, 3, 4} /\ (k - (n + 5) = 3 <=> k = n + 8)
    BY <1>1
  <2>. QED
    BY <2>2, <2>3, <2>4
<1>6. \A k \in n + 10..n + 43 : plan[k].step # "set_color"
  <2>. TAKE k \in n + 10..n + 43
  <2>. HIDE DEF n
  <2>1. k - (n + 9) \in 1..34
    BY <1>1
  <2>2. PowerPlan[k - (n + 9)].step # "set_color"
    BY <2>1, PowerColorsNothing
  <2>. QED
    BY <1>2, <2>2
<1>. HIDE DEF n
<1>7. m \in Nat /\ \A k \in 1..m : k \in 1..n + 43
  BY <1>1, <1>2
<1>8. \A k \in 1..n + 43 :
        k \in 1..n + 5 \/ k \in n + 6..n + 9 \/ k \in n + 10..n + 43
  BY <1>1
<1>9. ColorFramesOf("keyboard", m) = {k \in 1..m : k \in 4..n + 3}
  <2>1. \A k \in 1..m :
          (plan[k].step = "set_color" /\ plan[k].transfer = "feature_write")
            <=> k \in 4..n + 3
    <3>. TAKE k \in 1..m
    <3>1. CASE k \in 1..n + 5
      BY <1>3, <3>1
    <3>2. CASE k \in n + 6..n + 9
      BY <1>1, <1>5, <3>2
    <3>3. CASE k \in n + 10..n + 43
      BY <1>1, <1>6, <3>3
    <3>. QED
      BY <1>7, <1>8, <3>1, <3>2, <3>3
  <2>. QED
    BY <2>1 DEF ColorFramesOf
<1>10. ColorFramesOf("chassis", m) = {k \in 1..m : k = n + 8}
  <2>1. \A k \in 1..m :
          (plan[k].step = "set_color" /\ plan[k].transfer # "feature_write")
            <=> k = n + 8
    <3>. TAKE k \in 1..m
    <3>1. CASE k \in 1..n + 5
      BY <1>1, <1>3, <3>1
    <3>2. CASE k \in n + 6..n + 9
      BY <1>5, <3>2
    <3>3. CASE k \in n + 10..n + 43
      BY <1>1, <1>6, <3>3
    <3>. QED
      BY <1>7, <1>8, <3>1, <3>2, <3>3
  <2>. QED
    BY <2>1 DEF ColorFramesOf
<1>11. /\ Addressed("keyboard", m) \subseteq S
       /\ \A i \in Addressed("keyboard", m), j \in S :
            j < i => j \in Addressed("keyboard", m)
       /\ \A j, k \in ColorFramesOf("keyboard", m) :
            j # k => Colored("keyboard", j) \cap Colored("keyboard", k) = {}
       /\ m >= n + 3 => Addressed("keyboard", m) = S
  BY <1>1, <1>4, <1>7, <1>9, KeyboardAddressed DEF n
<1>12. Addressed("chassis", m) = IF n + 8 \in 1..m THEN {0, 2} ELSE {}
  <2>1. n + 8 \in 1..m => plan[n + 8].ids = {0, 2}
    BY <1>1, <1>5
  <2>. QED
    BY <1>10, <2>1 DEF Addressed, Colored
<1>. QED
  BY <1>1, <1>2, <1>9, <1>10, <1>11, <1>12 DEF n

\* set-all, on both controllers.
LEMMA SetAllAsked ==
  ASSUME IInv, cmd = "set-all", plan = set_all_report, NEW d \in Device
  PROVE  AsAsked(d)
<1>. DEFINE S == Ids("keyboard")
            n == ColorFrames(S)
<1>1. /\ sent \in 0..Len(plan)
      /\ exit = "success" /\ Apply \in flags =>
           plan # <<>> /\ sent = Len(plan)
  BY DEF IInv, TypeOK, Complete
<1>2. /\ n \in Nat /\ Len(plan) = n + 43
      /\ ColorFramesOf("chassis", sent) = {k \in 1..sent : k = n + 8}
      /\ Addressed("keyboard", sent) \subseteq S
      /\ \A i \in Addressed("keyboard", sent), j \in S :
           j < i => j \in Addressed("keyboard", sent)
      /\ \A j, k \in ColorFramesOf("keyboard", sent) :
           j # k => Colored("keyboard", j) \cap Colored("keyboard", k) = {}
      /\ sent >= n + 3 => Addressed("keyboard", sent) = S
      /\ Addressed("chassis", sent) = IF n + 8 \in 1..sent THEN {0, 2} ELSE {}
  BY <1>1, SetAllColors
<1>2a. Len(plan) \in 0..Len(plan)
  BY <1>1
<1>2b. /\ Len(plan) >= n + 3 => Addressed("keyboard", Len(plan)) = S
       /\ Addressed("chassis", Len(plan)) =
            IF n + 8 \in 1..Len(plan) THEN {0, 2} ELSE {}
  BY <1>2a, SetAllColors
<1>. HIDE DEF n
<1>3. Asked("keyboard") = S /\ Asked("chassis") = {0, 2}
  <2>1. Ids("chassis") \ {POWER_LOGICAL_ID} = {0, 2}
    BY TargetsAssumption DEF POWER_LOGICAL_ID
  <2>. QED
    BY <2>1 DEF Asked
<1>4. /\ exit = "success" /\ Apply \in flags => sent >= n + 3
      /\ exit = "success" /\ Apply \in flags => n + 8 \in 1..sent
      /\ Len(plan) >= n + 3 /\ n + 8 \in 1..Len(plan)
  BY <1>1, <1>2
<1>5. AsAsked("keyboard")
  BY <1>2, <1>2b, <1>3, <1>4 DEF AsAsked
<1>6. AsAsked("chassis")
  <2>1. /\ \A j, k \in ColorFramesOf("chassis", sent) : j = k
        /\ \A i \in Addressed("chassis", sent) :
             Addressed("chassis", sent) = {0, 2}
    BY <1>2
  <2>. QED
    BY <1>2, <1>2b, <1>3, <1>4, <2>1 DEF AsAsked
<1>. QED
  BY <1>5, <1>6 DEF Device

\* A plan without color frames addresses nothing, and nothing is asked for by
\* the commands that have one.
LEMMA NothingAsked ==
  ASSUME TypeOK, cmd \notin {"set", "set-all"},
         \A k \in DOMAIN plan : plan[k].step # "set_color", NEW d \in Device
  PROVE  AsAsked(d)
<1>1. \A k \in 1..sent : k \in DOMAIN plan
  BY DEF TypeOK
<1>1a. \A k \in 1..Len(plan) : k \in DOMAIN plan
  BY DEF TypeOK
<1>2. ColorFramesOf(d, sent) = {} /\ ColorFramesOf(d, Len(plan)) = {}
  BY <1>1, <1>1a DEF ColorFramesOf
<1>3. Addressed(d, sent) = {} /\ Addressed(d, Len(plan)) = {}
  BY <1>2, NotAddressed
<1>4. Asked(d) = {}
  BY DEF Asked
<1>. QED
  BY <1>2, <1>3, <1>4 DEF AsAsked

\* However the frames of a plan are cut and wherever sending stops, the lowest
\* targets asked for were colored, each once, and nothing else; all of them
\* when a live command succeeds, and all of them shown when any command does:
\* execute_keyboard, execute_aw_elc, set_all_report and the compound write over
\* the plans of protocol/api_v5.rs and api_v4.rs.
THEOREM AddressedAlwaysAsAsked == Spec => []AddressedAsAsked
<1>1. IInv => AddressedAsAsked
  <2>. SUFFICES ASSUME IInv, NEW d \in Device PROVE AsAsked(d)
    BY DEF AddressedAsAsked, AsAsked
  <2>1. CASE plan = <<>>
    <3>1. /\ Addressed(d, sent) = {} /\ Addressed(d, Len(plan)) = {}
          /\ ColorFramesOf(d, sent) = {}
      <4>1. sent = 0 /\ Len(plan) = 0
        BY <2>1 DEF IInv, TypeOK
      <4>2. ColorFramesOf(d, sent) = {} /\ ColorFramesOf(d, Len(plan)) = {}
        BY <4>1 DEF ColorFramesOf
      <4>. QED
        BY <4>2, NotAddressed
    <3>2. exit = "success" => Asked(d) = {} /\ Apply \notin flags
      BY <2>1 DEF IInv, Complete, Asked, ReadOnly
    <3>. QED
      BY <3>1, <3>2 DEF AsAsked
  <2>2. CASE plan # <<>> /\ cmd = "set"
    <3>1. device \in Device
      BY <2>2, SetIds
    <3>. QED
      BY <2>2, <3>1, SetKeyboardAsked, SetChassisAsked DEF Device
  <2>3. CASE plan # <<>> /\ cmd = "set-all"
    BY <2>3, SetAllAsked DEF IInv, PlanIs
  <2>4. CASE plan # <<>> /\ cmd = "power-profile"
    <3>1. plan = PowerPlan
      BY <2>4 DEF IInv, PlanIs
    <3>2. \A k \in DOMAIN plan : plan[k].step # "set_color"
      BY <3>1, PowerPlanShape, PowerColorsNothing
    <3>. QED
      BY <2>4, <3>2, NothingAsked DEF IInv
  <2>5. CASE plan # <<>> /\ cmd = "keyboard-status"
    <3>1. plan = <<QueryStatus, ReadStatus>>
      BY <2>5 DEF IInv, PlanIs
    <3>2. QueryStatus.step # "set_color" /\ ReadStatus.step # "set_color"
      BY DEF QueryStatus, ReadStatus, Feature
    <3>3. \A k \in DOMAIN plan : plan[k].step # "set_color"
      BY <3>1, <3>2
    <3>. QED
      BY <2>5, <3>3, NothingAsked DEF IInv
  <2>. QED
    BY <2>1, <2>2, <2>3, <2>4, <2>5 DEF IInv, PlanIs
<1>. QED
  BY <1>1, Invariant, PTL
=============================================================================
