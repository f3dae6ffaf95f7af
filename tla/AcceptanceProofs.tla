---------------------------- MODULE AcceptanceProofs ----------------------------
(***************************************************************************)
(* The layers of Commands agree: the checks of the parser, those repeated  *)
(* before a write, the encoders, the validation of what they encode and    *)
(* the comparison of what was sent.  Where the code compares with a number *)
(* of its own (11 frames of the keyboard, 85 assignments, 75 names), the   *)
(* theorem states which catalogs that number fits.                         *)
(***************************************************************************)
EXTENDS CommandsProofs

-----------------------------------------------------------------------------
(* The layers after the parser *)

\* What an accepted set resolves to can be encoded, and is valid when encoded.
LEMMA ResolvedIsSealed ==
  ASSUME TypeOK, cmd = "set", Accepted, resolve_targets(device, targets)
  PROVE  /\ Encodes(device, ResolvedIds)
         /\ Sealed(device, ResolvedIds)
<1>1. /\ device \in Device
      /\ ResolvedIds \in SUBSET Ids(device) /\ ResolvedIds # {}
      /\ device = "chassis" => POWER_LOGICAL_ID \notin ResolvedIds
  BY ResolvedIdsFit
<1>. HIDE DEF ResolvedIds
<1>2. CASE device = "keyboard"
  <2>1. ResolvedIds \in SUBSET Ids("keyboard")
    BY <1>1, <1>2
  <2>2. PreparesKeyboard(ResolvedIds)
        /\ validate_keyboard_plan(KeyboardPlan(ResolvedIds))
    BY <1>1, <2>1, EncodedKeyboardIsValid
  <2>. QED
    BY <1>2, <2>2 DEF Sealed, Encodes, PreparesKeyboard
<1>3. CASE device = "chassis"
  <2>1. ResolvedIds \in SUBSET (Ids("chassis") \ {POWER_LOGICAL_ID})
    BY <1>1, <1>3
  <2>2. StaticEncodes(ResolvedIds)
        /\ validate_aw_elc_plan(StaticPlan(ResolvedIds))
    BY <1>1, <2>1, EncodedStaticIsValid
  <2>. QED
    BY <1>3, <2>2 DEF Sealed, Encodes
<1>. QED
  BY <1>1, <1>2, <1>3 DEF Device

\* The same for the compound write and the power profile.
LEMMA SetAllIsSealed == SealedSetAll
<1>1. Ids("keyboard") \in SUBSET Ids("keyboard") /\ Ids("keyboard") # {}
  BY TargetsAssumption DEF Ids, Device
<1>2. {0, 2} \in SUBSET (Ids("chassis") \ {POWER_LOGICAL_ID}) /\ {0, 2} # {}
  BY TargetsAssumption DEF POWER_LOGICAL_ID
<1>3. PreparesKeyboard(Ids("keyboard"))
      /\ validate_keyboard_plan(KeyboardPlan(Ids("keyboard")))
  BY <1>1, EncodedKeyboardIsValid
<1>4. StaticEncodes({0, 2}) /\ validate_aw_elc_plan(StaticPlan({0, 2}))
  BY <1>2, EncodedStaticIsValid
<1>. QED
  BY <1>3, <1>4, EncodedPowerIsValid DEF SealedSetAll, Sealed

\* Why an accepted set may fail before its first frame, in a dry run and live.
LEMMA SetErrors ==
  ASSUME IInv, pc = "run", cmd = "set", NEW gate \in BOOLEAN
  PROVE  /\ DryRunSetError(gate) \in
              {"none", "invalid_target", "hardware_gate_failed"}
         /\ Apply \in flags =>
              \/ LiveSetError(gate) \in {"none", "hardware_gate_failed"}
              \/ /\ device = "chassis"
                 /\ LiveSetError(gate) = "invalid_target"
                 /\ ~resolve_targets(device, targets)
              \/ /\ device = "chassis"
                 /\ LiveSetError(gate) = "single_known_target_required"
                 /\ \/ Len(targets) # 1 \/ targets = <<All>>
                    \/ /\ resolve_targets(device, targets)
                       /\ Cardinality(ResolvedIds) # 1
<1>1. Accepted /\ TypeOK
  BY AtRun
<1>2. resolve_targets(device, targets) =>
        /\ Encodes(device, ResolvedIds) /\ Sealed(device, ResolvedIds)
        /\ device \in Device
        /\ ResolvedIds \in SUBSET Ids(device) /\ ResolvedIds # {}
  BY <1>1, ResolvedIsSealed, ResolvedIdsFit
<1>3. DryRunSetError(gate) \in {"none", "invalid_target", "hardware_gate_failed"}
  BY <1>2 DEF DryRunSetError
<1>4. CASE Apply \in flags /\ device = "keyboard"
  <2>1. targets \in Seq(STRING) /\ validate_keyboard_live_target_names(targets)
    BY <1>1, <1>4, AcceptedSet DEF TypeOK
  <2>2. resolve_targets(device, targets)
    BY <1>4, <2>1, LiveNamesResolve
  <2>3. /\ IsFiniteSet(Ids("keyboard")) /\ ResolvedIds \in SUBSET Ids("keyboard")
        /\ Cardinality(Ids("keyboard")) \in Nat
    BY <1>2, <1>4, <2>2, IdsAreBytes
  <2>4. /\ Cardinality(ResolvedIds) <= Cardinality(Ids("keyboard"))
        /\ Cardinality(ResolvedIds) \in Nat
    BY <2>3, FS_Subset, FS_CardinalityType
  <2>5. ~(Cardinality(ResolvedIds) > Cardinality(Ids("keyboard")))
    BY <2>3, <2>4
  <2>6. LiveSetError(gate) = IF ~gate THEN "hardware_gate_failed" ELSE "none"
    BY <1>2, <1>4, <2>1, <2>2, <2>5 DEF LiveSetError
  <2>. QED
    BY <1>3, <2>6
<1>5. CASE Apply \in flags /\ device = "chassis"
  BY <1>2, <1>3, <1>5 DEF LiveSetError
<1>6. Apply \in flags => device \in Device
  BY <1>1, AcceptedSet DEF TypeOK
<1>. QED
  BY <1>3, <1>4, <1>5, <1>6 DEF Device

-----------------------------------------------------------------------------
(* What was sent is recognised *)

\* A keyboard with 76 to 90 keys takes six color frames.
LEMMA SixColorFrames ==
  ASSUME Cardinality(Ids("keyboard")) \in 76..90
  PROVE  ColorFrames(Ids("keyboard")) = 6
<1>. DEFINE c == Cardinality(Ids("keyboard"))
<1>1. c \in Nat /\ c >= 76 /\ c <= 90
  OBVIOUS
<1>. HIDE DEF c
<1>2. /\ div_ceil(c, RECORDS_PER_FRAME) \in Nat
      /\ 15 * div_ceil(c, RECORDS_PER_FRAME) >= c
      /\ 15 * div_ceil(c, RECORDS_PER_FRAME) < c + 15
  BY <1>1, Ceiling
<1>3. div_ceil(c, RECORDS_PER_FRAME) = 6
  BY <1>1, <1>2
<1>. QED
  BY <1>3 DEF ColorFrames, c

\* The stages of a compound write have 11, 4 and 34 frames.
LEMMA StagesOfSetAll ==
  ASSUME Cardinality(Ids("keyboard")) \in 76..90, plan = set_all_report
  PROVE  /\ Len(plan) = 49
         /\ \A k \in 1..11 : Stage(k) = 1
         /\ \A k \in 12..15 : Stage(k) = 2
         /\ \A k \in 16..49 : Stage(k) = 3
<1>. DEFINE S == Ids("keyboard")
            b == StaticPlan({0, 2})
<1>1. /\ Len(plan) = 6 + 43
      /\ \A k \in 1..6 + 5 : plan[k] = KeyboardPlan(S)[k]
      /\ \A k \in 6 + 6..6 + 9 : plan[k] = b[k - (6 + 5)]
      /\ \A k \in 6 + 10..6 + 43 : plan[k] = PowerPlan[k - (6 + 9)]
  BY SixColorFrames, SetAllShape
<1>2. ASSUME NEW k \in 1..11 PROVE Stage(k) = 1
  <2>1. k \in 1..ColorFrames(S) + 5
    BY SixColorFrames
  <2>2. KeyboardPlan(S)[k].transfer = IF k = 3 THEN "feature_read"
                                              ELSE "feature_write"
    BY <2>1, KeyboardPlanSteps
  <2>3. plan[k] = KeyboardPlan(S)[k]
    BY <1>1
  <2>. QED
    <3>. HIDE DEF S
    <3>. QED
      BY <2>2, <2>3 DEF Stage
<1>3. ASSUME NEW k \in 12..15 PROVE Stage(k) = 2
  <2>1. {0, 2} \in SUBSET (Ids("chassis") \ {POWER_LOGICAL_ID}) /\ {0, 2} # {}
    BY TargetsAssumption DEF POWER_LOGICAL_ID
  <2>2. b \in Seq(StaticFrames) /\ Len(b) = 4
    BY <2>1, StaticPlanShape
  <2>. HIDE DEF b
  <2>3. k - 11 \in 1..Len(b)
    BY <2>2
  <2>4. b[k - 11] \in StaticFrames
    BY <2>2, <2>3, ElementOfSeq
  <2>5. plan[k] = b[k - 11]
    BY <1>1
  <2>. QED
    BY <2>4, <2>5 DEF Stage, StaticFrames
<1>4. ASSUME NEW k \in 16..49 PROVE Stage(k) = 3
  <2>1. PowerPlan \in Seq(PowerFrames) /\ Len(PowerPlan) = 34
    BY PowerPlanShape
  <2>2. k - 15 \in 1..Len(PowerPlan)
    BY <2>1
  <2>3. PowerPlan[k - 15] \in PowerFrames
    BY <2>1, <2>2, ElementOfSeq
  <2>4. plan[k] = PowerPlan[k - 15]
    BY <1>1
  <2>5. plan[k] \in PowerFrames
    BY <2>3, <2>4
  <2>. QED
    BY <2>5 DEF Stage, PowerFrames
<1>. QED
  BY <1>1, <1>2, <1>3, <1>4

\* The places of the stages, and how many there are.
LEMMA StagesPartition ==
  /\ 1..49 = (1..11) \cup (12..15) \cup (16..49)
  /\ (1..11) \cap (12..15) = {} /\ (1..11) \cap (16..49) = {}
  /\ (12..15) \cap (16..49) = {}
  /\ Cardinality(1..11) = 11 /\ Cardinality(12..15) = 4
  /\ Cardinality(16..49) = 34
<1>1. 1..49 = (1..11) \cup (12..15) \cup (16..49)
  OBVIOUS
<1>2. /\ (1..11) \cap (12..15) = {} /\ (1..11) \cap (16..49) = {}
      /\ (12..15) \cap (16..49) = {}
  OBVIOUS
<1>0. \A a, b \in Int : Cardinality(a..b) = IF a > b THEN 0 ELSE b - a + 1
  BY FS_Interval
<1>3. Cardinality(1..11) = 11
  <2>1. 11 \in Int /\ 1 \in Int
    OBVIOUS
  <2>2. Cardinality(1..11) = IF 1 > 11 THEN 0 ELSE 11 - 1 + 1
    BY <1>0, <2>1, Zenon
  <2>. QED
    BY <2>2
<1>4. Cardinality(12..15) = 4
  <2>1. 15 \in Int /\ 12 \in Int
    OBVIOUS
  <2>2. Cardinality(12..15) = IF 12 > 15 THEN 0 ELSE 15 - 12 + 1
    BY <1>0, <2>1, Zenon
  <2>. QED
    BY <2>2
<1>5. Cardinality(16..49) = 34
  <2>1. 49 \in Int /\ 16 \in Int
    OBVIOUS
  <2>2. Cardinality(16..49) = IF 16 > 49 THEN 0 ELSE 49 - 16 + 1
    BY <1>0, <2>1, Zenon
  <2>. QED
    BY <2>2
<1>. QED
  BY <1>1, <1>2, <1>3, <1>4, <1>5

\* How many frames the stages of a compound write have.
LEMMA StageSizes ==
  ASSUME Cardinality(Ids("keyboard")) \in 76..90, plan = set_all_report,
         NEW n, n = 49
  PROVE  /\ Cardinality({k \in 1..n : Stage(k) = 1}) = 11
         /\ Cardinality({k \in 1..n : Stage(k) = 2}) = 4
         /\ Cardinality({k \in 1..n : Stage(k) = 3}) = 34
<1>. DEFINE A == 1..11
            B == 12..15
            C == 16..49
<1>1. /\ 1..n = A \cup B \cup C
      /\ A \cap B = {} /\ A \cap C = {} /\ B \cap C = {}
      /\ Cardinality(A) = 11 /\ Cardinality(B) = 4 /\ Cardinality(C) = 34
  BY StagesPartition
<1>2. /\ \A k \in A : Stage(k) = 1
      /\ \A k \in B : Stage(k) = 2
      /\ \A k \in C : Stage(k) = 3
  BY StagesOfSetAll
<1>. HIDE DEF A, B, C
<1>3. {k \in 1..n : Stage(k) = 1} = A
  BY <1>1, <1>2
<1>4. {k \in 1..n : Stage(k) = 2} = B /\ {k \in 1..n : Stage(k) = 3} = C
  BY <1>1, <1>2
<1>. QED
  BY <1>1, <1>3, <1>4

\* A live command whose every frame was taken is recognised as complete.
LEMMA CompleteIsCanonical ==
  ASSUME Cardinality(Ids("keyboard")) \in 76..90,
         IInv, plan # <<>>, sent = Len(plan)
  PROVE  Canonical
<1>1. CASE cmd = "set-all"
  <2>1. plan = set_all_report
    BY <1>1 DEF IInv, PlanIs
  <2>2. sent = 49
    BY <2>1, StagesOfSetAll
  <2>7. /\ Cardinality({k \in 1..sent : Stage(k) = 1}) = <<11, 4, 34>>[1]
        /\ Cardinality({k \in 1..sent : Stage(k) = 2}) = <<11, 4, 34>>[2]
        /\ Cardinality({k \in 1..sent : Stage(k) = 3}) = <<11, 4, 34>>[3]
    BY <2>1, <2>2, StageSizes
  <2>8. \A s \in 1..3 : s \in {1, 2, 3}
    OBVIOUS
  <2>9. set_all_completed_canonically
    BY <2>7, <2>8 DEF set_all_completed_canonically
  <2>. QED
    BY <1>1, <2>9 DEF Canonical
<1>2. CASE cmd = "power-profile"
  <2>1. plan = PowerPlan
    BY <1>2 DEF IInv, PlanIs
  <2>. QED
    BY <1>2, <2>1 DEF Canonical, CanonicalReceipt
<1>3. CASE cmd \notin {"set-all", "power-profile"}
  BY <1>3 DEF Canonical
<1>. QED
  BY <1>1, <1>2, <1>3

-----------------------------------------------------------------------------
(* Why a run fails *)

\* Errors that say nothing of the line: misuse, what the machine answers, and
\* a color that could not be recorded.
Outside == {"none", "invalid_arguments", "hardware_gate_failed", "discovery",
            "transport", "unsaved"}

\* Every other error, with what holds when it is given: the parser refused the
\* line, or the targets of a set do not resolve.
Reason ==
  \/ code' = "refused" /\ ~Accepted
  \/ /\ cmd = "set" /\ DryRun \in flags
     /\ code' = "invalid_target"
  \/ /\ cmd = "set" /\ Apply \in flags /\ device = "chassis"
     /\ code' = "invalid_target"
     /\ ~resolve_targets(device, targets)
  \/ /\ cmd = "set" /\ Apply \in flags /\ device = "chassis"
     /\ code' = "single_known_target_required"
     /\ \/ Len(targets) # 1 \/ targets = <<All>>
        \/ /\ resolve_targets(device, targets)
           /\ Cardinality(ResolvedIds) # 1

\* An error is given once, and is one of these or the judgement that the frames
\* sent are not those of the command.
LEMMA Reasons ==
  ASSUME IInv, [Next]_vars, code' \notin Outside
  PROVE  \/ UNCHANGED <<code, line>>
         \/ UNCHANGED line /\ Reason
         \/ /\ code' = "incomplete"
            /\ plan # <<>> /\ sent = Len(plan) /\ ~Canonical
<1>1. CASE UNCHANGED vars \/ Ended
  BY <1>1 DEF vars, line, Ended
<1>2. ASSUME pc # "exited", UNCHANGED code PROVE FALSE
  BY <1>2 DEF IInv, Fresh, Outside
<1>3. CASE Arguments
  <2>1. ASSUME NEW c, Begin(c) PROVE UNCHANGED code /\ pc = "start"
    BY <2>1 DEF Begin, Proceed
  <2>2. ASSUME Parsing PROVE UNCHANGED code /\ pc = "args"
    BY <2>2 DEF Parsing, Proceed
  <2>3. CASE Misuse
    BY <2>3 DEF Misuse, Usage, Exit, Outside
  <2>4. CASE EndOfArguments
    <3>1. CASE Accepted
      BY <1>2, <2>4, <3>1 DEF EndOfArguments, Proceed
    <3>2. CASE ~Accepted
      BY <2>4, <3>2 DEF EndOfArguments, Usage, Exit, Reason
    <3>. QED
      BY <3>1, <3>2
  <2>. QED
    BY <1>2, <1>3, <2>1, <2>2, <2>3, <2>4
       DEF Arguments, Switch, Color, GiveDevice, Target
<1>4. CASE Run
  <2>1. CASE RunReadOnly
    BY <2>1 DEF RunReadOnly, Succeed, Fail, Exit, Outside
  <2>2. CASE RunKeyboardStatus
    BY <1>2, <2>2 DEF RunKeyboardStatus, Running, Proceed
  <2>3. ASSUME NEW gate \in BOOLEAN, DryRunSet(gate) PROVE UNCHANGED line /\ Reason
    <3>1. /\ pc = "run" /\ cmd = "set" /\ UNCHANGED line /\ DryRun \in flags
      BY <2>3 DEF DryRunSet, Running
    <3>2. code' = DryRunSetError(gate)
      BY <2>3 DEF DryRunSet, Fail, Succeed, Exit
    <3>. QED
      BY <3>1, <3>2, SetErrors DEF Reason, Outside
  <2>4. ASSUME NEW gate \in BOOLEAN, ApplySet(gate) PROVE UNCHANGED line /\ Reason
    <3>1. /\ pc = "run" /\ cmd = "set" /\ UNCHANGED line /\ Apply \in flags
      BY <2>4 DEF ApplySet, Running
    <3>2. code' = LiveSetError(gate)
      <4>1. code = "none"
        BY <3>1, AtRun
      <4>. QED
        BY <2>4, <4>1 DEF ApplySet, Fail, Proceed, Exit
    <3>. QED
      BY <3>1, <3>2, SetErrors DEF Reason, Outside
  <2>5. ASSUME NEW gate \in BOOLEAN, RunPowerProfile(gate) PROVE FALSE
    <3>1. pc = "run"
      BY <2>5 DEF RunPowerProfile, Running
    <3>2. PowerProfileError(gate) \in Outside
      BY EncodedPowerIsValid DEF PowerProfileError, Outside
    <3>. QED
      BY <1>2, <2>5, <3>1, <3>2
         DEF RunPowerProfile, Fail, Succeed, Proceed, Exit, Outside
  <2>6. CASE DryRunSetAll
    BY <2>6 DEF DryRunSetAll, Succeed, Exit, Outside
  <2>7. CASE ApplySetAll
    <3>1. pc = "run"
      BY <2>7 DEF ApplySetAll, Running
    <3>. QED
      BY <1>2, <2>7, <3>1, SetAllIsSealed DEF ApplySetAll, Proceed
  <2>8. CASE DiscoveryFails
    BY <2>8 DEF DiscoveryFails, Fail, Exit, Outside
  <2>. QED
    BY <1>4, <2>1, <2>2, <2>3, <2>4, <2>5, <2>6, <2>7, <2>8 DEF Run
<1>5. CASE Send
  BY <1>2, <1>5 DEF Send, Sending, Proceed
<1>6. CASE SendFails
  BY <1>6 DEF SendFails, Exit, Outside
<1>7. CASE Finish
  <2>1. Sending /\ plan # <<>>
    BY <1>7 DEF Finish, Sending, IInv, Vetted
  <2>. QED
    BY <1>7, <2>1 DEF Finish, Sending, Succeed, Exit, Outside
<1>. QED
  BY <1>1, <1>3, <1>4, <1>5, <1>6, <1>7 DEF Next

\* What the parser lets through no later layer refuses for its shape, and what
\* was sent whole is recognised, if the keyboard takes the six color frames
\* cli.rs counts on: run_set_with and prepare_set_all over validate_plan.
THEOREM AcceptedAlwaysSendable ==
  ASSUME Cardinality(Ids("keyboard")) \in 76..90
  PROVE  Spec => []AcceptedIsSendable
<1>1. Init => AcceptedIsSendable
  BY DEF Init, AcceptedIsSendable
<1>2. IInv /\ AcceptedIsSendable /\ [Next]_vars => AcceptedIsSendable'
  <2>. SUFFICES ASSUME IInv, AcceptedIsSendable, [Next]_vars
                PROVE  AcceptedIsSendable'
    OBVIOUS
  <2>1. CASE code' \in Outside
    BY <2>1 DEF Outside, AcceptedIsSendable
  <2>2. CASE code' \notin Outside
    <3>1. ~(plan # <<>> /\ sent = Len(plan) /\ ~Canonical)
      BY CompleteIsCanonical
    <3>2. UNCHANGED code \/ Reason
      BY <2>2, <3>1, Reasons
    <3>3. CASE UNCHANGED code
      BY <3>3 DEF AcceptedIsSendable
    <3>4. CASE Reason
      BY <3>4 DEF Reason, AcceptedIsSendable
    <3>. QED
      BY <3>2, <3>3, <3>4
  <2>. QED
    BY <2>1, <2>2
<1>. QED
  BY <1>1, <1>2, Invariant, PTL DEF Spec

-----------------------------------------------------------------------------
(* The documented targets *)

\* Numbers from 1 to 75.
LEMMA UpTo75 ==
  /\ \A m \in Nat : m # 0 /\ m <= 75 => m \in 1..75
  /\ \A m \in 1..75 : m <= 75 /\ \A n \in Nat : n # 0 /\ n <= m => n \in 1..75
OBVIOUS

\* A name of the chassis stands for the power button just if it is one of its
\* two names.
LEMMA PowerNames ==
  ASSUME NEW t, Known("chassis", t)
  PROVE  lookup("chassis", t) = POWER_LOGICAL_ID
           <=> t \in {"power", "power-button"}
<1>1. t \in DOMAIN Zones \cup DOMAIN ZoneAliases
  BY DEF Known, Names, Aliases
<1>2. lookup("chassis", t) = IF t \in DOMAIN Zones THEN Zones[t] ELSE ZoneAliases[t]
  BY DEF lookup, Names, Aliases
<1>. QED
  BY <1>1, <1>2, TargetsAssumption

\* The only name "all" has is its own.
LEMMA AllIsNoName ==
  ASSUME NEW d \in Device
  PROVE  ~Known(d, All)
BY TargetsAssumption DEF Known

\* A live set writes to the targets README.md allows, and no others, if the
\* catalog has the 75 keys with a name that is no number README.md counts:
\* validate_keyboard_live_target_names and run_set_with.
THEOREM WrittenTargetsAreDocumented ==
  ASSUME explicit_keyboard_live_target_limit = 75
  PROVE  Spec => []OnlyDocumentedTargets
<1>1. IInv => OnlyDocumentedTargets
  <2>. SUFFICES ASSUME IInv, sent > 0, cmd = "set" PROVE DocumentedTargets
    BY DEF OnlyDocumentedTargets
  <2>1. plan # <<>> /\ Apply \in flags
    BY DEF IInv, Vetted
  <2>2. /\ Accepted /\ targets \in Seq(STRING)
        /\ resolve_targets(device, targets) /\ device \in Device
    BY <2>1, SetIds DEF IInv, TypeOK, Judged
  <2>3. /\ Len(targets) \in Nat /\ DOMAIN targets = 1..Len(targets)
        /\ targets # <<>>
    BY <2>2, LenProperties, AcceptedSet
  <2>4. CASE device = "chassis"
    <3>1. /\ Len(targets) = 1
          /\ ~Mentions(targets, {"power", "power-button", All})
      BY <2>1, <2>2, <2>4, AcceptedSet DEF IInv, Vetted
    <3>2. 1 \in DOMAIN targets
      BY <2>3, <3>1
    <3>3. targets[1] \notin {"power", "power-button", All}
      BY <3>1, <3>2 DEF Mentions
    <3>4. Known("chassis", targets[1])
      BY <2>2, <2>4, <3>2, <3>3 DEF resolve_targets, Expands
    <3>. QED
      BY <2>4, <3>1, <3>3, <3>4, PowerNames DEF DocumentedTargets
  <2>5. CASE device = "keyboard"
    <3>1. options = 1 /\ validate_keyboard_live_target_names(targets)
      BY <2>1, <2>2, <2>5, AcceptedSet
    <3>2. CASE targets = <<All>>
      BY <2>5, <3>1, <3>2 DEF DocumentedTargets
    <3>3. CASE targets # <<All>>
      <4>1. /\ Len(targets) <= 75 /\ ~Mentions(targets, {All})
            /\ ~Mentions(targets, Digits)
        BY <3>1, <3>3 DEF validate_keyboard_live_target_names
      <4>2. Len(targets) \in 1..75
        <5>1. Len(targets) # 0
          BY <2>2, <2>3, EmptySeq
        <5>2. Len(targets) \in Nat /\ Len(targets) <= 75
          BY <2>3, <4>1
        <5>. QED
          BY <5>1, <5>2, UpTo75
      <4>3. \A k \in DOMAIN targets :
              /\ targets[k] # All /\ targets[k] \notin Digits
              /\ Known("keyboard", targets[k])
              /\ Meant("keyboard", targets[k]) =
                   {lookup("keyboard", targets[k])}
        BY <2>2, <2>5, <4>1 DEF Mentions, resolve_targets, Expands, Meant
      <4>4. \A j, k \in DOMAIN targets :
              j # k => lookup("keyboard", targets[j])
                         # lookup("keyboard", targets[k])
        BY <2>2, <2>5, <4>3 DEF resolve_targets, Expands
      <4>. QED
        BY <2>5, <3>1, <4>2, <4>3, <4>4 DEF DocumentedTargets
    <3>. QED
      BY <3>2, <3>3
  <2>. QED
    BY <2>2, <2>4, <2>5 DEF Device
<1>. QED
  BY <1>1, Invariant, PTL

\* What stands for the targets of a list of n different names are n ids at most.
LEMMA AsManyIds ==
  ASSUME NEW d \in Device, NEW ts \in Seq(STRING)
  PROVE  LET S == {lookup(d, ts[k]) : k \in DOMAIN ts}
         IN  IsFiniteSet(S) /\ Cardinality(S) <= Len(ts)
<1>. DEFINE S == {lookup(d, ts[k]) : k \in DOMAIN ts}
            f == [k \in 1..Len(ts) |-> lookup(d, ts[k])]
<1>1. Len(ts) \in Nat /\ DOMAIN ts = 1..Len(ts)
  BY LenProperties
<1>2. f \in Surjection(1..Len(ts), S)
  BY <1>1 DEF Surjection
<1>3. IsFiniteSet(1..Len(ts)) /\ Cardinality(1..Len(ts)) = Len(ts)
  <2>1. IsFiniteSet(1..Len(ts))
        /\ Cardinality(1..Len(ts)) = IF 1 > Len(ts) THEN 0 ELSE Len(ts) - 1 + 1
    BY <1>1, FS_Interval
  <2>. QED
    BY <1>1, <2>1
<1>. QED
  BY <1>2, <1>3, FS_Surjection

\* Documented targets resolve, and the checks on a live set let them through.
LEMMA DocumentedResolve ==
  ASSUME explicit_keyboard_live_target_limit = 75,
         targets \in Seq(STRING), DocumentedTargets
  PROVE  /\ targets # <<>>
         /\ device = "chassis" =>
              /\ Len(targets) = 1 /\ targets # <<All>>
              /\ ~Mentions(targets, {"power", "power-button", All})
              /\ resolve_targets(device, targets)
              /\ Cardinality(ResolvedIds) = 1
         /\ device = "keyboard" =>
              options = 1 /\ validate_keyboard_live_target_names(targets)
         /\ device \in Device
<1>1. Len(targets) \in Nat /\ DOMAIN targets = 1..Len(targets)
  BY LenProperties
<1>0. targets = <<>> => Len(targets) = 0
  BY EmptySeq
<1>2. CASE device = "chassis"
  <2>1. /\ Len(targets) = 1 /\ Known("chassis", targets[1])
        /\ lookup("chassis", targets[1]) # POWER_LOGICAL_ID
    BY <1>2 DEF DocumentedTargets
  <2>2. targets[1] \notin {"power", "power-button", All}
    BY <2>1, PowerNames, AllIsNoName DEF Device
  <2>3. DOMAIN targets = {1}
    BY <1>1, <2>1
  <2>4. ~Mentions(targets, {"power", "power-button", All})
    BY <2>2, <2>3 DEF Mentions
  <2>5. resolve_targets("chassis", targets)
    <3>1. \A j, k \in DOMAIN targets : j = k
      BY <2>3
    <3>2. Expands("chassis", targets)
      BY <2>1, <2>3, <3>1 DEF Expands
    <3>. QED
      BY <2>1, <3>2 DEF resolve_targets
  <2>6. ResolvedIds = {lookup("chassis", targets[1])}
    BY <1>2, <2>2, <2>3 DEF ResolvedIds, expand, Meant
  <2>7. Cardinality(ResolvedIds) = 1
    BY <2>6, FS_Singleton
  <2>8. targets # <<>>
    BY <1>0, <2>1
  <2>9. targets # <<All>>
    <3>1. <<All>>[1] = All
      OBVIOUS
    <3>. QED
      BY <2>2, <3>1
  <2>. QED
    BY <1>2, <2>1, <2>4, <2>5, <2>7, <2>8, <2>9 DEF Device
<1>3. CASE device = "keyboard" /\ targets = <<All>>
  <2>1. targets # <<>>
    BY <1>3, EmptySeq
  <2>2. options = 1
    BY <1>3 DEF DocumentedTargets
  <2>. QED
    BY <1>3, <2>1, <2>2 DEF validate_keyboard_live_target_names, Device
<1>4. CASE device = "keyboard" /\ targets # <<All>>
  <2>1. /\ options = 1 /\ Len(targets) \in 1..75
        /\ \A k \in DOMAIN targets :
             Known("keyboard", targets[k]) /\ targets[k] \notin Digits
        /\ \A j, k \in DOMAIN targets :
             j # k => lookup("keyboard", targets[j])
                        # lookup("keyboard", targets[k])
    BY <1>4 DEF DocumentedTargets
  <2>2. \A k \in DOMAIN targets :
          /\ targets[k] # All
          /\ Meant("keyboard", targets[k]) = {lookup("keyboard", targets[k])}
    BY <2>1, AllIsNoName DEF Meant, Device
  <2>3. ~Mentions(targets, {All}) /\ ~Mentions(targets, Digits)
    BY <2>1, <2>2 DEF Mentions
  <2>4. resolve_targets("keyboard", targets)
    BY <2>1, <2>2, <2>3 DEF resolve_targets, Expands
  <2>5. /\ expand("keyboard", targets) =
             {lookup("keyboard", targets[k]) : k \in DOMAIN targets}
    BY <2>2 DEF expand
  <2>6. /\ IsFiniteSet(expand("keyboard", targets))
        /\ Cardinality(expand("keyboard", targets)) <= Len(targets)
    BY <2>5, AsManyIds DEF Device
  <2>7. targets # <<>>
    <3>1. Len(targets) # 0
      BY <1>1, <2>1
    <3>. QED
      BY <1>0, <3>1
  <2>8. expand("keyboard", targets) # {}
    <3>1. 1 \in DOMAIN targets
      BY <1>1, <2>1
    <3>. QED
      BY <2>5, <3>1
  <2>9. Cardinality(expand("keyboard", targets)) \in 1..75
    <3>. DEFINE c == Cardinality(expand("keyboard", targets))
    <3>1. c \in Nat /\ c # 0
      BY <2>6, <2>8, FS_EmptySet, FS_CardinalityType
    <3>2. c <= Len(targets)
      BY <2>6
    <3>3. Len(targets) \in 1..75
      BY <2>1
    <3>. HIDE DEF c
    <3>4. c \in 1..75
      BY <3>1, <3>2, <3>3, UpTo75
    <3>. QED
      BY <3>4 DEF c
  <2>10. Len(targets) <= 75
    BY <2>1, UpTo75
  <2>11. validate_keyboard_live_target_names(targets)
    <3>. HIDE DEF explicit_keyboard_live_target_limit
    <3>. QED
      BY <2>3, <2>4, <2>9, <2>10 DEF validate_keyboard_live_target_names
  <2>. QED
    BY <1>4, <2>1, <2>7, <2>11 DEF Device
<1>. QED
  BY <1>2, <1>3, <1>4 DEF DocumentedTargets

\* The parser takes every live line of the usage text.
LEMMA DocumentedIsAccepted ==
  ASSUME explicit_keyboard_live_target_limit = 75, TypeOK, DocumentedLine
  PROVE  Accepted /\ DryRun \notin flags
<1>1. flags = Switches(cmd) \ {DryRun} /\ cmd \in Live
  BY DEF DocumentedLine
<1>2. DryRun \notin Confirmations(cmd) /\ Apply \notin Confirmations(cmd)
      /\ DryRun # Apply
  BY DEF Confirmations, DryRun, Apply
<1>3. Confirmations(cmd) \subseteq flags /\ DryRun \notin flags
  BY <1>1, <1>2 DEF Switches
<1>4. CASE cmd = "keyboard-status"
  BY <1>3, <1>4 DEF Accepted, parse_keyboard_status
<1>5. CASE cmd \in {"set", "set-all", "power-profile"}
  <2>1. Apply \in flags
    BY <1>1, <1>2, <1>5 DEF Switches, Modes, Live
  <2>2. ModeIsConfirmed
    BY <1>3, <2>1 DEF ModeIsConfirmed
  <2>3. CASE cmd \in {"set-all", "power-profile"}
    <3>1. color = "plain"
      BY <2>3 DEF DocumentedLine
    <3>. QED
      BY <1>3, <2>2, <2>3, <3>1
         DEF Accepted, parse_set_all, parse_power_profile
  <2>4. CASE cmd = "set"
    <3>1. color # "none" /\ DocumentedTargets /\ targets \in Seq(STRING)
      BY <2>4 DEF DocumentedLine, TypeOK
    <3>2. /\ targets # <<>> /\ device \in Device
          /\ device = "chassis" =>
               ~Mentions(targets, {"power", "power-button", All})
          /\ device = "keyboard" =>
               options = 1 /\ validate_keyboard_live_target_names(targets)
      BY <3>1, DocumentedResolve
    <3>. QED
      BY <1>3, <2>2, <2>4, <3>1, <3>2 DEF Accepted, parse_set, Device
  <2>. QED
    BY <1>5, <2>3, <2>4
<1>. QED
  BY <1>1, <1>3, <1>4, <1>5 DEF Live

\* No documented live line is refused, the helper's among them: no check of the
\* parser or of run_set_with stops it, if the catalog has the 75 keys with a
\* name that is no number README.md counts.
THEOREM DocumentedLinesAlwaysRun ==
  ASSUME explicit_keyboard_live_target_limit = 75
  PROVE  Spec => []DocumentedLinesRun
<1>1. Init => DocumentedLinesRun
  BY DEF Init, DocumentedLinesRun
<1>2. IInv /\ DocumentedLinesRun /\ [Next]_vars => DocumentedLinesRun'
  <2>. SUFFICES ASSUME IInv, DocumentedLinesRun, [Next]_vars
                PROVE  DocumentedLinesRun'
    OBVIOUS
  <2>1. CASE code' \in Outside
    BY <2>1 DEF Outside, DocumentedLinesRun
  <2>2. CASE code' = "incomplete"
    BY <2>2 DEF DocumentedLinesRun
  <2>3. CASE UNCHANGED <<code, line>>
    <3>1. DocumentedLine' = DocumentedLine
      BY <2>3, LineStays DEF line, DocumentedLine, DocumentedTargets, Switches,
         Confirmations, Modes
    <3>. QED
      BY <2>3, <3>1 DEF DocumentedLinesRun
  <2>4. CASE UNCHANGED line /\ Reason
    <3>1. SUFFICES ASSUME DocumentedLine PROVE FALSE
      <4>1. DocumentedLine' = DocumentedLine
        BY <2>4, LineStays DEF line, DocumentedLine, DocumentedTargets, Switches,
           Confirmations, Modes
      <4>. QED
        BY <4>1 DEF DocumentedLinesRun
    <3>2. Accepted /\ DryRun \notin flags
      BY <3>1, DocumentedIsAccepted DEF IInv
    <3>3. cmd = "set" => DocumentedTargets /\ targets \in Seq(STRING)
      BY <3>1 DEF DocumentedLine, IInv, TypeOK
    <3>. QED
      BY <2>4, <3>2, <3>3, DocumentedResolve DEF Reason
  <2>. QED
    BY <2>1, <2>2, <2>3, <2>4, Reasons
<1>. QED
  BY <1>1, <1>2, Invariant, PTL DEF Spec

-----------------------------------------------------------------------------
(* What is reported *)

\* The counts a set reports.
SetCounts ==
  [assignments  |-> <<Cardinality(ResolvedIds)>>,
   color_frames |-> IF device = "keyboard"
                      THEN div_ceil(Cardinality(ResolvedIds), 15) ELSE 1,
   steps        |-> <<Len(plan)>>,
   total        |-> Len(plan)]

\* What is reported on success is what the command counts, of its plan.
Reported ==
  exit = "success" /\ report # NoReport =>
    /\ plan # <<>>
    /\ \/ cmd = "set" /\ report = SetCounts
       \/ cmd = "set-all" /\ report = SetAllCounts
       \/ cmd = "power-profile" /\ report = PowerCounts

\* A report is made once, with the plan in hand.
LEMMA ReportKept == IInv /\ Reported /\ [Next]_vars => Reported'
<1>. SUFFICES ASSUME IInv, Reported, [Next]_vars PROVE Reported'
  OBVIOUS
<1>0. ASSUME exit' # "success" \/ report' = NoReport PROVE Reported'
  BY <1>0 DEF Reported, NoReport
<1>1. CASE UNCHANGED vars \/ Ended
  <2>1. UNCHANGED <<line, plan, exit, report>>
    BY <1>1 DEF vars, Ended
  <2>2. UNCHANGED <<cmd, device>> /\ SetCounts' = SetCounts
    BY <2>1, LineStays DEF SetCounts
  <2>. QED
    BY <2>1, <2>2 DEF Reported, NoReport, SetAllCounts, PowerCounts
<1>2. ASSUME pc # "exited", UNCHANGED exit PROVE Reported'
  BY <1>0, <1>2 DEF IInv, Fresh
<1>3. CASE Arguments
  <2>1. pc \in {"start", "args"}
    BY <1>3 DEF Arguments, Begin, Switch, Color, GiveDevice, Target, Misuse,
                EndOfArguments, Parsing
  <2>2. UNCHANGED exit \/ exit' = "usage"
    BY <1>3 DEF Arguments, Begin, Switch, Color, GiveDevice, Target, Misuse,
                EndOfArguments, Parsing, Proceed, Usage, Exit
  <2>. QED
    BY <1>0, <1>2, <2>1, <2>2
<1>4. CASE Run
  <2>1. CASE RunReadOnly
    BY <1>0, <2>1 DEF RunReadOnly, Succeed, Fail, Exit
  <2>2. CASE RunKeyboardStatus
    BY <1>2, <2>2 DEF RunKeyboardStatus, Running, Proceed
  <2>3. ASSUME NEW gate \in BOOLEAN, DryRunSet(gate) PROVE Reported'
    BY <1>0, <2>3 DEF DryRunSet, Fail, Succeed, Exit
  <2>4. ASSUME NEW gate \in BOOLEAN, ApplySet(gate) PROVE Reported'
    BY <1>0, <1>2, <2>4 DEF ApplySet, Running, Fail, Proceed, Exit
  <2>5. ASSUME NEW gate \in BOOLEAN, RunPowerProfile(gate) PROVE Reported'
    <3>1. /\ pc = "run" /\ cmd = "power-profile" /\ UNCHANGED line
      BY <2>5 DEF RunPowerProfile, Running
    <3>2. \/ exit' = "failure" \/ UNCHANGED exit
          \/ plan' = PowerPlan /\ report' = PowerCounts
      BY <2>5 DEF RunPowerProfile, Fail, Succeed, Proceed, Exit
    <3>3. CASE plan' = PowerPlan /\ report' = PowerCounts
      <4>1. plan' # <<>> /\ cmd' = "power-profile"
        BY <3>1, <3>3, FixedPlansSound, LineStays
      <4>2. report' = PowerCounts'
        BY <3>3 DEF PowerCounts
      <4>. QED
        BY <4>1, <4>2 DEF Reported
    <3>. QED
      BY <1>0, <1>2, <3>1, <3>2, <3>3
  <2>6. CASE DryRunSetAll
    <3>1. /\ cmd = "set-all" /\ UNCHANGED line
          /\ plan' = set_all_report /\ report' = SetAllCounts
      BY <2>6 DEF DryRunSetAll, Running, Succeed
    <3>2. plan' # <<>> /\ cmd' = "set-all"
      BY <3>1, FixedPlansSound, LineStays
    <3>3. report' = SetAllCounts'
      BY <3>1 DEF SetAllCounts
    <3>. QED
      BY <3>2, <3>3 DEF Reported
  <2>7. CASE ApplySetAll
    BY <1>0, <1>2, <2>7 DEF ApplySetAll, Running, Fail, Proceed, Exit
  <2>8. CASE DiscoveryFails
    BY <1>0, <2>8 DEF DiscoveryFails, Fail, Exit
  <2>. QED
    BY <1>4, <2>1, <2>2, <2>3, <2>4, <2>5, <2>6, <2>7, <2>8 DEF Run
<1>5. CASE Send
  BY <1>2, <1>5 DEF Send, Sending, Proceed
<1>6. CASE SendFails
  BY <1>0, <1>6 DEF SendFails, Exit
<1>7. CASE Finish
  <2>1. /\ pc = "send" /\ UNCHANGED <<line, plan>> /\ sent = Len(plan)
        /\ exit' = "failure" \/ report' = Report
    BY <1>7 DEF Finish, Sending, Succeed, Exit
  <2>2. plan # <<>> /\ UNCHANGED <<cmd, device>> /\ SetCounts' = SetCounts
    BY <2>1, LineStays DEF IInv, Vetted, SetCounts
  <2>3. \/ Report = NoReport
        \/ cmd = "set" /\ Report = SetCounts
        \/ cmd = "set-all" /\ Report = SetAllCounts
        \/ cmd = "power-profile" /\ Report = PowerCounts
    BY <2>1 DEF Report, SetReport, SetCounts
  <2>4. CASE report' = Report /\ report' # NoReport
    BY <2>1, <2>2, <2>3, <2>4 DEF Reported, SetAllCounts, PowerCounts
  <2>. QED
    BY <1>0, <2>1, <2>4
<1>. QED
  BY <1>1, <1>3, <1>4, <1>5, <1>6, <1>7 DEF Next

\* The places of n color frames.
LEMMA FramesCounted ==
  ASSUME NEW n \in Nat, NEW len \in Nat, len >= n + 3
  PROVE  Cardinality({k \in 1..len : k \in 4..n + 3}) = n
<1>1. {k \in 1..len : k \in 4..n + 3} = 4..n + 3
  OBVIOUS
<1>. DEFINE last == n + 3
<1>2. 4 \in Int /\ last \in Int
  OBVIOUS
<1>3. (IF 4 > last THEN 0 ELSE last - 4 + 1) = n
  OBVIOUS
<1>. HIDE DEF last
<1>4. Cardinality(4..last) = IF 4 > last THEN 0 ELSE last - 4 + 1
  <2>1. \A a, b \in Int : Cardinality(a..b) = IF a > b THEN 0 ELSE b - a + 1
    BY FS_Interval
  <2>. QED
    BY <1>2, <2>1, Zenon
<1>5. Cardinality(4..last) = n
  BY <1>3, <1>4
<1>. QED
  BY <1>1, <1>5 DEF last

\* The counts of a set are those of its plan.
LEMMA SetCountsAgree ==
  ASSUME IInv, plan # <<>>, cmd = "set", report = SetCounts
  PROVE  ReportAgrees
<1>. DEFINE S == ResolvedIds
            len == Len(plan)
<1>1. /\ len \in Nat /\ len \in 0..len
      /\ device \in Device /\ S \in SUBSET Ids(device)
      /\ Cardinality(S) \in Nat
  <2>1. len \in Nat
    BY LenProperties DEF IInv, TypeOK
  <2>2. len \in 0..len
    BY <2>1
  <2>. QED
    BY <2>1, <2>2, SetIds
<1>2. /\ report.assignments = <<Cardinality(S)>>
      /\ report.steps = <<len>> /\ report.total = len
      /\ report.color_frames = IF device = "keyboard"
                                 THEN div_ceil(Cardinality(S), 15) ELSE 1
  BY DEF SetCounts
<1>3. CASE device = "keyboard"
  <2>. DEFINE n == ColorFrames(S)
  <2>1. /\ n \in Nat /\ len = n + 5
        /\ ColorFramesOf("keyboard", len) = {k \in 1..len : k \in 4..n + 3}
        /\ ColorFramesOf("chassis", len) = {}
        /\ len >= n + 3 => Addressed("keyboard", len) = S
    BY <1>1, <1>3, SetKeyboardColors
  <2>2. n = div_ceil(Cardinality(S), 15)
    BY DEF ColorFrames, RECORDS_PER_FRAME
  <2>. HIDE DEF n, len, S
  <2>3. len >= n + 3
    BY <2>1
  <2>4. Cardinality(ColorFramesOf("keyboard", len)) = n
    BY <1>1, <2>1, <2>3, FramesCounted
  <2>5. Addressed("keyboard", len) = S /\ Addressed("chassis", len) = {}
    BY <2>1, <2>3, NotAddressed DEF Device
  <2>6. Cardinality(Addressed("chassis", len)) = 0
    BY <2>5, FS_EmptySet
  <2>. QED
    BY <1>1, <1>2, <1>3, <2>2, <2>4, <2>5, <2>6 DEF ReportAgrees, len
<1>4. CASE device = "chassis"
  <2>1. /\ len = 4
        /\ ColorFramesOf("keyboard", len) = {}
        /\ ColorFramesOf("chassis", len) = {k \in 1..len : k = 3}
        /\ Addressed("chassis", len) = IF 3 \in 1..len THEN S ELSE {}
    BY <1>1, <1>4, SetChassisColors
  <2>. HIDE DEF len, S
  <2>2. ColorFramesOf("chassis", len) = {3} /\ Addressed("chassis", len) = S
    BY <2>1
  <2>3. Cardinality(ColorFramesOf("chassis", len)) = 1
    BY <2>2, FS_Singleton
  <2>4. Cardinality(Addressed("keyboard", len)) = 0
    BY <2>1, NotAddressed, FS_EmptySet DEF Device
  <2>. QED
    BY <1>1, <1>2, <1>4, <2>2, <2>3, <2>4 DEF ReportAgrees, len
<1>. QED
  BY <1>1, <1>3, <1>4 DEF Device

\* The counts of a compound write are those of its plan, for 85 keys.
LEMMA SetAllCountsAgree ==
  ASSUME Cardinality(Ids("keyboard")) = 85,
         plan = set_all_report, cmd = "set-all", report = SetAllCounts
  PROVE  ReportAgrees
<1>. DEFINE S == Ids("keyboard")
            len == Len(plan)
<1>1. /\ report.assignments = <<85, 2, 1>> /\ report.color_frames = 6
      /\ report.steps = <<11, 4, 34>> /\ report.total = 49
  BY DEF SetAllCounts
<1>2. ColorFrames(S) = 6
  BY SixColorFrames
<1>3. Len(plan) = 49 /\ 49 \in 0..49
  BY StagesOfSetAll
<1>4. /\ ColorFramesOf("keyboard", len) = {k \in 1..len : k \in 4..6 + 3}
      /\ len >= 6 + 3 => Addressed("keyboard", len) = S
      /\ Addressed("chassis", len) = IF 6 + 8 \in 1..len THEN {0, 2} ELSE {}
  BY <1>2, <1>3, SetAllColors
<1>5. len = 49
  BY <1>3
<1>. HIDE DEF len
<1>6. Cardinality(ColorFramesOf("keyboard", len)) = 6
  BY <1>4, <1>5, FramesCounted
<1>7. Addressed("keyboard", len) = S /\ Addressed("chassis", len) = {0, 2}
  BY <1>4, <1>5
<1>8. Cardinality({0, 2}) = 2
  <2>0. 2 \notin {0}
    OBVIOUS
  <2>1. /\ IsFiniteSet({0}) /\ Cardinality({0}) = 1 /\ 2 \notin {0}
    BY <2>0, FS_Singleton, Zenon
  <2>2. Cardinality({0} \cup {2}) = Cardinality({0}) + 1
    BY <2>1, FS_AddElement
  <2>3. {0, 2} = {0} \cup {2}
    OBVIOUS
  <2>. QED
    BY <2>1, <2>2, <2>3
<1>9. /\ Cardinality(Addressed("keyboard", len)) = 85
      /\ Cardinality(Addressed("chassis", len)) = 2
  BY <1>7, <1>8
<1>10. /\ Cardinality({k \in 1..len : Stage(k) = 1}) = 11
       /\ Cardinality({k \in 1..len : Stage(k) = 2}) = 4
       /\ Cardinality({k \in 1..len : Stage(k) = 3}) = 34
  BY <1>5, StageSizes
<1>. QED
  BY <1>1, <1>5, <1>6, <1>9, <1>10 DEF ReportAgrees, len

\* The counts of the power profile are those of its plan.
LEMMA PowerCountsAgree ==
  ASSUME plan = PowerPlan, cmd = "power-profile", report = PowerCounts
  PROVE  ReportAgrees
<1>1. /\ report.assignments = <<1>> /\ report.color_frames = 0
      /\ report.steps = <<Len(plan)>> /\ report.total = Len(plan)
  BY DEF PowerCounts
<1>2. Len(plan) = 34 /\ \A k \in 1..34 : plan[k].step # "set_color"
  BY PowerPlanShape, PowerColorsNothing
<1>3. \A d \in Device : ColorFramesOf(d, Len(plan)) = {}
  BY <1>2 DEF ColorFramesOf
<1>4. \A d \in Device : Addressed(d, Len(plan)) = {}
  BY <1>3, NotAddressed
<1>5. /\ Cardinality(ColorFramesOf("keyboard", Len(plan))) = 0
      /\ Cardinality(Addressed("keyboard", Len(plan))) = 0
      /\ Cardinality(Addressed("chassis", Len(plan))) = 0
  BY <1>3, <1>4, FS_EmptySet DEF Device
<1>. QED
  BY <1>1, <1>5 DEF ReportAgrees

\* The counts a successful command reports are those of the frames it made and
\* of the targets they color, if the catalog has the 85 keys that set_all_report
\* and set_all_completed_canonically were written for.
THEOREM ReportAlwaysAgrees ==
  ASSUME Cardinality(Ids("keyboard")) = 85
  PROVE  Spec => []ReportAgrees
<1>1. Init => Reported
  BY DEF Init, Reported
<1>2. IInv /\ Reported => ReportAgrees
  <2>. SUFFICES ASSUME IInv, Reported, exit = "success", report # NoReport
                PROVE  ReportAgrees
    BY DEF ReportAgrees
  <2>1. /\ plan # <<>>
        /\ \/ cmd = "set" /\ report = SetCounts
           \/ cmd = "set-all" /\ report = SetAllCounts
           \/ cmd = "power-profile" /\ report = PowerCounts
    BY DEF Reported
  <2>2. /\ cmd = "set-all" => plan = set_all_report
        /\ cmd = "power-profile" => plan = PowerPlan
    BY <2>1 DEF IInv, PlanIs
  <2>. QED
    BY <2>1, <2>2, SetCountsAgree, SetAllCountsAgree, PowerCountsAgree
<1>. QED
  BY <1>1, <1>2, ReportKept, Invariant, PTL DEF Spec
=============================================================================
