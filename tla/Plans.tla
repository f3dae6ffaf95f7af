-------------------------------- MODULE Plans --------------------------------
(***************************************************************************)
(* What is sent: the encoders of src/src/protocol, and the sealed layer of *)
(* src/src/transport/mod.rs that prepares a plan and validates its frames  *)
(* again before the first one leaves.                                      *)
(*                                                                         *)
(* Every plan has one color, the command's, so a frame carries the ids it  *)
(* addresses, its opcode and the number of bytes put before the zeros that *)
(* fill its buffer.                                                        *)
(***************************************************************************)
EXTENDS Targets

KEYBOARD_LENGTH == 64
AW_ELC_LENGTH == 33
RECORDS_PER_FRAME == 15

\* The six states of the power button, and for each the actions it is given
\* (state_actions), the packets it takes (STATES) and their names (STEP_NAMES).
PowerStates  == 1..6
Actions      == <<4, 3, 4, 4, 3, 3>>
PacketCount  == <<6, 5, 6, 6, 5, 5>>
OneAction    == <<"remove", "start", "color_select", "action_1", "finish",
                  "unused">>
TwoActions   == <<"remove", "start", "color_select", "action_1", "action_2",
                  "finish">>
StepNames == [s \in PowerStates |-> IF s \in {1, 3, 4} THEN TwoActions
                                                        ELSE OneAction]

Steps == {"reset", "query_status", "read_status", "set_color", "loop", "update",
          "remove", "start", "finish_play", "color_select", "action_1",
          "action_2", "finish", "unused", "final_play"}
Transfers == {"feature_write", "feature_read", "usb_output"}
Codes == {"cc94", "cc93", "cc", "cc8c02", "cc8c13", "cc8b01", "0321_remove",
          "0321_start", "0321_finish", "0321_play", "0322_remove",
          "0322_start", "0322_finish", "0323", "0324", "0327"}

\* One PacketStep; state is the power state it is about, or 0.
Frames == [step : Steps, state : 0..6, transfer : Transfers, code : Codes,
           ids : SUBSET (0..255), bytes : Nat]

Feature(step, code, bytes) ==
  [step |-> step, state |-> 0, transfer |-> "feature_write", code |-> code,
   ids |-> {}, bytes |-> bytes]
Output(step, code, bytes) ==
  [Feature(step, code, bytes) EXCEPT !.transfer = "usb_output"]

Reset       == Feature("reset", "cc94", 2)
QueryStatus == Feature("query_status", "cc93", 2)
ReadStatus  == [Feature("read_status", "cc", 1) EXCEPT
                 !.transfer = "feature_read"]

------------------------------------------------------------------------------
(* Encoders *)

\* The place of an id in ascending order.
Rank(S, i) == Cardinality({j \in S : j <= i})

div_ceil(n, d) == (n + d - 1) \div d

\* chunks(RECORDS_PER_FRAME) of the ids in ascending order: the k-th chunk.
Chunk(S, k) == {i \in S : div_ceil(Rank(S, i), RECORDS_PER_FRAME) = k}

\* Mutant: the ids are cut into chunks of 16.
ColorFrame16(S, k) ==
  LET chunk == {i \in S : div_ceil(Rank(S, i), 16) = k}
  IN  [Feature("set_color", "cc8c02", 4 + 4 * Cardinality(chunk)) EXCEPT
        !.ids = {i + 1 : i \in chunk}]

\* Mutant: a key is addressed by its id.
ColorFrameById(S, k) ==
  [Feature("set_color", "cc8c02", 4 + 4 * Cardinality(Chunk(S, k))) EXCEPT
    !.ids = Chunk(S, k)]

\* A key is addressed by its id plus one.
ColorFrame(S, k) ==
  [Feature("set_color", "cc8c02", 4 + 4 * Cardinality(Chunk(S, k))) EXCEPT
    !.ids = {i + 1 : i \in Chunk(S, k)}]

\* api_v5::encode_static takes some known keys, none of them the id 255.
KeyboardEncodes(S) == S # {} /\ S \subseteq Ids("keyboard") \ {255}

ColorFrames(S) == div_ceil(Cardinality(S), RECORDS_PER_FRAME)

KeyboardPlan(S) ==
  <<Reset, QueryStatus, ReadStatus>>
  \o [k \in 1..ColorFrames(S) |-> ColorFrame(S, k)]
  \o <<Feature("loop", "cc8c13", 3), Feature("update", "cc8b01", 4)>>

\* api_v4::encode_static takes some known zones.
StaticEncodes(S) == S # {} /\ S \subseteq Ids("chassis")

\* One set_color for each color, and there is one color.
StaticPlan(S) ==
  <<Output("remove", "0321_remove", 6), Output("start", "0321_start", 6),
    [Output("set_color", "0327", 7 + Cardinality(S)) EXCEPT !.ids = S],
    Output("finish_play", "0321_finish", 6)>>

\* A packet of actions holds up to three of them, of eight bytes.
ActionFrame(s, k) ==
  LET left == Actions[s] - 3 * (k - 1)
  IN  Output(StepNames[s][3 + k], "0324", 2 + 8 * (IF left < 3 THEN left ELSE 3))

InState(s, frame) == [frame EXCEPT !.state = s]

StatePlan(s) ==
  <<InState(s, Output(StepNames[s][1], "0322_remove", 6)),
    InState(s, Output(StepNames[s][2], "0322_start", 6)),
    InState(s, [Output(StepNames[s][3], "0323", 6) EXCEPT
                 !.ids = {POWER_LOGICAL_ID}])>>
  \o [k \in 1..div_ceil(Actions[s], 3) |-> InState(s, ActionFrame(s, k))]
  \o <<InState(s, Output(StepNames[s][PacketCount[s]], "0322_finish", 6))>>

PowerPlan ==
  StatePlan(1) \o StatePlan(2) \o StatePlan(3) \o StatePlan(4) \o StatePlan(5)
  \o StatePlan(6) \o <<Output("final_play", "0321_play", 6)>>

------------------------------------------------------------------------------
(* The sealed layer *)

\* prepare_keyboard.
PreparesKeyboard(S) ==
  /\ Cardinality(S) \in 1..Cardinality(Ids("keyboard"))
  /\ KeyboardEncodes(S)
  /\ LET plan == KeyboardPlan(S)
     IN  Cardinality({k \in DOMAIN plan : plan[k].step = "set_color"})
           = div_ceil(Cardinality(S), 15)

validate_sequence(plan, prefix, suffix) ==
  LET end == Len(plan) - Len(suffix)
  IN  /\ Len(plan) >= Len(prefix) + Len(suffix) + 1
      /\ \A k \in DOMAIN prefix : plan[k].step = prefix[k]
      /\ \A k \in DOMAIN suffix : plan[end + k].step = suffix[k]
      /\ \A k \in Len(prefix) + 1..end : plan[k].step = "set_color"

valid_keyboard_prefix(step, code) ==
  code = CASE step = "reset" -> "cc94"
           [] step = "query_status" -> "cc93"
           [] step = "read_status" -> "cc"
           [] step = "set_color" -> "cc8c02"
           [] step = "loop" -> "cc8c13"
           [] step = "update" -> "cc8b01"
           [] OTHER -> ""

valid_aw_elc_prefix(step, code) ==
  code = CASE step = "remove" -> "0321_remove"
           [] step = "start" -> "0321_start"
           [] step = "set_color" -> "0327"
           [] step = "finish_play" -> "0321_finish"
           [] OTHER -> ""

\* Mutant: a keyboard plan has at least two color frames.
TwoColorFrames(plan) ==
  /\ Len(plan) >= 7
  /\ validate_sequence(plan, <<"reset", "query_status", "read_status">>,
                       <<"loop", "update">>)

validate_keyboard_plan(plan) ==
  /\ validate_sequence(plan, <<"reset", "query_status", "read_status">>,
                       <<"loop", "update">>)
  /\ \A k \in DOMAIN plan :
       /\ plan[k].transfer = IF plan[k].step = "read_status"
                               THEN "feature_read" ELSE "feature_write"
       /\ plan[k].bytes <= KEYBOARD_LENGTH
       /\ valid_keyboard_prefix(plan[k].step, plan[k].code)

validate_aw_elc_plan(plan) ==
  /\ validate_sequence(plan, <<"remove", "start">>, <<"finish_play">>)
  /\ \A k \in DOMAIN plan :
       /\ plan[k].transfer = "usb_output"
       /\ plan[k].bytes <= AW_ELC_LENGTH
       /\ valid_aw_elc_prefix(plan[k].step, plan[k].code)

validate_power_profile_plan(plan) ==
  /\ Len(plan) = 34
  /\ \A k \in 1..34 :
       /\ plan[k] = PowerPlan[k]
       /\ plan[k].transfer = "usb_output"
       /\ plan[k].bytes <= AW_ELC_LENGTH
=============================================================================
