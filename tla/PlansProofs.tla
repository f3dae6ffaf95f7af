----------------------------- MODULE PlansProofs -----------------------------
(***************************************************************************)
(* What the encoders of Plans produce, for any catalog that satisfies      *)
(* TargetsAssumption: how the ids of a keyboard are cut into color frames, *)
(* the frames of each plan and their places.                               *)
(***************************************************************************)
EXTENDS Plans, Integers, FiniteSetTheorems, SequenceTheorems, TLAPS

\* The ids of each controller are finitely many bytes, none of them 255.
LEMMA IdsAreBytes ==
  ASSUME NEW d \in Device
  PROVE  /\ Ids(d) \subseteq 0..254
         /\ IsFiniteSet(Ids(d))
         /\ Cardinality(Ids(d)) \in Nat
<1>1. Ids(d) \subseteq 0..254
  BY TargetsAssumption DEF Ids
<1>2. Ids(d) \in SUBSET Nat /\ \A i \in Ids(d) : i <= 254
  BY <1>1
<1>3. IsFiniteSet(Ids(d))
  BY <1>2, FS_BoundedSetOfNaturals
<1>. QED
  BY <1>1, <1>3, FS_CardinalityType
-----------------------------------------------------------------------------
(* The place of an id, and chunks *)

\* The place of an id in a set lies between 1 and the size of the set.
LEMMA RankInRange ==
  ASSUME NEW S \in SUBSET Nat, IsFiniteSet(S), NEW i \in S
  PROVE  /\ Cardinality(S) \in Nat
         /\ Rank(S, i) \in 1..Cardinality(S)
<1>. DEFINE below == {j \in S : j <= i}
<1>1. IsFiniteSet(below) /\ Cardinality(below) <= Cardinality(S)
  BY FS_Subset
<1>2. i \in below
  OBVIOUS
<1>3. Cardinality(below) \in Nat /\ Cardinality(below) # 0
  BY <1>1, <1>2, FS_CardinalityType, FS_EmptySet
<1>4. Cardinality(S) \in Nat
  BY FS_CardinalityType
<1>. QED
  BY <1>1, <1>3, <1>4 DEF Rank

\* Places ascend with the ids.
LEMMA RankAscends ==
  ASSUME NEW S \in SUBSET Nat, IsFiniteSet(S), NEW i \in S, NEW j \in S, i < j
  PROVE  Rank(S, i) < Rank(S, j)
<1>. DEFINE low == {k \in S : k <= i}
            high == {k \in S : k <= j}
<1>1. IsFiniteSet(high)
  BY FS_Subset
<1>2. low \subseteq high /\ j \in high /\ j \notin low
  <2>1. i \in Nat /\ j \in Nat /\ \A k \in S : k \in Nat
    OBVIOUS
  <2>2. \A k \in S : k <= i => k <= j
    BY <2>1
  <2>3. j <= j /\ ~(j <= i)
    BY <2>1
  <2>. QED
    BY <2>2, <2>3
<1>3. low # high
  BY <1>2
<1>4. Cardinality(low) <= Cardinality(high) /\ Cardinality(low) # Cardinality(high)
  BY <1>1, <1>2, <1>3, FS_Subset
<1>5. Cardinality(low) \in Nat /\ Cardinality(high) \in Nat
  BY <1>1, <1>2, FS_Subset, FS_CardinalityType
<1>6. Cardinality(low) < Cardinality(high)
  BY <1>4, <1>5
<1>. QED
  BY <1>6 DEF Rank

\* Every place is taken.
LEMMA RankOnto ==
  ASSUME NEW S \in SUBSET Nat, IsFiniteSet(S), NEW n \in 1..Cardinality(S)
  PROVE  \E i \in S : Rank(S, i) = n
<1>. DEFINE T == 1..Cardinality(S)
            place == [i \in S |-> Rank(S, i)]
<1>1. Cardinality(S) \in Nat
  BY FS_CardinalityType
<1>2. IsFiniteSet(T) /\ Cardinality(T) = Cardinality(S)
  BY <1>1, FS_Interval
<1>3. place \in [S -> T]
  BY RankInRange
<1>4. ASSUME NEW i \in S, NEW j \in S, place[i] = place[j]
      PROVE  i = j
  <2>1. Rank(S, i) = Rank(S, j)
    BY <1>4
  <2>2. Rank(S, i) \in Nat /\ Rank(S, j) \in Nat
    BY RankInRange
  <2>3. CASE i < j
    BY <2>1, <2>2, <2>3, RankAscends
  <2>4. CASE j < i
    BY <2>1, <2>2, <2>4, RankAscends
  <2>. QED
    BY <2>3, <2>4
<1>5. place \in Injection(S, T)
  BY <1>3, <1>4 DEF Injection, IsInjective
<1>6. place \in Surjection(S, T)
  BY <1>2, <1>5, FS_Injection
<1>. QED
  BY <1>6 DEF Surjection

\* Ceiling of a division by the records of a frame.
LEMMA Ceiling ==
  ASSUME NEW n \in Nat
  PROVE  /\ div_ceil(n, RECORDS_PER_FRAME) \in Nat
         /\ 15 * div_ceil(n, RECORDS_PER_FRAME) >= n
         /\ 15 * div_ceil(n, RECORDS_PER_FRAME) < n + 15
BY DEF div_ceil, RECORDS_PER_FRAME

\* The chunks of a set of ids: none is empty, none has more than 15 ids, and
\* each id is in one of them.
LEMMA Chunks ==
  ASSUME NEW S \in SUBSET Nat, IsFiniteSet(S)
  PROVE  /\ ColorFrames(S) \in Nat
         /\ S # {} => ColorFrames(S) >= 1
         /\ \A k \in 1..ColorFrames(S) :
              /\ Chunk(S, k) \subseteq S
              /\ Chunk(S, k) # {}
              /\ Cardinality(Chunk(S, k)) \in 1..15
         /\ \A i \in S : \E k \in 1..ColorFrames(S) : i \in Chunk(S, k)
<1>1. Cardinality(S) \in Nat
  BY FS_CardinalityType
<1>2. ColorFrames(S) \in Nat
  BY <1>1, Ceiling DEF ColorFrames
<1>3. S # {} => ColorFrames(S) >= 1
  BY <1>1, <1>2, FS_EmptySet, Ceiling DEF ColorFrames
<1>4. ASSUME NEW k \in 1..ColorFrames(S)
      PROVE  /\ Chunk(S, k) \subseteq S
             /\ Chunk(S, k) # {}
             /\ Cardinality(Chunk(S, k)) \in 1..15
  <2>. DEFINE C == Chunk(S, k)
              T == 15 * (k - 1) + 1..15 * k
              place == [i \in C |-> Rank(S, i)]
  <2>1. C \subseteq S
    BY DEF Chunk
  <2>2. 15 * (k - 1) + 1 \in 1..Cardinality(S)
    BY <1>1, <1>2, Ceiling DEF ColorFrames
  <2>3. PICK i \in S : Rank(S, i) = 15 * (k - 1) + 1
    BY <2>2, RankOnto
  <2>4. div_ceil(Rank(S, i), RECORDS_PER_FRAME) = k
    <3>1. Rank(S, i) = 15 * (k - 1) + 1 /\ k \in Nat
      BY <1>2, <2>3
    <3>. QED
      BY <3>1 DEF div_ceil, RECORDS_PER_FRAME
  <2>5. i \in C
    BY <2>4 DEF Chunk
  <2>6. \A j \in C : Rank(S, j) \in T
    <3>. TAKE j \in C
    <3>1. Rank(S, j) \in Nat /\ div_ceil(Rank(S, j), RECORDS_PER_FRAME) = k
      BY <2>1, RankInRange DEF Chunk
    <3>. QED
      BY <3>1, Ceiling
  <2>7. ASSUME NEW j \in C, NEW m \in C, place[j] = place[m]
        PROVE  j = m
    <3>1. Rank(S, j) = Rank(S, m) /\ j \in S /\ m \in S
      BY <2>1, <2>7
    <3>2. Rank(S, j) \in Nat /\ Rank(S, m) \in Nat
      BY <3>1, RankInRange
    <3>3. CASE j < m
      BY <3>1, <3>2, <3>3, RankAscends
    <3>4. CASE m < j
      BY <3>1, <3>2, <3>4, RankAscends
    <3>. QED
      BY <3>1, <3>3, <3>4
  <2>8. place \in Injection(C, T)
    BY <2>6, <2>7 DEF Injection, IsInjective
  <2>9. IsFiniteSet(T) /\ Cardinality(T) = 15
    BY FS_Interval
  <2>10. IsFiniteSet(C) /\ Cardinality(C) <= 15
    BY <2>8, <2>9, FS_Injection
  <2>11. Cardinality(C) \in Nat /\ Cardinality(C) # 0
    BY <2>5, <2>10, FS_CardinalityType, FS_EmptySet
  <2>. QED
    BY <2>1, <2>5, <2>10, <2>11
<1>5. ASSUME NEW i \in S
      PROVE  \E k \in 1..ColorFrames(S) : i \in Chunk(S, k)
  <2>. DEFINE k == div_ceil(Rank(S, i), RECORDS_PER_FRAME)
  <2>1. Rank(S, i) \in 1..Cardinality(S)
    BY RankInRange
  <2>2. k \in 1..ColorFrames(S)
    <3>1. k \in Nat /\ 15 * k >= Rank(S, i) /\ 15 * k < Rank(S, i) + 15
      BY <1>1, <2>1, Ceiling
    <3>2. 15 * ColorFrames(S) >= Cardinality(S)
      BY <1>1, Ceiling DEF ColorFrames
    <3>. QED
      BY <1>1, <1>2, <2>1, <3>1, <3>2
  <2>3. i \in Chunk(S, k)
    BY DEF Chunk
  <2>. QED
    BY <2>2, <2>3
<1>. QED
  BY <1>2, <1>3, <1>4, <1>5

\* Ids of an earlier chunk are smaller, so no two chunks share one.
LEMMA ChunksAscend ==
  ASSUME NEW S \in SUBSET Nat, IsFiniteSet(S), NEW k \in Nat, NEW m \in Nat,
         NEW i \in Chunk(S, k), NEW j \in Chunk(S, m), j <= i
  PROVE  m <= k
<1>1. i \in S /\ j \in S
  BY DEF Chunk
<1>2. Rank(S, i) \in Nat /\ Rank(S, j) \in Nat
  BY <1>1, RankInRange
<1>3. Rank(S, j) <= Rank(S, i)
  BY <1>1, <1>2, RankAscends
<1>4. /\ k = div_ceil(Rank(S, i), RECORDS_PER_FRAME)
      /\ m = div_ceil(Rank(S, j), RECORDS_PER_FRAME)
  BY DEF Chunk
<1>. QED
  BY <1>2, <1>3, <1>4, Ceiling
-----------------------------------------------------------------------------
(* The frames of the plans *)

\* A frame fits its buffer, colors something if it colors, and concerns the
\* power button only if it belongs to the power profile.
SoundFrames ==
  {f \in Frames :
    /\ f.bytes <= IF f.transfer = "usb_output" THEN AW_ELC_LENGTH
                                               ELSE KEYBOARD_LENGTH
    /\ f.step = "set_color" => f.ids # {}
    /\ f.transfer = "usb_output" /\ POWER_LOGICAL_ID \in f.ids =>
         f.step = "color_select"}

KeyboardFrames == {f \in SoundFrames : f.transfer # "usb_output"}

StaticFrames ==
  {f \in SoundFrames : /\ f.transfer = "usb_output"
                       /\ f.state = 0
                       /\ f.step \notin {"color_select", "final_play"}}

PowerFrames ==
  {f \in SoundFrames : /\ f.transfer = "usb_output" /\ f.step # "set_color"
                       /\ f.state # 0 \/ f.step = "final_play"}

\* A function on an initial interval is a sequence.
LEMMA IntervalIsSeq ==
  ASSUME NEW n \in Nat, NEW T, NEW f \in [1..n -> T]
  PROVE  f \in Seq(T) /\ Len(f) = n
<1>1. f \in Seq(T)
  BY SeqDef
<1>2. Len(f) \in Nat /\ DOMAIN f = 1..Len(f) /\ DOMAIN f = 1..n
  BY <1>1, LenProperties
<1>. QED
  BY <1>1, <1>2

\* A color frame is sound: at most 15 records of four bytes after four more.
LEMMA ColorFrameSound ==
  ASSUME NEW S \in SUBSET Ids("keyboard"), NEW k \in 1..ColorFrames(S)
  PROVE  /\ ColorFrame(S, k) \in KeyboardFrames
         /\ ColorFrame(S, k).step = "set_color"
         /\ ColorFrame(S, k).transfer = "feature_write"
         /\ ColorFrame(S, k).code = "cc8c02"
         /\ ColorFrame(S, k).ids = {i + 1 : i \in Chunk(S, k)}
<1>1. S \in SUBSET Nat /\ IsFiniteSet(S) /\ S \subseteq 0..254
  BY IdsAreBytes, FS_Subset DEF Device
<1>2. /\ Chunk(S, k) \subseteq S
      /\ Chunk(S, k) # {}
      /\ Cardinality(Chunk(S, k)) \in 1..15
  BY <1>1, Chunks
<1>. DEFINE ids == {i + 1 : i \in Chunk(S, k)}
            bytes == 4 + 4 * Cardinality(Chunk(S, k))
<1>3. ids \in SUBSET (0..255) /\ ids # {}
  <2>1. \A i \in Chunk(S, k) : i \in 0..254
    BY <1>1, <1>2
  <2>2. \A i \in Chunk(S, k) : i + 1 \in 0..255
    BY <2>1
  <2>3. PICK i \in Chunk(S, k) : TRUE
    BY <1>2
  <2>4. i + 1 \in ids
    BY <2>3
  <2>. QED
    BY <2>2, <2>4
<1>4. bytes \in Nat /\ bytes <= 64
  BY <1>2
<1>5. ColorFrame(S, k) =
        [step |-> "set_color", state |-> 0, transfer |-> "feature_write",
         code |-> "cc8c02", ids |-> ids, bytes |-> bytes]
  BY DEF ColorFrame, Feature
<1>6. [step |-> "set_color", state |-> 0, transfer |-> "feature_write",
       code |-> "cc8c02", ids |-> ids, bytes |-> bytes] \in Frames
  BY <1>3, <1>4 DEF Frames, Steps, Transfers, Codes
<1>. HIDE DEF ids, bytes
<1>7. ColorFrame(S, k) \in KeyboardFrames
  BY <1>3, <1>4, <1>5, <1>6 DEF KeyboardFrames, SoundFrames, KEYBOARD_LENGTH
<1>. QED
  BY <1>5, <1>7 DEF ids

\* A keyboard plan, place by place.
LEMMA KeyboardPlanShape ==
  ASSUME NEW S \in SUBSET Ids("keyboard")
  PROVE  /\ KeyboardPlan(S) \in Seq(KeyboardFrames)
         /\ Len(KeyboardPlan(S)) = ColorFrames(S) + 5
         /\ KeyboardPlan(S)[1] = Reset
         /\ KeyboardPlan(S)[2] = QueryStatus
         /\ KeyboardPlan(S)[3] = ReadStatus
         /\ \A k \in 1..ColorFrames(S) :
              KeyboardPlan(S)[3 + k] = ColorFrame(S, k)
         /\ KeyboardPlan(S)[ColorFrames(S) + 4] = Feature("loop", "cc8c13", 3)
         /\ KeyboardPlan(S)[ColorFrames(S) + 5] = Feature("update", "cc8b01", 4)
<1>. DEFINE n == ColorFrames(S)
            before == <<Reset, QueryStatus, ReadStatus>>
            colors == [k \in 1..n |-> ColorFrame(S, k)]
            after == <<Feature("loop", "cc8c13", 3), Feature("update", "cc8b01", 4)>>
            F == KeyboardFrames
<1>1. n \in Nat
  BY IdsAreBytes, FS_Subset, Chunks DEF Device
<1>2. /\ Reset \in F /\ QueryStatus \in F /\ ReadStatus \in F
      /\ Feature("loop", "cc8c13", 3) \in F
      /\ Feature("update", "cc8b01", 4) \in F
  BY DEF Reset, QueryStatus, ReadStatus, Feature, KeyboardFrames, SoundFrames,
         Frames, Steps, Transfers, Codes, KEYBOARD_LENGTH
<1>3. before \in Seq(F) /\ Len(before) = 3
  BY <1>2
<1>4. after \in Seq(F) /\ Len(after) = 2
  BY <1>2
<1>5. colors \in [1..n -> F]
  BY ColorFrameSound
<1>6. colors \in Seq(F) /\ Len(colors) = n
  BY <1>1, <1>5, IntervalIsSeq
<1>. HIDE DEF n, F
<1>7. /\ before \o colors \in Seq(F)
      /\ Len(before \o colors) = 3 + n
      /\ \A k \in 1..3 : (before \o colors)[k] = before[k]
      /\ \A k \in 1..n : (before \o colors)[3 + k] = colors[k]
  BY <1>1, <1>3, <1>6
<1>. DEFINE plan == KeyboardPlan(S)
<1>8. plan = (before \o colors) \o after
  BY DEF KeyboardPlan, n
<1>9. /\ plan \in Seq(F)
      /\ Len(plan) = 3 + n + 2
      /\ \A k \in 1..3 + n : plan[k] = (before \o colors)[k]
      /\ \A k \in 1..2 : plan[3 + n + k] = after[k]
  <2>. DEFINE front == before \o colors
              m == 3 + n
  <2>1. front \in Seq(F) /\ Len(front) = m /\ m \in Nat
    BY <1>1, <1>7
  <2>2. plan = front \o after
    BY <1>8
  <2>3. after \in Seq(F) /\ Len(after) = 2 /\ 2 \in Nat
    BY <1>4
  <2>. HIDE DEF front, after, plan, m
  <2>4. /\ front \o after \in Seq(F)
        /\ Len(front \o after) = m + 2
        /\ \A k \in 1..m : (front \o after)[k] = front[k]
        /\ \A k \in 1..2 : (front \o after)[m + k] = after[k]
    <3>. DEFINE two == 2
    <3>1. Len(after) = two /\ two \in Nat
      BY <2>3
    <3>. HIDE DEF two
    <3>2. /\ front \o after \in Seq(F)
          /\ Len(front \o after) = m + two
          /\ \A k \in 1..m : (front \o after)[k] = front[k]
          /\ \A k \in 1..two : (front \o after)[m + k] = after[k]
      BY <2>1, <2>3, <3>1
    <3>. QED
      BY <3>2 DEF two
  <2>5. /\ plan \in Seq(F)
        /\ Len(plan) = m + 2
        /\ \A k \in 1..m : plan[k] = front[k]
        /\ \A k \in 1..2 : plan[m + k] = after[k]
    BY <2>2, <2>4
  <2>. QED
    BY <2>5 DEF front, m
<1>10. /\ \A k \in 1..3 : plan[k] = before[k]
       /\ \A k \in 1..n : plan[3 + k] = colors[k]
       /\ plan[n + 4] = after[1] /\ plan[n + 5] = after[2]
  <2>. HIDE DEF before, colors, after, plan
  <2>1. ASSUME NEW k \in 1..3 PROVE plan[k] = before[k]
    BY <1>1, <1>7, <1>9
  <2>2. ASSUME NEW k \in 1..n PROVE plan[3 + k] = colors[k]
    <3>1. 3 + k \in 1..3 + n
      BY <1>1
    <3>. QED
      BY <1>7, <1>9, <3>1
  <2>3. plan[n + 4] = after[1] /\ plan[n + 5] = after[2]
    <3>1. 3 + n + 1 = n + 4 /\ 3 + n + 2 = n + 5
      BY <1>1
    <3>2. plan[3 + n + 1] = after[1] /\ plan[3 + n + 2] = after[2]
      BY <1>9
    <3>. QED
      BY <3>1, <3>2
  <2>. QED
    BY <2>1, <2>2, <2>3
<1>11. /\ plan[1] = Reset /\ plan[2] = QueryStatus /\ plan[3] = ReadStatus
       /\ plan[n + 4] = Feature("loop", "cc8c13", 3)
       /\ plan[n + 5] = Feature("update", "cc8b01", 4)
  BY <1>10
<1>12. \A k \in 1..n : plan[3 + k] = ColorFrame(S, k)
  BY <1>10
<1>13. plan \in Seq(F) /\ Len(plan) = n + 5
  BY <1>1, <1>9
<1>. QED
  BY <1>11, <1>12, <1>13 DEF n, F

\* A static plan: four frames, the third of which colors the zones.
LEMMA StaticPlanShape ==
  ASSUME NEW S \in SUBSET (Ids("chassis") \ {POWER_LOGICAL_ID}), S # {}
  PROVE  /\ StaticPlan(S) \in Seq(StaticFrames)
         /\ Len(StaticPlan(S)) = 4
         /\ StaticPlan(S)[1] = Output("remove", "0321_remove", 6)
         /\ StaticPlan(S)[2] = Output("start", "0321_start", 6)
         /\ StaticPlan(S)[3] = [Output("set_color", "0327", 7 + Cardinality(S))
                                 EXCEPT !.ids = S]
         /\ StaticPlan(S)[4] = Output("finish_play", "0321_finish", 6)
<1>1. S \subseteq {0, 2} /\ POWER_LOGICAL_ID = 4
  BY TargetsAssumption DEF POWER_LOGICAL_ID
<1>2. Cardinality(S) \in Nat /\ Cardinality(S) <= 3
  <2>1. S \in SUBSET Nat /\ \A s \in S : s <= 2
    BY <1>1
  <2>2. IsFiniteSet(S) /\ Cardinality(S) <= 2 + 1
    BY <2>1, FS_BoundedSetOfNaturals
  <2>. QED
    BY <2>2, FS_CardinalityType
<1>. DEFINE bytes == 7 + Cardinality(S)
            color == [step |-> "set_color", state |-> 0,
                      transfer |-> "usb_output", code |-> "0327", ids |-> S,
                      bytes |-> bytes]
<1>3. bytes \in Nat /\ bytes <= 33
  BY <1>2
<1>4. [Output("set_color", "0327", 7 + Cardinality(S)) EXCEPT !.ids = S] = color
  <2>. HIDE DEF bytes
  <2>1. Output("set_color", "0327", bytes) =
          [step |-> "set_color", state |-> 0, transfer |-> "usb_output",
           code |-> "0327", ids |-> {}, bytes |-> bytes]
    BY DEF Output, Feature
  <2>2. [Output("set_color", "0327", bytes) EXCEPT !.ids = S] = color
    BY <2>1
  <2>. QED
    BY <2>2 DEF bytes
<1>5. color \in StaticFrames
  <2>1. S \in SUBSET (0..255) /\ 4 \notin S
    BY <1>1
  <2>. HIDE DEF bytes
  <2>. QED
    BY <1>1, <1>3, <2>1 DEF StaticFrames, SoundFrames, Frames, Steps, Transfers,
                            Codes, AW_ELC_LENGTH
<1>6. /\ Output("remove", "0321_remove", 6) \in StaticFrames
      /\ Output("start", "0321_start", 6) \in StaticFrames
      /\ Output("finish_play", "0321_finish", 6) \in StaticFrames
  BY DEF Output, Feature, StaticFrames, SoundFrames, Frames, Steps, Transfers,
         Codes, AW_ELC_LENGTH
<1>. HIDE DEF color
<1>. QED
  BY <1>4, <1>5, <1>6 DEF StaticPlan

\* A frame of the power profile: which step it is does not depend on the number
\* of actions it holds, and up to three of them fit.
LEMMA PowerFrame ==
  ASSUME NEW s \in PowerStates, NEW step \in Steps \ {"set_color"},
         NEW code \in Codes, NEW bytes \in 0..33
  PROVE  InState(s, Output(step, code, bytes)) \in PowerFrames
<1>1. Output(step, code, bytes) =
        [step |-> step, state |-> 0, transfer |-> "usb_output", code |-> code,
         ids |-> {}, bytes |-> bytes]
  BY DEF Output, Feature
<1>2. InState(s, Output(step, code, bytes)) =
        [step |-> step, state |-> s, transfer |-> "usb_output", code |-> code,
         ids |-> {}, bytes |-> bytes]
  BY <1>1 DEF InState
<1>. QED
  BY <1>2 DEF PowerStates, PowerFrames, SoundFrames, Frames, Transfers,
              AW_ELC_LENGTH

\* The names of the packets of a state.
LEMMA StepNamesOf ==
  ASSUME NEW s \in PowerStates
  PROVE  /\ StepNames[s][1] \in Steps \ {"set_color"}
         /\ StepNames[s][2] \in Steps \ {"set_color"}
         /\ StepNames[s][3] = "color_select"
         /\ \A k \in 1..div_ceil(Actions[s], 3) :
              /\ StepNames[s][3 + k] \in Steps \ {"set_color"}
              /\ Actions[s] - 3 * (k - 1) \in 1..4
         /\ StepNames[s][PacketCount[s]] \in Steps \ {"set_color"}
         /\ div_ceil(Actions[s], 3) \in Nat
         /\ PacketCount[s] = div_ceil(Actions[s], 3) + 4
<1>. USE DEF PowerStates, StepNames, OneAction, TwoActions, PacketCount, Actions,
             div_ceil, Steps
<1>1. CASE s \in {1, 3, 4}
  <2>1. StepNames[s] = TwoActions
    BY <1>1
  <2>2. Actions[s] = 4 /\ PacketCount[s] = 6
    BY <1>1
  <2>3. div_ceil(Actions[s], 3) = 2
    BY <2>2
  <2>4. \A k \in 1..2 : k = 1 \/ k = 2
    OBVIOUS
  <2>5. /\ TwoActions[1] = "remove" /\ TwoActions[2] = "start"
        /\ TwoActions[3] = "color_select" /\ TwoActions[4] = "action_1"
        /\ TwoActions[5] = "action_2" /\ TwoActions[6] = "finish"
    OBVIOUS
  <2>. QED
    BY <2>1, <2>2, <2>3, <2>4, <2>5
<1>2. CASE s \in {2, 5, 6}
  <2>1. StepNames[s] = OneAction
    BY <1>2
  <2>2. Actions[s] = 3 /\ PacketCount[s] = 5
    BY <1>2
  <2>3. div_ceil(Actions[s], 3) = 1
    BY <2>2
  <2>4. \A k \in 1..1 : k = 1
    OBVIOUS
  <2>5. /\ OneAction[1] = "remove" /\ OneAction[2] = "start"
        /\ OneAction[3] = "color_select" /\ OneAction[4] = "action_1"
        /\ OneAction[5] = "finish"
    OBVIOUS
  <2>. QED
    BY <2>1, <2>2, <2>3, <2>4, <2>5
<1>. QED
  BY <1>1, <1>2

\* The packets of one state of the power button.
LEMMA StatePlanShape ==
  ASSUME NEW s \in PowerStates
  PROVE  /\ StatePlan(s) \in Seq(PowerFrames)
         /\ Len(StatePlan(s)) = PacketCount[s]
<1>. DEFINE F == PowerFrames
            n == div_ceil(Actions[s], 3)
            select == [Output(StepNames[s][3], "0323", 6) EXCEPT
                        !.ids = {POWER_LOGICAL_ID}]
            a == InState(s, Output(StepNames[s][1], "0322_remove", 6))
            b == InState(s, Output(StepNames[s][2], "0322_start", 6))
            c == InState(s, select)
            d == InState(s, Output(StepNames[s][PacketCount[s]],
                                   "0322_finish", 6))
            actions == [k \in 1..n |-> InState(s, ActionFrame(s, k))]
<1>1. a \in F /\ b \in F /\ d \in F
  <2>1. /\ "0322_remove" \in Codes /\ "0322_start" \in Codes
        /\ "0322_finish" \in Codes /\ 6 \in 0..33
    BY DEF Codes
  <2>. QED
    BY <2>1, PowerFrame, StepNamesOf
<1>2. c \in F
  <2>1. Output(StepNames[s][3], "0323", 6) =
          [step |-> "color_select", state |-> 0, transfer |-> "usb_output",
           code |-> "0323", ids |-> {}, bytes |-> 6]
    <3>1. StepNames[s][3] = "color_select"
      BY StepNamesOf
    <3>. QED
      BY <3>1 DEF Output, Feature
  <2>2. c = [step |-> "color_select", state |-> s, transfer |-> "usb_output",
             code |-> "0323", ids |-> {4}, bytes |-> 6]
    <3>1. select = [step |-> "color_select", state |-> 0,
                    transfer |-> "usb_output", code |-> "0323", ids |-> {4},
                    bytes |-> 6]
      BY <2>1 DEF POWER_LOGICAL_ID
    <3>. HIDE DEF select
    <3>. QED
      BY <3>1 DEF InState
  <2>3. {4} \in SUBSET (0..255) /\ s \in 1..6
    BY DEF PowerStates
  <2>. QED
    <3>. DEFINE ids == {4}
    <3>1. ids \in SUBSET (0..255)
      BY <2>3
    <3>2. c = [step |-> "color_select", state |-> s, transfer |-> "usb_output",
               code |-> "0323", ids |-> ids, bytes |-> 6]
      BY <2>2
    <3>. HIDE DEF ids, c
    <3>. QED
      BY <2>3, <3>1, <3>2 DEF PowerFrames, SoundFrames, Frames, Steps, Transfers,
                              Codes, AW_ELC_LENGTH
<1>3. ASSUME NEW k \in 1..n PROVE InState(s, ActionFrame(s, k)) \in F
  <2>. DEFINE left == Actions[s] - 3 * (k - 1)
              bytes == 2 + 8 * (IF left < 3 THEN left ELSE 3)
  <2>1. left \in 1..4 /\ StepNames[s][3 + k] \in Steps \ {"set_color"}
    BY StepNamesOf
  <2>2. bytes \in 0..33
    <3>. HIDE DEF left
    <3>. QED
      BY <2>1
  <2>3. "0324" \in Codes
    BY DEF Codes
  <2>4. ActionFrame(s, k) = Output(StepNames[s][3 + k], "0324", bytes)
    BY DEF ActionFrame
  <2>. HIDE DEF bytes
  <2>. QED
    BY <2>1, <2>2, <2>3, <2>4, PowerFrame
<1>4. n \in Nat /\ PacketCount[s] = n + 4
  BY StepNamesOf
<1>5. actions \in [1..n -> F]
  BY <1>3
<1>6. actions \in Seq(F) /\ Len(actions) = n
  BY <1>4, <1>5, IntervalIsSeq
<1>7. <<a, b, c>> \in Seq(F) /\ Len(<<a, b, c>>) = 3
  BY <1>1, <1>2
<1>8. <<d>> \in Seq(F) /\ Len(<<d>>) = 1
  BY <1>1
<1>9. StatePlan(s) = (<<a, b, c>> \o actions) \o <<d>>
  BY DEF StatePlan
<1>. HIDE DEF F, n, a, b, c, d, actions
<1>10. <<a, b, c>> \o actions \in Seq(F) /\ Len(<<a, b, c>> \o actions) = 3 + n
  BY <1>4, <1>6, <1>7, ConcatProperties
<1>11. /\ (<<a, b, c>> \o actions) \o <<d>> \in Seq(F)
       /\ Len((<<a, b, c>> \o actions) \o <<d>>) = 3 + n + 1
  BY <1>4, <1>8, <1>10, ConcatProperties
<1>. QED
  BY <1>4, <1>9, <1>11 DEF F

\* The power profile has the 34 frames its validation counts.
LEMMA PowerPlanShape ==
  /\ PowerPlan \in Seq(PowerFrames)
  /\ Len(PowerPlan) = 34
<1>. DEFINE F == PowerFrames
            s1 == StatePlan(1)
            s2 == StatePlan(2)
            s3 == StatePlan(3)
            s4 == StatePlan(4)
            s5 == StatePlan(5)
            s6 == StatePlan(6)
            s7 == <<Output("final_play", "0321_play", 6)>>
            p2 == s1 \o s2
            p3 == p2 \o s3
            p4 == p3 \o s4
            p5 == p4 \o s5
            p6 == p5 \o s6
            p7 == p6 \o s7
<1>1. Output("final_play", "0321_play", 6) \in F
  BY DEF Output, Feature, PowerFrames, SoundFrames, Frames, Steps, Transfers,
         Codes, AW_ELC_LENGTH
<1>2. /\ s1 \in Seq(F) /\ s2 \in Seq(F) /\ s3 \in Seq(F) /\ s4 \in Seq(F)
      /\ s5 \in Seq(F) /\ s6 \in Seq(F) /\ s7 \in Seq(F)
  BY <1>1, StatePlanShape DEF PowerStates
<1>3. /\ Len(s1) = 6 /\ Len(s2) = 5 /\ Len(s3) = 6 /\ Len(s4) = 6
      /\ Len(s5) = 5 /\ Len(s6) = 5 /\ Len(s7) = 1
  BY StatePlanShape DEF PowerStates, PacketCount
<1>. HIDE DEF F, s1, s2, s3, s4, s5, s6, s7
<1>4. p2 \in Seq(F) /\ p3 \in Seq(F) /\ p4 \in Seq(F) /\ p5 \in Seq(F)
      /\ p6 \in Seq(F) /\ p7 \in Seq(F)
  BY <1>2
<1>5. Len(p2) = Len(s1) + Len(s2)
  BY <1>2
<1>. HIDE DEF p2
<1>6. Len(p3) = Len(p2) + Len(s3)
  BY <1>2, <1>4
<1>. HIDE DEF p3
<1>7. Len(p4) = Len(p3) + Len(s4)
  BY <1>2, <1>4
<1>. HIDE DEF p4
<1>8. Len(p5) = Len(p4) + Len(s5)
  BY <1>2, <1>4
<1>. HIDE DEF p5
<1>9. Len(p6) = Len(p5) + Len(s6)
  BY <1>2, <1>4
<1>. HIDE DEF p6
<1>10. Len(p7) = Len(p6) + Len(s7)
  BY <1>2, <1>4
<1>. HIDE DEF p7
<1>11. Len(p7) = 34
  BY <1>3, <1>5, <1>6, <1>7, <1>8, <1>9, <1>10
<1>. QED
  BY <1>4, <1>11 DEF PowerPlan, F, p7, p6, p5, p4, p3, p2, s1, s2, s3, s4, s5,
                     s6, s7
-----------------------------------------------------------------------------
(* What is encoded is valid *)

\* The steps of a keyboard plan and what they look like on the wire.
LEMMA KeyboardPlanSteps ==
  ASSUME NEW S \in SUBSET Ids("keyboard"), NEW k \in 1..ColorFrames(S) + 5
  PROVE  LET f == KeyboardPlan(S)[k] IN
         /\ f.step = IF k = 1 THEN "reset" ELSE IF k = 2 THEN "query_status"
                     ELSE IF k = 3 THEN "read_status"
                     ELSE IF k <= ColorFrames(S) + 3 THEN "set_color"
                     ELSE IF k = ColorFrames(S) + 4 THEN "loop" ELSE "update"
         /\ f.transfer = IF k = 3 THEN "feature_read" ELSE "feature_write"
         /\ f.bytes \in 0..64
         /\ valid_keyboard_prefix(f.step, f.code)
<1>. DEFINE n == ColorFrames(S)
            f == KeyboardPlan(S)[k]
<1>1. n \in Nat
  BY IdsAreBytes, FS_Subset, Chunks DEF Device
<1>0. /\ KeyboardPlan(S)[1] = Reset
      /\ KeyboardPlan(S)[2] = QueryStatus
      /\ KeyboardPlan(S)[3] = ReadStatus
      /\ KeyboardPlan(S)[n + 4] = Feature("loop", "cc8c13", 3)
      /\ KeyboardPlan(S)[n + 5] = Feature("update", "cc8b01", 4)
  BY KeyboardPlanShape
<1>. USE DEF Reset, QueryStatus, ReadStatus, Feature, valid_keyboard_prefix
<1>2. CASE k = 1
  <2>1. f = Reset
    BY <1>0, <1>2
  <2>2. /\ f.step = "reset" /\ f.transfer = "feature_write"
        /\ f.bytes = 2 /\ f.code = "cc94"
    BY <2>1
  <2>. HIDE DEF f
  <2>3. f.bytes \in 0..64 /\ valid_keyboard_prefix(f.step, f.code)
    BY <2>2
  <2>. QED
    BY <1>2, <2>2, <2>3 DEF f
<1>3. CASE k = 2
  <2>1. f = QueryStatus
    BY <1>0, <1>3
  <2>2. /\ f.step = "query_status" /\ f.transfer = "feature_write"
        /\ f.bytes = 2 /\ f.code = "cc93"
    BY <2>1
  <2>. HIDE DEF f
  <2>3. f.bytes \in 0..64 /\ valid_keyboard_prefix(f.step, f.code)
    BY <2>2
  <2>. QED
    BY <1>3, <2>2, <2>3 DEF f
<1>4. CASE k = 3
  <2>1. f = ReadStatus
    BY <1>0, <1>4
  <2>2. /\ f.step = "read_status" /\ f.transfer = "feature_read"
        /\ f.bytes = 1 /\ f.code = "cc"
    BY <2>1
  <2>. HIDE DEF f
  <2>3. f.bytes \in 0..64 /\ valid_keyboard_prefix(f.step, f.code)
    BY <2>2
  <2>. QED
    BY <1>4, <2>2, <2>3 DEF f
<1>5. CASE k \in 4..n + 3
  <2>. DEFINE j == k - 3
  <2>1. j \in 1..n /\ k = 3 + j
    BY <1>1, <1>5
  <2>2. f = ColorFrame(S, j)
    BY <2>1, KeyboardPlanShape
  <2>. HIDE DEF j, f
  <2>3. /\ f \in KeyboardFrames /\ f.step = "set_color"
        /\ f.transfer = "feature_write" /\ f.code = "cc8c02"
    BY <2>1, <2>2, ColorFrameSound
  <2>4. f.bytes \in 0..64
    BY <2>3 DEF KeyboardFrames, SoundFrames, Frames, KEYBOARD_LENGTH
  <2>. QED
    BY <1>1, <1>5, <2>3, <2>4 DEF f
<1>6. CASE k = n + 4
  <2>1. f = Feature("loop", "cc8c13", 3)
    BY <1>0, <1>6
  <2>2. k # 1 /\ k # 2 /\ k # 3 /\ ~(k <= n + 3)
    BY <1>1, <1>6
  <2>. QED
    BY <1>6, <2>1, <2>2
<1>7. CASE k = n + 5
  <2>1. f = Feature("update", "cc8b01", 4)
    BY <1>0, <1>7
  <2>2. k # 1 /\ k # 2 /\ k # 3 /\ ~(k <= n + 3) /\ k # n + 4
    BY <1>1, <1>7
  <2>. QED
    BY <1>7, <2>1, <2>2
<1>8. k \in {1, 2, 3, n + 4, n + 5} \/ k \in 4..n + 3
  BY <1>1
<1>. QED
  BY <1>2, <1>3, <1>4, <1>5, <1>6, <1>7, <1>8

\* prepare_keyboard and validate_keyboard_plan take every plan of the keyboard
\* encoder for some keys of the catalog.
THEOREM EncodedKeyboardIsValid ==
  ASSUME NEW S \in SUBSET Ids("keyboard"), S # {}
  PROVE  PreparesKeyboard(S) /\ validate_keyboard_plan(KeyboardPlan(S))
<1>. DEFINE n == ColorFrames(S)
            plan == KeyboardPlan(S)
<1>1. S \in SUBSET Nat /\ IsFiniteSet(S) /\ S \subseteq Ids("keyboard") \ {255}
  <2>1. Ids("keyboard") \subseteq 0..254 /\ IsFiniteSet(Ids("keyboard"))
    BY IdsAreBytes DEF Device
  <2>2. 255 \notin 0..254
    OBVIOUS
  <2>. QED
    BY <2>1, <2>2, FS_Subset
<1>2. n \in Nat /\ n >= 1
  BY <1>1, Chunks
<1>3. Cardinality(S) \in 1..Cardinality(Ids("keyboard"))
  <2>1. Cardinality(S) \in Nat /\ Cardinality(S) # 0
    BY <1>1, FS_CardinalityType, FS_EmptySet
  <2>2. Cardinality(S) <= Cardinality(Ids("keyboard"))
        /\ Cardinality(Ids("keyboard")) \in Nat
    BY IdsAreBytes, FS_Subset DEF Device
  <2>. QED
    BY <2>1, <2>2
<1>4. DOMAIN plan = 1..n + 5 /\ Len(plan) = n + 5
  <2>1. plan \in Seq(KeyboardFrames) /\ Len(plan) = n + 5
    BY KeyboardPlanShape
  <2>. QED
    BY <2>1, LenProperties
<1>5. \A k \in 1..n + 5 :
        /\ plan[k].step =
             IF k = 1 THEN "reset" ELSE IF k = 2 THEN "query_status"
             ELSE IF k = 3 THEN "read_status" ELSE IF k <= n + 3 THEN "set_color"
             ELSE IF k = n + 4 THEN "loop" ELSE "update"
        /\ plan[k].transfer = IF k = 3 THEN "feature_read" ELSE "feature_write"
        /\ plan[k].bytes \in 0..64
        /\ valid_keyboard_prefix(plan[k].step, plan[k].code)
  BY KeyboardPlanSteps
<1>. HIDE DEF n, plan
<1>6. Cardinality({k \in DOMAIN plan : plan[k].step = "set_color"}) = n
  <2>1. {k \in DOMAIN plan : plan[k].step = "set_color"} = 4..n + 3
    BY <1>2, <1>4, <1>5
  <2>2. Cardinality(4..n + 3) = n
    BY <1>2, FS_Interval
  <2>. QED
    BY <2>1, <2>2
<1>7. PreparesKeyboard(S)
  BY <1>1, <1>3, <1>6 DEF PreparesKeyboard, KeyboardEncodes, ColorFrames,
                          RECORDS_PER_FRAME, n, plan
<1>8. validate_sequence(plan, <<"reset", "query_status", "read_status">>,
                        <<"loop", "update">>)
  <2>. DEFINE prefix == <<"reset", "query_status", "read_status">>
              suffix == <<"loop", "update">>
  <2>1. /\ Len(prefix) = 3 /\ DOMAIN prefix = 1..3
        /\ Len(suffix) = 2 /\ DOMAIN suffix = 1..2
        /\ prefix[1] = "reset" /\ prefix[2] = "query_status"
        /\ prefix[3] = "read_status" /\ suffix[1] = "loop"
        /\ suffix[2] = "update"
    OBVIOUS
  <2>2. \A k \in 1..3 : plan[k].step = prefix[k]
    BY <1>2, <1>5, <2>1
  <2>3. /\ n + 3 + 1 = n + 4 /\ n + 3 + 2 = n + 5
        /\ plan[n + 4].step = "loop" /\ plan[n + 5].step = "update"
    BY <1>2, <1>5
  <2>4. \A k \in 1..2 : plan[n + 3 + k].step = suffix[k]
    BY <2>1, <2>3
  <2>5. \A k \in 4..n + 3 : plan[k].step = "set_color"
    BY <1>2, <1>5
  <2>. HIDE DEF prefix, suffix
  <2>6. /\ Len(plan) - Len(suffix) = n + 3
        /\ Len(plan) >= Len(prefix) + Len(suffix) + 1
        /\ Len(prefix) + 1 = 4
    BY <1>2, <1>4, <2>1
  <2>7. validate_sequence(plan, prefix, suffix)
    BY <2>1, <2>2, <2>4, <2>5, <2>6 DEF validate_sequence
  <2>. QED
    BY <2>7 DEF prefix, suffix
<1>9. \A k \in DOMAIN plan :
        /\ plan[k].transfer = IF plan[k].step = "read_status"
                                THEN "feature_read" ELSE "feature_write"
        /\ plan[k].bytes <= KEYBOARD_LENGTH
        /\ valid_keyboard_prefix(plan[k].step, plan[k].code)
  <2>. TAKE k \in DOMAIN plan
  <2>1. k \in 1..n + 5 /\ k \in Nat
    BY <1>2, <1>4
  <2>2. plan[k].transfer = IF plan[k].step = "read_status"
                             THEN "feature_read" ELSE "feature_write"
    BY <1>2, <1>5, <2>1
  <2>3. plan[k].bytes <= KEYBOARD_LENGTH
    BY <1>5, <2>1 DEF KEYBOARD_LENGTH
  <2>. QED
    BY <1>5, <2>1, <2>2, <2>3
<1>. QED
  BY <1>7, <1>8, <1>9 DEF validate_keyboard_plan, plan

\* validate_aw_elc_plan takes every plan of the static encoder that leaves the
\* power button alone.
THEOREM EncodedStaticIsValid ==
  ASSUME NEW S \in SUBSET (Ids("chassis") \ {POWER_LOGICAL_ID}), S # {}
  PROVE  StaticEncodes(S) /\ validate_aw_elc_plan(StaticPlan(S))
<1>. DEFINE plan == StaticPlan(S)
            prefix == <<"remove", "start">>
            suffix == <<"finish_play">>
<1>1. plan \in Seq(StaticFrames) /\ Len(plan) = 4
  BY StaticPlanShape
<1>2. DOMAIN plan = 1..4
  BY <1>1, LenProperties
<1>3. \A k \in 1..4 : plan[k].transfer = "usb_output" /\ plan[k].bytes <= 33
  <2>1. \A k \in 1..4 : plan[k] \in StaticFrames
    BY <1>1, <1>2, ElementOfSeq
  <2>. QED
    BY <2>1 DEF StaticFrames, SoundFrames, AW_ELC_LENGTH
<1>4. /\ plan[1].step = "remove" /\ plan[1].code = "0321_remove"
      /\ plan[2].step = "start" /\ plan[2].code = "0321_start"
      /\ plan[4].step = "finish_play" /\ plan[4].code = "0321_finish"
  <2>1. /\ plan[1] = Output("remove", "0321_remove", 6)
        /\ plan[2] = Output("start", "0321_start", 6)
        /\ plan[4] = Output("finish_play", "0321_finish", 6)
    BY StaticPlanShape
  <2>. HIDE DEF plan
  <2>. QED
    BY <2>1 DEF Output, Feature
<1>5. plan[3].step = "set_color" /\ plan[3].code = "0327"
  <2>. DEFINE f == Output("set_color", "0327", 7 + Cardinality(S))
  <2>1. plan[3] = [f EXCEPT !.ids = S]
    BY StaticPlanShape
  <2>2. /\ f.step = "set_color" /\ f.code = "0327"
        /\ DOMAIN f = {"step", "state", "transfer", "code", "ids", "bytes"}
    BY DEF Output, Feature
  <2>. HIDE DEF f
  <2>. QED
    BY <2>1, <2>2
<1>. HIDE DEF plan
<1>6. validate_sequence(plan, prefix, suffix)
  <2>1. /\ Len(prefix) = 2 /\ DOMAIN prefix = 1..2
        /\ Len(suffix) = 1 /\ DOMAIN suffix = 1..1
        /\ prefix[1] = "remove" /\ prefix[2] = "start"
        /\ suffix[1] = "finish_play"
    OBVIOUS
  <2>2. \A k \in 1..2 : plan[k].step = prefix[k]
    BY <1>4, <2>1
  <2>3. \A k \in 1..1 : plan[3 + k].step = suffix[k]
    BY <1>4, <2>1
  <2>4. \A k \in 3..3 : plan[k].step = "set_color"
    BY <1>5
  <2>. HIDE DEF prefix, suffix
  <2>5. /\ Len(plan) - Len(suffix) = 3
        /\ Len(plan) >= Len(prefix) + Len(suffix) + 1
        /\ Len(prefix) + 1 = 3
    BY <1>1, <2>1
  <2>. QED
    BY <2>1, <2>2, <2>3, <2>4, <2>5 DEF validate_sequence
<1>7. \A k \in DOMAIN plan :
        /\ plan[k].transfer = "usb_output"
        /\ plan[k].bytes <= AW_ELC_LENGTH
        /\ valid_aw_elc_prefix(plan[k].step, plan[k].code)
  <2>1. \A k \in 1..4 : valid_aw_elc_prefix(plan[k].step, plan[k].code)
    <3>1. \A k \in 1..4 : k = 1 \/ k = 2 \/ k = 3 \/ k = 4
      OBVIOUS
    <3>2. /\ valid_aw_elc_prefix(plan[1].step, plan[1].code)
          /\ valid_aw_elc_prefix(plan[2].step, plan[2].code)
          /\ valid_aw_elc_prefix(plan[3].step, plan[3].code)
          /\ valid_aw_elc_prefix(plan[4].step, plan[4].code)
      BY <1>4, <1>5 DEF valid_aw_elc_prefix
    <3>. QED
      BY <3>1, <3>2
  <2>. QED
    BY <1>2, <1>3, <2>1 DEF AW_ELC_LENGTH
<1>. QED
  BY <1>6, <1>7 DEF validate_aw_elc_plan, StaticEncodes, plan

\* validate_power_profile_plan takes the power profile.
THEOREM EncodedPowerIsValid == validate_power_profile_plan(PowerPlan)
<1>1. PowerPlan \in Seq(PowerFrames) /\ Len(PowerPlan) = 34
  BY PowerPlanShape
<1>2. \A k \in 1..34 : PowerPlan[k] \in PowerFrames
  BY <1>1, ElementOfSeq
<1>. QED
  BY <1>1, <1>2 DEF validate_power_profile_plan, PowerFrames, SoundFrames
=============================================================================
