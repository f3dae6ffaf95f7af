----------------------------- MODULE RestoreProofs -----------------------------
(***************************************************************************)
(* Proofs about Restore, for any number of processes, helpers, colors and  *)
(* zones.  The invariant IInv has five parts: the types, the shape of a    *)
(* running command (Shape), where its colors come from (Provenance), and   *)
(* what the zones show while a power profile (Profile) or a lone command   *)
(* (Shown) colors them.  Two more, Counted and Newest, say which zones a   *)
(* command has colored and what the recorded color is; from them follow    *)
(* when the file is that of the last set-all, and that Restore implements  *)
(* StagedWrite.  The last section bounds the steps of a command.           *)
(***************************************************************************)
EXTENDS Restore, TLAPS

\* A running command is at the start of a stage of its plan, inside it, or
\* behind the whole plan.
Shape ==
  /\ \A p \in Proc : pc[p] \in {"begin", "color", "persist"} =>
       color[p] \in Color /\ plan[p] \in Plans /\ stage[p] \in plan[p]
  /\ \A p \in Proc : pc[p] \notin {"color", "persist"} => zone[p] = 1
  /\ \A p \in Proc : pc[p] = "persist" =>
       plan[p] = Stages /\ stage[p] = POWER /\ zone[p] = Zones[POWER] + 1
  /\ \A p \in Proc : pc[p] = "read" => p \in Helper /\ file # None
  /\ \A p \in Proc : pc[p] = "ready" => color[p] \in Color

\* Colors are recorded and restored only once they are in whole.
Provenance ==
  /\ file # None => file \in whole
  /\ \A p \in Proc : pc[p] = "persist" => color[p] \in whole
  /\ \A h \in Helper :
       pc[h] \in {"ready", "begin", "color", "persist"} => color[h] \in whole

\* The claim of an AW-ELC stage lasts as long as the stage, the power states
\* behind it show its color, and nobody else changes them.
Coloring(p) == pc[p] = "color" /\ stage[p] = POWER

Profile ==
  /\ \A p \in Proc : (pc[p] = "color" /\ stage[p] # KB) => claim = p
  /\ \A p \in Proc : Coloring(p) =>
       \A z \in 1..Zones[POWER] : z < zone[p] => lights[POWER][z] = color[p]
  /\ (~torn /\ \A p \in Proc : ~Coloring(p)) =>
       \A y, z \in 1..Zones[POWER] : lights[POWER][y] = lights[POWER][z]

\* As long as a command is alone, what it has colored shows its color.
Behind(p, s, z) == s < stage[p] \/ (s = stage[p] /\ z < zone[p])

Shown ==
  \A p \in Proc : (alone[p] /\ pc[p] \in {"begin", "color", "persist"}) =>
    \A s \in plan[p] : \A z \in 1..Zones[s] :
      Behind(p, s, z) => lights[s][z] = color[p]

\* What a command has colored, stage by stage: all behind it, nothing ahead, and
\* the file not before its last step.  Before its first stage it has no plan.
Counted ==
  \A p \in Proc :
    IF pc[p] \in {"begin", "color", "persist"}
      THEN /\ \A s \in plan[p] :
                taken[p][s] = CASE s < stage[p] -> Zones[s]
                                [] s = stage[p] -> zone[p] - 1
                                [] OTHER -> 0
           /\ taken[p][RECORD] = 0
      ELSE plan[p] = {}

\* Without a race and without a failure to record, at most one set-all has still
\* to record its color, and it or the file has that of the last one.
Newest ==
  (~lapsed /\ ~raced) =>
    /\ \A p, q \in Proc : (pc[p] = "persist" /\ pc[q] = "persist") => p = q
    /\ \A p \in Proc : pc[p] = "persist" => color[p] = latest
    /\ (\A p \in Proc : pc[p] # "persist") => file = latest

\* Every plan of a command has a first stage.
LEMMA FirstStage ==
  \A P \in Plans : First(P) \in P /\ \A t \in P : First(P) <= t
<1>1. \A P \in Plans : \E s \in P : \A t \in P : s <= t
  BY DEF Plans, Stages, KB, STATIC, POWER
<1>2. ASSUME NEW P \in Plans
      PROVE  First(P) \in P /\ \A t \in P : First(P) <= t
  BY <1>1 DEF First
<1> QED
  BY <1>2

\* A plan holds stages only.
LEMMA PlansAreStages == \A P \in Plans : P \subseteq Stages
  BY DEF Plans, Stages, KB, STATIC, POWER

\* Show changes one zone, to the color of its process.
LEMMA OneZoneShown ==
  ASSUME RestoreAssumption, LightsType, CommandType, NEW p \in Proc,
         zone[p] <= Zones[stage[p]], Show(p)
  PROVE  /\ LightsType'
         /\ \A s \in Stages : \A z \in 1..Zones[s] :
              lights'[s][z] = IF s = stage[p] /\ z = zone[p] THEN color[p]
                                                             ELSE lights[s][z]
<1> DEFINE row == [lights[stage[p]] EXCEPT ![zone[p]] = color[p]]
<1>1. stage[p] \in Stages /\ zone[p] \in 1..Zones[stage[p]]
  BY RestoreAssumption DEF CommandType
<1>2. color[p] \in Color \cup {None}
  BY DEF CommandType
<1>3. lights' = [lights EXCEPT ![stage[p]] = row]
  BY DEF Show
<1>4. row \in [1..Zones[stage[p]] -> Color \cup {None}]
  BY <1>1, <1>2 DEF LightsType
<1>5. /\ DOMAIN lights' = Stages
      /\ lights'[stage[p]] = row
      /\ \A s \in Stages \ {stage[p]} : lights'[s] = lights[s]
  BY <1>1, <1>3 DEF LightsType
<1>6. LightsType'
  BY <1>1, <1>4, <1>5 DEF LightsType
<1>7. \A z \in 1..Zones[stage[p]] :
        row[z] = IF z = zone[p] THEN color[p] ELSE lights[stage[p]][z]
  BY <1>1 DEF LightsType
<1> HIDE DEF row
<1> QED
  BY <1>1, <1>5, <1>6, <1>7

\* Every step keeps the types of the lights.
LEMMA LightsStep ==
  ASSUME TypeOK, Shape, [Next]_vars
  PROVE  LightsType'
<1> USE RestoreAssumption DEF TypeOK, command, counters, success, Goto
<1>1. CASE UNCHANGED vars
  BY <1>1 DEF vars, LightsType
<1>2. ASSUME NEW p \in User, Command(p) PROVE LightsType'
  BY <1>2 DEF Command, LightsType, Start
<1>3. ASSUME NEW p \in Helper, Activate(p) PROVE LightsType'
  BY <1>3 DEF Activate, LightsType, Start
<1>4. ASSUME NEW p \in Helper, ReadColor(p) PROVE LightsType'
  BY <1>4 DEF ReadColor, LightsType
<1>5. ASSUME NEW p \in Helper, Ready(p) PROVE LightsType'
  BY <1>5 DEF Ready, LightsType
<1>6. ASSUME NEW p \in Helper, NotReady(p) PROVE LightsType'
  BY <1>6 DEF NotReady, LightsType
<1>7. ASSUME NEW p \in Proc, Begin(p) PROVE LightsType'
  BY <1>7 DEF Begin, LightsType
<1>8. ASSUME NEW p \in Proc, BeginFails(p) PROVE LightsType'
  BY <1>8 DEF BeginFails, LightsType
<1>9. ASSUME NEW p \in Proc, ColorZone(p) PROVE LightsType'
  BY <1>9, OneZoneShown DEF ColorZone
<1>10. ASSUME NEW p \in Proc, StageFails(p) PROVE LightsType'
  BY <1>10, OneZoneShown DEF StageFails, LightsType
<1>11. ASSUME NEW p \in Proc, NextStage(p) PROVE LightsType'
  BY <1>11 DEF NextStage, LightsType, StageDone
<1>12. ASSUME NEW p \in Proc, Complete(p) PROVE LightsType'
  BY <1>12 DEF Complete, LightsType, StageDone
<1>13. ASSUME NEW p \in Proc, Done(p) PROVE LightsType'
  BY <1>13 DEF Done, LightsType, StageDone
<1>14. ASSUME NEW p \in Proc, Persist(p) PROVE LightsType'
  BY <1>14 DEF Persist, LightsType
<1>15. ASSUME NEW p \in Proc, PersistFails(p) PROVE LightsType'
  BY <1>15 DEF PersistFails, LightsType
<1>16. ASSUME NEW p \in Proc, Kill(p) PROVE LightsType'
  BY <1>16 DEF Kill, LightsType
<1> QED
  BY <1>1, <1>2, <1>3, <1>4, <1>5, <1>6, <1>7, <1>8, <1>9, <1>10, <1>11,
     <1>12, <1>13, <1>14, <1>15, <1>16
     DEF Next, Live, HelperStep

\* Every step keeps the types of the commands.
LEMMA CommandStep ==
  ASSUME TypeOK, Shape, [Next]_vars
  PROVE  CommandType'
<1> USE RestoreAssumption DEF TypeOK, CommandType, SharedType, ProcessType, Shape, command, counters, success, Goto
<1>1. CASE UNCHANGED vars
  BY <1>1 DEF vars
<1>2. ASSUME NEW p \in User, Command(p) PROVE CommandType'
  <2>1. PICK c \in Color, P \in Plans : Run(p, c, P)
    BY <1>2 DEF Command
  <2>2. First(P) \in Stages /\ P \subseteq Stages
    BY FirstStage, PlansAreStages
  <2>3. pc[p] = "idle" /\ zone' = zone
    BY <1>2 DEF Command, Start
  <2> QED
    BY <1>2, <2>1, <2>2, <2>3 DEF Run, Proc
<1>3. ASSUME NEW p \in Helper, Activate(p) PROVE CommandType'
  BY <1>3 DEF Activate, Start, Proc
<1>4. ASSUME NEW p \in Helper, ReadColor(p) PROVE CommandType'
  BY <1>4 DEF ReadColor, Proc
<1>5. ASSUME NEW p \in Helper, Ready(p) PROVE CommandType'
  <2>1. First(Stages) \in Stages
    BY FirstStage DEF Plans
  <2> QED
    BY <1>5, <2>1 DEF Ready, Run, Proc
<1>6. ASSUME NEW p \in Helper, NotReady(p) PROVE CommandType'
  BY <1>6 DEF NotReady, Quit, End, Unclaim, Proc, Stages
<1>7. ASSUME NEW p \in Proc, Begin(p) PROVE CommandType'
  BY <1>7 DEF Begin
<1>8. ASSUME NEW p \in Proc, BeginFails(p) PROVE CommandType'
  BY <1>8 DEF BeginFails, Quit, End, Unclaim, Stages
<1>9. ASSUME NEW p \in Proc, ColorZone(p) PROVE CommandType'
  BY <1>9 DEF ColorZone
<1>10. ASSUME NEW p \in Proc, StageFails(p) PROVE CommandType'
  BY <1>10 DEF StageFails, End, Unclaim, Stages
<1>11. ASSUME NEW p \in Proc, NextStage(p) PROVE CommandType'
  BY <1>11 DEF NextStage, StageDone, Stages, KB, STATIC, POWER
<1>12. ASSUME NEW p \in Proc, Complete(p) PROVE CommandType'
  BY <1>12 DEF Complete, StageDone, Unclaim
<1>13. ASSUME NEW p \in Proc, Done(p) PROVE CommandType'
  BY <1>13 DEF Done, StageDone, Quit, End, Unclaim, Stages
<1>14. ASSUME NEW p \in Proc, Persist(p) PROVE CommandType'
  BY <1>14 DEF Persist, Replace, Quit, End, Unclaim, Stages
<1>15. ASSUME NEW p \in Proc, PersistFails(p) PROVE CommandType'
  BY <1>15 DEF PersistFails, Replace, Quit, End, Unclaim, Stages
<1>16. ASSUME NEW p \in Proc, Kill(p) PROVE CommandType'
  BY <1>16 DEF Kill, Quit, End, Unclaim, Stages
<1> QED
  BY <1>1, <1>2, <1>3, <1>4, <1>5, <1>6, <1>7, <1>8, <1>9, <1>10, <1>11,
     <1>12, <1>13, <1>14, <1>15, <1>16
     DEF Next, Live, HelperStep

\* Every step keeps the types of the processes.
LEMMA ProcessStep ==
  ASSUME TypeOK, Shape, [Next]_vars
  PROVE  ProcessType'
<1> USE RestoreAssumption DEF TypeOK, ProcessType, command, counters, success, Goto
<1>1. CASE UNCHANGED vars
  BY <1>1 DEF vars
<1>2. ASSUME NEW p \in User, Command(p) PROVE ProcessType'
  BY <1>2 DEF Command, Start, Run, Proc
<1>3. ASSUME NEW p \in Helper, Activate(p) PROVE ProcessType'
  BY <1>3 DEF Activate, Start, Proc
<1>4. ASSUME NEW p \in Helper, ReadColor(p) PROVE ProcessType'
  BY <1>4 DEF ReadColor, Proc
<1>5. ASSUME NEW p \in Helper, Ready(p) PROVE ProcessType'
  BY <1>5 DEF Ready, Run, Proc
<1>6. ASSUME NEW p \in Helper, NotReady(p) PROVE ProcessType'
  <2>1. CASE attempt[p] < Readiness
    <3>1. attempt' = [attempt EXCEPT ![p] = attempt[p] + 1]
      BY <1>6, <2>1 DEF NotReady
    <3>2. attempt[p] + 1 \in 0..Readiness
      BY <2>1 DEF Proc
    <3>3. attempt' \in [Proc -> 0..Readiness]
      BY <3>1, <3>2 DEF Proc
    <3> QED
      BY <1>6, <2>1, <3>3 DEF NotReady
  <2>2. CASE ~(attempt[p] < Readiness)
    <3>1. Quit(p, "failed") /\ UNCHANGED runs
      BY <1>6, <2>2 DEF NotReady
    <3>2. /\ pc' = [pc EXCEPT ![p] = "idle"]
          /\ attempt' = [attempt EXCEPT ![p] = 0]
          /\ result' = [result EXCEPT ![p] = "failed"]
          /\ runs' = runs
      BY <3>1 DEF Quit, End
    <3>3. attempt' \in [Proc -> 0..Readiness]
      BY <3>2 DEF Proc
    <3>4. runs' \in [Proc -> 0..MaxRuns]
      BY <3>2 DEF Proc
    <3>5. /\ pc' \in [Proc -> {"idle", "read", "ready", "begin", "color", "persist"}]
          /\ result' \in [Proc -> {"none", "ok", "absent", "failed", "unsaved", "killed"}]
      BY <3>2 DEF Proc
    <3> QED
      BY <3>3, <3>4, <3>5
  <2> QED
    BY <2>1, <2>2
<1>7. ASSUME NEW p \in Proc, Begin(p) PROVE ProcessType'
  BY <1>7 DEF Begin
<1>8. ASSUME NEW p \in Proc, BeginFails(p) PROVE ProcessType'
  BY <1>8 DEF BeginFails, Quit, End, Unclaim
<1>9. ASSUME NEW p \in Proc, ColorZone(p) PROVE ProcessType'
  BY <1>9 DEF ColorZone
<1>10. ASSUME NEW p \in Proc, StageFails(p) PROVE ProcessType'
  BY <1>10 DEF StageFails, End, Unclaim
<1>11. ASSUME NEW p \in Proc, NextStage(p) PROVE ProcessType'
  BY <1>11 DEF NextStage, StageDone, Unclaim
<1>12. ASSUME NEW p \in Proc, Complete(p) PROVE ProcessType'
  BY <1>12 DEF Complete, StageDone, Unclaim
<1>13. ASSUME NEW p \in Proc, Done(p) PROVE ProcessType'
  BY <1>13 DEF Done, StageDone, Quit, End, Unclaim
<1>14. ASSUME NEW p \in Proc, Persist(p) PROVE ProcessType'
  BY <1>14 DEF Persist, Replace, Quit, End, Unclaim
<1>15. ASSUME NEW p \in Proc, PersistFails(p) PROVE ProcessType'
  BY <1>15 DEF PersistFails, Replace, Quit, End, Unclaim
<1>16. ASSUME NEW p \in Proc, Kill(p) PROVE ProcessType'
  BY <1>16 DEF Kill, Quit, End, Unclaim
<1> QED
  BY <1>1, <1>2, <1>3, <1>4, <1>5, <1>6, <1>7, <1>8, <1>9, <1>10, <1>11,
     <1>12, <1>13, <1>14, <1>15, <1>16
     DEF Next, Live, HelperStep

\* Every step keeps the types of what the processes share.
LEMMA SharedStep ==
  ASSUME TypeOK, Shape, [Next]_vars
  PROVE  SharedType'
<1> USE RestoreAssumption DEF TypeOK, SharedType, ProcessType, CommandType, Shape, command, counters, success, Goto
<1>1. CASE UNCHANGED vars
  BY <1>1 DEF vars
<1>2. ASSUME NEW p \in User, Command(p) PROVE SharedType'
  BY <1>2 DEF Command, Start
<1>3. ASSUME NEW p \in Helper, Activate(p) PROVE SharedType'
  BY <1>3 DEF Activate, Start
<1>4. ASSUME NEW p \in Helper, ReadColor(p) PROVE SharedType'
  BY <1>4 DEF ReadColor
<1>5. ASSUME NEW p \in Helper, Ready(p) PROVE SharedType'
  BY <1>5 DEF Ready, Run
<1>6. ASSUME NEW p \in Helper, NotReady(p) PROVE SharedType'
  BY <1>6 DEF NotReady, Quit, End, Unclaim
<1>7. ASSUME NEW p \in Proc, Begin(p) PROVE SharedType'
  BY <1>7 DEF Begin
<1>8. ASSUME NEW p \in Proc, BeginFails(p) PROVE SharedType'
  BY <1>8 DEF BeginFails, Quit, End, Unclaim
<1>9. ASSUME NEW p \in Proc, ColorZone(p) PROVE SharedType'
  BY <1>9 DEF ColorZone
<1>10. ASSUME NEW p \in Proc, StageFails(p) PROVE SharedType'
  BY <1>10 DEF StageFails, End, Unclaim
<1>11. ASSUME NEW p \in Proc, NextStage(p) PROVE SharedType'
  BY <1>11 DEF NextStage, StageDone, Unclaim
<1>12. ASSUME NEW p \in Proc, Complete(p) PROVE SharedType'
  BY <1>12 DEF Complete, StageDone, Unclaim
<1>13. ASSUME NEW p \in Proc, Done(p) PROVE SharedType'
  BY <1>13 DEF Done, StageDone, Quit, End, Unclaim
<1>14. ASSUME NEW p \in Proc, Persist(p) PROVE SharedType'
  BY <1>14 DEF Persist, Replace, Quit, End, Unclaim
<1>15. ASSUME NEW p \in Proc, PersistFails(p) PROVE SharedType'
  BY <1>15 DEF PersistFails, Replace, Quit, End, Unclaim
<1>16. ASSUME NEW p \in Proc, Kill(p) PROVE SharedType'
  BY <1>16 DEF Kill, Quit, End, Unclaim
<1> QED
  BY <1>1, <1>2, <1>3, <1>4, <1>5, <1>6, <1>7, <1>8, <1>9, <1>10, <1>11,
     <1>12, <1>13, <1>14, <1>15, <1>16
     DEF Next, Live, HelperStep

\* Every step keeps the types of the history.
LEMMA HistoryStep ==
  ASSUME TypeOK, Shape, [Next]_vars
  PROVE  HistoryType'
<1> USE RestoreAssumption DEF HistoryType, command, counters, success
<1>0. /\ HistoryType
      /\ \A p \in Proc : zone[p] \in Nat /\ stage[p] \in Parts
      /\ \A p \in Proc : pc[p] = "color" => color[p] \in Color
      /\ RECORD \in Parts
  BY DEF TypeOK, CommandType, Shape, Parts
<1>1. CASE UNCHANGED vars
  BY <1>0, <1>1 DEF vars
<1>2. ASSUME NEW p \in User, Command(p) PROVE HistoryType'
  BY <1>0, <1>2 DEF Command, Start, Run, Proc
<1>3. ASSUME NEW p \in Helper, Activate(p) PROVE HistoryType'
  BY <1>0, <1>3 DEF Activate
<1>4. ASSUME NEW p \in Helper, ReadColor(p) PROVE HistoryType'
  BY <1>0, <1>4 DEF ReadColor
<1>5. ASSUME NEW p \in Helper, Ready(p) PROVE HistoryType'
  BY <1>0, <1>5 DEF Ready, Run, Proc
<1>6. ASSUME NEW p \in Helper, NotReady(p) PROVE HistoryType'
  BY <1>0, <1>6 DEF NotReady, Quit, Proc
<1>7. ASSUME NEW p \in Proc, Begin(p) PROVE HistoryType'
  BY <1>0, <1>7 DEF Begin
<1>8. ASSUME NEW p \in Proc, BeginFails(p) PROVE HistoryType'
  BY <1>0, <1>8 DEF BeginFails, Quit
<1>9. ASSUME NEW p \in Proc, ColorZone(p) PROVE HistoryType'
  BY <1>0, <1>9 DEF ColorZone, Show
<1>10. ASSUME NEW p \in Proc, StageFails(p) PROVE HistoryType'
  <2>1. taken' \in [Proc -> [Parts -> Nat]]
    BY <1>0, <1>10 DEF StageFails, Show
  <2>2. alone' \in [Proc -> BOOLEAN] /\ torn' \in BOOLEAN
    BY <1>0, <1>10 DEF StageFails
  <2> QED
    BY <1>0, <1>10, <2>1, <2>2 DEF StageFails
<1>11. ASSUME NEW p \in Proc, NextStage(p) PROVE HistoryType'
  BY <1>0, <1>11 DEF NextStage, StageDone
<1>12. ASSUME NEW p \in Proc, Complete(p) PROVE HistoryType'
  <2>1. raced' \in BOOLEAN /\ torn' \in BOOLEAN
    BY <1>0, <1>12 DEF Complete, StageDone
  <2> QED
    BY <1>0, <1>12, <2>1 DEF Complete, StageDone
<1>13. ASSUME NEW p \in Proc, Done(p) PROVE HistoryType'
  BY <1>0, <1>13 DEF Done, StageDone, Quit
<1>14. ASSUME NEW p \in Proc, Persist(p) PROVE HistoryType'
  BY <1>0, <1>14 DEF Persist, Replace, Quit
<1>15. ASSUME NEW p \in Proc, PersistFails(p) PROVE HistoryType'
  <2>0. CASE Replace(p)
    BY <1>0, <1>15, <2>0 DEF PersistFails, Replace, Quit
  <2>1. CASE UNCHANGED <<file, taken>>
    BY <1>0, <1>15, <2>1 DEF PersistFails, Quit
  <2> QED
    BY <1>15, <2>0, <2>1 DEF PersistFails
<1>16. ASSUME NEW p \in Proc, Kill(p) PROVE HistoryType'
  BY <1>0, <1>16 DEF Kill, Quit
<1> QED
  BY <1>1, <1>2, <1>3, <1>4, <1>5, <1>6, <1>7, <1>8, <1>9, <1>10, <1>11,
     <1>12, <1>13, <1>14, <1>15, <1>16
     DEF Next, Live, HelperStep

\* Every step keeps the shape of a command.
LEMMA ShapeStep ==
  ASSUME TypeOK, Shape, [Next]_vars
  PROVE  Shape'
<1> USE RestoreAssumption DEF TypeOK, CommandType, ProcessType, SharedType, Shape, command, counters, success, Goto
<1>1. CASE UNCHANGED vars
  BY <1>1 DEF vars
<1>2. ASSUME NEW p \in User, Command(p) PROVE Shape'
  <2>1. PICK c \in Color, P \in Plans : Run(p, c, P)
    BY <1>2 DEF Command
  <2>2. First(P) \in P /\ P \subseteq Stages /\ \A t \in P : First(P) <= t
    BY FirstStage, PlansAreStages
  <2>3. pc[p] = "idle" /\ zone' = zone
    BY <1>2 DEF Command, Start
  <2> QED
    BY <1>2, <2>1, <2>2, <2>3 DEF Command, Run, Proc
<1>3. ASSUME NEW p \in Helper, Activate(p) PROVE Shape'
  BY <1>3 DEF Activate, Start, Proc
<1>4. ASSUME NEW p \in Helper, ReadColor(p) PROVE Shape'
  BY <1>4 DEF ReadColor, Proc
<1>5. ASSUME NEW p \in Helper, Ready(p) PROVE Shape'
  <2>1. First(Stages) \in Stages /\ \A t \in Stages : First(Stages) <= t
    BY FirstStage DEF Plans
  <2> QED
    BY <1>5, <2>1 DEF Ready, Run, Proc, Plans
<1>6. ASSUME NEW p \in Helper, NotReady(p) PROVE Shape'
  <2>1. CASE attempt[p] < Readiness
    BY <1>6, <2>1 DEF NotReady, Proc
  <2>2. CASE ~(attempt[p] < Readiness)
    BY <1>6, <2>2 DEF NotReady, Quit, End, Unclaim, Proc
  <2> QED
    BY <2>1, <2>2
<1>7. ASSUME NEW p \in Proc, Begin(p) PROVE Shape'
  BY <1>7 DEF Begin
<1>8. ASSUME NEW p \in Proc, BeginFails(p) PROVE Shape'
  BY <1>8 DEF BeginFails, Quit, End, Unclaim
<1>9. ASSUME NEW p \in Proc, ColorZone(p) PROVE Shape'
  BY <1>9 DEF ColorZone
<1>10. ASSUME NEW p \in Proc, StageFails(p) PROVE Shape'
  BY <1>10 DEF StageFails, End, Unclaim
<1>11. ASSUME NEW p \in Proc, NextStage(p) PROVE Shape'
  BY <1>11 DEF NextStage, StageDone, Plans, Stages, KB, STATIC, POWER
<1>12. ASSUME NEW p \in Proc, Complete(p) PROVE Shape'
  BY <1>12 DEF Complete, StageDone, Plans, Stages, KB, STATIC, POWER
<1>13. ASSUME NEW p \in Proc, Done(p) PROVE Shape'
  BY <1>13 DEF Done, StageDone, Quit, End, Unclaim
<1>14. ASSUME NEW p \in Proc, Persist(p) PROVE Shape'
  BY <1>14 DEF Persist, Replace, Quit, End, Unclaim
<1>15. ASSUME NEW p \in Proc, PersistFails(p) PROVE Shape'
  BY <1>15 DEF PersistFails, Replace, Quit, End, Unclaim
<1>16. ASSUME NEW p \in Proc, Kill(p) PROVE Shape'
  BY <1>16 DEF Kill, Quit, End, Unclaim
<1> QED
  BY <1>1, <1>2, <1>3, <1>4, <1>5, <1>6, <1>7, <1>8, <1>9, <1>10, <1>11,
     <1>12, <1>13, <1>14, <1>15, <1>16
     DEF Next, Live, HelperStep

\* Every step keeps the provenance of the colors.
LEMMA ProvenanceStep ==
  ASSUME TypeOK, Shape, Provenance, [Next]_vars
  PROVE  Provenance'
<1> USE RestoreAssumption DEF TypeOK, CommandType, ProcessType, SharedType, Shape, Provenance, command, counters, success, Goto
<1>1. CASE UNCHANGED vars
  BY <1>1 DEF vars
<1>2. ASSUME NEW p \in User, Command(p) PROVE Provenance'
  <2>1. PICK c \in Color, P \in Plans : Run(p, c, P)
    BY <1>2 DEF Command
  <2>2. First(P) \in P /\ P \subseteq Stages /\ \A t \in P : First(P) <= t
    BY FirstStage, PlansAreStages
  <2>3. pc[p] = "idle" /\ zone' = zone
    BY <1>2 DEF Command, Start
  <2> QED
    BY <1>2, <2>1, <2>2, <2>3 DEF Command, Run, Proc
<1>3. ASSUME NEW p \in Helper, Activate(p) PROVE Provenance'
  BY <1>3 DEF Activate, Start, Proc
<1>4. ASSUME NEW p \in Helper, ReadColor(p) PROVE Provenance'
  BY <1>4 DEF ReadColor, Proc
<1>5. ASSUME NEW p \in Helper, Ready(p) PROVE Provenance'
  <2>1. First(Stages) \in Stages /\ \A t \in Stages : First(Stages) <= t
    BY FirstStage DEF Plans
  <2> QED
    BY <1>5, <2>1 DEF Ready, Run, Proc, Plans
<1>6. ASSUME NEW p \in Helper, NotReady(p) PROVE Provenance'
  <2>1. CASE attempt[p] < Readiness
    BY <1>6, <2>1 DEF NotReady, Proc
  <2>2. CASE ~(attempt[p] < Readiness)
    BY <1>6, <2>2 DEF NotReady, Quit, End, Unclaim, Proc
  <2> QED
    BY <2>1, <2>2
<1>7. ASSUME NEW p \in Proc, Begin(p) PROVE Provenance'
  BY <1>7 DEF Begin
<1>8. ASSUME NEW p \in Proc, BeginFails(p) PROVE Provenance'
  BY <1>8 DEF BeginFails, Quit, End, Unclaim
<1>9. ASSUME NEW p \in Proc, ColorZone(p) PROVE Provenance'
  BY <1>9 DEF ColorZone
<1>10. ASSUME NEW p \in Proc, StageFails(p) PROVE Provenance'
  BY <1>10 DEF StageFails, End, Unclaim
<1>11. ASSUME NEW p \in Proc, NextStage(p) PROVE Provenance'
  BY <1>11 DEF NextStage, StageDone, Unclaim
<1>12. ASSUME NEW p \in Proc, Complete(p) PROVE Provenance'
  BY <1>12 DEF Complete, StageDone, Unclaim
<1>13. ASSUME NEW p \in Proc, Done(p) PROVE Provenance'
  BY <1>13 DEF Done, StageDone, Quit, End, Unclaim
<1>14. ASSUME NEW p \in Proc, Persist(p) PROVE Provenance'
  BY <1>14 DEF Persist, Replace, Quit, End, Unclaim
<1>15. ASSUME NEW p \in Proc, PersistFails(p) PROVE Provenance'
  BY <1>15 DEF PersistFails, Replace, Quit, End, Unclaim
<1>16. ASSUME NEW p \in Proc, Kill(p) PROVE Provenance'
  BY <1>16 DEF Kill, Quit, End, Unclaim
<1> QED
  BY <1>1, <1>2, <1>3, <1>4, <1>5, <1>6, <1>7, <1>8, <1>9, <1>10, <1>11,
     <1>12, <1>13, <1>14, <1>15, <1>16
     DEF Next, Live, HelperStep

\* Every step keeps the power profile in one color.
LEMMA ProfileStep ==
  ASSUME TypeOK, Shape, Profile, [Next]_vars
  PROVE  Profile'
<1> USE RestoreAssumption DEF TypeOK, CommandType, ProcessType, SharedType, Shape, Profile, Coloring, command, counters, success, Goto
<1>0. torn \in BOOLEAN
  BY DEF HistoryType
<1> USE <1>0
<1>1. CASE UNCHANGED vars
  BY <1>1 DEF vars
<1>2. ASSUME NEW p \in User, Command(p) PROVE Profile'
  <2>1. PICK c \in Color, P \in Plans : Run(p, c, P)
    BY <1>2 DEF Command
  <2>2. First(P) \in P /\ P \subseteq Stages /\ \A t \in P : First(P) <= t
    BY FirstStage, PlansAreStages
  <2>3. pc[p] = "idle" /\ zone' = zone
    BY <1>2 DEF Command, Start
  <2> QED
    BY <1>2, <2>1, <2>2, <2>3 DEF Command, Run, Proc
<1>3. ASSUME NEW p \in Helper, Activate(p) PROVE Profile'
  BY <1>3 DEF Activate, Start, Proc
<1>4. ASSUME NEW p \in Helper, ReadColor(p) PROVE Profile'
  BY <1>4 DEF ReadColor, Proc
<1>5. ASSUME NEW p \in Helper, Ready(p) PROVE Profile'
  <2>1. First(Stages) \in Stages /\ \A t \in Stages : First(Stages) <= t
    BY FirstStage DEF Plans
  <2> QED
    BY <1>5, <2>1 DEF Ready, Run, Proc, Plans
<1>6. ASSUME NEW p \in Helper, NotReady(p) PROVE Profile'
  <2>1. CASE attempt[p] < Readiness
    BY <1>6, <2>1 DEF NotReady, Proc
  <2>2. CASE ~(attempt[p] < Readiness)
    BY <1>6, <2>2 DEF NotReady, Quit, End, Unclaim, Proc
  <2> QED
    BY <2>1, <2>2
<1>7. ASSUME NEW p \in Proc, Begin(p) PROVE Profile'
  BY <1>7 DEF Begin
<1>8. ASSUME NEW p \in Proc, BeginFails(p) PROVE Profile'
  BY <1>8 DEF BeginFails, Quit, End, Unclaim
<1>9. ASSUME NEW p \in Proc, ColorZone(p) PROVE Profile'
  <2>1. \A s \in Stages : \A z \in 1..Zones[s] :
          lights'[s][z] = IF s = stage[p] /\ z = zone[p] THEN color[p]
                                                         ELSE lights[s][z]
    BY <1>9, OneZoneShown DEF ColorZone
  <2>2. /\ \A q \in Proc : Coloring(q)' <=> Coloring(q)
        /\ \A q \in Proc \ {p} : zone'[q] = zone[q]
        /\ zone'[p] = zone[p] + 1
        /\ UNCHANGED <<claim, color, stage, pc, torn>>
    BY <1>9 DEF ColorZone
  <2>3. CASE stage[p] = POWER
    <3> DEFINE Aw(q) == pc[q] = "color" /\ stage[q] # KB
    <3>0. \A q \in Proc : Aw(q) => claim = q
      OBVIOUS
    <3>1. Coloring(p) /\ \A q \in Proc : Coloring(q) => q = p
      <4>1. pc[p] = "color"
        BY <1>9 DEF ColorZone
      <4>2. Coloring(p) /\ \A q \in Proc : Coloring(q) => Aw(q)
        BY <2>3, <4>1 DEF KB, POWER
      <4> QED
        BY <3>0, <4>2
    <3>2. ASSUME NEW z \in 1..Zones[POWER], z < zone'[p]
          PROVE  lights'[POWER][z] = color[p]
      <4>1. POWER \in Stages
        BY DEF Stages
      <4>2. zone'[p] = zone[p] + 1 /\ zone[p] \in Nat /\ z \in Nat
        BY <2>2, <4>1
      <4>3. z = zone[p] \/ z < zone[p]
        <5> HIDE DEF CommandType, ProcessType, SharedType, Shape, Profile
        <5> QED
          BY <3>2, <4>2
      <4>4. z < zone[p] => lights[POWER][z] = color[p]
        BY <3>1
      <4> QED
        BY <2>1, <2>3, <4>1, <4>3, <4>4
    <3> QED
      BY <2>2, <3>1, <3>2
  <2>4. CASE stage[p] # POWER
    <3>1. \A z \in 1..Zones[POWER] : lights'[POWER][z] = lights[POWER][z]
      BY <2>1, <2>4 DEF Stages
    <3>2. \A q \in Proc : Coloring(q) => q # p
      BY <2>4
    <3> QED
      BY <2>2, <3>1, <3>2
  <2> QED
    BY <2>3, <2>4
<1>10. ASSUME NEW p \in Proc, StageFails(p) PROVE Profile'
  <2>1. CASE stage[p] = POWER
    <3>1. \A q \in Proc : ~Coloring(q)'
      BY <1>10, <2>1 DEF StageFails, End, KB, POWER
    <3>2. \A q \in Proc : (pc'[q] = "color" /\ stage'[q] # KB) => claim' = q
      BY <1>10 DEF StageFails, End, Unclaim
    <3> QED
      BY <1>10, <2>1, <3>1, <3>2 DEF StageFails
  <2>2. CASE stage[p] # POWER
    <3>1. \A z \in 1..Zones[POWER] : lights'[POWER][z] = lights[POWER][z]
      BY <1>10, <2>2, OneZoneShown DEF StageFails, Stages
    <3> QED
      BY <1>10, <2>2, <3>1 DEF StageFails, End, Unclaim
  <2> QED
    BY <2>1, <2>2
<1>11. ASSUME NEW p \in Proc, NextStage(p) PROVE Profile'
  BY <1>11 DEF NextStage, StageDone, Unclaim
<1>12. ASSUME NEW p \in Proc, Complete(p) PROVE Profile'
  BY <1>12 DEF Complete, StageDone, Unclaim
<1>13. ASSUME NEW p \in Proc, Done(p) PROVE Profile'
  BY <1>13 DEF Done, StageDone, Quit, End, Unclaim
<1>14. ASSUME NEW p \in Proc, Persist(p) PROVE Profile'
  BY <1>14 DEF Persist, Replace, Quit, End, Unclaim
<1>15. ASSUME NEW p \in Proc, PersistFails(p) PROVE Profile'
  BY <1>15 DEF PersistFails, Replace, Quit, End, Unclaim
<1>16. ASSUME NEW p \in Proc, Kill(p) PROVE Profile'
  BY ZenonT(60), <1>16 DEF Kill, Quit, End, Unclaim
<1> QED
  BY <1>1, <1>2, <1>3, <1>4, <1>5, <1>6, <1>7, <1>8, <1>9, <1>10, <1>11,
     <1>12, <1>13, <1>14, <1>15, <1>16
     DEF Next, Live, HelperStep

\* Every step keeps what a lone command has colored.
LEMMA ShownStep ==
  ASSUME TypeOK, Shape, Shown, [Next]_vars
  PROVE  Shown'
<1> USE RestoreAssumption DEF TypeOK, CommandType, ProcessType, SharedType, Shape, Shown, Behind, command, counters, success, Goto
<1>0. alone \in [Proc -> BOOLEAN]
  BY DEF HistoryType
<1> USE <1>0
<1>1. CASE UNCHANGED vars
  BY <1>1 DEF vars
<1>2. ASSUME NEW p \in User, Command(p) PROVE Shown'
  <2>1. PICK c \in Color, P \in Plans : Run(p, c, P)
    BY <1>2 DEF Command
  <2>2. First(P) \in P /\ P \subseteq Stages /\ \A t \in P : First(P) <= t
    BY FirstStage, PlansAreStages
  <2>3. pc[p] = "idle" /\ zone' = zone
    BY <1>2 DEF Command, Start
  <2>4. /\ \A q \in Proc \ {p} : /\ alone'[q] = alone[q] /\ pc'[q] = pc[q]
                                 /\ plan'[q] = plan[q] /\ stage'[q] = stage[q]
                                 /\ color'[q] = color[q]
        /\ UNCHANGED <<lights, zone>>
    BY <1>2, <2>1 DEF Command, Run
  <2>6. plan'[p] = P /\ stage'[p] = First(P) /\ zone'[p] = 1
    BY <2>1, <2>3 DEF Run, Proc
  <2>5. ASSUME NEW s \in P, NEW z \in 1..Zones[s]
        PROVE  ~Behind(p, s, z)'
    <3> HIDE DEF TypeOK, CommandType, ProcessType, SharedType, Shape, Shown
    <3>0. \A t \in Stages : t \in Nat
      BY DEF Stages, KB, STATIC, POWER
    <3>1. First(P) <= s /\ First(P) \in Nat /\ s \in Nat
      BY <2>2, <3>0, Zenon
    <3>2. z \in Nat /\ ~(z < 1)
      BY <2>2
    <3> QED
      BY <2>6, <3>1, <3>2
  <2> QED
    BY <2>4, <2>5, <2>6
<1>3. ASSUME NEW p \in Helper, Activate(p) PROVE Shown'
  BY <1>3 DEF Activate, Start, Proc
<1>4. ASSUME NEW p \in Helper, ReadColor(p) PROVE Shown'
  BY <1>4 DEF ReadColor, Proc
<1>5. ASSUME NEW p \in Helper, Ready(p) PROVE Shown'
  <2>1. First(Stages) \in Stages /\ \A t \in Stages : First(Stages) <= t
    BY FirstStage DEF Plans
  <2>2. /\ \A q \in Proc \ {p} : /\ alone'[q] = alone[q] /\ pc'[q] = pc[q]
                                 /\ plan'[q] = plan[q] /\ stage'[q] = stage[q]
                                 /\ color'[q] = color[q]
        /\ plan'[p] = Stages /\ stage'[p] = First(Stages) /\ zone'[p] = 1
        /\ UNCHANGED <<lights, zone>>
    BY <1>5 DEF Ready, Run, Proc
  <2>3. \A s \in Stages : \A z \in 1..Zones[s] : ~Behind(p, s, z)'
    BY <2>1, <2>2 DEF Stages, KB, STATIC, POWER
  <2> QED
    BY <2>2, <2>3
<1>6. ASSUME NEW p \in Helper, NotReady(p) PROVE Shown'
  <2>1. CASE attempt[p] < Readiness
    BY <1>6, <2>1 DEF NotReady, Proc
  <2>2. CASE ~(attempt[p] < Readiness)
    BY <1>6, <2>2 DEF NotReady, Quit, End, Unclaim, Proc
  <2> QED
    BY <2>1, <2>2
<1>7. ASSUME NEW p \in Proc, Begin(p) PROVE Shown'
  BY <1>7 DEF Begin
<1>8. ASSUME NEW p \in Proc, BeginFails(p) PROVE Shown'
  BY <1>8 DEF BeginFails, Quit, End, Unclaim
<1>9. ASSUME NEW p \in Proc, ColorZone(p) PROVE Shown'
  <2>1. \A s \in Stages : \A z \in 1..Zones[s] :
          lights'[s][z] = IF s = stage[p] /\ z = zone[p] THEN color[p]
                                                         ELSE lights[s][z]
    BY <1>9, OneZoneShown DEF ColorZone
  <2>2. /\ \A q \in Proc \ {p} : ~alone'[q]
        /\ alone'[p] = alone[p]
        /\ zone'[p] = zone[p] + 1
        /\ pc[p] = "color"
        /\ UNCHANGED <<color, plan, stage, pc>>
    BY <1>9 DEF ColorZone
  <2>3. ASSUME alone[p], NEW s \in plan[p], NEW z \in 1..Zones[s],
               Behind(p, s, z)'
        PROVE  lights'[s][z] = color[p]
    <3>1. s \in Stages /\ stage[p] \in Stages /\ zone[p] \in Nat
      OBVIOUS
    <3>2. Behind(p, s, z) \/ (s = stage[p] /\ z = zone[p])
      BY SMTT(30), <2>2, <2>3, <3>1 DEF Stages, KB, STATIC, POWER
    <3>3. Behind(p, s, z) => lights[s][z] = color[p]
      BY <2>2, <2>3
    <3> QED
      BY <2>1, <3>1, <3>2, <3>3
  <2> QED
    BY <2>2, <2>3
<1>10. ASSUME NEW p \in Proc, StageFails(p) PROVE Shown'
  <2>1. \A q \in Proc : alone'[q] => q # p /\ alone[q] /\ lights' = lights
    BY <1>10 DEF StageFails
  <2>2. \A q \in Proc \ {p} : /\ pc'[q] = pc[q] /\ color'[q] = color[q]
                              /\ plan'[q] = plan[q] /\ stage'[q] = stage[q]
                              /\ zone'[q] = zone[q]
    BY <1>10 DEF StageFails, End
  <2> SUFFICES ASSUME NEW q \in Proc, alone'[q],
                      pc'[q] \in {"begin", "color", "persist"},
                      NEW s \in plan'[q], NEW z \in 1..Zones[s],
                      Behind(q, s, z)'
               PROVE  lights'[s][z] = color'[q]
    OBVIOUS
  <2>3. q # p /\ alone[q] /\ lights' = lights
    BY <2>1
  <2>4. Behind(q, s, z) /\ s \in plan[q]
    BY <2>2, <2>3
  <2>5. pc[q] \in {"begin", "color", "persist"} /\ color'[q] = color[q]
    BY <2>2, <2>3
  <2>6. lights[s][z] = color[q]
    BY <2>3, <2>4, <2>5
  <2> QED
    BY <2>3, <2>5, <2>6
<1>11. ASSUME NEW p \in Proc, NextStage(p) PROVE Shown'
  <2>1. /\ zone[p] = Zones[stage[p]] + 1 /\ zone'[p] = 1
        /\ stage[p] \in Stages /\ stage'[p] = stage[p] + 1
        /\ pc[p] = "color"
        /\ UNCHANGED <<lights, color, plan, alone>>
    BY <1>11 DEF NextStage, StageDone
  <2>2. \A q \in Proc \ {p} : /\ pc'[q] = pc[q] /\ stage'[q] = stage[q]
                              /\ zone'[q] = zone[q]
    BY <1>11 DEF NextStage
  <2>3. ASSUME NEW s \in Stages, NEW z \in 1..Zones[s], Behind(p, s, z)'
        PROVE  Behind(p, s, z)
    <3>1. s \in Nat /\ stage[p] \in Nat /\ z \in Nat /\ ~(z < 1)
      BY <2>1 DEF Stages, KB, STATIC, POWER
    <3>2. s < stage[p] + 1
      BY <2>1, <2>3, <3>1
    <3>3. s = stage[p] => z < zone[p]
      BY <2>1, <3>1
    <3>4. s < stage[p] \/ s = stage[p]
      BY SMTT(30), <3>1, <3>2
    <3> QED
      BY <3>3, <3>4
  <2>4. \A s \in plan[p] : s \in Stages
    OBVIOUS
  <2> QED
    BY <2>1, <2>2, <2>3, <2>4
<1>12. ASSUME NEW p \in Proc, Complete(p) PROVE Shown'
  BY <1>12 DEF Complete, StageDone, Unclaim
<1>13. ASSUME NEW p \in Proc, Done(p) PROVE Shown'
  BY <1>13 DEF Done, StageDone, Quit, End, Unclaim
<1>14. ASSUME NEW p \in Proc, Persist(p) PROVE Shown'
  BY <1>14 DEF Persist, Replace, Quit, End, Unclaim
<1>15. ASSUME NEW p \in Proc, PersistFails(p) PROVE Shown'
  BY <1>15 DEF PersistFails, Replace, Quit, End, Unclaim
<1>16. ASSUME NEW p \in Proc, Kill(p) PROVE Shown'
  BY <1>16 DEF Kill, Quit, End, Unclaim
<1> QED
  BY <1>1, <1>2, <1>3, <1>4, <1>5, <1>6, <1>7, <1>8, <1>9, <1>10, <1>11,
     <1>12, <1>13, <1>14, <1>15, <1>16
     DEF Next, Live, HelperStep

\* The invariant of the specification.
IInv == TypeOK /\ Shape /\ Provenance /\ Profile /\ Shown

\* The invariant holds: a command colors only inside a stage of its plan, the
\* claim spans every AW-ELC stage, and colors come from completed set-alls.
THEOREM Invariant == Spec => []IInv
<1>1. Init => IInv
  <2> SUFFICES ASSUME Init PROVE IInv
    OBVIOUS
  <2> USE RestoreAssumption DEF Proc
  <2>1. LightsType
    BY DEF Init, LightsType, Stages
  <2>2. CommandType
    BY DEF Init, CommandType, Stages, KB, STATIC, POWER
  <2>3. ProcessType
    BY DEF Init, ProcessType
  <2>4. SharedType
    <3>1. claim = None /\ file = None /\ kills = 0
      BY DEF Init
    <3>2. claim \in Proc \cup {None} /\ file \in Color \cup {None}
      BY <3>1
    <3>3. kills \in 0..MaxKills
      BY <3>1
    <3> QED
      BY <3>2, <3>3 DEF SharedType
  <2>7. HistoryType
    BY DEF Init, HistoryType
  <2>5. Shape /\ Provenance /\ Shown
    BY DEF Init, Shape, Provenance, Shown
  <2>6. Profile
    BY DEF Init, Profile, Coloring, Stages, POWER
  <2> QED
    BY <2>1, <2>2, <2>3, <2>4, <2>5, <2>6, <2>7 DEF IInv, TypeOK
<1>2. IInv /\ [Next]_vars => IInv'
  BY LightsStep, CommandStep, ProcessStep, SharedStep, HistoryStep, ShapeStep,
     ProvenanceStep, ProfileStep, ShownStep DEF IInv, TypeOK
<1> QED
  BY <1>1, <1>2, PTL DEF Spec

\* TypeOK, for any processes, colors and zones.
THEOREM TypeCorrect == Spec => []TypeOK
<1>1. IInv => TypeOK
  BY DEF IInv
<1> QED
  BY <1>1, Invariant, PTL

\* OnlyWholeColors: the file and the helper only ever carry the color of a
\* set-all that completed all its stages.
THEOREM RestoresWholeColors == Spec => []OnlyWholeColors
<1>1. IInv => OnlyWholeColors
  BY DEF IInv, Provenance, OnlyWholeColors
<1> QED
  BY <1>1, Invariant, PTL

\* LoneSetAllShows: an undisturbed set-all shows its color in every zone.
THEOREM UndisturbedShows == Spec => []LoneSetAllShows
<1>1. IInv => LoneSetAllShows
  <2> SUFFICES ASSUME IInv, NEW p \in Proc, pc[p] = "persist", alone[p],
                      NEW s \in Stages, NEW z \in 1..Zones[s]
               PROVE  lights[s][z] = color[p]
    BY DEF LoneSetAllShows
  <2>1. plan[p] = Stages /\ stage[p] = POWER /\ zone[p] = Zones[POWER] + 1
    BY DEF IInv, Shape
  <2>2. Behind(p, s, z)
    BY <2>1, RestoreAssumption DEF Behind, Stages, KB, STATIC, POWER
  <2> QED
    BY <2>1, <2>2 DEF IInv, Shown
<1> QED
  BY <1>1, Invariant, PTL

\* PowerProfileUnmixed: the claim keeps two power profiles from mixing.
THEOREM ProfilesDoNotMix == Spec => []PowerProfileUnmixed
<1>1. IInv => PowerProfileUnmixed
  BY RestoreAssumption
     DEF IInv, Profile, Coloring, PowerProfileUnmixed, KB, POWER
<1> QED
  BY <1>1, Invariant, PTL

------------------------------------------------------------------------------
(* What the commands have colored and recorded. *)

\* A step of process p, of whichever kind.
StepOf(p) ==
  \/ Live(p) \/ Kill(p)
  \/ p \in User /\ Command(p)
  \/ p \in Helper /\ (Activate(p) \/ HelperStep(p))

LEMMA NextIsAStep == Next => \E p \in Proc : StepOf(p)
BY DEF Next, StepOf, Proc

\* A process has its own position, color and plan: no other process moves it.
Untouched(q) ==
  /\ pc'[q] = pc[q] /\ color'[q] = color[q] /\ plan'[q] = plan[q]
  /\ stage'[q] = stage[q] /\ zone'[q] = zone[q] /\ attempt'[q] = attempt[q]
  /\ taken'[q] = taken[q]

LEMMA OthersStand ==
  ASSUME TypeOK, NEW p \in Proc, StepOf(p)
  PROVE  \A q \in Proc \ {p} : Untouched(q)
<1> SUFFICES ASSUME NEW q \in Proc \ {p} PROVE Untouched(q)
  OBVIOUS
<1>0. /\ DOMAIN pc = Proc /\ DOMAIN color = Proc /\ DOMAIN plan = Proc
      /\ DOMAIN stage = Proc /\ DOMAIN zone = Proc /\ DOMAIN attempt = Proc
      /\ DOMAIN taken = Proc
  BY DEF TypeOK, CommandType, ProcessType, HistoryType
<1> USE <1>0 DEF Untouched, Goto, Run, Quit, End, Show, Replace, command
<1>1. CASE Command(p)
  BY <1>1 DEF Command, Start
<1>2. CASE Activate(p)
  BY <1>2 DEF Activate, Start
<1>3. CASE HelperStep(p)
  BY <1>3 DEF HelperStep, ReadColor, Ready, NotReady
<1>4. CASE Begin(p) \/ BeginFails(p)
  BY <1>4 DEF Begin, BeginFails
<1>5. CASE ColorZone(p) \/ StageFails(p)
  BY <1>5 DEF ColorZone, StageFails
<1>6. CASE NextStage(p) \/ Complete(p) \/ Done(p)
  BY <1>6 DEF NextStage, Complete, Done, StageDone
<1>7. CASE Persist(p) \/ PersistFails(p) \/ Kill(p)
  BY <1>7 DEF Persist, PersistFails, Kill
<1> QED
  BY <1>1, <1>2, <1>3, <1>4, <1>5, <1>6, <1>7 DEF StepOf, Live

\* A process that goes to idle has no plan left.
LEMMA EndClears ==
  ASSUME TypeOK, NEW p \in Proc, NEW how, End(p, how)
  PROVE  pc'[p] = "idle" /\ plan'[p] = {} /\ stage'[p] = KB /\ zone'[p] = 1
BY DEF End, Goto, TypeOK, CommandType, ProcessType

\* Every step keeps what its process has colored in step with its position.
LEMMA CountedStep ==
  ASSUME TypeOK, TypeOK', Shape, Counted, [Next]_vars
  PROVE  Counted'
<1> DEFINE Running(p) == pc[p] \in {"begin", "color", "persist"}
           Frame(p, s) == CASE s < stage[p] -> Zones[s]
                            [] s = stage[p] -> zone[p] - 1
                            [] OTHER -> 0
           CountedAt(p) ==
             IF Running(p)
               THEN /\ \A s \in plan[p] : taken[p][s] = Frame(p, s)
                    /\ taken[p][RECORD] = 0
               ELSE plan[p] = {}
<1>0. /\ Counted <=> \A p \in Proc : CountedAt(p)
      /\ Counted' <=> \A p \in Proc : CountedAt(p)'
  BY DEF Counted
<1>1. CASE UNCHANGED vars
  BY <1>1 DEF vars, command, Counted
<1>2. CASE Next
  <2>1. PICK p \in Proc : StepOf(p)
    BY <1>2, NextIsAStep
  <2>2. \A q \in Proc \ {p} : CountedAt(q)'
    <3>1. \A q \in Proc \ {p} : Untouched(q)
      BY <2>1, OthersStand
    <3> QED
      BY <1>0, <3>1 DEF Untouched
  <2>s. SUFFICES CountedAt(p)'
    <3> HIDE DEF CountedAt
    <3> QED
      BY <1>0, <2>2
  <2>t. /\ pc \in [Proc -> {"idle", "read", "ready", "begin", "color", "persist"}]
        /\ plan \in [Proc -> SUBSET Stages] /\ stage \in [Proc -> Stages]
        /\ zone \in [Proc -> Nat] /\ taken \in [Proc -> [Parts -> Nat]]
        /\ stage[p] \in Stages /\ zone[p] \in Nat /\ plan[p] \subseteq Stages
    BY DEF TypeOK, CommandType, ProcessType, HistoryType
  <2>c. CountedAt(p)
    BY <1>0
  <2>n. \A s \in Stages : s \in Nat /\ s \in Parts /\ s # RECORD
    BY DEF Stages, Parts, KB, STATIC, POWER, RECORD
  <2>z. \A s \in Stages : Zones[s] \in Nat \ {0}
    BY RestoreAssumption
  <2>e. ASSUME pc'[p] = "idle", plan'[p] = {} PROVE CountedAt(p)'
    BY <2>e
  <2>3. ASSUME NEW c, NEW P \in Plans, Run(p, c, P), zone[p] = 1, zone' = zone
        PROVE  CountedAt(p)'
    <3>1. /\ plan'[p] = P /\ stage'[p] = First(P) /\ zone'[p] = 1
          /\ pc'[p] = "begin" /\ \A s \in Parts : taken'[p][s] = 0
      BY <2>3, <2>t DEF Run, Goto
    <3>2. \A s \in P : First(P) <= s /\ s \in Stages
      BY FirstStage, PlansAreStages
    <3>3. First(P) \in Stages
      BY FirstStage, PlansAreStages
    <3>4. ASSUME NEW s \in P PROVE Frame(p, s)' = 0
      <4>1. s \in Nat /\ First(P) \in Nat /\ First(P) <= s
        BY <2>n, <3>2, <3>3
      <4>2. ~(s < stage'[p]) /\ zone'[p] - 1 = 0
        BY <3>1, <4>1
      <4> QED
        BY <3>1, <4>2
    <3>5. \A s \in P : taken'[p][s] = 0
      BY <2>n, <3>1, <3>2
    <3>6. taken'[p][RECORD] = 0
      BY <3>1 DEF Parts
    <3> HIDE DEF Frame
    <3> QED
      BY <3>1, <3>4, <3>5, <3>6
  <2>4. CASE p \in User /\ Command(p)
    <3>1. PICK c \in Color, P \in Plans : Run(p, c, P)
      BY <2>4 DEF Command
    <3>2. zone[p] = 1 /\ zone' = zone
      BY <2>4 DEF Command, Start, Shape
    <3> QED
      BY <2>3, <3>1, <3>2
  <2>5. CASE p \in Helper /\ Activate(p)
    <3>1. pc[p] = "idle" /\ pc'[p] \in {"idle", "read"} /\ plan' = plan
      BY <2>5, <2>t DEF Activate, Start, Goto, command
    <3> QED
      BY <2>c, <3>1
  <2>6. CASE p \in Helper /\ ReadColor(p)
    <3>1. pc[p] = "read" /\ pc'[p] = "ready" /\ plan' = plan
      BY <2>6, <2>t DEF ReadColor, Goto
    <3> QED
      BY <2>c, <3>1
  <2>7. CASE p \in Helper /\ Ready(p)
    <3>1. Run(p, color[p], Stages) /\ zone[p] = 1 /\ zone' = zone
      BY <2>7 DEF Ready, Shape
    <3> QED
      BY <2>3, <3>1 DEF Plans
  <2>8. CASE p \in Helper /\ NotReady(p)
    <3>1. CASE attempt[p] < Readiness
      <4>1. pc[p] = "ready" /\ pc' = pc /\ plan' = plan
        BY <2>8, <3>1 DEF NotReady, command
      <4> QED
        BY <2>c, <4>1
    <3>2. CASE ~(attempt[p] < Readiness)
      BY <2>8, <2>e, <3>2, EndClears DEF NotReady, Quit
    <3> QED
      BY <3>1, <3>2
  <2>9. CASE Begin(p)
    <3>1. /\ pc[p] = "begin" /\ pc'[p] = "color"
          /\ UNCHANGED <<plan, stage, zone, taken>>
      BY <2>9, <2>t DEF Begin, Goto, command
    <3> QED
      BY <2>c, <3>1
  <2>10. CASE \/ BeginFails(p) \/ StageFails(p) \/ Done(p)
              \/ Persist(p) \/ PersistFails(p) \/ Kill(p)
    <3>1. \E how : End(p, how)
      BY <2>10 DEF BeginFails, StageFails, Done, Persist, PersistFails, Kill, Quit
    <3> QED
      BY <2>e, <3>1, EndClears
  <2>11. CASE ColorZone(p)
    <3>1. /\ pc[p] = "color" /\ pc' = pc /\ plan' = plan /\ stage' = stage
          /\ zone'[p] = zone[p] + 1
          /\ taken' = [taken EXCEPT ![p][stage[p]] = zone[p]]
      BY <2>11, <2>t DEF ColorZone, Show
    <3>2. /\ taken'[p][stage[p]] = zone[p]
          /\ \A s \in Parts \ {stage[p]} : taken'[p][s] = taken[p][s]
      BY <2>t, <2>n, <3>1
    <3>3. ASSUME NEW s \in Stages
          PROVE  Frame(p, s)' = IF s = stage[p] THEN zone[p] ELSE Frame(p, s)
      <4>1. s \in Nat /\ stage[p] \in Nat /\ zone'[p] - 1 = zone[p]
        BY <2>n, <2>t, <3>1
      <4>2. CASE s = stage[p]
        BY <3>1, <4>1, <4>2
      <4>3. CASE s # stage[p]
        BY <3>1, <4>3
      <4> QED
        BY <4>2, <4>3
    <3>4. /\ \A s \in plan[p] : taken[p][s] = Frame(p, s)
          /\ taken[p][RECORD] = 0
      BY <2>c, <3>1
    <3>5. \A s \in plan[p] : taken'[p][s] = Frame(p, s)'
      <4> HIDE DEF Frame
      <4> QED
        BY <2>t, <2>n, <3>2, <3>3, <3>4
    <3>6. taken'[p][RECORD] = 0
      BY <2>t, <2>n, <3>2, <3>4 DEF Parts
    <3> HIDE DEF Frame
    <3> QED
      BY <3>1, <3>5, <3>6
  <2>12. CASE NextStage(p)
    <3>1. /\ pc[p] = "color" /\ pc'[p] = "begin"
          /\ plan' = plan /\ stage'[p] = stage[p] + 1 /\ zone'[p] = 1
          /\ zone[p] = Zones[stage[p]] + 1 /\ taken' = taken
      BY <2>12, <2>t DEF NextStage, StageDone, Goto
    <3>2. ASSUME NEW s \in Stages PROVE Frame(p, s)' = Frame(p, s)
      <4>1. s \in Nat /\ stage[p] \in Nat /\ Zones[stage[p]] \in Nat
        BY <2>n, <2>t, <2>z
      <4>2. CASE s < stage[p]
        BY <3>1, <4>1, <4>2
      <4>3. CASE s = stage[p]
        BY <3>1, <4>1, <4>3
      <4>4. CASE s > stage[p]
        BY <3>1, <4>1, <4>4
      <4> QED
        BY <4>1, <4>2, <4>3, <4>4
    <3> HIDE DEF Frame
    <3> QED
      BY <2>c, <2>t, <3>1, <3>2
  <2>13. CASE Complete(p)
    <3>1. /\ pc[p] = "color" /\ pc'[p] = "persist"
          /\ UNCHANGED <<plan, stage, zone, taken>>
      BY <2>13, <2>t DEF Complete, StageDone, Goto, command
    <3> QED
      BY <2>c, <3>1
  <2> HIDE DEF CountedAt
  <2> QED
    BY <2>1, <2>4, <2>5, <2>6, <2>7, <2>8, <2>9, <2>10, <2>11, <2>12, <2>13
       DEF StepOf, Live, HelperStep
<1> QED
  BY <1>1, <1>2

\* Every step keeps the newest color where it can be found.
LEMMA NewestStep ==
  ASSUME TypeOK, TypeOK', Shape, Newest, [Next]_vars
  PROVE  Newest'
<1>1. CASE UNCHANGED vars
  BY <1>1 DEF vars, success, command, Newest
<1>2. CASE Next
  <2>1. PICK p \in Proc : StepOf(p)
    BY <1>2, NextIsAStep
  <2>2. \A q \in Proc \ {p} : pc'[q] = pc[q] /\ color'[q] = color[q]
    BY <2>1, OthersStand DEF Untouched
  <2>t. /\ pc \in [Proc -> {"idle", "read", "ready", "begin", "color", "persist"}]
        /\ lapsed \in BOOLEAN /\ raced \in BOOLEAN
    BY DEF TypeOK, ProcessType, HistoryType
  <2>3. CASE Complete(p)
    <3>1. /\ pc'[p] = "persist" /\ color' = color /\ latest' = color[p]
          /\ raced' = \E q \in Proc \ {p} : pc[q] = "persist"
      BY <2>3, <2>t DEF Complete, Goto, command
    <3> QED
      BY <2>2, <3>1 DEF Newest
  <2>4. CASE \/ Persist(p) \/ PersistFails(p)
             \/ Kill(p) /\ pc[p] = "persist"
    <3>1. CASE Persist(p)
      <4>1. /\ pc[p] = "persist" /\ pc'[p] = "idle" /\ file' = color[p]
            /\ UNCHANGED <<latest, lapsed, raced>>
        BY <3>1, EndClears DEF Persist, Replace, Quit, success
      <4> QED
        BY <2>2, <4>1 DEF Newest
    <3>2. CASE \/ PersistFails(p)
               \/ Kill(p) /\ pc[p] = "persist"
      BY <3>2 DEF PersistFails, Kill, Newest
    <3> QED
      BY <2>4, <3>1, <3>2
  <2>5. ASSUME pc[p] # "persist", pc'[p] # "persist",
               UNCHANGED <<file, latest, lapsed, raced>>
        PROVE  Newest'
    BY <2>2, <2>5 DEF Newest
  <2>6. CASE \/ p \in User /\ Command(p)
             \/ p \in Helper /\ (Activate(p) \/ HelperStep(p))
    <3>1. pc[p] # "persist" /\ pc'[p] # "persist"
      BY <2>6, <2>t DEF Command, Activate, HelperStep, ReadColor, Ready, NotReady,
                        Start, Run, Quit, End, Goto
    <3>2. UNCHANGED <<file, latest, lapsed, raced>>
      BY <2>6 DEF Command, Activate, HelperStep, ReadColor, Ready, NotReady, success
    <3> QED
      BY <2>5, <3>1, <3>2
  <2>7. CASE \/ Begin(p) \/ BeginFails(p) \/ ColorZone(p) \/ StageFails(p)
             \/ NextStage(p) \/ Done(p)
    <3>1. pc[p] # "persist" /\ pc'[p] # "persist"
      BY <2>7, <2>t DEF Begin, BeginFails, ColorZone, StageFails, NextStage, Done,
                        StageDone, Quit, End, Goto
    <3>2. UNCHANGED <<file, latest, lapsed, raced>>
      BY <2>7 DEF Begin, BeginFails, ColorZone, StageFails, NextStage, Done,
                  StageDone, success
    <3> QED
      BY <2>5, <3>1, <3>2
  <2>8. CASE Kill(p) /\ pc[p] # "persist"
    <3>1. pc'[p] = "idle" /\ UNCHANGED <<file, latest, raced>>
      BY <2>8, EndClears DEF Kill, Quit
    <3>2. lapsed' = lapsed
      <4>1. lapsed' = (lapsed \/ pc[p] = "persist") /\ lapsed \in BOOLEAN
        BY <2>8, <2>t DEF Kill
      <4> QED
        BY <2>8, <4>1
    <3>3. pc'[p] # "persist" /\ UNCHANGED <<file, latest, lapsed, raced>>
      BY <3>1, <3>2
    <3> QED
      BY <2>5, <2>8, <3>3
  <2> QED
    BY <2>1, <2>3, <2>4, <2>6, <2>7, <2>8 DEF StepOf, Live
<1> QED
  BY <1>1, <1>2

\* The types and the shape of a command, the record of what it colored and the
\* newest color, as one invariant.
THEOREM RecordInvariant == Spec => [](IInv /\ Counted /\ Newest)
<1>1. Init => Counted /\ Newest
  BY DEF Init, Counted, Newest
<1>2. /\ IInv /\ IInv' /\ Counted /\ Newest /\ [Next]_vars
      => Counted' /\ Newest'
  BY CountedStep, NewestStep DEF IInv
<1> QED
  BY <1>1, <1>2, Invariant, PTL DEF Spec

\* StateIsLastUnlessRaced: as long as no set-all completes while another one has
\* still to record its color, the file is the color of the last one.
THEOREM RecordsTheLast == Spec => []StateIsLastUnlessRaced
<1>1. Newest => StateIsLastUnlessRaced
  BY DEF Newest, StateIsLastUnlessRaced, Settled
<1> QED
  BY <1>1, RecordInvariant, PTL

------------------------------------------------------------------------------
(* The commands as StagedWrite sees them. *)

\* The abstract plan of Writes, as Restore computes it.
WritePlan == [p \in Proc |-> Recorded(plan[p])]

\* Only a set-all records; an ended command has nothing to write.
LEMMA RecordedPlans ==
  /\ Recorded({}) = {}
  /\ \A P \in Plans : Recorded(P) # {} /\ P \subseteq Recorded(P)
  /\ \A P \in SUBSET Stages : \A s \in Stages : s \in Recorded(P) <=> s \in P
  /\ RECORD \in Recorded(Stages) /\ Stages \in Plans
  /\ \A s \in Stages : s \in Parts /\ s < RECORD /\ s \in Nat /\ s # RECORD
  /\ RECORD \in Nat
BY DEF Recorded, Plans, Parts, Stages, KB, STATIC, POWER, RECORD

\* The steps of one process change the abstract plan of that process only.
LEMMA PlanChange ==
  ASSUME plan \in [Proc -> SUBSET Stages], NEW p \in Proc
  PROVE  /\ plan' = plan => WritePlan' = WritePlan
         /\ \A P : plan' = [plan EXCEPT ![p] = P] =>
              WritePlan' = [WritePlan EXCEPT ![p] = Recorded(P)]
         /\ WritePlan[p] = Recorded(plan[p])
<1>1. WritePlan' = [q \in Proc |-> Recorded(plan'[q])]
  BY DEF WritePlan, Recorded
<1> QED
  BY <1>1 DEF WritePlan

\* The ways a step of p can be one of StagedWrite.
LEMMA StagedSteps ==
  ASSUME NEW p \in Proc
  PROVE  /\ (WritePlan' = WritePlan /\ taken' = taken) => UNCHANGED Writes!vars
         /\ \A P \in Plans :
              (/\ WritePlan[p] = {}
               /\ WritePlan' = [WritePlan EXCEPT ![p] = Recorded(P)]
               /\ taken' = [taken EXCEPT ![p] = [s \in Parts |-> 0]]) =>
                Writes!Accept(p)
         /\ (/\ WritePlan[p] # {}
             /\ WritePlan' = [WritePlan EXCEPT ![p] = {}]
             /\ taken' = taken) =>
              Writes!End(p)
         /\ \A s \in Parts :
              (/\ Writes!Due(p, s) /\ Writes!Clear(p, s)
               /\ \/ WritePlan' = WritePlan
                  \/ WritePlan' = [WritePlan EXCEPT ![p] = {}]
               /\ taken' = [taken EXCEPT ![p][s] = @ + 1]) =>
                Writes!Take(p)
<1>1. /\ WritePlan = [q \in Proc |-> Recorded(plan[q])]
      /\ WritePlan' = [q \in Proc |-> Recorded(plan[q])]'
  BY DEF WritePlan
<1> QED
  <2> DEFINE thePlan == [q \in Proc |-> Recorded(plan[q])]
  <2>1. ASSUME WritePlan' = WritePlan, taken' = taken
        PROVE  UNCHANGED Writes!vars
    BY <1>1, <2>1 DEF Writes!vars
  <2>2. ASSUME NEW P \in Plans, WritePlan[p] = {},
               WritePlan' = [WritePlan EXCEPT ![p] = Recorded(P)],
               taken' = [taken EXCEPT ![p] = [s \in Parts |-> 0]]
        PROVE  Writes!Accept(p)
    <3>1. Recorded(P) \in {Recorded(Q) : Q \in Plans}
      OBVIOUS
    <3>2. thePlan[p] = {} /\ thePlan' = [thePlan EXCEPT ![p] = Recorded(P)]
      BY <1>1, <2>2
    <3> QED
      BY <2>2, <3>1, <3>2 DEF Writes!Accept, Writes!Running, Writes!Nothing
  <2>3. ASSUME WritePlan[p] # {}, WritePlan' = [WritePlan EXCEPT ![p] = {}],
               taken' = taken
        PROVE  Writes!End(p)
    BY <1>1, <2>3 DEF Writes!End, Writes!Running
  <2>4. ASSUME NEW s \in Parts, Writes!Due(p, s), Writes!Clear(p, s),
               \/ WritePlan' = WritePlan
               \/ WritePlan' = [WritePlan EXCEPT ![p] = {}],
               taken' = [taken EXCEPT ![p][s] = @ + 1]
        PROVE  Writes!Take(p)
    <3>1. thePlan' = thePlan \/ thePlan' = [thePlan EXCEPT ![p] = {}]
      BY <1>1, <2>4
    <3> HIDE DEF thePlan
    <3> QED
      BY <2>4, <3>1 DEF Writes!Take, thePlan
  <2> QED
    BY <2>1, <2>2, <2>3, <2>4

\* The next zone of a stage is the frame that is due, and the claim keeps every
\* other process out of the stages of the AW-ELC.
LEMMA ZoneIsDue ==
  ASSUME IInv, Counted, NEW p \in Proc, pc[p] = "color",
         zone[p] <= Zones[stage[p]]
  PROVE  /\ Writes!Due(p, stage[p]) /\ Writes!Clear(p, stage[p])
         /\ stage[p] \in Parts
         /\ taken[p][stage[p]] + 1 = zone[p]
<1>t. /\ stage[p] \in Stages /\ zone[p] \in Nat /\ plan[p] \in SUBSET Stages
      /\ stage[p] \in plan[p] /\ Zones \in [Stages -> Nat \ {0}]
      /\ plan \in [Proc -> SUBSET Stages]
  BY RestoreAssumption DEF IInv, TypeOK, CommandType, Shape
<1>1. /\ \A s \in plan[p] : s < stage[p] => taken[p][s] = Zones[s]
      /\ taken[p][stage[p]] = zone[p] - 1
  <2>1. \A s \in plan[p] : taken[p][s] = CASE s < stage[p] -> Zones[s]
                                           [] s = stage[p] -> zone[p] - 1
                                           [] OTHER -> 0
    BY DEF Counted
  <2>2. \A s \in Stages : s \in Nat /\ ~(s < s)
    BY RecordedPlans
  <2> QED
    BY <1>t, <2>1, <2>2
<1>2. WritePlan[p] = Recorded(plan[p])
  BY <1>t, PlanChange
<1>3. Writes!Due(p, stage[p])
  <2>1. stage[p] \in Recorded(plan[p])
    BY <1>t, RecordedPlans
  <2>2. ASSUME NEW r \in Recorded(plan[p]), r < stage[p]
        PROVE  r \in Stages /\ taken[p][r] = Zones[r] /\ r # RECORD
    <3>1. Recorded(plan[p]) \subseteq Stages \cup {RECORD}
      BY <1>t DEF Recorded, Parts
    <3>2. r # RECORD
      BY <1>t, <2>2, RecordedPlans
    <3> QED
      BY <1>t, <1>1, <2>2, <3>1, <3>2, RecordedPlans
  <2>3. taken[p][stage[p]] < Zones[stage[p]]
    BY <1>t, <1>1
  <2> QED
    BY <1>t, <2>1, <2>2, <2>3, RecordedPlans DEF Writes!Due
<1>4. Writes!Clear(p, stage[p])
  <2> SUFFICES ASSUME stage[p] \in {STATIC, POWER}, NEW b \in Proc \ {p},
                      NEW t \in {STATIC, POWER}, Writes!Amid(b, t)
               PROVE  FALSE
    BY DEF Writes!Clear
  <2>1. claim = p /\ t # KB /\ t \in Stages /\ t # RECORD
    BY DEF IInv, Profile, Stages, KB, STATIC, POWER, RECORD
  <2>2. plan[b] \in SUBSET Stages /\ zone[b] \in Nat /\ stage[b] \in Stages
    BY DEF IInv, TypeOK, CommandType
  <2>3. t \in plan[b] /\ taken[b][t] \in 1..(Zones[t] - 1)
    BY <2>1, <2>2, RecordedPlans DEF Writes!Amid
  <2>4. pc[b] \in {"begin", "color", "persist"}
    BY <2>3 DEF Counted
  <2>5. taken[b][t] = CASE t < stage[b] -> Zones[t]
                        [] t = stage[b] -> zone[b] - 1
                        [] OTHER -> 0
    BY <2>3, <2>4 DEF Counted
  <2>6. t = stage[b] /\ zone[b] \in 2..Zones[t]
    <3>1. Zones[t] \in Nat /\ t \in Nat /\ stage[b] \in Nat
      BY <1>t, <2>1, <2>2, RecordedPlans
    <3> QED
      BY <2>2, <2>3, <2>5, <3>1
  <2>7. pc[b] = "color"
    <3>1. zone[b] # 1 /\ zone[b] # Zones[t] + 1
      BY <1>t, <2>1, <2>6
    <3> QED
      BY <2>4, <2>6, <3>1 DEF IInv, Shape
  <2> QED
    BY <2>1, <2>6, <2>7 DEF IInv, Profile
<1> QED
  BY <1>t, <1>1, <1>3, <1>4, RecordedPlans

\* Behind a whole set-all, the replacement of the file is what is due.
LEMMA RecordIsDue ==
  ASSUME IInv, Counted, NEW p \in Proc, pc[p] = "persist"
  PROVE  Writes!Due(p, RECORD) /\ Writes!Clear(p, RECORD) /\ RECORD \in Parts
<1>t. /\ plan[p] = Stages /\ stage[p] = POWER /\ zone[p] = Zones[POWER] + 1
      /\ Zones \in [Stages -> Nat \ {0}] /\ plan \in [Proc -> SUBSET Stages]
  BY RestoreAssumption DEF IInv, TypeOK, CommandType, Shape
<1>1. /\ \A s \in Stages : taken[p][s] = CASE s < POWER -> Zones[s]
                                           [] s = POWER -> zone[p] - 1
                                           [] OTHER -> 0
      /\ taken[p][RECORD] = 0
  BY <1>t DEF Counted
<1>2. ASSUME NEW s \in Stages PROVE taken[p][s] = Zones[s]
  <2>1. s < POWER \/ s = POWER
    BY DEF Stages, KB, STATIC, POWER
  <2>2. Zones[POWER] + 1 - 1 = Zones[POWER]
    BY <1>t DEF Stages
  <2> QED
    BY <1>t, <1>1, <2>1, <2>2 DEF Stages, KB, STATIC, POWER
<1>3. \A r \in Recorded(Stages) : r < RECORD => r \in Stages /\ r # RECORD
  BY DEF Recorded, Parts, RECORD
<1> QED
  BY <1>t, <1>1, <1>2, <1>3, RecordedPlans
     DEF Writes!Due, Writes!Clear, Parts, STATIC, POWER, RECORD

\* Every step of Restore is one of StagedWrite or leaves it alone.
LEMMA StagedStep ==
  ASSUME IInv, Counted, [Next]_vars
  PROVE  [Writes!Next]_(Writes!vars)
<1>t. /\ plan \in [Proc -> SUBSET Stages] /\ taken \in [Proc -> [Parts -> Nat]]
      /\ pc \in [Proc -> {"idle", "read", "ready", "begin", "color", "persist"}]
  BY DEF IInv, TypeOK, CommandType, ProcessType, HistoryType
<1>a. ASSUME plan' = plan, taken' = taken PROVE UNCHANGED Writes!vars
  <2>1. WritePlan' = WritePlan
    BY <1>a DEF WritePlan, Recorded
  <2> QED
    BY <1>a, <2>1 DEF WritePlan, Writes!vars
<1>1. CASE UNCHANGED vars
  BY <1>1, <1>a DEF vars, command
<1>2. CASE Next
  <2>1. PICK p \in Proc : StepOf(p)
    BY <1>2, NextIsAStep
  <2> SUFFICES \/ Writes!Accept(p) \/ Writes!Take(p) \/ Writes!End(p)
               \/ UNCHANGED Writes!vars
    BY DEF Writes!Next
  <2>p. ASSUME plan' = [plan EXCEPT ![p] = {}]
        PROVE  WritePlan' = [WritePlan EXCEPT ![p] = {}]
    <3>1. WritePlan' = [q \in Proc |-> Recorded(plan'[q])]
      BY DEF WritePlan, Recorded
    <3> QED
      BY <1>t, <2>p, <3>1, RecordedPlans DEF WritePlan
  <2>e. ASSUME NEW how, End(p, how), taken' = taken
        PROVE  Writes!End(p) \/ UNCHANGED Writes!vars
    <3>1. plan' = [plan EXCEPT ![p] = {}]
      BY <2>e DEF End
    <3>2. WritePlan' = [WritePlan EXCEPT ![p] = {}]
      BY <2>p, <3>1
    <3>3. CASE WritePlan[p] = {}
      <4>1. WritePlan' = WritePlan
        BY <3>2, <3>3 DEF WritePlan
      <4> QED
        BY <2>e, <4>1, StagedSteps
    <3>4. CASE WritePlan[p] # {}
      BY <2>e, <3>2, <3>4, StagedSteps
    <3> QED
      BY <3>3, <3>4
  <2>r. ASSUME NEW c, NEW P \in Plans, Run(p, c, P), plan[p] = {}
        PROVE  Writes!Accept(p)
    <3>1. WritePlan' = [WritePlan EXCEPT ![p] = Recorded(P)] /\ WritePlan[p] = {}
      BY <1>t, <2>r, PlanChange, RecordedPlans DEF Run
    <3> QED
      BY <2>r, <3>1, StagedSteps DEF Run
  <2>2. CASE p \in User /\ Command(p)
    <3>1. PICK c \in Color, P \in Plans : Run(p, c, P)
      BY <2>2 DEF Command
    <3>2. plan[p] = {}
      BY <2>2 DEF Command, Start, Counted
    <3> QED
      BY <2>r, <3>1, <3>2
  <2>3. CASE p \in Helper /\ Ready(p)
    <3>1. Run(p, color[p], Stages) /\ plan[p] = {}
      BY <2>3 DEF Ready, Counted
    <3> QED
      BY <2>r, <3>1, RecordedPlans
  <2>4. CASE \/ p \in Helper /\ (Activate(p) \/ ReadColor(p))
             \/ Begin(p) \/ NextStage(p) \/ Complete(p)
    BY <1>a, <2>4 DEF Activate, ReadColor, Begin, NextStage, Complete, StageDone,
                      command
  <2>5. CASE p \in Helper /\ NotReady(p)
    <3>1. CASE attempt[p] < Readiness
      BY <1>a, <2>5, <3>1 DEF NotReady, command
    <3>2. CASE ~(attempt[p] < Readiness)
      BY <2>5, <2>e, <3>2 DEF NotReady, Quit
    <3> QED
      BY <3>1, <3>2
  <2>6. CASE BeginFails(p) \/ Done(p) \/ Kill(p)
    BY <2>6, <2>e DEF BeginFails, Done, StageDone, Kill, Quit
  <2>7. ASSUME pc[p] = "color", zone[p] <= Zones[stage[p]], Show(p),
               plan' = plan \/ plan' = [plan EXCEPT ![p] = {}]
        PROVE  Writes!Take(p)
    <3>1. WritePlan' = WritePlan \/ WritePlan' = [WritePlan EXCEPT ![p] = {}]
      <4>1. CASE plan' = plan
        BY <1>t, <4>1, PlanChange
      <4> QED
        BY <2>7, <2>p, <4>1
    <3>2. taken' = [taken EXCEPT ![p][stage[p]] = @ + 1]
      BY <1>t, <2>7, ZoneIsDue DEF Show
    <3> QED
      BY <2>7, <3>1, <3>2, ZoneIsDue, StagedSteps
  <2>8. CASE ColorZone(p)
    BY <2>7, <2>8 DEF ColorZone
  <2>9. CASE StageFails(p)
    <3>1. \E how : End(p, how)
      BY <2>9 DEF StageFails
    <3>2. CASE zone[p] <= Zones[stage[p]] /\ Show(p)
      BY <2>7, <2>9, <3>2 DEF StageFails, End
    <3>3. CASE UNCHANGED <<lights, taken>>
      BY <2>e, <3>1, <3>3
    <3> QED
      BY <2>9, <3>2, <3>3 DEF StageFails
  <2>10. CASE Persist(p) \/ PersistFails(p)
    <3>1. pc[p] = "persist" /\ \E how : End(p, how)
      BY <2>10 DEF Persist, PersistFails, Quit
    <3>2. CASE Replace(p)
      <4>1. WritePlan' = [WritePlan EXCEPT ![p] = {}]
        BY <2>p, <3>1 DEF End
      <4>2. taken' = [taken EXCEPT ![p][RECORD] = @ + 1]
        BY <3>2 DEF Replace
      <4> QED
        BY <3>1, <4>1, <4>2, RecordIsDue, StagedSteps
    <3>3. CASE UNCHANGED <<file, taken>>
      BY <2>e, <3>1, <3>3
    <3> QED
      BY <2>10, <3>2, <3>3 DEF Persist, PersistFails
  <2> QED
    BY <2>1, <2>2, <2>3, <2>4, <2>5, <2>6, <2>8, <2>9, <2>10
       DEF StepOf, Live, HelperStep
<1> QED
  BY <1>1, <1>2

\* StagedWrites: the commands of all processes write as StagedWrite says, the
\* file last, whatever fails and whoever is killed.
THEOREM ImplementsStagedWrite == Spec => StagedWrites
<1>1. Init => Writes!Init
  BY RecordedPlans DEF Init, Writes!Init, Writes!Nothing
<1>2. IInv /\ Counted /\ [Next]_vars => [Writes!Next]_(Writes!vars)
  BY StagedStep
<1> QED
  BY <1>1, <1>2, RecordInvariant, PTL DEF Spec, StagedWrites, Writes!Spec

------------------------------------------------------------------------------
(* The number of steps of a process. *)

StepsCounted == \A p \in Proc : StepsLeft(p) \in 0..(StepsOfAll + Readiness + 2)

\* The stages are three, each of at least three steps.
LEMMA StepsOfStages ==
  /\ \A s \in Stages : StepsOf(s) = Zones[s] + 2 /\ Zones[s] \in Nat \ {0}
  /\ StepsOf(KB) \in Nat /\ StepsOf(STATIC) \in Nat /\ StepsOf(POWER) \in Nat
  /\ StepsOfAll \in Nat /\ Readiness \in Nat
BY RestoreAssumption DEF StepsOf, StepsOfAll, Stages

\* The stages behind the one a process is in.
LEMMA StepsAhead ==
  ASSUME NEW p \in Proc, stage[p] \in Stages
  PROVE  /\ StepsBehind(p) \in Nat
         /\ StepsBehind(p) + StepsOf(stage[p]) + 1 <= StepsOfAll
         /\ (stage[p] = KB /\ STATIC \in plan[p]) =>
              StepsBehind(p) = StepsOf(STATIC)
                               + (IF POWER \in plan[p] THEN StepsOf(POWER) ELSE 0)
         /\ stage[p] = STATIC =>
              StepsBehind(p) = IF POWER \in plan[p] THEN StepsOf(POWER) ELSE 0
         /\ stage[p] = POWER => StepsBehind(p) = 0
<1>1. StepsOf(KB) \in Nat /\ StepsOf(STATIC) \in Nat /\ StepsOf(POWER) \in Nat
  BY StepsOfStages
<1>2. StepsOfAll = StepsOf(KB) + StepsOf(STATIC) + StepsOf(POWER) + 1
  BY DEF StepsOfAll
<1>3. CASE stage[p] = KB
  BY <1>1, <1>2, <1>3 DEF StepsBehind, KB, STATIC, POWER
<1>4. CASE stage[p] = STATIC
  BY <1>1, <1>2, <1>4 DEF StepsBehind, KB, STATIC, POWER
<1>5. CASE stage[p] = POWER
  BY <1>1, <1>2, <1>5 DEF StepsBehind, KB, STATIC, POWER
<1> QED
  BY <1>3, <1>4, <1>5 DEF Stages

\* The steps left are a number, none for a process that is idle.
LEMMA StepsLeftRange ==
  ASSUME TypeOK
  PROVE  /\ StepsCounted
         /\ \A p \in Proc : StepsLeft(p) \in Nat
         /\ \A p \in Proc : pc[p] = "idle" => StepsLeft(p) = 0
<1>1. StepsOfAll \in Nat /\ Readiness \in Nat
  BY StepsOfStages
<1>2. ASSUME NEW p \in Proc
      PROVE  /\ StepsLeft(p) \in 0..(StepsOfAll + Readiness + 2)
             /\ pc[p] = "idle" => StepsLeft(p) = 0
  <2>1. /\ pc[p] \in {"idle", "read", "ready", "begin", "color", "persist"}
        /\ attempt[p] \in 0..Readiness /\ stage[p] \in Stages
        /\ zone[p] \in 1..(Zones[stage[p]] + 1)
    BY DEF TypeOK, CommandType, ProcessType
  <2>2. /\ StepsBehind(p) \in Nat
        /\ StepsBehind(p) + StepsOf(stage[p]) + 1 <= StepsOfAll
        /\ StepsOf(stage[p]) = Zones[stage[p]] + 2 /\ Zones[stage[p]] \in Nat
    BY <2>1, StepsAhead, StepsOfStages
  <2>3. CASE pc[p] \in {"idle", "persist"}
    BY <1>1, <2>3 DEF StepsLeft
  <2>4. CASE pc[p] \in {"read", "ready"}
    BY <1>1, <2>1, <2>4 DEF StepsLeft
  <2>5. CASE pc[p] \in {"begin", "color"}
    BY <1>1, <2>1, <2>2, <2>5 DEF StepsLeft
  <2> QED
    BY <2>1, <2>3, <2>4, <2>5
<1>3. \A p \in Proc : StepsLeft(p) \in Nat
  BY <1>1, <1>2
<1> QED
  BY <1>2, <1>3 DEF StepsCounted

\* A step that ends the command leaves none.
LEMMA EndCounts ==
  ASSUME TypeOK, NEW p \in Proc, NEW how, End(p, how), pc[p] # "idle"
  PROVE  StepsLeft(p)' = 0 /\ StepsLeft(p) > 0
<1>1. StepsLeft(p)' = 0
  BY EndClears DEF StepsLeft
<1>2. /\ pc[p] \in {"read", "ready", "begin", "color", "persist"}
      /\ attempt[p] \in 0..Readiness /\ stage[p] \in Stages
      /\ zone[p] \in 1..(Zones[stage[p]] + 1)
  BY DEF TypeOK, CommandType, ProcessType
<1>3. /\ StepsBehind(p) \in Nat /\ StepsOfAll \in Nat /\ Readiness \in Nat
      /\ StepsOf(stage[p]) = Zones[stage[p]] + 2 /\ Zones[stage[p]] \in Nat
  BY <1>2, StepsAhead, StepsOfStages
<1>4. StepsLeft(p) > 0
  <2>1. CASE pc[p] = "persist"
    BY <2>1 DEF StepsLeft
  <2>2. CASE pc[p] \in {"read", "ready"}
    BY <1>2, <1>3, <2>2 DEF StepsLeft
  <2>3. CASE pc[p] \in {"begin", "color"}
    BY <1>2, <1>3, <2>3 DEF StepsLeft
  <2> QED
    BY <1>2, <2>1, <2>2, <2>3
<1> QED
  BY <1>1, <1>4

\* A step a process makes is one it does not have to make any more.
LEMMA StepCounts ==
  ASSUME TypeOK, Shape, NEW p \in Proc, Live(p) \/ HelperStep(p)
  PROVE  StepsLeft(p)' < StepsLeft(p)
<1>t. /\ pc \in [Proc -> {"idle", "read", "ready", "begin", "color", "persist"}]
      /\ attempt \in [Proc -> 0..Readiness] /\ stage \in [Proc -> Stages]
      /\ zone \in [Proc -> Nat] /\ plan \in [Proc -> SUBSET Stages]
      /\ stage[p] \in Stages /\ zone[p] \in Nat
      /\ zone[p] \in 1..(Zones[stage[p]] + 1)
  BY DEF TypeOK, CommandType, ProcessType
<1>s. /\ StepsBehind(p) \in Nat /\ StepsOfAll \in Nat /\ Readiness \in Nat
      /\ StepsOf(stage[p]) = Zones[stage[p]] + 2 /\ Zones[stage[p]] \in Nat
  BY <1>t, StepsAhead, StepsOfStages
<1>u. (stage'[p] = stage[p] /\ plan'[p] = plan[p]) => StepsBehind(p)' = StepsBehind(p)
  BY DEF StepsBehind
<1>e. ASSUME NEW how, End(p, how), pc[p] # "idle"
      PROVE  StepsLeft(p)' < StepsLeft(p)
  BY <1>e, EndCounts
<1>1. CASE ReadColor(p)
  <2>1. pc[p] = "read" /\ pc'[p] = "ready" /\ attempt'[p] = 1
    BY <1>1, <1>t DEF ReadColor, Goto
  <2> QED
    BY <1>s, <2>1 DEF StepsLeft
<1>2. CASE Ready(p)
  <2>1. /\ pc[p] = "ready" /\ pc'[p] = "begin" /\ attempt[p] \in 0..Readiness
        /\ stage'[p] = First(Stages) /\ plan'[p] = Stages
    BY <1>2, <1>t DEF Ready, Run, Goto
  <2>2. stage'[p] \in Stages
    BY <2>1, FirstStage DEF Plans
  <2>3. StepsBehind(p)' + StepsOf(stage'[p]) + 1 <= StepsOfAll
    <3>1. /\ \A s \in Stages : StepsOf(s) \in Nat
          /\ StepsOfAll = StepsOf(KB) + StepsOf(STATIC) + StepsOf(POWER) + 1
      BY StepsOfStages DEF StepsOfAll, Stages
    <3>2. StepsBehind(p)' =
            (IF stage'[p] < STATIC THEN StepsOf(STATIC) ELSE 0)
            + (IF stage'[p] < POWER THEN StepsOf(POWER) ELSE 0)
      BY <2>1 DEF StepsBehind, Stages
    <3>3. stage'[p] \in {KB, STATIC, POWER}
      BY <2>2 DEF Stages
    <3> QED
      BY <3>1, <3>2, <3>3 DEF Stages, KB, STATIC, POWER
  <2>4. StepsLeft(p)' = StepsBehind(p)' + StepsOf(stage'[p]) + 1
    BY <2>1 DEF StepsLeft, StepsOf
  <2>5. StepsLeft(p) = StepsOfAll + (Readiness - attempt[p]) + 1
    BY <2>1 DEF StepsLeft
  <2>6. StepsLeft(p)' <= StepsOfAll
    BY <2>3, <2>4
  <2>7. StepsOfAll < StepsLeft(p)
    BY <1>s, <2>1, <2>5
  <2>8. StepsLeft(p)' \in Nat
    <3>1. StepsBehind(p)' \in Nat
      BY StepsOfStages DEF StepsBehind
    <3>2. StepsOf(stage'[p]) \in Nat
      BY <2>2, StepsOfStages
    <3> QED
      BY <2>4, <3>1, <3>2
  <2> QED
    BY <1>s, <2>1, <2>5, <2>6, <2>7, <2>8
<1>3. CASE NotReady(p)
  <2>1. CASE attempt[p] < Readiness
    <3>1. /\ pc[p] = "ready" /\ pc'[p] = "ready" /\ attempt[p] \in 0..Readiness
          /\ attempt'[p] = attempt[p] + 1
      BY <1>3, <1>t, <2>1 DEF NotReady
    <3> QED
      BY <1>s, <3>1 DEF StepsLeft
  <2>2. CASE ~(attempt[p] < Readiness)
    BY <1>3, <1>e, <2>2 DEF NotReady, Quit
  <2> QED
    BY <2>1, <2>2
<1>4. CASE Begin(p)
  <2>1. /\ pc[p] = "begin" /\ pc'[p] = "color" /\ zone[p] = 1
        /\ stage'[p] = stage[p] /\ zone'[p] = zone[p] /\ plan'[p] = plan[p]
    BY <1>4, <1>t DEF Begin, Goto, command, Shape
  <2> QED
    BY <1>s, <1>u, <2>1 DEF StepsLeft
<1>5. CASE ColorZone(p)
  <2>1. /\ pc[p] = "color" /\ pc'[p] = "color" /\ stage'[p] = stage[p]
        /\ zone'[p] = zone[p] + 1 /\ plan'[p] = plan[p]
    BY <1>5, <1>t DEF ColorZone
  <2> QED
    BY <1>s, <1>t, <1>u, <2>1 DEF StepsLeft
<1>6. CASE NextStage(p)
  <2>1. /\ pc[p] = "color" /\ pc'[p] = "begin" /\ zone[p] = Zones[stage[p]] + 1
        /\ stage'[p] = stage[p] + 1 /\ plan'[p] = plan[p]
        /\ stage[p] + 1 \in plan[p] /\ stage[p] + 1 \in Stages
    BY <1>6, <1>t DEF NextStage, StageDone, Goto
  <2>2. StepsLeft(p) = StepsBehind(p) + 2
    BY <1>s, <2>1 DEF StepsLeft
  <2>3. StepsLeft(p)' = StepsBehind(p)' + StepsOf(stage[p] + 1) + 1
    BY <2>1 DEF StepsLeft, StepsOf
  <2>4. StepsBehind(p) = StepsBehind(p)' + StepsOf(stage[p] + 1)
    <3>1. StepsOf(STATIC) \in Nat /\ StepsOf(POWER) \in Nat
      BY StepsOfStages
    <3>2. stage[p] \in {1, 2} /\ (stage[p] = 1 => 2 \in plan[p])
          /\ (stage[p] = 2 => 3 \in plan[p])
      BY <1>t, <2>1 DEF Stages, KB, STATIC, POWER
    <3>3. CASE stage[p] = 1
      BY <2>1, <3>1, <3>2, <3>3 DEF StepsBehind, STATIC, POWER
    <3>4. CASE stage[p] = 2
      BY <2>1, <3>1, <3>2, <3>4 DEF StepsBehind, STATIC, POWER
    <3> QED
      BY <3>2, <3>3, <3>4
  <2> QED
    BY <1>s, <2>2, <2>3, <2>4
<1>7. CASE Complete(p)
  <2>1. pc[p] = "color" /\ pc'[p] = "persist" /\ zone[p] = Zones[stage[p]] + 1
    BY <1>7, <1>t DEF Complete, StageDone, Goto
  <2> QED
    BY <1>s, <2>1 DEF StepsLeft
<1>8. CASE BeginFails(p) \/ StageFails(p) \/ Done(p) \/ Persist(p) \/ PersistFails(p)
  BY <1>8, <1>e DEF BeginFails, StageFails, Done, StageDone, Persist, PersistFails,
                    Quit
<1> QED
  BY <1>1, <1>2, <1>3, <1>4, <1>5, <1>6, <1>7, <1>8 DEF Live, HelperStep

\* CommandBounded: a process that runs has at most as many steps left as three
\* stages, the record and the readiness checks have, and nothing any process
\* does gives it another.
THEOREM BoundedCommands == Spec => []StepsCounted /\ CommandBounded
<1> DEFINE Bounded ==
      \A p \in Proc : pc[p] # "idle" =>
        /\ StepsLeft(p)' <= StepsLeft(p)
        /\ Live(p) \/ HelperStep(p) => StepsLeft(p)' < StepsLeft(p)
<1>1. TypeOK => StepsCounted
  BY StepsLeftRange
<1>2. TypeOK /\ TypeOK' /\ Shape /\ [Next]_vars => [Bounded]_vars
  <2> SUFFICES ASSUME TypeOK, TypeOK', Shape, Next, NEW q \in Proc, pc[q] # "idle"
               PROVE  /\ StepsLeft(q)' <= StepsLeft(q)
                      /\ Live(q) \/ HelperStep(q) => StepsLeft(q)' < StepsLeft(q)
    OBVIOUS
  <2>0. StepsLeft(q) \in Nat /\ StepsLeft(q)' \in Nat
    <3>1. \A p \in Proc : StepsLeft(p) \in Nat
      BY StepsLeftRange
    <3>2. (\A p \in Proc : StepsLeft(p) \in Nat)'
      BY StepsLeftRange, PTL
    <3> QED
      BY <3>1, <3>2
  <2>1. Live(q) \/ HelperStep(q) => StepsLeft(q)' < StepsLeft(q)
    BY StepCounts
  <2>2. PICK p \in Proc : StepOf(p)
    BY NextIsAStep
  <2>3. CASE p = q
    <3>1. CASE Live(q) \/ HelperStep(q)
      BY <2>0, <2>1, <3>1
    <3>2. CASE Kill(q)
      BY <2>0, <2>1, <3>2, EndCounts DEF Kill, Quit
    <3>3. ~Command(q) /\ ~Activate(q)
      BY DEF Command, Activate, Start
    <3> QED
      BY <2>2, <2>3, <3>1, <3>2, <3>3 DEF StepOf
  <2>4. CASE p # q
    <3>1. Untouched(q)
      BY <2>2, <2>4, OthersStand
    <3>2. StepsLeft(q)' = StepsLeft(q)
      BY <3>1 DEF Untouched, StepsLeft, StepsBehind
    <3> QED
      BY <2>0, <2>1, <3>2
  <2> QED
    BY <2>3, <2>4
<1>3. IInv => TypeOK /\ Shape
  BY DEF IInv
<1> QED
  BY <1>1, <1>2, <1>3, Invariant, PTL DEF Spec, CommandBounded

================================================================================
