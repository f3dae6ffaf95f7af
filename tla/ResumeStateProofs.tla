-------------------------- MODULE ResumeStateProofs --------------------------
(***************************************************************************)
(* The safety of ResumeState for every set of writers and every bound: no  *)
(* torn file, acknowledged versions survive, temporary files accounted     *)
(* for, the helper reads whole versions, and the file is a ColorRegister.  *)
(***************************************************************************)
EXTENDS ResumeState, TLAPS

\* A call works in a directory, and leaves no temporary file unexcused.
Temps ==
  \A w \in Writer :
    /\ dir = "none" => pc[w] \in {"idle", "ensure"}
    /\ pc[w] = "idle" /\ temp[w] # "none" => excused[w]

\* The target is the newest of the versions in play, and its file is there for
\* a helper that is halfway.
Versions ==
  /\ target \in onDisk
  /\ dir = "none" => onDisk = {0}
  /\ \A v \in onDisk : v <= target
  /\ \A w \in Writer : mine[w] <= target
  /\ reader # "idle" \/ found = "color" => target >= since /\ target > 0

IInv ==
  /\ TypeOK
  /\ Temps
  /\ Versions
  /\ NeverTorn
  /\ DurableOnceAcked
  /\ found # "invalid"

\* IInv is inductive: the facts about temporary files and versions that the
\* named properties need of each other.
THEOREM Invariant == Spec => []IInv
<1> USE ResumeAssumption
<1>1. Init => IInv
  BY DEF Init, IInv, TypeOK, TempHolds, Temps, Versions, NeverTorn, DurableOnceAcked,
         Version, Data, Calls
<1>2. IInv /\ [Next]_vars => IInv'
  <2> SUFFICES ASSUME IInv, [Next]_vars PROVE IInv'
    OBVIOUS
  <2> USE DEF IInv, TypeOK, TempHolds, Temps, Versions, NeverTorn,
              DurableOnceAcked, Version, Data, Calls, disk, call, helper, Goto, End
  <2>0. 0 \in 0..clock /\ clock \in Nat
    OBVIOUS
  <2>1. CASE UNCHANGED vars
    BY <2>1 DEF vars
  <2>16. ASSUME NEW w \in Writer, NEW code \in {"ok", "err", "unsynced", "killed"},
                End(w, code)
         PROVE  /\ pc' = [pc EXCEPT ![w] = "idle"]
                /\ pc' \in [Writer -> Calls]
                /\ result' \in
                     [Writer -> {"none", "ok", "err", "unsynced", "killed"}]
    BY <2>0, <2>16
  <2>2. ASSUME NEW w \in Writer, Persist(w) PROVE IInv'
    <3>1. CASE End(w, "err")
      <4>1. /\ pc' = [pc EXCEPT ![w] = "idle"]
            /\ pc' \in [Writer -> Calls]
            /\ result' \in
                 [Writer -> {"none", "ok", "err", "unsynced", "killed"}]
        BY <3>1, <2>16
      <4>2. TypeOK'
        BY <2>2, <4>1 DEF Persist
      <4>3. Temps'
        BY <2>2, <4>1 DEF Persist
      <4> QED
        BY <2>2, <4>1, <4>2, <4>3 DEF Persist
    <3>2. CASE Goto(w, "ensure") /\ result' = [result EXCEPT ![w] = "none"]
      BY <2>2, <3>2 DEF Persist
    <3> QED
      BY <2>2, <3>1, <3>2 DEF Persist
  <2>3. ASSUME NEW w \in Writer, EnsureDirectory(w) PROVE IInv'
    <3>1. CASE End(w, "err")
      <4>1. /\ pc' = [pc EXCEPT ![w] = "idle"]
            /\ pc' \in [Writer -> Calls]
            /\ result' \in
                 [Writer -> {"none", "ok", "err", "unsynced", "killed"}]
        BY <3>1, <2>16
      <4>2. dir' \in {"none", "volatile", "durable"} /\ (dir' = "none" => dir = "none")
        BY <2>3 DEF EnsureDirectory
      <4>3. TypeOK'
        BY <2>3, <4>1, <4>2 DEF EnsureDirectory
      <4>4. Temps'
        BY <2>3, <4>1, <4>2 DEF EnsureDirectory
      <4> QED
        BY <2>3, <4>1, <4>2, <4>3, <4>4 DEF EnsureDirectory
    <3>2. CASE dir' # "none" /\ Goto(w, "write") /\ UNCHANGED result
      BY <2>3, <3>2 DEF EnsureDirectory
    <3> QED
      BY <2>3, <3>1, <3>2 DEF EnsureDirectory
  <2>4. ASSUME NEW w \in Writer, WriteTemp(w) PROVE IInv'
    <3>1. PICK data \in Data \cup {"none"}, step \in {"chmod", "remove"} :
            /\ step = "chmod" => data = "unsynced"
            /\ temp' = [temp EXCEPT ![w] = data]
            /\ pc' = [pc EXCEPT ![w] = step]
            /\ UNCHANGED <<disk, mine, result, excused, acked, losses, helper>>
            /\ pc[w] = "write"
      BY <2>4 DEF WriteTemp
    <3>2. TypeOK'
      BY <3>1
    <3>3. Temps'
      BY <3>1
    <3> QED
      BY <3>1, <3>2, <3>3
  <2>5. ASSUME NEW w \in Writer, SetPermissions(w) PROVE IInv'
    BY SMTT(30), <2>5 DEF SetPermissions
  <2>6. ASSUME NEW w \in Writer, SyncTemp(w) PROVE IInv'
    <3>0. TempHolds'
      BY <2>6 DEF SyncTemp
    <3>1. TypeOK'
      <4> HIDE DEF TempHolds
      <4> QED
        BY <2>6, <3>0 DEF SyncTemp
    <3>2. Temps'
      BY <2>6 DEF SyncTemp
    <3> QED
      BY <2>6, <3>1, <3>2 DEF SyncTemp
  <2>7. ASSUME NEW w \in Writer, Rename(w) PROVE IInv'
    <3>1. temp[w] = "synced" /\ clock + 1 \in Version
      BY <2>7 DEF Rename
    <3>2. TypeOK'
      BY <2>7, <3>1 DEF Rename
    <3>3. Temps'
      BY <2>7 DEF Rename
    <3>4. Versions' /\ DurableOnceAcked' /\ (found # "invalid")'
      BY <2>7, <3>1 DEF Rename
    <3>5. NeverTorn'
      BY <2>7, <3>1 DEF Rename
    <3> QED
      BY <3>2, <3>3, <3>4, <3>5
  <2>8. ASSUME NEW w \in Writer, RenameFails(w) PROVE IInv'
    <3>1. TypeOK'
      BY <2>8 DEF RenameFails
    <3>2. Temps'
      BY <2>8 DEF RenameFails
    <3> QED
      BY <2>8, <3>1, <3>2 DEF RenameFails
  <2>9. ASSUME NEW w \in Writer, RemoveTemp(w) PROVE IInv'
    <3>0. TempHolds'
      BY <2>9 DEF RemoveTemp
    <3>1. TypeOK'
      <4> HIDE DEF TempHolds
      <4> QED
        BY <2>9, <3>0, <2>16 DEF RemoveTemp
    <3>2. Temps'
      BY <2>9 DEF RemoveTemp
    <3>3. Versions' /\ NeverTorn' /\ DurableOnceAcked' /\ (found # "invalid")'
      BY <2>9 DEF RemoveTemp
    <3> QED
      BY <3>1, <3>2, <3>3
  <2>10. ASSUME NEW w \in Writer, SyncDirectory(w) PROVE IInv'
    BY <2>10 DEF SyncDirectory
  <2>11. ASSUME NEW w \in Writer, SyncDirectoryFails(w) PROVE IInv'
    <3>1. TypeOK'
      BY <2>11, <2>16 DEF SyncDirectoryFails
    <3>2. Temps'
      BY <2>11 DEF SyncDirectoryFails
    <3> QED
      BY <2>11, <3>1, <3>2 DEF SyncDirectoryFails
  <2>12. ASSUME NEW w \in Writer, Kill(w) PROVE IInv'
    <3>1. TypeOK'
      <4>1. temp' \in [Writer -> Data \cup {"none"}]
        BY ZenonT(60), <2>12 DEF Kill
      <4>2. TempHolds'
        BY <2>12 DEF Kill
      <4> HIDE DEF TempHolds
      <4> QED
        BY <2>12, <4>1, <4>2, <2>16 DEF Kill
    <3>2. Temps'
      BY <2>12 DEF Kill
    <3>3. Versions' /\ NeverTorn' /\ DurableOnceAcked' /\ (found # "invalid")'
      BY <2>12 DEF Kill
    <3> QED
      BY <3>1, <3>2, <3>3
  <2>13. ASSUME Flush PROVE IInv'
    BY <2>13 DEF Flush
  <2>14. ASSUME PowerLoss PROVE IInv'
    <3>1. target' \in onDisk \cup {0} /\ onDisk' = {target'} /\ clock' = clock
      BY <2>14 DEF PowerLoss
    <3>2. /\ target' \in 0..clock
          /\ target' # 0 => contents[target'] = "synced"
      BY <3>1
    <3>3. contents' \in [Version -> Data] /\ losses' \in 0..MaxLosses
      BY <2>14 DEF PowerLoss
    <3>4. target' # 0 => contents'[target'] = "synced"
      BY <2>14, <3>2 DEF PowerLoss
    <3>5. acked' \in 0..clock /\ acked' <= target'
      <4>1. CASE target' \in onDisk /\ acked' = acked
        BY <4>1
      <4>2. CASE target' = 0 /\ acked' = 0
        BY <4>2, <2>0
      <4> QED
        BY <2>14, <4>1, <4>2 DEF PowerLoss
    <3>6. /\ pc' = [w \in Writer |-> "idle"]
          /\ mine' = [w \in Writer |-> 0]
          /\ temp' = [w \in Writer |-> "none"]
          /\ excused' = [w \in Writer |-> FALSE]
          /\ result' \in [Writer -> {"none", "ok", "err", "unsynced", "killed"}]
          /\ dir' \in {"none", "volatile", "durable"}
          /\ reader' = "idle" /\ since' = 0 /\ found' = "none"
      BY <2>14 DEF PowerLoss
    <3>7. TypeOK'
      BY <3>1, <3>2, <3>3, <3>5, <3>6
    <3>8. Temps' /\ (found # "invalid")'
      BY <3>6
    <3>9. dir' = "none" => target' = 0
      BY <2>14 DEF PowerLoss
    <3>10. Versions' /\ NeverTorn' /\ DurableOnceAcked'
      BY <3>1, <3>2, <3>4, <3>5, <3>6, <3>9
    <3> QED
      BY <3>7, <3>8, <3>10
  <2>15. ASSUME HelperLooks \/ HelperCounts \/ HelperReads PROVE IInv'
    <3>1. target > 0 => Readable
      BY DEF Readable
    <3>2. CASE HelperLooks
      BY <3>2 DEF HelperLooks
    <3>3. CASE HelperCounts
      BY <3>1, <3>3 DEF HelperCounts
    <3>4. CASE HelperReads
      BY <3>1, <3>4 DEF HelperReads
    <3> QED
      BY <2>15, <3>2, <3>3, <3>4
  <2> QED
    BY <2>1, <2>2, <2>3, <2>4, <2>5, <2>6, <2>7, <2>8, <2>9, <2>10, <2>11,
       <2>12, <2>13, <2>14, <2>15 DEF Next, Step
<1> QED
  BY <1>1, <1>2, PTL DEF Spec

\* TypeOK in every reachable state.
THEOREM TypeCorrect == Spec => []TypeOK
<1>1. IInv => TypeOK
  BY DEF IInv
<1> QED
  BY <1>1, Invariant, PTL

\* NeverTorn: a reader and a restart find whole files only.
THEOREM AlwaysWhole == Spec => []NeverTorn
<1>1. IInv => NeverTorn
  BY DEF IInv
<1> QED
  BY <1>1, Invariant, PTL

\* DurableOnceAcked: what was acknowledged survives a power loss.
THEOREM AckedSurvives == Spec => []DurableOnceAcked
<1>1. IInv => DurableOnceAcked
  BY DEF IInv
<1> QED
  BY <1>1, Invariant, PTL

\* TempsAccounted: no temporary file stays behind silently.
THEOREM NoLitter == Spec => []TempsAccounted
<1>1. IInv => TempsAccounted
  BY DEF IInv, Temps, TempsAccounted
<1> QED
  BY <1>1, Invariant, PTL

\* What a call reports, and the version it made, at each of its steps.
Outcomes ==
  \A w \in Writer :
    /\ pc[w] # "idle" => result[w] = "none"
    /\ pc[w] \notin {"idle", "syncdir"} => mine[w] = 0
    /\ pc[w] = "syncdir" => mine[w] \in 1..target

\* ErrorsTell: only the error of the directory sync comes behind a replacement.
THEOREM ErrorsAlwaysTell == Spec => []ErrorsTell
<1> USE ResumeAssumption
<1>1. Init => Outcomes /\ ErrorsTell
  BY DEF Init, Outcomes, ErrorsTell
<1>2. IInv /\ Outcomes /\ ErrorsTell /\ [Next]_vars => Outcomes' /\ ErrorsTell'
  <2> SUFFICES ASSUME IInv, Outcomes, ErrorsTell, [Next]_vars
               PROVE  Outcomes' /\ ErrorsTell'
    OBVIOUS
  <2>0. /\ clock \in Nat /\ target \in 0..clock
        /\ mine \in [Writer -> 0..clock]
        /\ pc \in [Writer -> Calls] /\ result \in
             [Writer -> {"none", "ok", "err", "unsynced", "killed"}]
    BY DEF IInv, TypeOK
  <2> USE DEF Outcomes, ErrorsTell, disk, call, helper, Goto, End
  <2>1. CASE UNCHANGED vars
    BY <2>1 DEF vars
  <2>2. ASSUME NEW w \in Writer, Step(w) PROVE Outcomes' /\ ErrorsTell'
    <3>1. CASE Persist(w)
      BY <2>0, <3>1 DEF Persist
    <3>2. CASE EnsureDirectory(w)
      BY <2>0, <3>2 DEF EnsureDirectory
    <3>3. CASE WriteTemp(w)
      BY <2>0, <3>3 DEF WriteTemp
    <3>4. CASE SetPermissions(w) \/ SyncTemp(w) \/ RenameFails(w)
      BY <2>0, <3>4 DEF SetPermissions, SyncTemp, RenameFails
    <3>5. CASE Rename(w)
      BY <2>0, <3>5 DEF Rename
    <3>6. CASE RemoveTemp(w)
      BY <2>0, <3>6 DEF RemoveTemp
    <3>7. CASE SyncDirectory(w) \/ SyncDirectoryFails(w)
      BY <2>0, <3>7 DEF SyncDirectory, SyncDirectoryFails
    <3>8. CASE Kill(w)
      BY <2>0, <3>8 DEF Kill
    <3> QED
      BY <2>2, <3>1, <3>2, <3>3, <3>4, <3>5, <3>6, <3>7, <3>8 DEF Step
  <2>3. CASE Flush \/ HelperLooks \/ HelperCounts \/ HelperReads
    BY <2>3 DEF Flush, HelperLooks, HelperCounts, HelperReads
  <2>4. CASE PowerLoss
    BY <2>4 DEF PowerLoss
  <2> QED
    BY <2>1, <2>2, <2>3, <2>4 DEF Next
<1> QED
  BY <1>1, <1>2, Invariant, PTL DEF Spec

\* HelperReadsWhole: the helper's opens are safe against every writer.
THEOREM HelperIsSafe == Spec => []HelperReadsWhole
<1>1. IInv => HelperReadsWhole
  BY DEF IInv, Versions, HelperReadsWhole
<1> QED
  BY <1>1, Invariant, PTL

\* IsRegister: every step of the file is a step of the register or a stutter.
THEOREM ImplementsRegister == Spec => IsRegister
<1> USE ResumeAssumption
<1> DEFINE safe == onDisk \cup IF dir = "volatile" THEN {0} ELSE {}
<1>1. Init => Register!Init
  BY DEF Init, Register!Init
<1>2. IInv /\ [Next]_vars => [Register!Next]_(Register!vars)
  <2> SUFFICES ASSUME IInv, [Next]_vars
               PROVE  Register!Next \/ UNCHANGED <<target, safe>>
    BY DEF Register!vars
  <2> USE DEF disk, call, helper
  <2>1. target \in onDisk /\ target \in Nat /\ target \in 0..clock
    BY DEF IInv, TypeOK, Versions
  <2>2. CASE UNCHANGED vars
    BY <2>2 DEF vars
  <2>3. ASSUME NEW w \in Writer, EnsureDirectory(w), dir' # dir
        PROVE  UNCHANGED <<target, safe>>
    <3>1. /\ dir = "none" /\ dir' = "volatile" /\ UNCHANGED <<target, onDisk>>
          /\ onDisk = {0}
      BY <2>3 DEF EnsureDirectory, IInv, Versions
    <3> QED
      BY <3>1
  <2>4. ASSUME NEW w \in Writer, Rename(w) PROVE Register!Put
    <3>1. /\ target' = clock + 1 /\ onDisk' = onDisk \cup {clock + 1}
          /\ dir' = dir
      BY <2>4 DEF Rename
    <3>2. clock \in Nat /\ \A v \in safe : v \in 0..clock
      BY DEF IInv, TypeOK
    <3>3. safe' = safe \cup {target'}
      BY <3>1
    <3> QED
      BY <3>1, <3>2, <3>3 DEF Register!Put
  <2>5. ASSUME onDisk' = {target}, target' = target,
               dir' = dir \/ dir' = "durable"
        PROVE  Register!Settle
    BY <2>1, <2>5 DEF Register!Settle
  <2>6. ASSUME PowerLoss PROVE Register!Lose
    <3>1. onDisk' = {target'} /\ dir' # "volatile"
      BY <2>6 DEF PowerLoss, IInv, TypeOK
    <3>2. target' \in safe
      BY <2>6 DEF PowerLoss
    <3> QED
      BY <3>1, <3>2 DEF Register!Lose
  <2>7. ASSUME UNCHANGED <<dir, target, onDisk>> PROVE UNCHANGED <<target, safe>>
    BY <2>7
  <2>8. ASSUME NEW w \in Writer, Step(w)
        PROVE  Register!Next \/ UNCHANGED <<target, safe>>
    <3>1. CASE EnsureDirectory(w)
      BY <2>3, <2>7, <3>1 DEF EnsureDirectory
    <3>2. CASE Rename(w)
      BY <2>4, <3>2 DEF Register!Next
    <3>3. CASE SyncDirectory(w)
      BY <2>5, <3>3 DEF SyncDirectory, Register!Next
    <3>4. CASE Persist(w) \/ WriteTemp(w) \/ SetPermissions(w) \/ SyncTemp(w)
                 \/ RenameFails(w) \/ RemoveTemp(w) \/ SyncDirectoryFails(w)
                 \/ Kill(w)
      BY <2>7, <3>4 DEF Persist, WriteTemp, SetPermissions, SyncTemp,
                        RenameFails, RemoveTemp, SyncDirectoryFails, Kill
    <3> QED
      BY <2>8, <3>1, <3>2, <3>3, <3>4 DEF Step
  <2>9. CASE Flush
    BY <2>5, <2>9 DEF Flush, Register!Next
  <2>10. CASE HelperLooks \/ HelperCounts \/ HelperReads
    BY <2>7, <2>10 DEF HelperLooks, HelperCounts, HelperReads
  <2> QED
    BY <2>2, <2>6, <2>8, <2>9, <2>10 DEF Next, Register!Next
<1> QED
  BY <1>1, <1>2, Invariant, PTL DEF Spec, IsRegister, Register!Spec
=============================================================================
