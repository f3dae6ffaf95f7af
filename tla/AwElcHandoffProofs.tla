------------------------- MODULE AwElcHandoffProofs -------------------------
(***************************************************************************)
(* The safety of AwElcHandoff for every set of processes, every plan       *)
(* length and every bound: type correctness, exclusive writing, the        *)
(* accounting of the kernel driver, the honesty of results, that the       *)
(* handoff implements DeviceSession and StagedWrite, and that the calls of *)
(* an execution are bounded.                                               *)
(***************************************************************************)
EXTENDS AwElcHandoff, TLAPS

Cleaning == {"release", "attach", "return"}

\* Whose claim it is follows from where its process stands.
Ownership ==
  /\ claim # None => ~driver
  /\ \A p \in Proc :
       /\ claimed[p] => claim = p /\ pc[p] \in {"reverify", "write", "release"}
       /\ pc[p] \in {"reverify", "write"} => claimed[p]
       /\ claim = p => pc[p] \in {"reverify", "write"} \cup Cleaning

\* How far the execution of a process is, as its report will say it.
Progress ==
  \A p \in Proc :
    /\ pc[p] = "idle" => sent[p] = 0 /\ primary[p] = "none" /\ failures[p] = {}
    /\ pc[p] \in {"inspect", "detach", "recheck", "claim", "reverify"} =>
         sent[p] = 0 /\ delivered[p] = 0
    /\ pc[p] \in {"inspect", "detach", "claim", "reverify", "write"} =>
         primary[p] = "none"
    /\ pc[p] = "write" => sent[p] < Frames /\ delivered[p] = sent[p]
    /\ pc[p] = "recheck" => primary[p] = "detach"
    /\ pc[p] \in Cleaning =>
         /\ primary[p] = "none" => sent[p] = Frames /\ delivered[p] = Frames
         /\ primary[p] \in AcquireCodes => sent[p] = 0 /\ delivered[p] = 0
         /\ primary[p] \in DispatchCodes =>
              sent[p] <= delivered[p] /\ delivered[p] <= sent[p] + 1

\* A failure before the first transfer is a result, whatever its code.
LEMMA FailedIsResult ==
  ASSUME NEW code \in Codes
  PROVE  Failed(code) \in Result
BY HandoffAssumption DEF Failed, Result

\* What a call returns is a value of Result.
LEMMA OutcomeIsResult ==
  ASSUME TypeOK, NEW p \in Proc
  PROVE  Outcome(p) \in Result
<1>1. sent[p] \in 0..Frames /\ (failures[p] # {}) \in BOOLEAN
  BY DEF TypeOK
<1>2. CASE primary[p] \in AcquireCodes
  <2>1. /\ 0 \in 0..Frames
        /\ primary[p] \in Codes
    BY <1>2, HandoffAssumption DEF Codes
  <2>2. Outcome(p) = [code |-> primary[p], cleanup |-> failures[p] # {},
                      completed |-> 0, attempted |-> FALSE]
    BY <1>2 DEF Outcome, Failed
  <2> QED
    BY <1>1, <2>1, <2>2 DEF Result
<1>3. CASE primary[p] \notin AcquireCodes /\ primary[p] # "none"
  <2>1. primary[p] \in Codes
    BY <1>3 DEF TypeOK, Codes
  <2> QED
    BY <1>1, <1>3, <2>1 DEF Outcome, Result
<1>4. CASE primary[p] = "none"
  <2>1. primary[p] \notin AcquireCodes
    BY <1>4 DEF AcquireCodes
  <2> QED
    BY <1>1, <1>4, <2>1 DEF Outcome, Result, Codes
<1> QED
  BY <1>2, <1>3, <1>4

\* The types and the progress part of the invariant: how far an execution is
\* (its frames, its error, its cleanup) agrees with the call it makes next, in
\* every reachable state of any number of processes and frames.
THEOREM ProgressInvariant == Spec => [](TypeOK /\ Progress)
<1> USE HandoffAssumption
<1>1. Init => TypeOK /\ Progress
  BY DEF Init, TypeOK, Progress, Steps, Codes, AcquireCodes, DispatchCodes,
         Cleanups, Result, Failed, Cleaning
<1>2. TypeOK /\ Progress /\ [Next]_vars => TypeOK' /\ Progress'
  <2> SUFFICES ASSUME TypeOK, Progress, [Next]_vars
               PROVE  TypeOK' /\ Progress'
    OBVIOUS
  <2> USE DEF TypeOK, Progress, Cleaning, Steps, Codes, AcquireCodes,
              DispatchCodes, Cleanups, Goto, kernel, backend, history
  <2>1. CASE UNCHANGED vars
    BY <2>1 DEF vars
  <2>2. ASSUME NEW p \in Proc, Start(p) PROVE TypeOK' /\ Progress'
    BY <2>2, FailedIsResult DEF Start
  <2>3. ASSUME NEW p \in Proc, Inspect(p) PROVE TypeOK' /\ Progress'
    BY <2>3 DEF Inspect, Abandon
  <2>4. ASSUME NEW p \in Proc, Detach(p) PROVE TypeOK' /\ Progress'
    BY ZenonT(60), <2>4 DEF Detach
  <2>5. ASSUME NEW p \in Proc, DetachFails(p) PROVE TypeOK' /\ Progress'
    BY ZenonT(60), <2>5 DEF DetachFails
  <2>6. ASSUME NEW p \in Proc, DetachRecheck(p) PROVE TypeOK' /\ Progress'
    BY <2>6 DEF DetachRecheck
  <2>7. ASSUME NEW p \in Proc, Claim(p) PROVE TypeOK' /\ Progress'
    BY <2>7 DEF Claim
  <2>8. ASSUME NEW p \in Proc, ClaimFails(p) PROVE TypeOK' /\ Progress'
    BY <2>8 DEF ClaimFails, Abandon
  <2>9. ASSUME NEW p \in Proc, Reverify(p) PROVE TypeOK' /\ Progress'
    BY <2>9 DEF Reverify, Abandon
  <2>10. ASSUME NEW p \in Proc, Write(p) PROVE TypeOK' /\ Progress'
    BY <2>10 DEF Write, Reach
  <2>11. ASSUME NEW p \in Proc, WriteFails(p) PROVE TypeOK' /\ Progress'
    BY <2>11 DEF WriteFails, Reach, Abandon
  <2>12. ASSUME NEW p \in Proc, Release(p) PROVE TypeOK' /\ Progress'
    BY <2>12 DEF Release
  <2>13. ASSUME NEW p \in Proc, Attach(p) PROVE TypeOK' /\ Progress'
    BY <2>13 DEF Attach
  <2>14. ASSUME NEW p \in Proc, AttachFails(p) PROVE TypeOK' /\ Progress'
    BY <2>14 DEF AttachFails
  <2>15. ASSUME NEW p \in Proc, Return(p) PROVE TypeOK' /\ Progress'
    BY <2>15, OutcomeIsResult DEF Return, Drop
  <2>16. ASSUME NEW p \in Proc, Crash(p) PROVE TypeOK' /\ Progress'
    BY <2>16, FailedIsResult DEF Crash, Drop
  <2> QED
    BY <2>1, <2>2, <2>3, <2>4, <2>5, <2>6, <2>7, <2>8, <2>9, <2>10, <2>11,
       <2>12, <2>13, <2>14, <2>15, <2>16 DEF Next, Step
<1> QED
  BY <1>1, <1>2, PTL DEF Spec

\* A claim belongs to the process that is between its claim call and the end of
\* its execution, and it keeps every kernel driver away.
THEOREM OwnershipInvariant == Spec => []Ownership
<1> USE HandoffAssumption
<1>1. Init => Ownership
  BY DEF Init, Ownership, Cleaning
<1>2. TypeOK /\ Ownership /\ [Next]_vars => Ownership'
  <2> SUFFICES ASSUME TypeOK, Ownership, [Next]_vars
               PROVE  Ownership'
    OBVIOUS
  <2> USE DEF TypeOK, Ownership, Cleaning, Goto, kernel, backend
  <2>1. CASE UNCHANGED vars
    BY <2>1 DEF vars
  <2>2. ASSUME NEW p \in Proc, Start(p) PROVE Ownership'
    BY <2>2 DEF Start
  <2>3. ASSUME NEW p \in Proc, Inspect(p) PROVE Ownership'
    BY <2>3 DEF Inspect, Abandon
  <2>4. ASSUME NEW p \in Proc, Detach(p) PROVE Ownership'
    BY <2>4 DEF Detach
  <2>15. ASSUME NEW p \in Proc, DetachFails(p) PROVE Ownership'
    <3>1. driver' => driver
      BY <2>15 DEF DetachFails
    <3>2. UNCHANGED <<claim, claimed>> /\ pc' = [pc EXCEPT ![p] = "recheck"]
      BY <2>15 DEF DetachFails
    <3>3. pc[p] = "detach"
      BY <2>15 DEF DetachFails
    <3> QED
      BY <3>1, <3>2, <3>3
  <2>5. ASSUME NEW p \in Proc, DetachRecheck(p) PROVE Ownership'
    BY <2>5 DEF DetachRecheck
  <2>6. ASSUME NEW p \in Proc, Claim(p) PROVE Ownership'
    BY <2>6 DEF Claim, Claimable
  <2>7. ASSUME NEW p \in Proc, ClaimFails(p) \/ Reverify(p) PROVE Ownership'
    BY <2>7 DEF ClaimFails, Reverify, Abandon
  <2>8. ASSUME NEW p \in Proc, Write(p) PROVE Ownership'
    BY <2>8 DEF Write
  <2>9. ASSUME NEW p \in Proc, WriteFails(p) PROVE Ownership'
    BY <2>9 DEF WriteFails, Abandon
  <2>10. ASSUME NEW p \in Proc, Release(p) PROVE Ownership'
    BY <2>10 DEF Release
  <2>11. ASSUME NEW p \in Proc, Attach(p) PROVE Ownership'
    BY <2>11 DEF Attach, Attachable
  <2>12. ASSUME NEW p \in Proc, AttachFails(p) PROVE Ownership'
    BY <2>12 DEF AttachFails
  <2>13. ASSUME NEW p \in Proc, Return(p) PROVE Ownership'
    BY <2>13 DEF Return, Drop
  <2>14. ASSUME NEW p \in Proc, Crash(p) PROVE Ownership'
    BY <2>14 DEF Crash, Drop
  <2> QED
    BY <2>1, <2>2, <2>3, <2>4, <2>5, <2>6, <2>7, <2>8, <2>9, <2>10, <2>11,
       <2>12, <2>13, <2>14, <2>15 DEF Next, Step
<1> QED
  BY <1>1, <1>2, ProgressInvariant, PTL DEF Spec

\* The model's types, for every instance.
THEOREM TypeCorrect == Spec => []TypeOK
BY ProgressInvariant, PTL

\* While a process writes frames the claim is its own and no driver is bound.
THEOREM ExclusiveWriting == Spec => []SoleWriter
<1>1. Ownership => SoleWriter
  <2> SUFFICES ASSUME Ownership, NEW p \in Proc, pc[p] = "write"
               PROVE  claim = p /\ ~driver
    BY DEF SoleWriter
  <2> QED
    BY HandoffAssumption DEF Ownership
<1> QED
  BY <1>1, OwnershipInvariant, PTL

\* A process that detached the driver is still before its attach.
Detachment ==
  \A p \in Proc :
    detached[p] => pc[p] \in {"claim", "reverify", "write", "release", "attach"}

\* Every step keeps it: an acquisition or dispatch that fails goes through
\* close(), a kill clears the flag.
LEMMA DetachmentStep ==
  ASSUME TypeOK, Detachment, [Next]_vars
  PROVE  Detachment'
<1> USE DEF TypeOK, Detachment, Goto, backend
<1>1. CASE UNCHANGED vars
  BY <1>1 DEF vars
<1>2. ASSUME NEW p \in Proc, Start(p) PROVE Detachment'
  BY <1>2 DEF Start
<1>3. ASSUME NEW p \in Proc, Inspect(p) PROVE Detachment'
  BY <1>3 DEF Inspect, Abandon
<1>4. ASSUME NEW p \in Proc, Detach(p) PROVE Detachment'
  BY <1>4 DEF Detach
<1>5. ASSUME NEW p \in Proc, DetachFails(p) PROVE Detachment'
  BY <1>5 DEF DetachFails
<1>6. ASSUME NEW p \in Proc, DetachRecheck(p) PROVE Detachment'
  BY <1>6 DEF DetachRecheck
<1>7. ASSUME NEW p \in Proc, Claim(p) PROVE Detachment'
  BY <1>7 DEF Claim
<1>8. ASSUME NEW p \in Proc, ClaimFails(p) \/ Reverify(p) PROVE Detachment'
  BY <1>8 DEF ClaimFails, Reverify, Abandon
<1>9. ASSUME NEW p \in Proc, Write(p) PROVE Detachment'
  BY <1>9 DEF Write
<1>10. ASSUME NEW p \in Proc, WriteFails(p) PROVE Detachment'
  BY <1>10 DEF WriteFails, Abandon
<1>11. ASSUME NEW p \in Proc, Release(p) PROVE Detachment'
  BY <1>11 DEF Release
<1>12. ASSUME NEW p \in Proc, Attach(p) PROVE Detachment'
  BY <1>12 DEF Attach
<1>13. ASSUME NEW p \in Proc, AttachFails(p) PROVE Detachment'
  BY <1>13 DEF AttachFails
<1>14. ASSUME NEW p \in Proc, Return(p) PROVE Detachment'
  BY <1>14 DEF Return, Drop
<1>15. ASSUME NEW p \in Proc, Crash(p) PROVE Detachment'
  BY <1>15 DEF Crash, Drop
<1> QED
  BY <1>1, <1>2, <1>3, <1>4, <1>5, <1>6, <1>7, <1>8, <1>9, <1>10, <1>11,
     <1>12, <1>13, <1>14, <1>15 DEF Next, Step

\* What the execution of a process ends with says that the driver is unbound.
LEMMA OutcomeReports ==
  ASSUME TypeOK, Detachment, NEW p \in Proc, pc[p] = "return", Pending(p)
  PROVE  Outcome(p).code = "detachUnknown" \/ Outcome(p).cleanup
<1>1. primary[p] = "detachUnknown" \/ failures[p] # {}
  BY DEF Pending, Detachment
<1>2. CASE primary[p] \in AcquireCodes
  BY <1>1, <1>2 DEF Outcome, Failed
<1>3. CASE primary[p] \notin AcquireCodes
  <2>1. failures[p] # {}
    BY <1>1, <1>3 DEF AcquireCodes
  <2> QED
    BY <1>3, <2>1 DEF Outcome
<1> QED
  BY <1>2, <1>3

\* The kernel driver is never lost silently.
THEOREM DriverNeverLostSilently == Spec => []DriverAccounted
<1> DEFINE Accounted == DriverAccounted /\ Detachment
<1>1. Init => Accounted
  BY DEF Init, DriverAccounted, Detachment
<1>2. TypeOK /\ Progress /\ Accounted /\ [Next]_vars => Accounted'
  <2> SUFFICES ASSUME TypeOK, Progress, DriverAccounted, Detachment,
                      [Next]_vars
               PROVE  DriverAccounted'
    BY DetachmentStep
  <2> USE DEF TypeOK, DriverAccounted, Pending, Goto, kernel, backend, history
  <2>1. CASE UNCHANGED vars
    BY <2>1 DEF vars
  <2>2. ASSUME NEW p \in Proc, Start(p) PROVE DriverAccounted'
    BY <2>2 DEF Start
  <2>3. ASSUME NEW p \in Proc, Inspect(p) PROVE DriverAccounted'
    BY <2>3 DEF Inspect, Abandon, Progress
  <2>4. ASSUME NEW p \in Proc, Detach(p) PROVE DriverAccounted'
    BY <2>4 DEF Detach
  <2>5. ASSUME NEW p \in Proc, DetachFails(p) PROVE DriverAccounted'
    <3>1. pc'[p] = "recheck"
      BY <2>5 DEF DetachFails
    <3> QED
      BY <3>1
  <2>6. ASSUME NEW p \in Proc, DetachRecheck(p) PROVE DriverAccounted'
    <3>1. driver \/ detached'[p] \/ primary'[p] = "detachUnknown"
      BY <2>6 DEF DetachRecheck, DriverState
    <3> QED
      BY <2>6, <3>1 DEF DetachRecheck
  <2>7. ASSUME NEW p \in Proc, Claim(p) PROVE DriverAccounted'
    BY <2>7 DEF Claim
  <2>8. ASSUME NEW p \in Proc, ClaimFails(p) \/ Reverify(p)
        PROVE DriverAccounted'
    BY <2>8 DEF ClaimFails, Reverify, Abandon, Progress
  <2>9. ASSUME NEW p \in Proc, Write(p) PROVE DriverAccounted'
    BY <2>9 DEF Write
  <2>10. ASSUME NEW p \in Proc, WriteFails(p) PROVE DriverAccounted'
    BY <2>10 DEF WriteFails, Abandon, Progress
  <2>11. ASSUME NEW p \in Proc, Release(p) PROVE DriverAccounted'
    BY <2>11 DEF Release
  <2>12. ASSUME NEW p \in Proc, Attach(p) PROVE DriverAccounted'
    BY <2>12 DEF Attach
  <2>13. ASSUME NEW p \in Proc, AttachFails(p) PROVE DriverAccounted'
    <3>1. "attach" \in failures'[p]
      BY <2>13 DEF AttachFails
    <3> QED
      BY <3>1
  <2>14. ASSUME NEW p \in Proc, Return(p) PROVE DriverAccounted'
    <3>1. CASE Pending(p)
      <4>1. Outcome(p).code = "detachUnknown" \/ Outcome(p).cleanup
        BY <2>14, <3>1, OutcomeReports DEF Return
      <4> QED
        BY <2>14, <4>1 DEF Return
    <3>2. CASE ~Pending(p)
      <4>1. \A q \in Proc : q # p /\ Pending(q) => Pending(q)'
        BY <2>14 DEF Return, Drop
      <4> QED
        BY <2>14, <3>2, <4>1 DEF Return
    <3> QED
      BY <3>1, <3>2
  <2>15. ASSUME NEW p \in Proc, Crash(p) PROVE DriverAccounted'
    <3>1. \A q \in Proc : q # p /\ Pending(q) => Pending(q)'
      BY <2>15 DEF Crash, Drop
    <3> QED
      BY <2>15, <3>1 DEF Crash
  <2> QED
    BY <2>1, <2>2, <2>3, <2>4, <2>5, <2>6, <2>7, <2>8, <2>9, <2>10, <2>11,
       <2>12, <2>13, <2>14, <2>15 DEF Next, Step
<1> QED
  <2>1. Accounted => DriverAccounted
    OBVIOUS
  <2> QED
    BY <1>1, <1>2, <2>1, ProgressInvariant, PTL DEF Spec

\* What an execution returns agrees with what the controller took from it.
THEOREM ResultsAreHonest == Spec => []ResultHonest
<1> USE HandoffAssumption
<1>1. Init => ResultHonest
  BY DEF Init, ResultHonest, Failed
<1>2. TypeOK /\ Progress /\ ResultHonest /\ [Next]_vars => ResultHonest'
  <2> SUFFICES ASSUME TypeOK, Progress, ResultHonest, [Next]_vars
               PROVE  ResultHonest'
    OBVIOUS
  <2> USE DEF ResultHonest, TypeOK, Goto, kernel, backend, history
  <2>1. CASE UNCHANGED vars
    BY <2>1 DEF vars
  <2>2. ASSUME NEW p \in Proc, Start(p) PROVE ResultHonest'
    BY <2>2 DEF Start, Failed
  <2>3. ASSUME NEW p \in Proc, Write(p) \/ WriteFails(p) PROVE ResultHonest'
    BY <2>3 DEF Write, WriteFails, Reach, Abandon
  <2>4. ASSUME NEW p \in Proc, Return(p) PROVE ResultHonest'
    <3>1. CASE primary[p] \in AcquireCodes
      <4>1. Outcome(p).completed = 0 /\ Outcome(p).code # "ok"
        BY <3>1 DEF Outcome, Failed, AcquireCodes
      <4>2. delivered[p] = 0
        BY <2>4, <3>1 DEF Progress, Cleaning, Return
      <4> QED
        BY <2>4, <4>1, <4>2 DEF Return, Drop
    <3>2. CASE primary[p] \in DispatchCodes
      <4>1. /\ Outcome(p).completed = sent[p]
            /\ Outcome(p).code # "ok"
            /\ Outcome(p).attempted
        BY <3>2 DEF Outcome, AcquireCodes, DispatchCodes
      <4>2. sent[p] <= delivered[p] /\ delivered[p] <= sent[p] + 1
        BY <2>4, <3>2 DEF Progress, Cleaning, Return
      <4> QED
        BY <2>4, <4>1, <4>2 DEF Return, Drop
    <3>3. CASE primary[p] = "none"
      <4>1. /\ Outcome(p).completed = sent[p]
            /\ Outcome(p).attempted
            /\ Outcome(p).code = "ok" => ~Outcome(p).cleanup
        BY <3>3 DEF Outcome, AcquireCodes
      <4>2. sent[p] = Frames /\ delivered[p] = Frames
        BY <2>4, <3>3 DEF Progress, Cleaning, Return
      <4> QED
        BY <2>4, <4>1, <4>2 DEF Return, Drop
    <3> QED
      BY <3>1, <3>2, <3>3
  <2>5. ASSUME NEW p \in Proc, Crash(p) PROVE ResultHonest'
    BY <2>5 DEF Crash, Drop, Failed
  <2>6. ASSUME NEW p \in Proc, Inspect(p) \/ Detach(p) \/ DetachFails(p)
        PROVE ResultHonest'
    BY <2>6 DEF Inspect, Detach, DetachFails, Abandon
  <2>7. ASSUME NEW p \in Proc, DetachRecheck(p) \/ Claim(p) \/ ClaimFails(p)
        PROVE ResultHonest'
    BY <2>7 DEF DetachRecheck, Claim, ClaimFails, Abandon
  <2>8. ASSUME NEW p \in Proc, Reverify(p) \/ Release(p) PROVE ResultHonest'
    BY <2>8 DEF Reverify, Release, Abandon
  <2>9. ASSUME NEW p \in Proc, Attach(p) \/ AttachFails(p) PROVE ResultHonest'
    BY <2>9 DEF Attach, AttachFails
  <2> QED
    BY <2>1, <2>2, <2>3, <2>4, <2>5, <2>6, <2>7, <2>8, <2>9 DEF Next, Step
<1> QED
  BY <1>1, <1>2, ProgressInvariant, PTL DEF Spec

\* The handoff implements DeviceSession: frames reach the controller only in
\* exclusive sessions, and in order within each of them.
THEOREM ImplementsSessions == Spec => Sessions
<1> USE HandoffAssumption
<1>1. Init => Session!Init
  BY DEF Init, Session!Init
<1>2. TypeOK /\ Ownership /\ Progress /\ [Next]_vars => [Session!Next]_(Session!vars)
  <2> SUFFICES ASSUME TypeOK, Ownership, Progress, [Next]_vars
               PROVE  [Session!Next]_(Session!vars)
    OBVIOUS
  <2>a. ASSUME UNCHANGED <<claim, wire, delivered>>
        PROVE  UNCHANGED Session!vars
    BY <2>a DEF Session!vars
  <2>1. CASE UNCHANGED vars
    BY <2>1, <2>a DEF vars, kernel, history
  <2>2. ASSUME NEW p \in Proc, Start(p) PROVE UNCHANGED Session!vars
    <3>1. claim # p
      BY <2>2 DEF Start, Ownership, Cleaning
    <3>2. UNCHANGED <<claim, wire>> /\ delivered' = [delivered EXCEPT ![p] = 0]
      BY <2>2 DEF Start, kernel
    <3> QED
      BY <3>1, <3>2 DEF TypeOK, Session!vars
  <2>3. ASSUME NEW p \in Proc, Claim(p) PROVE Session!Open(p)
    <3>1. delivered[p] = 0
      BY <2>3 DEF Claim, Progress
    <3> QED
      BY <2>3, <3>1 DEF Claim, Claimable, Session!Open, history
  <2>4. ASSUME NEW p \in Proc, Write(p) PROVE Session!Take(p)
    <3>1. claim = p /\ p # None
      BY <2>4 DEF Write, Ownership
    <3>2. delivered[p] = sent[p] /\ sent[p] < Frames
      BY <2>4 DEF Write, Progress
    <3> QED
      BY <2>4, <3>1, <3>2 DEF Write, Reach, TypeOK, Session!Take, kernel
  <2>5. ASSUME NEW p \in Proc, WriteFails(p)
        PROVE  Session!Take(p) \/ UNCHANGED Session!vars
    <3>1. claim = p /\ p # None
      BY <2>5 DEF WriteFails, Ownership
    <3>2. delivered[p] = sent[p] /\ sent[p] < Frames
      BY <2>5 DEF WriteFails, Progress
    <3>3. CASE Reach(p)
      BY <2>5, <3>1, <3>2, <3>3
         DEF WriteFails, Reach, TypeOK, Session!Take, kernel
    <3>4. CASE UNCHANGED <<wire, delivered>>
      BY <2>5, <2>a, <3>4 DEF WriteFails, kernel
    <3> QED
      BY <2>5, <3>3, <3>4 DEF WriteFails
  <2>6. ASSUME NEW p \in Proc, Release(p) \/ Return(p) \/ Crash(p)
        PROVE  Session!Close(p) \/ UNCHANGED Session!vars
    <3>1. UNCHANGED <<wire, delivered>>
      BY <2>6 DEF Release, Return, Crash, history
    <3>2. claim' = claim \/ (claim = p /\ claim' = None)
      BY <2>6 DEF Release, Return, Crash, Drop, Ownership
    <3>3. CASE claim' = claim
      BY <2>a, <3>1, <3>3
    <3>4. CASE claim = p /\ claim' = None
      BY <3>1, <3>4 DEF Session!Close
    <3> QED
      BY <3>2, <3>3, <3>4
  <2>7. ASSUME NEW p \in Proc,
               \/ Inspect(p) \/ Detach(p) \/ DetachFails(p) \/ DetachRecheck(p)
               \/ ClaimFails(p) \/ Reverify(p) \/ Attach(p) \/ AttachFails(p)
        PROVE  UNCHANGED Session!vars
    BY <2>7, <2>a DEF Inspect, Detach, DetachFails, DetachRecheck, ClaimFails,
       Reverify, Attach, AttachFails, kernel, history
  <2> QED
    BY <2>1, <2>2, <2>3, <2>4, <2>5, <2>6, <2>7 DEF Next, Step, Session!Next
<1> QED
  BY <1>1, <1>2, ProgressInvariant, OwnershipInvariant, PTL
     DEF Spec, Sessions, Session!Spec

------------------------------------------------------------------------------
(* The handoff as a stage of a command. *)

\* The abstract variables of Writes, as AwElcHandoff computes them.
PlanOf(on) == IF on THEN {1} ELSE {}
WritePlan  == [p \in Proc |-> PlanOf(Writing(p))]
WriteTaken == [p \in Proc |-> [s \in {1} |-> delivered[p]]]

\* The steps of one process change the abstract plan of that process only.
LEMMA PlanChange ==
  ASSUME NEW p \in Proc, NEW on \in BOOLEAN, Writing(p)' <=> on,
         \A q \in Proc \ {p} : Writing(q)' <=> Writing(q)
  PROVE  /\ WritePlan' = [WritePlan EXCEPT ![p] = PlanOf(on)]
         /\ (Writing(p) <=> on) => WritePlan' = WritePlan
<1>1. \A q \in Proc \ {p} : PlanOf(Writing(q)') = PlanOf(Writing(q))
  BY DEF PlanOf
<1>2. PlanOf(Writing(p)') = PlanOf(on)
  BY DEF PlanOf
<1>3. (Writing(p) <=> on) => PlanOf(Writing(p)) = PlanOf(on)
  BY DEF PlanOf
<1>4. WritePlan' = [q \in Proc |-> PlanOf(Writing(q)')]
  BY DEF WritePlan, PlanOf
<1> QED
  BY <1>1, <1>2, <1>3, <1>4 DEF WritePlan

\* A frame that is taken adds one to the frames of its process.
LEMMA TakenChange ==
  ASSUME NEW p \in Proc, NEW n \in Nat, delivered \in [Proc -> 0..Frames],
         delivered' = [delivered EXCEPT ![p] = n]
  PROVE  /\ WriteTaken' = [WriteTaken EXCEPT ![p] = [s \in {1} |-> n]]
         /\ WriteTaken' = [WriteTaken EXCEPT ![p][1] = n]
BY DEF WriteTaken

\* Only the process that has the claim is writing.
LEMMA OneWrites ==
  ASSUME NEW p \in Proc, claim = p
  PROVE  \A q \in Proc \ {p} : ~Writing(q)
BY DEF Writing

\* The five ways a step of p can be one of StagedWrite.
LEMMA StagedSteps ==
  ASSUME NEW p \in Proc
  PROVE  /\ (WritePlan' = WritePlan /\ WriteTaken' = WriteTaken) =>
              UNCHANGED Writes!vars
         /\ (/\ ~Writing(p)
             /\ WritePlan' = [WritePlan EXCEPT ![p] = {1}]
             /\ WriteTaken' = [WriteTaken EXCEPT ![p] = [s \in {1} |-> 0]]) =>
              Writes!Accept(p)
         /\ (/\ ~Writing(p)
             /\ WritePlan' = WritePlan
             /\ WriteTaken' = [WriteTaken EXCEPT ![p] = [s \in {1} |-> 0]]) =>
              Writes!Forget(p)
         /\ (/\ Writing(p)
             /\ WritePlan' = [WritePlan EXCEPT ![p] = {}]
             /\ WriteTaken' = WriteTaken) =>
              Writes!End(p)
         /\ (/\ Writing(p) /\ delivered[p] < Frames
             /\ \/ WritePlan' = WritePlan
                \/ WritePlan' = [WritePlan EXCEPT ![p] = {}]
             /\ WriteTaken' = [WriteTaken EXCEPT ![p][1] = delivered[p] + 1]) =>
              Writes!Take(p)
<1>1. /\ WritePlan = [q \in Proc |-> IF Writing(q) THEN {1} ELSE {}]
      /\ WritePlan' = [q \in Proc |-> IF Writing(q)' THEN {1} ELSE {}]
      /\ WritePlan[p] = IF Writing(p) THEN {1} ELSE {}
      /\ WriteTaken[p][1] = delivered[p]
  BY DEF WritePlan, WriteTaken, PlanOf
<1>2. /\ WriteTaken = [q \in Proc |-> [s \in {1} |-> delivered[q]]]
      /\ WriteTaken' = [q \in Proc |-> [s \in {1} |-> delivered'[q]]]
  BY DEF WriteTaken
<1>3. Writing(p) => Writes!Clear(p, 1)
  <2> SUFFICES ASSUME Writing(p), NEW q \in Proc \ {p} PROVE ~Writes!Amid(q, 1)
    BY DEF Writes!Clear
  <2>1. ~Writing(q)
    BY OneWrites DEF Writing
  <2> QED
    BY <2>1 DEF Writes!Amid
<1>4. (Writing(p) /\ delivered[p] < Frames) => Writes!Due(p, 1)
  BY DEF Writes!Due
<1> QED
  <2> DEFINE thePlan == [q \in Proc |-> IF Writing(q) THEN {1} ELSE {}]
             theTaken == [q \in Proc |-> [s \in {1} |-> delivered[q]]]
  <2>1. ASSUME WritePlan' = WritePlan, WriteTaken' = WriteTaken
        PROVE  UNCHANGED Writes!vars
    BY <1>1, <1>2, <2>1 DEF Writes!vars
  <2>2. ASSUME ~Writing(p), WritePlan' = [WritePlan EXCEPT ![p] = {1}],
               WriteTaken' = [WriteTaken EXCEPT ![p] = [s \in {1} |-> 0]]
        PROVE  Writes!Accept(p)
    BY <1>1, <1>2, <2>2 DEF Writes!Accept, Writes!Running, Writes!Nothing
  <2>3. ASSUME ~Writing(p), WritePlan' = WritePlan,
               WriteTaken' = [WriteTaken EXCEPT ![p] = [s \in {1} |-> 0]]
        PROVE  Writes!Forget(p)
    BY <1>1, <1>2, <2>3 DEF Writes!Forget, Writes!Running, Writes!Nothing
  <2>4. ASSUME Writing(p), WritePlan' = [WritePlan EXCEPT ![p] = {}],
               WriteTaken' = WriteTaken
        PROVE  Writes!End(p)
    BY <1>1, <1>2, <2>4 DEF Writes!End, Writes!Running
  <2>5. ASSUME Writing(p), delivered[p] < Frames,
               \/ WritePlan' = WritePlan
               \/ WritePlan' = [WritePlan EXCEPT ![p] = {}],
               WriteTaken' = [WriteTaken EXCEPT ![p][1] = delivered[p] + 1]
        PROVE  Writes!Take(p)
    <3>1. Writes!Due(p, 1) /\ Writes!Clear(p, 1) /\ 1 \in {1}
      BY <1>3, <1>4, <2>5
    <3>2. theTaken' = [theTaken EXCEPT ![p][1] = @ + 1]
      BY <1>1, <1>2, <2>5
    <3>3. thePlan' = thePlan \/ thePlan' = [thePlan EXCEPT ![p] = {}]
      BY <1>1, <2>5
    <3> QED
      BY <3>1, <3>2, <3>3 DEF Writes!Take
  <2> QED
    BY <2>1, <2>2, <2>3, <2>4, <2>5

\* Every step of the handoff is one of StagedWrite or leaves it alone.
LEMMA StagedStep ==
  ASSUME TypeOK, Ownership, Progress, [Next]_vars
  PROVE  [Writes!Next]_(Writes!vars)
<1> USE HandoffAssumption
<1>1. CASE UNCHANGED vars
  BY <1>1 DEF vars, kernel, history, Writes!vars, Writing
<1>a. ASSUME NEW p \in Proc, UNCHANGED delivered,
             \A q \in Proc : Writing(q)' <=> Writing(q)
      PROVE  UNCHANGED Writes!vars
  <2>1. WriteTaken' = WriteTaken
    BY <1>a DEF WriteTaken
  <2>2. WritePlan' = WritePlan
    BY <1>a, PlanChange, Writing(p) \in BOOLEAN DEF Writing
  <2> QED
    BY <2>1, <2>2, StagedSteps
<1>b. ASSUME NEW p \in Proc, Writes!Accept(p) \/ Writes!Take(p) \/ Writes!End(p)
                               \/ Writes!Forget(p)
      PROVE  Writes!Next
  BY <1>b DEF Writes!Next
<1>2. ASSUME NEW p \in Proc, Start(p) PROVE Writes!Forget(p)
  <2>1. /\ ~Writing(p)
        /\ ~Writing(p)'
        /\ \A q \in Proc \ {p} : Writing(q)' <=> Writing(q)
    BY <1>2 DEF Start, Goto, Writing, TypeOK, kernel
  <2>2. WritePlan' = WritePlan
    BY <2>1, PlanChange
  <2>3. delivered' = [delivered EXCEPT ![p] = 0] /\ delivered \in [Proc -> 0..Frames]
    BY <1>2 DEF Start, TypeOK
  <2>4. WriteTaken' = [WriteTaken EXCEPT ![p] = [s \in {1} |-> 0]]
    BY <2>3, TakenChange
  <2> QED
    BY <2>1, <2>2, <2>4, StagedSteps
<1>3. ASSUME NEW p \in Proc, Claim(p) PROVE Writes!Accept(p)
  <2>1. /\ ~Writing(p)
        /\ Writing(p)'
        /\ \A q \in Proc \ {p} : ~Writing(q)' /\ ~Writing(q)
        /\ delivered[p] = 0 /\ delivered' = delivered
    BY <1>3 DEF Claim, Claimable, Goto, Writing, TypeOK, Progress, history
  <2>2. WritePlan' = [WritePlan EXCEPT ![p] = {1}]
    BY <2>1, PlanChange DEF PlanOf
  <2>3. WriteTaken' = [WriteTaken EXCEPT ![p] = [s \in {1} |-> 0]]
    BY <2>1, TakenChange DEF TypeOK
  <2> QED
    BY <2>1, <2>2, <2>3, StagedSteps
<1>4. ASSUME NEW p \in Proc, Write(p) \/ WriteFails(p), Reach(p)
      PROVE  Writes!Take(p)
  <2>1. pc[p] = "write" /\ claim = p /\ UNCHANGED claim
    BY <1>4 DEF Write, WriteFails, kernel, Ownership
  <2>2. Writing(p) /\ delivered[p] < Frames /\ delivered[p] \in Nat
    BY <2>1 DEF Writing, Progress, TypeOK
  <2>3. \A q \in Proc \ {p} : ~Writing(q)' /\ ~Writing(q)
    BY <2>1 DEF Writing
  <2>4. \/ WritePlan' = WritePlan
        \/ WritePlan' = [WritePlan EXCEPT ![p] = {}]
    <3>1. CASE Writing(p)'
      BY <2>2, <2>3, <3>1, PlanChange
    <3>2. CASE ~Writing(p)'
      BY <2>3, <3>2, PlanChange DEF PlanOf
    <3> QED
      BY <3>1, <3>2
  <2>5. delivered' = [delivered EXCEPT ![p] = delivered[p] + 1]
    BY <1>4 DEF Reach
  <2>6. WriteTaken' = [WriteTaken EXCEPT ![p][1] = delivered[p] + 1]
    <3>1. delivered[p] + 1 \in Nat /\ delivered \in [Proc -> 0..Frames]
      BY <2>2 DEF TypeOK
    <3> QED
      BY <2>5, <3>1, TakenChange
  <2> QED
    BY <2>2, <2>4, <2>6, StagedSteps
<1>5. ASSUME NEW p \in Proc, UNCHANGED delivered,
             \/ Reverify(p) \/ WriteFails(p) \/ Release(p) \/ Return(p) \/ Crash(p)
      PROVE  Writes!End(p) \/ UNCHANGED Writes!vars
  <2>a. claim' = claim \/ (claim = p /\ claim' = None)
    <3>1. CASE Reverify(p) \/ WriteFails(p)
      BY <3>1 DEF Reverify, WriteFails, kernel
    <3>2. CASE Release(p)
      BY <3>2 DEF Release, Ownership
    <3>3. CASE Return(p) \/ Crash(p)
      BY <3>3 DEF Return, Crash, Drop
    <3> QED
      BY <1>5, <3>1, <3>2, <3>3
  <2>b. /\ pc[p] # "idle" /\ \A q \in Proc \ {p} : pc'[q] = pc[q]
        /\ pc'[p] \in {"reverify", "write"} => pc[p] = "reverify"
    BY <1>5 DEF Reverify, WriteFails, Release, Return, Crash, Drop, Abandon,
                Goto, TypeOK
  <2>1. \A q \in Proc \ {p} : Writing(q)' <=> Writing(q)
    BY <2>a, <2>b DEF Writing
  <2>2. WriteTaken' = WriteTaken
    BY <1>5 DEF WriteTaken
  <2>3. Writing(p)' => Writing(p)
    BY <2>a, <2>b DEF Writing
  <2>4. CASE Writing(p) /\ ~Writing(p)'
    BY <2>1, <2>2, <2>4, PlanChange, StagedSteps DEF PlanOf
  <2>5. CASE Writing(p)' <=> Writing(p)
    BY <1>5, <1>a, <2>1, <2>5
  <2> QED
    BY <2>3, <2>4, <2>5
<1>6. ASSUME NEW p \in Proc,
             \/ Inspect(p) \/ Detach(p) \/ DetachFails(p) \/ DetachRecheck(p)
             \/ ClaimFails(p) \/ Attach(p) \/ AttachFails(p)
      PROVE  UNCHANGED Writes!vars
  <2>1. UNCHANGED delivered /\ \A q \in Proc : Writing(q)' <=> Writing(q)
    BY <1>6 DEF Inspect, Detach, DetachFails, DetachRecheck, ClaimFails, Attach,
                AttachFails, Abandon, Goto, Writing, TypeOK, kernel, history
  <2> QED
    BY <1>a, <2>1
<1>7. ASSUME NEW p \in Proc, Reverify(p) \/ Release(p) \/ Return(p) \/ Crash(p)
      PROVE  UNCHANGED delivered
  BY <1>7 DEF Reverify, Release, Return, Crash, history
<1>8. ASSUME NEW p \in Proc, WriteFails(p), ~Reach(p) PROVE UNCHANGED delivered
  BY <1>8 DEF WriteFails
<1>9. ASSUME NEW p \in Proc, Write(p) PROVE Reach(p)
  BY <1>9 DEF Write
<1> QED
  BY <1>1, <1>b, <1>2, <1>3, <1>4, <1>5, <1>6, <1>7, <1>8, <1>9 DEF Next, Step

\* The handoff implements StagedWrite, the interface the commands rest on: a
\* stage is a run of frames that no other process interrupts, each once and in
\* order, with nothing behind an error.
THEOREM ImplementsStagedWrite == Spec => StagedWrites
<1>1. Init => Writes!Init
  BY DEF Init, Writes!Init, Writes!Nothing, Writing
<1>2. TypeOK /\ Ownership /\ Progress /\ [Next]_vars => [Writes!Next]_(Writes!vars)
  BY StagedStep
<1> QED
  BY <1>1, <1>2, ProgressInvariant, OwnershipInvariant, PTL
     DEF Spec, StagedWrites, Writes!Spec

------------------------------------------------------------------------------
(* The number of calls of an execution. *)

CallsCounted == \A p \in Proc : CallsLeft(p) \in 0..(Frames + 7)

\* The calls left are a number, none for a process that is idle.
LEMMA CallsLeftRange ==
  ASSUME TypeOK, Progress
  PROVE  /\ CallsCounted
         /\ \A p \in Proc : pc[p] = "idle" => CallsLeft(p) = 0
<1> SUFFICES ASSUME NEW p \in Proc
             PROVE  /\ CallsLeft(p) \in 0..(Frames + 7)
                    /\ pc[p] = "idle" => CallsLeft(p) = 0
  BY DEF CallsCounted
<1>1. Frames \in Nat \ {0} /\ sent[p] \in 0..Frames
  BY HandoffAssumption DEF TypeOK
<1>2. pc[p] \in Steps
  BY DEF TypeOK
<1> QED
  BY <1>1, <1>2 DEF CallsLeft, Steps

\* A call the process makes is one it does not have to make any more.
LEMMA StepCounts ==
  ASSUME TypeOK, Progress, NEW p \in Proc, Step(p)
  PROVE  CallsLeft(p)' < CallsLeft(p)
<1>1. Frames \in Nat \ {0} /\ sent[p] \in 0..Frames
  BY HandoffAssumption DEF TypeOK
<1> USE DEF TypeOK, Goto
<1>2. CASE Inspect(p)
  <2>1. pc[p] = "inspect" /\ pc'[p] \in {"detach", "claim", "release"}
    BY <1>2 DEF Inspect, Abandon
  <2> QED
    BY <1>1, <2>1 DEF CallsLeft
<1>3. CASE Detach(p) \/ DetachFails(p)
  <2>1. pc[p] = "detach" /\ pc'[p] \in {"claim", "recheck"}
    BY <1>3 DEF Detach, DetachFails
  <2> QED
    BY <1>1, <2>1 DEF CallsLeft
<1>4. CASE DetachRecheck(p)
  <2>1. pc[p] = "recheck" /\ pc'[p] = "release"
    BY <1>4 DEF DetachRecheck
  <2> QED
    BY <1>1, <2>1 DEF CallsLeft
<1>5. CASE Claim(p) \/ ClaimFails(p)
  <2>1. pc[p] = "claim" /\ pc'[p] \in {"reverify", "release"}
    BY <1>5 DEF Claim, ClaimFails, Abandon
  <2> QED
    BY <1>1, <2>1 DEF CallsLeft
<1>6. CASE Reverify(p)
  <2>1. /\ pc[p] = "reverify" /\ pc'[p] \in {"write", "release"}
        /\ sent[p] = 0 /\ sent'[p] = 0
    BY <1>6 DEF Reverify, Abandon, Progress
  <2> QED
    BY <1>1, <2>1 DEF CallsLeft
<1>7. CASE Write(p)
  <2>1. /\ pc[p] = "write" /\ sent'[p] = sent[p] + 1 /\ sent[p] < Frames
        /\ pc'[p] = IF sent[p] + 1 = Frames THEN "release" ELSE "write"
    BY <1>7 DEF Write, Progress
  <2> QED
    BY <1>1, <2>1 DEF CallsLeft
<1>8. CASE WriteFails(p)
  <2>1. pc[p] = "write" /\ pc'[p] = "release" /\ sent[p] < Frames
    BY <1>8 DEF WriteFails, Abandon, Progress
  <2> QED
    BY <1>1, <2>1 DEF CallsLeft
<1>9. CASE Release(p) \/ Attach(p) \/ AttachFails(p) \/ Return(p)
  <2>1. \/ pc[p] = "release" /\ pc'[p] = "attach"
        \/ pc[p] = "attach" /\ pc'[p] = "return"
        \/ pc[p] = "return" /\ pc'[p] = "idle"
    BY <1>9 DEF Release, Attach, AttachFails, Return, Drop
  <2> QED
    BY <1>1, <2>1 DEF CallsLeft
<1> QED
  BY <1>2, <1>3, <1>4, <1>5, <1>6, <1>7, <1>8, <1>9 DEF Step

\* ExecutionBounded: an execution makes at most Frames + 7 calls, whatever they
\* return and whatever other processes do meanwhile.
THEOREM BoundedExecutions == Spec => []CallsCounted /\ ExecutionBounded
<1> DEFINE Bounded ==
      \A p \in Proc : pc[p] # "idle" =>
        /\ CallsLeft(p)' <= CallsLeft(p)
        /\ Step(p) => CallsLeft(p)' < CallsLeft(p)
<1>1. TypeOK /\ Progress => CallsCounted
  BY CallsLeftRange
<1>2. TypeOK /\ TypeOK' /\ Progress /\ Progress' /\ [Next]_vars => [Bounded]_vars
  <2> SUFFICES ASSUME TypeOK, TypeOK', Progress, Progress', Next,
                      NEW q \in Proc, pc[q] # "idle"
               PROVE  /\ CallsLeft(q)' <= CallsLeft(q)
                      /\ Step(q) => CallsLeft(q)' < CallsLeft(q)
    OBVIOUS
  <2>0. CallsLeft(q) \in Nat /\ CallsLeft(q)' \in Nat
    <3>1. Frames \in Nat
      BY HandoffAssumption
    <3>2. CallsCounted /\ CallsCounted'
      BY CallsLeftRange, PTL
    <3> QED
      BY <3>1, <3>2 DEF CallsCounted
  <2>1. Step(q) => CallsLeft(q)' < CallsLeft(q)
    BY StepCounts
  <2>2. PICK p \in Proc : Start(p) \/ Step(p) \/ Crash(p)
    BY DEF Next
  <2>3. CASE p = q
    <3>1. CASE Step(q)
      BY <2>0, <2>1, <3>1
    <3>2. CASE Crash(q)
      <4>1. pc'[q] = "idle"
        BY <3>2 DEF Crash, Drop, Goto, TypeOK
      <4>2. CallsLeft(q)' = 0
        BY <4>1 DEF CallsLeft
      <4> QED
        BY <2>0, <2>1, <4>2
    <3> QED
      BY <2>2, <2>3, <3>1, <3>2 DEF Start
  <2>4. CASE p # q
    <3>1. pc'[q] = pc[q] /\ sent'[q] = sent[q]
      BY <2>2, <2>4 DEF Start, Step, Crash, Inspect, Detach, DetachFails,
         DetachRecheck, Claim, ClaimFails, Reverify, Write, WriteFails, Release,
         Attach, AttachFails, Return, Abandon, Drop, Goto, TypeOK
    <3>2. CallsLeft(q)' = CallsLeft(q)
      BY <3>1 DEF CallsLeft
    <3> QED
      BY <2>0, <2>1, <3>2
  <2> QED
    BY <2>3, <2>4
<1> QED
  BY <1>1, <1>2, ProgressInvariant, PTL DEF Spec, ExecutionBounded
=============================================================================
