---------------------------- MODULE ExecutorProofs ----------------------------
(***************************************************************************)
(* The safety of Executor for every set of callers and every plan length:  *)
(* type correctness, the process guards, the order of the stages, the      *)
(* reports, and what a recorded color stands for.  Then that Executor      *)
(* implements StagedWrite, and that the steps of a call are bounded.       *)
(***************************************************************************)
EXTENDS Executor, TLAPS

\* The plans, with the operators of intervals expanded.
LEMMA PlanFacts ==
  ASSUME NEW o \in Ops
  PROVE  /\ Plan(o) \in SUBSET Stages
         /\ First(o) \in Plan(o)
         /\ Last(o) \in Plan(o)
         /\ \A s \in Stages : s \in Plan(o) <=> First(o) <= s /\ s <= Last(o)
         /\ Guards(o) \in SUBSET Guard
         /\ Guards(o) # {}
         /\ \A s \in Plan(o) : Controller(s) \in Guards(o)
         /\ Plan("set_all") = {KB, STATIC, POWER}
BY DEF Ops, Plan, First, Last, Stages, KB, STATIC, POWER, STATUS, Guards,
       Guard, Controller

\* The guard a call tries next is one of its operation that it does not hold.
LEMMA WantedIsMissing ==
  ASSUME NEW c \in Caller, op[c] \in Ops,
         held[c] \subseteq Guards(op[c]), held[c] # Guards(op[c])
  PROVE  Wanted(c) \in Guards(op[c]) \ held[c]
BY PlanFacts DEF Wanted, Guard

------------------------------------------------------------------------------
(* The guards. *)

\* Who holds a guard, and when.
Holding(c) ==
  /\ op[c] \in Ops \/ (pc[c] = "idle" /\ op[c] = "none")
  /\ held[c] \in SUBSET Guard
  /\ pc[c] = "guard" => held[c] \subseteq Guards(op[c]) /\ held[c] # Guards(op[c])
  /\ pc[c] \in {"begin", "transfer", "finish"} => held[c] = Guards(op[c])
  /\ pc[c] \in {"idle", "answer", "persist", "answered"} => held[c] = {}

GuardInv ==
  /\ active \in [Guard -> BOOLEAN]
  /\ held \in [Caller -> SUBSET Guard]
  /\ op \in [Caller -> Ops \cup {"none"}]
  /\ pc \in [Caller -> Points]
  /\ \A g \in Guard : active[g] <=> \E c \in Caller : g \in held[c]
  /\ \A c, d \in Caller : c # d => held[c] \cap held[d] = {}
  /\ \A c \in Caller : Holding(c)

\* The guards are held as GuardInv says in every reachable state.
THEOREM GuardInvariant == Spec => []GuardInv
<1>1. Init => GuardInv
  BY DEF Init, GuardInv, Holding, Points
<1>2. GuardInv /\ [Next]_vars => GuardInv'
  <2> SUFFICES ASSUME GuardInv, [Next]_vars PROVE GuardInv'
    OBVIOUS
  <2>1. CASE UNCHANGED vars
    BY <2>1 DEF vars, call, GuardInv, Holding
  <2>2. ASSUME NEW c \in Caller, NEW o \in Ops, Call(c, o) PROVE GuardInv'
    <3>1. Guards(o) # {}
      BY PlanFacts
    <3> QED
      BY <2>2, <3>1 DEF Call, Goto, GuardInv, Holding, Points
  <2>3. ASSUME NEW c \in Caller, TakeGuard(c) PROVE GuardInv'
    <3>1. op[c] \in Ops /\ Wanted(c) \in Guards(op[c]) \ held[c]
      BY <2>3, WantedIsMissing DEF TakeGuard, GuardInv, Holding
    <3>2. Guards(op[c]) \subseteq Guard
      BY <3>1, PlanFacts
    <3>3. Wanted(c) \in Guard /\ \A d \in Caller : Wanted(c) \notin held[d]
      BY <2>3, <3>1, <3>2 DEF TakeGuard, GuardInv
    <3> DEFINE w == Wanted(c)
    <3>4. /\ active' = [active EXCEPT ![w] = TRUE]
          /\ held' = [held EXCEPT ![c] = @ \cup {w}]
          /\ pc' = [pc EXCEPT ![c] = IF held[c] \cup {w} = Guards(op[c])
                                       THEN "begin" ELSE "guard"]
          /\ op' = op
          /\ pc[c] = "guard"
      BY <2>3 DEF TakeGuard, Goto, call
    <3>5. w \in Guards(op[c]) /\ w \in Guard /\ \A d \in Caller : w \notin held[d]
      BY <3>1, <3>3
    <3> HIDE DEF w
    <3> QED
      BY <3>1, <3>2, <3>4, <3>5 DEF GuardInv, Holding, Points
  <2>4. ASSUME NEW c \in Caller, Busy(c) PROVE GuardInv'
    BY <2>4 DEF Busy, Goto, GuardInv, Holding, Points
  <2>5. ASSUME NEW c \in Caller, Begin(c) PROVE GuardInv'
    BY <2>5 DEF Begin, Goto, call, GuardInv, Holding, Points
  <2>6. ASSUME NEW c \in Caller,
               BeginFails(c) \/ Transfer(c) \/ TransferFails(c) \/ Finish(c)
                 \/ FinishFails(c)
        PROVE  GuardInv'
    <3>1. /\ UNCHANGED <<active, held, op>>
          /\ pc[c] \in {"begin", "transfer", "finish"}
          /\ \/ UNCHANGED pc
             \/ \E point \in {"begin", "finish", "unlock"} :
                  pc' = [pc EXCEPT ![c] = point]
      BY <2>6 DEF BeginFails, Transfer, TransferFails, Finish, FinishFails,
                  EndStage, Goto
    <3> QED
      BY <3>1 DEF GuardInv, Holding, Points
  <2>7. ASSUME NEW c \in Caller, Unlock(c) PROVE GuardInv'
    BY <2>7 DEF Unlock, call, GuardInv, Holding, Guard
  <2>8. ASSUME NEW c \in Caller, Unlocked(c) PROVE GuardInv'
    BY <2>8 DEF Unlocked, Goto, call, GuardInv, Holding, Points
  <2>9. ASSUME NEW c \in Caller, Answer(c) PROVE GuardInv'
    <3>1. \E point \in {"persist", "answered"} : pc' = [pc EXCEPT ![c] = point]
      BY <2>9 DEF Answer, ReportSetAll, ReportOther, Goto
    <3> QED
      BY <2>9, <3>1 DEF Answer, call, GuardInv, Holding, Points
  <2>10. ASSUME NEW c \in Caller, Persist(c) PROVE GuardInv'
    BY <2>10 DEF Persist, Goto, call, GuardInv, Holding, Points
  <2>11. ASSUME NEW c \in Caller, Return(c) PROVE GuardInv'
    BY <2>11 DEF Return, Goto, GuardInv, Holding, Points
  <2> QED
    BY <2>1, <2>2, <2>3, <2>4, <2>5, <2>6, <2>7, <2>8, <2>9, <2>10, <2>11
       DEF Next, Step
<1> QED
  BY <1>1, <1>2, PTL DEF Spec

\* ControllersExclusive: a set-all and any other call of the process never use
\* a controller at the same time.
THEOREM ExclusiveControllers == Spec => []ControllersExclusive
<1>1. GuardInv => ControllersExclusive
  BY DEF GuardInv, Holding, ControllersExclusive, Using, Guards
<1> QED
  BY <1>1, GuardInvariant, PTL

\* NoGuardLeaks: the flags are set exactly while a call holds its guards.
THEOREM GuardsAreReturned == Spec => []NoGuardLeaks
<1>1. GuardInv => NoGuardLeaks
  BY DEF GuardInv, Holding, NoGuardLeaks
<1> QED
  BY <1>1, GuardInvariant, PTL

------------------------------------------------------------------------------
(* The stages. *)

Fresh(c, s) ==
  outcome[c][s] = NotStarted /\ s \notin invoked[c] /\ taken[c][s] = 0

Success(c, s) ==
  /\ outcome[c][s] = Completed(Steps[s])
  /\ s \in invoked[c]
  /\ taken[c][s] = Steps[s]

\* A stage that ended, with or without an error.
Reported(c, s) ==
  /\ outcome[c][s].failed \/ Success(c, s)
  /\ outcome[c][s].completed <= taken[c][s]
  /\ taken[c][s] <= Steps[s]
  /\ taken[c][s] > 0 => s \in invoked[c]
  /\ s # STATUS => (outcome[c][s].attempted <=> s \in invoked[c])
  /\ Controller(s) = "aw" => taken[c][s] <= outcome[c][s].completed + 1

\* The stage a call is in.
Current(c, s) ==
  /\ pc[c] \in {"guard", "begin"} =>
       Fresh(c, s) /\ done[c] = 0 /\ error[c] = "none"
  /\ pc[c] = "transfer" =>
       /\ outcome[c][s] = NotStarted /\ error[c] = "none"
       /\ taken[c][s] = done[c] /\ done[c] < Steps[s]
       /\ s \in invoked[c] <=> done[c] > 0
  /\ pc[c] = "finish" =>
       /\ outcome[c][s] = NotStarted /\ s \in invoked[c] /\ Controller(s) = "aw"
       /\ done[c] <= taken[c][s] /\ taken[c][s] <= done[c] + 1
       /\ taken[c][s] <= Steps[s]
       /\ error[c] = "none" => done[c] = Steps[s]
       /\ error[c] # "refused"
  /\ pc[c] \in {"unlock", "answer", "persist", "answered"} =>
       /\ done[c] = 0
       /\ IF error[c] = "refused" THEN Fresh(c, s)
          ELSE /\ Reported(c, s)
               /\ ~outcome[c][s].failed => s = Last(op[c])
               /\ outcome[c][s].failed <=> error[c] # "none"

\* What the command has said and saved so far.
Said(c) ==
  /\ pc[c] # "answered" => answer[c] = Unanswered /\ ~saved[c]
  /\ pc[c] = "persist" => op[c] = "set_all" /\ CompletedCanonically(c)
  /\ (pc[c] = "answered" /\ op[c] = "set_all") =>
       /\ answer[c].code = "preflight" => error[c] = "refused"
       /\ answer[c].performed <=> Performed(c)
       /\ answer[c].code = "ok" => saved[c]
  /\ saved[c] => op[c] = "set_all" /\ CompletedCanonically(c)

Progress(c) ==
  /\ stage[c] \in Stages
  /\ pc[c] = "idle" =>
       /\ \A s \in Stages : Fresh(c, s)
       /\ done[c] = 0 /\ error[c] = "none" /\ op[c] = "none"
  /\ pc[c] # "idle" =>
       /\ op[c] \in Ops
       /\ stage[c] \in Plan(op[c])
       /\ \A s \in Stages : stage[c] < s \/ s \notin Plan(op[c]) => Fresh(c, s)
       /\ \A s \in Plan(op[c]) : s < stage[c] => Success(c, s)
       /\ pc[c] = "guard" \/ error[c] = "refused" => stage[c] = First(op[c])
       /\ Current(c, stage[c])
  /\ Said(c)

Types ==
  /\ pc \in [Caller -> Points]
  /\ op \in [Caller -> Ops \cup {"none"}]
  /\ stage \in [Caller -> Stages]
  /\ done \in [Caller -> Nat]
  /\ error \in [Caller -> Errors]
  /\ outcome \in [Caller -> [Stages -> Outcomes]]
  /\ answer \in [Caller -> Answers]
  /\ taken \in [Caller -> [Stages -> Nat]]
  /\ invoked \in [Caller -> SUBSET Stages]
  /\ saved \in [Caller -> BOOLEAN]

StageInv == Types /\ \A c \in Caller : Progress(c)

\* A step of another caller changes nothing a call depends on.
LEMMA Untouched ==
  ASSUME NEW d \in Caller, Progress(d),
         pc'[d] = pc[d], op'[d] = op[d], stage'[d] = stage[d],
         done'[d] = done[d], error'[d] = error[d], outcome'[d] = outcome[d],
         answer'[d] = answer[d], taken'[d] = taken[d],
         invoked'[d] = invoked[d], saved'[d] = saved[d]
  PROVE  Progress(d)'
BY DEF Progress, Fresh, Success, Reported, Current, Said, Performed,
       CompletedCanonically

\* What EndStage does to the state of its caller.
LEMMA StageEnds ==
  ASSUME StageInv, NEW c \in Caller, NEW record \in Outcomes,
         EndStage(c, record)
  PROVE  /\ outcome' \in [Caller -> [Stages -> Outcomes]]
         /\ outcome'[c][stage[c]] = record
         /\ \A s \in Stages \ {stage[c]} : outcome'[c][s] = outcome[c][s]
         /\ done' \in [Caller -> Nat] /\ done'[c] = 0
         /\ pc' \in [Caller -> Points]
         /\ \A d \in Caller \ {c} : /\ outcome'[d] = outcome[d]
                                     /\ done'[d] = done[d]
                                     /\ pc'[d] = pc[d]
                                     /\ stage'[d] = stage[d]
         /\ ~record.failed /\ stage[c] < Last(op[c]) =>
              pc'[c] = "begin" /\ stage' = [stage EXCEPT ![c] = @ + 1]
         /\ record.failed \/ ~(stage[c] < Last(op[c])) =>
              pc'[c] = "unlock" /\ stage' = stage
BY DEF StageInv, Types, EndStage, Goto, Points

\* A step that ends a stage keeps the invariant when its record is a true
\* account of the stage.
LEMMA EndKeepsProgress ==
  ASSUME StageInv, NEW c \in Caller, NEW record \in Outcomes,
         NEW now \in Stages, now = stage[c],
         pc[c] \in {"begin", "transfer", "finish"},
         EndStage(c, record), op' = op, answer' = answer, saved' = saved,
         taken' \in [Caller -> [Stages -> Nat]],
         invoked' \in [Caller -> SUBSET Stages],
         error' \in [Caller -> Errors],
         error'[c] # "refused",
         record.failed <=> error'[c] # "none",
         \A s \in Stages \ {now} : taken'[c][s] = taken[c][s],
         \A s \in Stages \ {now} : s \in invoked'[c] <=> s \in invoked[c],
         \A d \in Caller \ {c} : taken'[d] = taken[d],
         \A d \in Caller \ {c} : invoked'[d] = invoked[d],
         \A d \in Caller \ {c} : error'[d] = error[d],
         Reported(c, now)'
  PROVE  StageInv'
<1> USE ExecutorAssumption
<1>1. /\ op[c] \in Ops
      /\ now \in Plan(op[c])
      /\ Said(c)
      /\ \A s \in Stages : now < s \/ s \notin Plan(op[c]) => Fresh(c, s)
      /\ \A s \in Plan(op[c]) : s < now => Success(c, s)
  BY DEF StageInv, Progress
<1>2. PICK o \in Ops : o = op[c] /\ op'[c] = o
  BY <1>1
<1>3. /\ Plan(o) \in SUBSET Stages /\ Last(o) \in Plan(o)
      /\ \A s \in Stages : s \in Plan(o) <=> First(o) <= s /\ s <= Last(o)
      /\ First(o) \in Stages
  BY PlanFacts
<1>4. \A s \in Stages \ {now} :
        /\ Fresh(c, s) => Fresh(c, s)'
        /\ Success(c, s) => Success(c, s)'
  BY StageEnds DEF Fresh, Success
<1>5. Said(c)'
  BY <1>1, StageEnds DEF Said
<1>6. Types'
  <2>1. stage' \in [Caller -> Stages]
    <3>1. CASE ~record.failed /\ stage[c] < Last(op[c])
      <4>1. stage[c] + 1 \in Stages
        BY <3>1, <1>2, <1>3 DEF Stages, KB, STATIC, POWER, STATUS
      <4>2. stage' = [stage EXCEPT ![c] = @ + 1]
        BY <3>1, StageEnds
      <4> QED
        BY <4>1, <4>2 DEF StageInv, Types
    <3>2. CASE record.failed \/ ~(stage[c] < Last(op[c]))
      BY <3>2, StageEnds DEF StageInv, Types
    <3> QED
      BY <3>1, <3>2
  <2> QED
    BY <2>1, StageEnds DEF StageInv, Types
<1>7. Progress(c)'
  <2>1. CASE ~record.failed /\ now < Last(o)
    <3>1. PICK next \in Stages : /\ next = now + 1 /\ stage'[c] = next
                                /\ next \in Plan(o) /\ pc'[c] = "begin"
      <4>1. now + 1 \in Stages /\ now + 1 \in Plan(o)
        <5>1. First(o) \in 1..4 /\ Last(o) \in 1..4 /\ now \in 1..4
          BY <1>3 DEF Stages, KB, STATIC, POWER, STATUS
        <5>2. First(o) <= now
          BY <1>1, <1>2, <1>3
        <5>3. now + 1 \in Stages /\ First(o) <= now + 1 /\ now + 1 <= Last(o)
          BY <2>1, <5>1, <5>2 DEF Stages, KB, STATIC, POWER, STATUS
        <5> QED
          BY <5>3, <1>3
      <4>2. pc'[c] = "begin" /\ stage' = [stage EXCEPT ![c] = @ + 1]
        BY <2>1, <1>2, StageEnds
      <4>3. stage'[c] = now + 1
        BY <4>2 DEF StageInv, Types
      <4> QED
        BY <4>1, <4>2, <4>3
    <3>2. Success(c, now)'
      BY <2>1, StageEnds DEF Reported
    <3>3. \A s \in Plan(o) : s < next => Success(c, s)'
      BY <3>1, <3>2, <1>1, <1>2, <1>3, <1>4
         DEF Stages, KB, STATIC, POWER, STATUS
    <3>4. \A s \in Stages : now < s \/ s \notin Plan(o) => Fresh(c, s)'
      BY <1>1, <1>2, <1>4 DEF Stages, KB, STATIC, POWER, STATUS
    <3>5. Fresh(c, next)'
      BY <3>1, <3>4 DEF Stages, KB, STATIC, POWER, STATUS
    <3>6. Current(c, stage[c])'
      BY <2>1, <3>1, <3>5, StageEnds DEF Current, Fresh
    <3>7. \A s \in Stages : next < s => now < s
      BY <3>1 DEF Stages, KB, STATIC, POWER, STATUS
    <3> QED
      BY <2>1, <1>2, <1>5, <3>1, <3>3, <3>4, <3>6, <3>7 DEF Progress
  <2>2. CASE record.failed \/ ~(now < Last(o))
    <3>1. stage'[c] = now /\ pc'[c] = "unlock" /\ done'[c] = 0
      BY <2>2, <1>2, StageEnds
    <3>2. ~record.failed => now = Last(o)
      BY SMTT(30), <2>2, <1>1, <1>2, <1>3 DEF Stages, KB, STATIC, POWER, STATUS
    <3>3. Current(c, stage[c])'
      BY <3>1, <3>2, <1>2, StageEnds DEF Current, Reported, Success
    <3> QED
      BY <1>1, <1>2, <1>3, <1>4, <1>5, <3>1, <3>3
         DEF Progress, Stages, KB, STATIC, POWER, STATUS
  <2> QED
    BY <2>1, <2>2
<1>8. ASSUME NEW d \in Caller, d # c PROVE Progress(d)'
  BY <1>8, StageEnds, Untouched DEF StageInv
<1> QED
  BY <1>6, <1>7, <1>8 DEF StageInv

\* The record of a completed stage, field by field.
LEMMA CompletedFields ==
  ASSUME NEW n
  PROVE  /\ Completed(n).completed = n
         /\ Completed(n).attempted <=> n > 0
         /\ ~Completed(n).failed
BY DEF Completed

\* The fields of what set_all_completed_canonically compares with.
LEMMA CanonicalFields ==
  ASSUME NEW c, CompletedCanonically(c), NEW s \in Plan("set_all")
  PROVE  /\ outcome[c][s].completed = Steps[s]
         /\ outcome[c][s].attempted
         /\ ~outcome[c][s].failed
<1>1. outcome[c][s] =
        [completed |-> Steps[s], attempted |-> TRUE, failed |-> FALSE]
  BY DEF CompletedCanonically
<1> QED
  BY <1>1

\* How the four ways to end a stage report it.
LEMMA RecordsAreOutcomes ==
  ASSUME NEW n \in Nat, NEW s \in Stages, NEW e \in Errors
  PROVE  /\ Completed(n) \in Outcomes
         /\ Broken(s, e, n) \in Outcomes
         /\ [NotStarted EXCEPT !.failed = TRUE] \in Outcomes
         /\ ~Completed(n).failed
         /\ Broken(s, e, n).failed
         /\ Broken(s, e, n).attempted <=> s # STATUS
         /\ Broken(s, e, n).completed <= n
         /\ Controller(s) = "aw" => Broken(s, e, n).completed = n
<1>1. /\ Completed(n) \in Outcomes
      /\ ~Completed(n).failed
  BY DEF Completed, Outcomes
<1>2. [NotStarted EXCEPT !.failed = TRUE] \in Outcomes
  BY DEF NotStarted, Outcomes
<1>3. PICK k \in Nat, a \in BOOLEAN :
        /\ Broken(s, e, n) = [completed |-> k, attempted |-> a, failed |-> TRUE]
        /\ k <= n
        /\ Controller(s) = "aw" => k = n
        /\ a <=> s # STATUS
  <2>1. (s # STATUS) \in BOOLEAN
    OBVIOUS
  <2> DEFINE k == IF Controller(s) = "aw" \/ (s = KB /\ e = "backend")
                   THEN n ELSE 0
  <2>2. k \in Nat /\ k <= n /\ (Controller(s) = "aw" => k = n)
    OBVIOUS
  <2>3. Broken(s, e, n) = [completed |-> k, attempted |-> s # STATUS,
                           failed |-> TRUE]
    BY DEF Broken
  <2> QED
    BY <2>1, <2>2, <2>3
<1>4. /\ Broken(s, e, n) \in Outcomes
      /\ Broken(s, e, n).failed
      /\ Broken(s, e, n).attempted <=> s # STATUS
      /\ Broken(s, e, n).completed <= n
      /\ Controller(s) = "aw" => Broken(s, e, n).completed = n
  BY <1>3 DEF Outcomes
<1> QED
  BY <1>1, <1>2, <1>4

\* TransferFails and Transfer in the middle of a dispatch, seen from the caller.
LEMMA InvokeStep ==
  ASSUME StageInv, NEW c \in Caller, NEW now \in Stages, now = stage[c],
         NEW reached \in BOOLEAN, Invoke(c, reached)
  PROVE  /\ taken' \in [Caller -> [Stages -> Nat]]
         /\ invoked' \in [Caller -> SUBSET Stages]
         /\ taken'[c][now] = IF reached THEN taken[c][now] + 1 ELSE taken[c][now]
         /\ now \in invoked'[c]
         /\ \A s \in Stages \ {now} : taken'[c][s] = taken[c][s]
         /\ \A s \in Stages \ {now} : s \in invoked'[c] <=> s \in invoked[c]
         /\ \A d \in Caller \ {c} : taken'[d] = taken[d]
         /\ \A d \in Caller \ {c} : invoked'[d] = invoked[d]
         /\ saved' = saved
BY DEF StageInv, Types, Invoke

\* A transfer that does not end its stage disturbs nothing but the stage.
LEMMA WithinStage ==
  ASSUME StageInv, NEW c \in Caller, NEW now \in Stages, now = stage[c],
         pc[c] = "transfer", pc'[c] \in {"transfer", "finish"},
         UNCHANGED <<stage, op, outcome, answer, saved>>,
         error'[c] # "refused",
         \A s \in Stages \ {now} : taken'[c][s] = taken[c][s],
         \A s \in Stages \ {now} : s \in invoked'[c] <=> s \in invoked[c],
         Current(c, now)'
  PROVE  Progress(c)'
<1>1. /\ op[c] \in Ops
      /\ now \in Plan(op[c])
      /\ Said(c)
      /\ \A s \in Stages : now < s \/ s \notin Plan(op[c]) => Fresh(c, s)
      /\ \A s \in Plan(op[c]) : s < now => Success(c, s)
  BY DEF StageInv, Progress
<1>2. Plan(op[c]) \in SUBSET Stages
  BY <1>1, PlanFacts
<1>3. \A s \in Stages \ {now} :
        /\ Fresh(c, s) => Fresh(c, s)'
        /\ Success(c, s) => Success(c, s)'
  BY DEF Fresh, Success
<1>4. Said(c)'
  BY <1>1 DEF Said, CompletedCanonically
<1>5. \A s \in Stages : now < s \/ s \notin Plan(op[c]) => s # now
  BY <1>1 DEF Stages, KB, STATIC, POWER, STATUS
<1>6. \A s \in Stages : s < now => s # now
  BY DEF Stages, KB, STATIC, POWER, STATUS
<1> QED
  BY <1>1, <1>2, <1>3, <1>4, <1>5, <1>6 DEF Progress

\* A transferred frame keeps what relates a call's progress to the controllers:
\* the count of the stage and the frames taken grow together.
LEMMA TransferKeepsProgress ==
  ASSUME StageInv, NEW c \in Caller, Transfer(c)
  PROVE  StageInv'
<1> USE ExecutorAssumption
<1>1. PICK now \in Stages : now = stage[c]
  BY DEF StageInv, Types
<1>2. /\ pc[c] = "transfer" /\ op[c] \in Ops /\ now \in Plan(op[c])
      /\ outcome[c][now] = NotStarted /\ error[c] = "none"
      /\ taken[c][now] = done[c] /\ done[c] < Steps[now]
      /\ done[c] \in Nat /\ Steps[now] \in Nat
  BY <1>1 DEF Transfer, StageInv, Progress, Current, Types
<1>3. Invoke(c, TRUE) /\ UNCHANGED <<op, error, answer>>
  BY DEF Transfer
<1>31. /\ taken' \in [Caller -> [Stages -> Nat]]
       /\ invoked' \in [Caller -> SUBSET Stages]
       /\ taken'[c][now] = taken[c][now] + 1
       /\ now \in invoked'[c]
       /\ \A s \in Stages \ {now} : taken'[c][s] = taken[c][s]
       /\ \A s \in Stages \ {now} : s \in invoked'[c] <=> s \in invoked[c]
       /\ \A d \in Caller \ {c} : taken'[d] = taken[d]
       /\ \A d \in Caller \ {c} : invoked'[d] = invoked[d]
       /\ saved' = saved
  BY ZenonT(60), <1>1, <1>3, InvokeStep
<1>4. CASE done[c] + 1 < Steps[now]
  <2>1. /\ done' = [done EXCEPT ![c] = @ + 1]
        /\ UNCHANGED <<pc, stage, outcome>>
    BY <1>1, <1>4 DEF Transfer
  <2>2. Types'
    <3>1. done' \in [Caller -> Nat]
      BY <1>2, <2>1 DEF StageInv, Types
    <3> QED
      BY <1>3, <2>1, <3>1, <1>31 DEF StageInv, Types
  <2>3. Progress(c)'
    <3>1. Current(c, now)'
      BY <1>1, <1>2, <1>3, <1>4, <2>1, <1>31 DEF StageInv, Types, Current
    <3>2. pc'[c] \in {"transfer", "finish"} /\ error'[c] # "refused"
      BY <1>2, <1>3, <2>1 DEF StageInv, Types
    <3> QED
      BY <1>1, <1>2, <1>3, <2>1, <3>1, <3>2, <1>31, WithinStage
  <2>4. ASSUME NEW d \in Caller, d # c PROVE Progress(d)'
    BY <1>1, <1>3, <2>1, <2>4, <1>31, Untouched DEF StageInv, Types
  <2> QED
    BY <2>2, <2>3, <2>4 DEF StageInv
<1>5. CASE ~(done[c] + 1 < Steps[now]) /\ Controller(now) = "aw"
  <2>1. /\ done' = [done EXCEPT ![c] = @ + 1]
        /\ pc' = [pc EXCEPT ![c] = "finish"]
        /\ UNCHANGED <<stage, outcome>>
    BY <1>1, <1>5 DEF Transfer, Goto
  <2>2. Types'
    <3>1. done' \in [Caller -> Nat]
      BY <1>2, <2>1 DEF StageInv, Types
    <3> QED
      BY <1>3, <2>1, <3>1, <1>31 DEF StageInv, Types, Points
  <2>3. Progress(c)'
    <3>1. Current(c, now)'
      BY <1>1, <1>2, <1>3, <1>5, <2>1, <1>31 DEF StageInv, Types, Current
    <3>2. pc'[c] \in {"transfer", "finish"} /\ error'[c] # "refused"
      BY <1>2, <1>3, <2>1 DEF StageInv, Types
    <3> QED
      BY <1>1, <1>2, <1>3, <2>1, <3>1, <3>2, <1>31, WithinStage
  <2>4. ASSUME NEW d \in Caller, d # c PROVE Progress(d)'
    BY <1>1, <1>3, <2>1, <2>4, <1>31, Untouched DEF StageInv, Types
  <2> QED
    BY <2>2, <2>3, <2>4 DEF StageInv
<1>6. CASE ~(done[c] + 1 < Steps[now]) /\ Controller(now) # "aw"
  <2> DEFINE record == Completed(done[c] + 1)
  <2>1. EndStage(c, record)
    BY <1>1, <1>6 DEF Transfer
  <2>2. done[c] + 1 = Steps[now]
    BY <1>2, <1>6
  <2>3. record \in Outcomes /\ ~record.failed /\ record = Completed(Steps[now])
    BY <1>2, <2>2, RecordsAreOutcomes DEF Errors
  <2>4. outcome'[c][now] = record
    BY <1>1, <2>1, <2>3, StageEnds
  <2>5. /\ record.completed = Steps[now] /\ ~record.failed
        /\ record.attempted <=> Steps[now] > 0
    BY <2>3 DEF Completed
  <2>6. taken'[c][now] = Steps[now] /\ now \in invoked'[c]
    BY <1>2, <2>2, <1>31
  <2>7. Reported(c, now)'
    BY <1>2, <2>3, <2>4, <2>5, <2>6 DEF Reported, Success
  <2> HIDE DEF record
  <2> QED
    BY <1>1, <1>2, <1>3, <2>1, <2>3, <2>7, <1>31, EndKeepsProgress
       DEF StageInv, Types, Errors
<1> QED
  BY <1>4, <1>5, <1>6

\* A failed transfer keeps it: at most the frame in doubt is not counted.
LEMMA TransferFailsKeepsProgress ==
  ASSUME StageInv, NEW c \in Caller, TransferFails(c)
  PROVE  StageInv'
<1> USE ExecutorAssumption
<1>1. PICK now \in Stages : now = stage[c]
  BY DEF StageInv, Types
<1>2. /\ pc[c] = "transfer" /\ op[c] \in Ops /\ now \in Plan(op[c])
      /\ outcome[c][now] = NotStarted /\ error[c] = "none"
      /\ taken[c][now] = done[c] /\ done[c] < Steps[now]
      /\ done[c] \in Nat /\ Steps[now] \in Nat
  BY <1>1 DEF TransferFails, StageInv, Progress, Current, Types
<1>3. PICK e \in {"backend", "short", "status"}, reached \in BOOLEAN :
        /\ error' = [error EXCEPT ![c] = e]
        /\ Invoke(c, reached)
        /\ IF Controller(now) = "aw"
             THEN Goto(c, "finish") /\ UNCHANGED <<stage, done, outcome>>
             ELSE EndStage(c, Broken(now, e, done[c]))
        /\ UNCHANGED <<op, answer>>
  BY <1>1 DEF TransferFails, Failures
<1>4. error' \in [Caller -> Errors] /\ error'[c] = e /\ e \in Errors
  BY <1>3 DEF StageInv, Types, Errors
<1>41. /\ taken' \in [Caller -> [Stages -> Nat]]
       /\ invoked' \in [Caller -> SUBSET Stages]
       /\ taken'[c][now] = IF reached THEN taken[c][now] + 1
                                       ELSE taken[c][now]
       /\ now \in invoked'[c]
       /\ \A s \in Stages \ {now} : taken'[c][s] = taken[c][s]
       /\ \A s \in Stages \ {now} : s \in invoked'[c] <=> s \in invoked[c]
       /\ \A d \in Caller \ {c} : taken'[d] = taken[d]
       /\ \A d \in Caller \ {c} : invoked'[d] = invoked[d]
       /\ saved' = saved
  BY <1>1, <1>3, InvokeStep
<1>5. CASE Controller(now) = "aw"
  <2>1. /\ pc' = [pc EXCEPT ![c] = "finish"]
        /\ UNCHANGED <<stage, done, outcome>>
    BY <1>3, <1>5 DEF Goto
  <2>2. Types'
    BY <1>1, <1>2, <1>3, <1>4, <2>1, <1>41 DEF StageInv, Types, Points
  <2>3. Progress(c)'
    <3>1. Current(c, now)'
      BY <1>1, <1>2, <1>3, <1>4, <1>5, <2>1, <1>41 DEF StageInv, Types, Current
    <3>2. pc'[c] \in {"transfer", "finish"} /\ error'[c] # "refused"
      BY <1>2, <1>3, <2>1 DEF StageInv, Types
    <3> QED
      BY <1>1, <1>2, <1>3, <2>1, <3>1, <3>2, <1>41, WithinStage
  <2>4. ASSUME NEW d \in Caller, d # c PROVE Progress(d)'
    BY <1>1, <1>3, <2>1, <2>4, <1>41, Untouched DEF StageInv, Types
  <2> QED
    BY <2>2, <2>3, <2>4 DEF StageInv
<1>6. CASE Controller(now) # "aw"
  <2> DEFINE record == Broken(now, e, done[c])
  <2>1. EndStage(c, record)
    BY <1>3, <1>6
  <2>2. /\ record \in Outcomes /\ record.failed
        /\ record.attempted <=> now # STATUS
        /\ record.completed <= done[c]
    BY <1>2, <1>4, RecordsAreOutcomes
  <2>3. record.completed \in Nat
    BY <2>2 DEF Outcomes
  <2> HIDE DEF record
  <2>4. outcome'[c][now] = record
    BY <1>1, <2>1, <2>2, StageEnds
  <2>5. Reported(c, now)'
    BY <1>1, <1>2, <1>3, <1>6, <2>2, <2>3, <2>4, <1>41 DEF Reported
  <2> QED
    BY <1>1, <1>2, <1>3, <1>4, <2>1, <2>2, <2>5, <1>41, EndKeepsProgress
       DEF StageInv, Types
<1> QED
  BY <1>5, <1>6

\* A stage that fails before its first transfer keeps it: nothing was taken.
LEMMA BeginFailsKeepsProgress ==
  ASSUME StageInv, NEW c \in Caller, BeginFails(c)
  PROVE  StageInv'
<1>1. PICK now \in Stages : now = stage[c]
  BY DEF StageInv, Types
<1> DEFINE record == [NotStarted EXCEPT !.failed = TRUE]
<1>2. Fresh(c, now) /\ pc[c] = "begin"
  BY <1>1 DEF BeginFails, StageInv, Progress, Current
<1>3. /\ EndStage(c, record)
      /\ error' = [error EXCEPT ![c] = "begin"]
      /\ UNCHANGED <<op, answer, taken, invoked, saved>>
  BY DEF BeginFails, history
<1>4. /\ record \in Outcomes /\ record.failed
      /\ record.completed = 0 /\ ~record.attempted
  BY RecordsAreOutcomes DEF NotStarted, Outcomes
<1>5. error' \in [Caller -> Errors] /\ error'[c] = "begin"
  BY <1>3 DEF StageInv, Types, Errors
<1> HIDE DEF record
<1>6. outcome'[c][now] = record
  BY <1>1, <1>3, <1>4, StageEnds
<1>7. Reported(c, now)'
  BY <1>2, <1>3, <1>4, <1>6, ExecutorAssumption DEF Reported, Fresh
<1> QED
  BY <1>1, <1>2, <1>3, <1>4, <1>5, <1>7, EndKeepsProgress DEF StageInv, Types

\* The cleanup of an AW-ELC stage keeps it, whether it succeeds or not.
LEMMA FinishKeepsProgress ==
  ASSUME StageInv, NEW c \in Caller, Finish(c) \/ FinishFails(c)
  PROVE  StageInv'
<1> USE ExecutorAssumption
<1>1. PICK now \in Stages : now = stage[c]
  BY DEF StageInv, Types
<1>2. /\ pc[c] = "finish" /\ now \in invoked[c] /\ Controller(now) = "aw"
      /\ now # STATUS
      /\ done[c] <= taken[c][now] /\ taken[c][now] <= done[c] + 1
      /\ taken[c][now] <= Steps[now]
      /\ error[c] = "none" => done[c] = Steps[now]
      /\ done[c] \in Nat /\ taken[c][now] \in Nat /\ Steps[now] \in Nat \ {0}
      /\ error[c] \in Errors
  BY <1>1 DEF Finish, FinishFails, StageInv, Progress, Current, Types, Controller
<1>3. error[c] # "refused"
  BY <1>1, <1>2 DEF StageInv, Progress, Current
<1>4. CASE Finish(c) /\ error[c] = "none"
  <2>1. EndStage(c, Completed(done[c])) /\ UNCHANGED <<op, error, answer, history>>
    BY <1>4 DEF Finish
  <2>2. PICK record \in Outcomes :
          /\ record = Completed(Steps[now])
          /\ EndStage(c, record)
          /\ ~record.failed
          /\ record.completed = Steps[now]
          /\ record.attempted <=> Steps[now] > 0
    BY <1>2, <1>4, <2>1, RecordsAreOutcomes DEF Completed
  <2>3. outcome'[c][now] = record
    BY <1>1, <2>2, StageEnds
  <2>4. Reported(c, now)'
    BY <1>2, <1>4, <2>1, <2>2, <2>3 DEF Reported, Success, history
  <2> QED
    BY <1>1, <1>2, <1>3, <1>4, <2>1, <2>2, <2>4, EndKeepsProgress
       DEF StageInv, Types, history
<1>5. CASE FinishFails(c) \/ (Finish(c) /\ error[c] # "none")
  <2>1. PICK e \in Errors :
          /\ e \notin {"refused", "none"}
          /\ error' = [error EXCEPT ![c] = e]
          /\ EndStage(c, Broken(now, e, done[c]))
          /\ UNCHANGED <<op, answer, taken, invoked, saved>>
    <3>1. CASE FinishFails(c)
      <4> DEFINE e == IF error[c] = "none" THEN "cleanup" ELSE error[c]
      <4>1. e \in Errors /\ e \notin {"refused", "none"}
        BY <1>2, <1>3 DEF Errors
      <4>2. error' = [error EXCEPT ![c] = e] /\ error'[c] = e
        BY <3>1 DEF FinishFails, StageInv, Types
      <4> QED
        BY <1>1, <3>1, <4>1, <4>2 DEF FinishFails, history
    <3>2. CASE Finish(c) /\ error[c] # "none"
      <4>1. error' = [error EXCEPT ![c] = error[c]]
        BY <3>2 DEF Finish, StageInv, Types
      <4> QED
        BY <1>1, <1>2, <1>3, <3>2, <4>1 DEF Finish, history
    <3> QED
      BY <1>5, <3>1, <3>2
  <2>2. PICK record \in Outcomes :
          /\ EndStage(c, record)
          /\ record.failed
          /\ record.attempted
          /\ record.completed = done[c]
    BY <1>2, <2>1, RecordsAreOutcomes
  <2>3. outcome'[c][now] = record
    BY <1>1, <2>2, StageEnds
  <2>4. Reported(c, now)'
    BY <1>2, <2>1, <2>2, <2>3 DEF Reported
  <2>5. error' \in [Caller -> Errors] /\ error'[c] = e
    BY <2>1 DEF StageInv, Types
  <2> QED
    BY <1>1, <1>2, <2>1, <2>2, <2>4, <2>5, EndKeepsProgress DEF StageInv, Types
<1> QED
  BY <1>4, <1>5

\* Every stage is what the records say, in every reachable state.
THEOREM StageInvariant == Spec => []StageInv
<1> USE ExecutorAssumption
<1>1. Init => StageInv
  BY DEF Init, StageInv, Types, Points, Errors, Outcomes, Answers, NotStarted,
         Unanswered, Stages, Progress, Fresh, Said
<1>2. StageInv /\ [Next]_vars => StageInv'
  <2> SUFFICES ASSUME StageInv, [Next]_vars PROVE StageInv'
    OBVIOUS
  <2>1. CASE UNCHANGED vars
    <3>1. ASSUME NEW d \in Caller PROVE Progress(d)'
      BY <2>1, <3>1, Untouched DEF vars, call, history, StageInv
    <3> QED
      BY <2>1, <3>1 DEF vars, call, history, StageInv, Types
  <2>2. ASSUME NEW c \in Caller, NEW o \in Ops, Call(c, o) PROVE StageInv'
    <3>1. First(o) \in Stages /\ First(o) \in Plan(o)
      BY PlanFacts
    <3>2. Types'
      BY <2>2, <3>1 DEF Call, Goto, history, StageInv, Types, Points, Errors
    <3>3. Progress(c)'
      BY <2>2, <3>1
         DEF Call, Goto, history, StageInv, Types, Progress, Fresh, Current,
             Said, Plan, Stages, KB, STATIC, POWER, STATUS
    <3>4. ASSUME NEW d \in Caller, d # c PROVE Progress(d)'
      BY <2>2, <3>4, Untouched DEF Call, Goto, history, StageInv, Types
    <3> QED
      BY <3>2, <3>3, <3>4 DEF StageInv
  <2>3. ASSUME NEW c \in Caller,
               TakeGuard(c) \/ Begin(c) \/ Unlock(c) \/ Unlocked(c)
        PROVE  StageInv'
    <3>1. /\ UNCHANGED <<call, outcome, answer, history>>
          /\ \/ /\ pc[c] = "guard"
                /\ \E p \in {"guard", "begin"} : pc' = [pc EXCEPT ![c] = p]
             \/ pc[c] = "begin" /\ pc' = [pc EXCEPT ![c] = "transfer"]
             \/ pc[c] = "unlock" /\ pc' = [pc EXCEPT ![c] = "answer"]
             \/ UNCHANGED pc
      BY <2>3 DEF TakeGuard, Begin, Unlock, Unlocked, Goto
    <3>2. Types'
      BY <3>1 DEF call, history, StageInv, Types, Points
    <3>3. Progress(c)'
      BY <3>1 DEF call, history, StageInv, Types, Progress, Fresh, Success,
                  Reported, Current, Said, Performed, CompletedCanonically
    <3>4. ASSUME NEW d \in Caller, d # c PROVE Progress(d)'
      BY <3>1, <3>4, Untouched DEF call, history, StageInv, Types
    <3> QED
      BY <3>2, <3>3, <3>4 DEF StageInv
  <2>4. ASSUME NEW c \in Caller, Busy(c) PROVE StageInv'
    <3>2. Types'
      BY <2>4 DEF Busy, Goto, history, StageInv, Types, Points, Errors
    <3>3. Progress(c)'
      BY <2>4 DEF Busy, Goto, history, StageInv, Types, Progress, Fresh,
                  Success, Current, Said
    <3>4. ASSUME NEW d \in Caller, d # c PROVE Progress(d)'
      BY <2>4, <3>4, Untouched DEF Busy, Goto, history, StageInv, Types
    <3> QED
      BY <3>2, <3>3, <3>4 DEF StageInv
  <2>5. ASSUME NEW c \in Caller, BeginFails(c) PROVE StageInv'
    BY <2>5, BeginFailsKeepsProgress
  <2>6. ASSUME NEW c \in Caller, Transfer(c) PROVE StageInv'
    BY <2>6, TransferKeepsProgress
  <2>7. ASSUME NEW c \in Caller, TransferFails(c) PROVE StageInv'
    BY <2>7, TransferFailsKeepsProgress
  <2>8. ASSUME NEW c \in Caller, Finish(c) \/ FinishFails(c) PROVE StageInv'
    BY <2>8, FinishKeepsProgress
  <2>9. ASSUME NEW c \in Caller, Answer(c) PROVE StageInv'
    <3>1. PICK p \in {"persist", "answered"}, a \in Answers :
            /\ pc' = [pc EXCEPT ![c] = p]
            /\ p = "persist" => op[c] = "set_all" /\ CompletedCanonically(c)
            /\ answer'[c] = a /\ answer' \in [Caller -> Answers]
            /\ p = "persist" => a = Unanswered
            /\ op[c] = "set_all" =>
                 /\ a.code # "ok"
                 /\ a.code = "preflight" => error[c] = "refused"
                 /\ p = "answered" => (a.performed <=> Performed(c))
            /\ \A d \in Caller \ {c} : answer'[d] = answer[d]
      <4>1. Answer(c) /\ pc[c] = "answer" /\ answer[c] = Unanswered
        BY <2>9 DEF Answer, StageInv, Progress, Said
      <4>2. error[c] = "refused" /\ op[c] = "set_all" => ~Performed(c)
        <5>1. ASSUME error[c] = "refused", op[c] = "set_all",
                     NEW s \in Plan("set_all")
              PROVE  outcome[c][s] = NotStarted
          <6>1. stage[c] = First(op[c]) /\ Fresh(c, stage[c])
            BY <4>1, <5>1 DEF StageInv, Progress, Current
          <6>2. s = stage[c] \/ stage[c] < s
            BY <5>1, <6>1 DEF Plan, First, Last, KB, STATIC, POWER, STATUS
          <6>3. s \in Stages
            BY <5>1 DEF Plan, First, Last, Stages, KB, STATIC, POWER, STATUS
          <6> QED
            BY <4>1, <6>1, <6>2, <6>3 DEF StageInv, Progress, Fresh
        <5> QED
          BY <5>1 DEF Performed, NotStarted
      <4>3. Performed(c) \in BOOLEAN
        BY DEF Performed
      <4>4. CASE ReportSetAll(c) /\ pc' = [pc EXCEPT ![c] = "persist"]
                   /\ CompletedCanonically(c) /\ UNCHANGED answer
        BY <4>1, <4>4 DEF ReportSetAll, StageInv, Types, Answers, Unanswered
      <4>5. CASE ReportSetAll(c) /\ error[c] = "refused"
        <5> DEFINE a == [code |-> "preflight", performed |-> FALSE]
        <5>1. /\ pc' = [pc EXCEPT ![c] = "answered"]
              /\ answer' = [answer EXCEPT ![c] = a]
              /\ op[c] = "set_all"
          BY <4>5 DEF ReportSetAll, Goto
        <5>2. a \in Answers /\ a.code = "preflight" /\ a.performed = FALSE
          BY DEF Answers
        <5> HIDE DEF a
        <5> QED
          BY <4>2, <4>5, <5>1, <5>2 DEF StageInv, Types
      <4>6. CASE ReportSetAll(c) /\ error[c] # "refused"
                   /\ ~CompletedCanonically(c)
        <5> DEFINE a == [code |-> "failed", performed |-> Performed(c)]
        <5>1. /\ pc' = [pc EXCEPT ![c] = "answered"]
              /\ answer' = [answer EXCEPT ![c] = a]
              /\ op[c] = "set_all"
          BY <4>6 DEF ReportSetAll, Goto
        <5>2. a \in Answers /\ a.code = "failed" /\ a.performed = Performed(c)
          BY <4>3 DEF Answers
        <5> HIDE DEF a
        <5> QED
          BY <5>1, <5>2 DEF StageInv, Types
      <4>7. CASE ReportOther(c)
        <5>1. PICK a \in Answers : answer' = [answer EXCEPT ![c] = a]
          <6>1. /\ [code |-> "ok", performed |-> TRUE] \in Answers
                /\ [code |-> "failed", performed |-> FALSE] \in Answers
            BY DEF Answers
          <6> QED
            BY <4>7, <6>1 DEF ReportOther
        <5>2. op[c] # "set_all" /\ pc' = [pc EXCEPT ![c] = "answered"]
          BY <4>7 DEF ReportOther, Goto
        <5>3. /\ answer'[c] = a
              /\ answer' \in [Caller -> Answers]
              /\ \A d \in Caller \ {c} : answer'[d] = answer[d]
          BY <5>1 DEF StageInv, Types
        <5> QED
          BY <5>2, <5>3
      <4> QED
        BY <4>1, <4>4, <4>5, <4>6, <4>7 DEF Answer, ReportSetAll, Goto
    <3>2. pc[c] = "answer" /\ UNCHANGED <<call, outcome, history>>
      BY <2>9 DEF Answer
    <3>3. Types'
      BY <3>1, <3>2 DEF call, history, StageInv, Types, Points
    <3>4. Progress(c)'
      <4>1. Said(c)'
        BY <3>1, <3>2 DEF call, history, StageInv, Types, Progress, Said,
                          Performed, CompletedCanonically
      <4> QED
        BY <3>1, <3>2, <4>1 DEF call, history, StageInv, Types, Progress, Fresh,
                                Success, Reported, Current
    <3>5. ASSUME NEW d \in Caller, d # c PROVE Progress(d)'
      BY <3>1, <3>2, <3>5, Untouched DEF call, history, StageInv, Types
    <3> QED
      BY <3>3, <3>4, <3>5 DEF StageInv
  <2>10. ASSUME NEW c \in Caller, Persist(c) PROVE StageInv'
    <3>1. PICK b \in BOOLEAN, code \in {"ok", "unsaved"} :
            /\ saved' = [saved EXCEPT ![c] = b]
            /\ answer' = [answer EXCEPT ![c] = [code |-> code, performed |-> TRUE]]
            /\ code = "ok" => b
      BY <2>10 DEF Persist
    <3>2. /\ pc[c] = "persist" /\ pc' = [pc EXCEPT ![c] = "answered"]
          /\ UNCHANGED <<call, outcome, taken, invoked>>
      BY <2>10 DEF Persist, Goto
    <3>3. Types'
      BY <3>1, <3>2 DEF call, StageInv, Types, Points, Answers
    <3>4. Said(c)'
      <4>1. op[c] = "set_all" /\ CompletedCanonically(c)
        BY <3>2 DEF StageInv, Progress, Said
      <4>2. Performed(c)
        <5>1. KB \in Plan("set_all")
          BY DEF Plan, First, Last, KB, STATIC, POWER, STATUS
        <5>2. outcome[c][KB].attempted
          BY <4>1, <5>1, CanonicalFields
        <5> QED
          BY <5>1, <5>2 DEF Performed
      <4> QED
        BY <3>1, <3>2, <4>1, <4>2
           DEF call, StageInv, Types, Said, Performed, CompletedCanonically
    <3>5. Progress(c)'
      BY <3>2, <3>4 DEF call, StageInv, Types, Progress, Fresh, Success,
                        Reported, Current
    <3>6. ASSUME NEW d \in Caller, d # c PROVE Progress(d)'
      BY <3>1, <3>2, <3>6, Untouched DEF call, StageInv, Types
    <3> QED
      BY <3>3, <3>5, <3>6 DEF StageInv
  <2>11. ASSUME NEW c \in Caller, Return(c) PROVE StageInv'
    <3>1. Types'
      BY <2>11 DEF Return, Goto, StageInv, Types, Points, Errors, Outcomes,
                   Answers, NotStarted, Unanswered, Stages
    <3>2. done[c] = 0
      BY <2>11 DEF Return, StageInv, Progress, Current
    <3>3. Progress(c)'
      BY <2>11, <3>2 DEF Return, Goto, StageInv, Types, Progress, Fresh, Said,
                         Stages
    <3>4. ASSUME NEW d \in Caller, d # c PROVE Progress(d)'
      BY <2>11, <3>4, Untouched DEF Return, Goto, StageInv, Types
    <3> QED
      BY <3>1, <3>3, <3>4 DEF StageInv
  <2> QED
    BY <2>1, <2>2, <2>3, <2>4, <2>5, <2>6, <2>7, <2>8, <2>9, <2>10, <2>11
       DEF Next, Step
<1> QED
  BY <1>1, <1>2, PTL DEF Spec

\* TypeOK: no stage counts or takes more frames than its plan has.
THEOREM TypeCorrect == Spec => []TypeOK
<1> USE ExecutorAssumption
<1>1. StageInv /\ GuardInv => TypeOK
  <2> SUFFICES ASSUME StageInv, GuardInv PROVE TypeOK
    OBVIOUS
  <2>1. ASSUME NEW c \in Caller PROVE done[c] <= Steps[stage[c]]
    BY DEF StageInv, Types, Progress, Current, Points
  <2>2. ASSUME NEW c \in Caller, NEW s \in Stages PROVE taken[c][s] <= Steps[s]
    <3>1. Fresh(c, s) \/ Success(c, s) => taken[c][s] <= Steps[s]
      BY DEF Fresh, Success
    <3>2. s = stage[c] /\ pc[c] # "idle" => taken[c][s] <= Steps[s]
      <4> SUFFICES ASSUME s = stage[c], pc[c] # "idle"
                   PROVE  taken[c][s] <= Steps[s]
        OBVIOUS
      <4>1. Current(c, s) /\ pc[c] \in Points /\ taken[c][s] \in Nat
        BY DEF StageInv, Types, Progress
      <4>2. Steps[s] \in Nat
        OBVIOUS
      <4>3. CASE pc[c] = "transfer"
        BY <4>1, <4>2, <4>3 DEF Current, StageInv, Types
      <4>4. CASE pc[c] # "transfer"
        BY <4>1, <4>2, <4>4, <3>1 DEF Current, Reported, Points
      <4> QED
        BY <4>3, <4>4
    <3>3. s < stage[c] \/ s = stage[c] \/ stage[c] < s
      BY SMTT(30) DEF StageInv, Types, Stages, KB, STATIC, POWER, STATUS
    <3> QED
      BY <3>1, <3>2, <3>3 DEF StageInv, Progress
  <2> QED
    BY <2>1, <2>2 DEF StageInv, GuardInv, Types, TypeOK
<1> QED
  BY <1>1, StageInvariant, GuardInvariant, PTL

\* StagesInOrder: no frame of a stage before all of the earlier stages.
THEOREM OrderedStages == Spec => []StagesInOrder
<1> USE ExecutorAssumption
<1>1. StageInv => StagesInOrder
  <2> SUFFICES ASSUME StageInv, NEW c \in Caller,
                      NEW s \in Plan(op[c]), NEW t \in Plan(op[c]),
                      s < t, t \in invoked[c]
               PROVE  Success(c, s)
    BY CompletedFields DEF StagesInOrder, Success
  <2>1. pc[c] # "idle" /\ op[c] \in Ops /\ t \in Stages
    BY DEF StageInv, Types, Progress, Fresh
  <2>2. s \in Stages
    BY <2>1, PlanFacts
  <2>3. ~(stage[c] < t)
    BY <2>1 DEF StageInv, Progress, Fresh
  <2>4. s < stage[c]
    BY <2>1, <2>2, <2>3 DEF StageInv, Types, Stages, KB, STATIC, POWER, STATUS
  <2> QED
    BY <2>1, <2>4 DEF StageInv, Progress
<1> QED
  BY <1>1, StageInvariant, PTL

\* A set-all that completed canonically completed every one of its stages.
LEMMA CanonicalIsWhole ==
  ASSUME StageInv, NEW c \in Caller, pc[c] # "idle", op[c] = "set_all",
         CompletedCanonically(c), NEW s \in Plan("set_all")
  PROVE  taken[c][s] = Steps[s] /\ ~outcome[c][s].failed
<1>1. s \in Stages
  BY PlanFacts DEF Ops
<1>2. ~Fresh(c, s) /\ ~outcome[c][s].failed
  BY CanonicalFields DEF Fresh, NotStarted
<1>3. CASE s = stage[c]
  <2>1. pc[c] \in {"unlock", "answer", "persist", "answered"}
    BY SMTT(30), <1>2, <1>3, CanonicalFields
       DEF StageInv, Types, Progress, Current, Points, NotStarted
  <2>2. Reported(c, s)
    BY <1>2, <1>3, <2>1 DEF StageInv, Progress, Current
  <2> QED
    BY <1>2, <2>2 DEF Reported, Success
<1>4. CASE s # stage[c]
  BY SMTT(30), <1>1, <1>2, <1>4
     DEF StageInv, Types, Progress, Success, Stages, KB, STATIC, POWER, STATUS
<1> QED
  BY <1>3, <1>4

\* SavedOnlyWhole: a color is recorded only after a whole set-all.
THEOREM OnlyWholeIsSaved == Spec => []SavedOnlyWhole
<1>1. StageInv => SavedOnlyWhole
  <2> SUFFICES ASSUME StageInv, NEW c \in Caller
               PROVE  /\ saved[c] => /\ op[c] = "set_all"
                                     /\ \A s \in Plan("set_all") :
                                          /\ taken[c][s] = Steps[s]
                                          /\ ~outcome[c][s].failed
                      /\ (op[c] = "set_all" /\ answer[c].code = "ok") => saved[c]
    BY DEF SavedOnlyWhole
  <2>1. pc[c] # "answered" => ~saved[c] /\ answer[c].code # "ok"
    BY DEF StageInv, Progress, Said, Unanswered
  <2>2. saved[c] => op[c] = "set_all" /\ CompletedCanonically(c)
    BY DEF StageInv, Progress, Said
  <2>3. (pc[c] = "answered" /\ op[c] = "set_all" /\ answer[c].code = "ok") => saved[c]
    BY DEF StageInv, Progress, Said
  <2> QED
    BY <2>1, <2>2, <2>3, CanonicalIsWhole
<1> QED
  BY <1>1, StageInvariant, PTL

\* ReportAgrees: what a set-all reports is what its controllers took.
THEOREM TrueReports == Spec => []ReportAgrees
<1> USE ExecutorAssumption
<1>1. StageInv => ReportAgrees
  <2> SUFFICES ASSUME StageInv, NEW c \in Caller,
                      pc[c] = "answered", op[c] = "set_all"
               PROVE  /\ \A s \in Plan("set_all") :
                           /\ outcome[c][s].attempted <=> s \in invoked[c]
                           /\ outcome[c][s].completed <= taken[c][s]
                           /\ Controller(s) = "aw" =>
                                taken[c][s] <= outcome[c][s].completed + 1
                      /\ answer[c].performed <=> invoked[c] # {}
                      /\ answer[c].code = "preflight" => invoked[c] = {}
    BY DEF ReportAgrees
  <2>1. ASSUME NEW s \in Stages \ {STATUS} PROVE Fresh(c, s) \/ Reported(c, s)
    <3>1. s < stage[c] \/ s = stage[c] \/ stage[c] < s
      BY DEF StageInv, Types, Stages, KB, STATIC, POWER, STATUS
    <3>2. s = stage[c] => Fresh(c, s) \/ Reported(c, s)
      BY DEF StageInv, Progress, Current
    <3>3. Success(c, s) => Reported(c, s)
      <4>1. Steps[s] \in Nat \ {0}
        OBVIOUS
      <4>2. Success(c, s) =>
              /\ outcome[c][s].completed = Steps[s]
              /\ outcome[c][s].attempted <=> Steps[s] > 0
        BY CompletedFields DEF Success
      <4> QED
        BY <4>1, <4>2 DEF Success, Reported
    <3> QED
      BY <3>1, <3>2, <3>3 DEF StageInv, Progress
  <2>2. ASSUME NEW s \in Stages \ {STATUS}
        PROVE  /\ outcome[c][s].attempted <=> s \in invoked[c]
               /\ outcome[c][s].completed <= taken[c][s]
               /\ Controller(s) = "aw" =>
                    taken[c][s] <= outcome[c][s].completed + 1
    BY <2>1, <2>2 DEF Fresh, NotStarted, Reported
  <2>3. Plan("set_all") = Stages \ {STATUS}
    BY PlanFacts DEF Ops, Stages, KB, STATIC, POWER, STATUS
  <2>4. STATUS \notin invoked[c]
    BY <2>3 DEF StageInv, Progress, Fresh, Stages
  <2>5. answer[c].performed <=> invoked[c] # {}
    <3>1. answer[c].performed <=> Performed(c)
      BY DEF StageInv, Progress, Said
    <3>2. \A s \in Stages \ {STATUS} :
            outcome[c][s].completed > 0 => s \in invoked[c]
      <4> SUFFICES ASSUME NEW s \in Stages \ {STATUS},
                          outcome[c][s].completed > 0
                   PROVE  s \in invoked[c]
        OBVIOUS
      <4>1. Reported(c, s)
        BY <2>1 DEF Fresh, NotStarted
      <4>2. outcome[c][s].completed \in Nat /\ taken[c][s] \in Nat
        BY DEF StageInv, Types, Outcomes
      <4> QED
        BY <4>1, <4>2 DEF Reported
    <3> QED
      BY <2>2, <2>3, <2>4, <3>1, <3>2 DEF Performed, StageInv, Types
  <2>6. answer[c].code = "preflight" => invoked[c] = {}
    <3> SUFFICES ASSUME answer[c].code = "preflight" PROVE invoked[c] = {}
      OBVIOUS
    <3>1. stage[c] = First(op[c]) /\ Fresh(c, stage[c])
      BY DEF StageInv, Progress, Said, Current
    <3>2. \A s \in Stages : s = stage[c] \/ stage[c] < s
      BY <3>1 DEF First, Stages, KB, STATIC, POWER, STATUS
    <3> QED
      BY <3>1, <3>2 DEF StageInv, Types, Progress, Fresh
  <2> QED
    BY <2>2, <2>3, <2>5, <2>6
<1> QED
  BY <1>1, StageInvariant, PTL

------------------------------------------------------------------------------
(* The calls as StagedWrite sees them. *)

AllParts == Stages \cup {RECORD}
ToWrite(c) == IF Writing(c) THEN Parts(op[c]) ELSE {}
Took(c) == [s \in AllParts |-> IF s = RECORD THEN (IF saved[c] THEN 1 ELSE 0)
                                             ELSE taken[c][s]]
NothingTaken == [s \in AllParts |-> 0]

\* The stages of a call are among its parts; a set-all records behind them.
LEMMA PartFacts ==
  /\ \A o \in Ops : /\ Parts(o) # {} /\ Parts(o) \subseteq AllParts
                    /\ \A s \in Stages : s \in Parts(o) <=> s \in Plan(o)
  /\ Parts("set_all") = Plan("set_all") \cup {RECORD}
  /\ \A s \in Stages : s \in AllParts /\ s < RECORD /\ s # RECORD /\ s \in Nat
  /\ RECORD \in AllParts /\ RECORD \in Nat
<1>1. \A o \in Ops : First(o) \in Plan(o) /\ Plan(o) \in SUBSET Stages
  BY PlanFacts
<1>2. /\ \A s \in Stages : s \in AllParts /\ s < RECORD /\ s # RECORD /\ s \in Nat
      /\ RECORD \in AllParts /\ RECORD \in Nat
  BY DEF AllParts, Stages, KB, STATIC, POWER, STATUS, RECORD
<1>3. \A o \in Ops : Parts(o) = Plan(o) \cup (IF o = "set_all" THEN {RECORD} ELSE {})
  BY DEF Parts
<1> QED
  BY <1>1, <1>2, <1>3 DEF Ops

\* A call has its own state: no other caller moves it.
Same(d) ==
  /\ pc'[d] = pc[d] /\ op'[d] = op[d] /\ stage'[d] = stage[d]
  /\ done'[d] = done[d] /\ error'[d] = error[d] /\ held'[d] = held[d]
  /\ taken'[d] = taken[d] /\ saved'[d] = saved[d]

LEMMA OthersStand ==
  ASSUME GuardInv, StageInv, NEW c \in Caller,
         Step(c) \/ \E o \in Ops : Call(c, o)
  PROVE  \A d \in Caller \ {c} : Same(d)
<1> SUFFICES ASSUME NEW d \in Caller \ {c} PROVE Same(d)
  OBVIOUS
<1>0. /\ DOMAIN pc = Caller /\ DOMAIN op = Caller /\ DOMAIN stage = Caller
      /\ DOMAIN done = Caller /\ DOMAIN error = Caller /\ DOMAIN held = Caller
      /\ DOMAIN taken = Caller /\ DOMAIN saved = Caller
  BY DEF GuardInv, StageInv, Types
<1> USE <1>0 DEF Same, Goto, EndStage, Invoke, call, history
<1>1. CASE \E o \in Ops : Call(c, o)
  BY <1>1 DEF Call
<1>2. CASE TakeGuard(c) \/ Busy(c) \/ Begin(c) \/ BeginFails(c)
  BY <1>2 DEF TakeGuard, Busy, Begin, BeginFails
<1>3. CASE Transfer(c) \/ TransferFails(c)
  BY <1>3 DEF Transfer, TransferFails
<1>4. CASE Finish(c) \/ FinishFails(c)
  BY <1>4 DEF Finish, FinishFails
<1>5. CASE Unlock(c) \/ Unlocked(c) \/ Persist(c) \/ Return(c)
  BY <1>5 DEF Unlock, Unlocked, Persist, Return
<1>6. CASE Answer(c)
  BY <1>6 DEF Answer, ReportSetAll, ReportOther
<1> QED
  BY <1>1, <1>2, <1>3, <1>4, <1>5, <1>6 DEF Step

\* The ways a step of c can be one of StagedWrite.
LEMMA StagedSteps ==
  ASSUME NEW c \in Caller, \A d \in Caller \ {c} : Same(d)
  PROVE  /\ (ToWrite(c)' = ToWrite(c) /\ Took(c)' = Took(c)) =>
              UNCHANGED Writes!vars
         /\ \A o \in Ops :
              (/\ ToWrite(c) = {} /\ ToWrite(c)' = Parts(o)
               /\ Took(c)' = NothingTaken) => Writes!Accept(c)
         /\ (ToWrite(c) # {} /\ ToWrite(c)' = {} /\ Took(c)' = Took(c)) =>
              Writes!End(c)
         /\ (/\ ToWrite(c) = {} /\ ToWrite(c)' = {}
             /\ Took(c)' = NothingTaken) => Writes!Forget(c)
         /\ \A s \in AllParts :
              (/\ Writes!Due(c, s) /\ Writes!Clear(c, s)
               /\ ToWrite(c)' = ToWrite(c) \/ ToWrite(c)' = {}
               /\ Took(c)' = [Took(c) EXCEPT ![s] = @ + 1]) => Writes!Take(c)
<1> DEFINE thePlan == [d \in Caller |-> IF Writing(d) THEN Parts(op[d]) ELSE {}]
           theTaken == [d \in Caller |-> [s \in Stages \cup {RECORD} |->
                          IF s = RECORD THEN (IF saved[d] THEN 1 ELSE 0)
                                        ELSE taken[d][s]]]
<1>1. \A d \in Caller \ {c} : ToWrite(d)' = ToWrite(d) /\ Took(d)' = Took(d)
  BY DEF Same, ToWrite, Writing, Took
<1>2. /\ thePlan = [d \in Caller |-> ToWrite(d)]
      /\ theTaken = [d \in Caller |-> Took(d)]
  BY DEF ToWrite, Took, AllParts
<1>3. /\ thePlan' = [d \in Caller |-> ToWrite(d)']
      /\ theTaken' = [d \in Caller |-> Took(d)']
  BY DEF ToWrite, Took, AllParts
<1>4. /\ thePlan[c] = ToWrite(c) /\ theTaken[c] = Took(c)
      /\ thePlan' = [thePlan EXCEPT ![c] = ToWrite(c)']
      /\ theTaken' = [theTaken EXCEPT ![c] = Took(c)']
      /\ ToWrite(c)' = ToWrite(c) => thePlan' = thePlan
      /\ Took(c)' = Took(c) => theTaken' = theTaken
  <2> HIDE DEF thePlan, theTaken
  <2> QED
    BY <1>1, <1>2, <1>3
<1>5. NothingTaken = [s \in Stages \cup {RECORD} |-> 0]
  BY DEF NothingTaken, AllParts
<1>6. ASSUME ToWrite(c)' = ToWrite(c), Took(c)' = Took(c)
      PROVE  UNCHANGED Writes!vars
  BY <1>4, <1>6 DEF Writes!vars
<1>7. ASSUME NEW o \in Ops, ToWrite(c) = {}, ToWrite(c)' = Parts(o),
             Took(c)' = NothingTaken
      PROVE  Writes!Accept(c)
  <2>1. Parts(o) \in {Parts(x) : x \in Ops}
    OBVIOUS
  <2>2. /\ thePlan[c] = {} /\ thePlan' = [thePlan EXCEPT ![c] = Parts(o)]
        /\ theTaken' = [theTaken EXCEPT ![c] = [s \in Stages \cup {RECORD} |-> 0]]
    <3> HIDE DEF thePlan, theTaken
    <3> QED
      BY <1>4, <1>5, <1>7
  <2> QED
    BY <2>1, <2>2 DEF Writes!Accept, Writes!Running, Writes!Nothing
<1>8. ASSUME ToWrite(c) # {}, ToWrite(c)' = {}, Took(c)' = Took(c)
      PROVE  Writes!End(c)
  <2>1. thePlan[c] # {} /\ thePlan' = [thePlan EXCEPT ![c] = {}]
        /\ theTaken' = theTaken
    <3> HIDE DEF thePlan, theTaken
    <3> QED
      BY <1>4, <1>8
  <2> QED
    BY <2>1 DEF Writes!End, Writes!Running
<1>9. ASSUME ToWrite(c) = {}, ToWrite(c)' = {}, Took(c)' = NothingTaken
      PROVE  Writes!Forget(c)
  <2>1. /\ thePlan[c] = {} /\ thePlan' = thePlan
        /\ theTaken' = [theTaken EXCEPT ![c] = [s \in Stages \cup {RECORD} |-> 0]]
    <3> HIDE DEF thePlan, theTaken
    <3> QED
      BY <1>4, <1>5, <1>9
  <2> QED
    BY <2>1 DEF Writes!Forget, Writes!Running, Writes!Nothing
<1>10. ASSUME NEW s \in AllParts, Writes!Due(c, s), Writes!Clear(c, s),
              ToWrite(c)' = ToWrite(c) \/ ToWrite(c)' = {},
              Took(c)' = [Took(c) EXCEPT ![s] = @ + 1]
       PROVE  Writes!Take(c)
  <2>1. /\ thePlan' = thePlan \/ thePlan' = [thePlan EXCEPT ![c] = {}]
        /\ theTaken' = [theTaken EXCEPT ![c][s] = @ + 1]
    <3> HIDE DEF thePlan, theTaken
    <3> QED
      BY <1>4, <1>10
  <2>2. s \in Stages \cup {RECORD}
    BY DEF AllParts
  <2> HIDE DEF thePlan, theTaken
  <2> QED
    BY <1>10, <2>1, <2>2 DEF Writes!Take, thePlan, theTaken
<1> QED
  BY <1>6, <1>7, <1>8, <1>9, <1>10

\* A call in a dispatch has the stages behind it complete; the frame it hands
\* over is the one that is due, and the guards keep the controller clear.
LEMMA FrameIsDue ==
  ASSUME GuardInv, StageInv, NEW c \in Caller, pc[c] = "transfer"
  PROVE  /\ Writes!Due(c, stage[c]) /\ Writes!Clear(c, stage[c])
         /\ stage[c] \in AllParts /\ Writing(c)
<1>t. /\ op[c] \in Ops /\ stage[c] \in Stages /\ stage[c] \in Plan(op[c])
      /\ error[c] = "none" /\ taken[c][stage[c]] < Steps[stage[c]]
      /\ \A s \in Plan(op[c]) : s < stage[c] => taken[c][s] = Steps[s]
      /\ Plan(op[c]) \in SUBSET Stages
  BY PlanFacts DEF StageInv, Types, Progress, Current, Success
<1>w. Writing(c)
  BY <1>t DEF Writing
<1>1. Writes!Due(c, stage[c])
  <2>1. stage[c] \in Parts(op[c])
    BY <1>t, PartFacts
  <2>2. ASSUME NEW r \in Parts(op[c]), r < stage[c]
        PROVE  r \in Stages /\ r # RECORD /\ taken[c][r] = Steps[r]
    <3>1. r \in AllParts
      BY <1>t, PartFacts
    <3>2. r # RECORD
      BY <1>t, <2>2, PartFacts
    <3>3. r \in Stages
      BY <3>1, <3>2 DEF AllParts
    <3> QED
      BY <1>t, <2>2, <3>2, <3>3, PartFacts
  <2> QED
    BY <1>t, <1>w, <2>1, <2>2, PartFacts DEF Writes!Due, AllParts
<1>2. Writes!Clear(c, stage[c])
  <2> SUFFICES ASSUME NEW D \in {{KB, STATUS}, {STATIC, POWER}}, stage[c] \in D,
                      NEW b \in Caller \ {c}, NEW t \in D, Writes!Amid(b, t)
               PROVE  FALSE
    BY DEF Writes!Clear
  <2>1. t \in Stages /\ t # RECORD /\ Controller(t) = Controller(stage[c])
    BY DEF Controller, Stages, KB, STATIC, POWER, STATUS, RECORD
  <2>2. /\ Writing(b) /\ t \in Parts(op[b])
        /\ taken[b][t] \in 1..(Steps[t] - 1)
    BY <2>1 DEF Writes!Amid
  <2>3. error[b] = "none" /\ pc[b] # "idle" /\ op[b] \in Ops /\ stage[b] \in Stages
    BY <2>2 DEF Writing, StageInv, Progress
  <2>4. t \in Plan(op[b])
    BY <2>1, <2>2, <2>3, PartFacts
  <2>5. Steps[t] \in Nat /\ taken[b][t] \in Nat
    BY <2>1, ExecutorAssumption DEF StageInv, Types
  <2>6. ~Fresh(b, t) /\ ~Success(b, t)
    BY <2>2, <2>5 DEF Fresh, Success
  <2>7. t = stage[b]
    <3>1. t < stage[b] \/ t = stage[b] \/ stage[b] < t
      BY <2>1, <2>3 DEF Stages, KB, STATIC, POWER, STATUS
    <3> QED
      BY <2>1, <2>3, <2>4, <2>6, <3>1 DEF StageInv, Progress
  <2>8. pc[b] = "transfer"
    <3>1. Current(b, t) /\ pc[b] \in Points /\ pc[b] \notin {"idle", "answered"}
      BY <2>2, <2>3, <2>7 DEF StageInv, Types, Progress, Writing
    <3>2. pc[b] \notin {"guard", "begin"}
      BY <2>6, <3>1 DEF Current
    <3>3. pc[b] # "finish"
      BY <2>2, <2>3, <2>5, <3>1 DEF Current
    <3>4. pc[b] \notin {"unlock", "answer", "persist"}
      BY <2>3, <2>6, <3>1 DEF Current, Reported
    <3> QED
      BY <3>1, <3>2, <3>3, <3>4 DEF Points
  <2>9. Controller(t) \in Using(b) /\ Controller(t) \in Using(c)
    BY <1>t, <2>1, <2>4, <2>8 DEF Using
  <2>10. Using(b) \cap Using(c) = {}
    BY DEF GuardInv, Holding, Using, Guards
  <2> QED
    BY <2>9, <2>10
<1> QED
  BY <1>t, <1>w, <1>1, <1>2, PartFacts

\* When a set-all comes to record its color, that is what is due.
LEMMA RecordIsDue ==
  ASSUME StageInv, NEW c \in Caller, pc[c] = "persist"
  PROVE  /\ Writes!Due(c, RECORD) /\ Writes!Clear(c, RECORD)
         /\ RECORD \in AllParts /\ Writing(c)
<1>1. op[c] = "set_all" /\ CompletedCanonically(c) /\ ~saved[c]
  BY DEF StageInv, Progress, Said
<1>2. \A s \in Plan("set_all") : taken[c][s] = Steps[s] /\ ~outcome[c][s].failed
  BY <1>1, CanonicalIsWhole
<1>3. stage[c] \in Plan("set_all") /\ Current(c, stage[c])
  BY <1>1 DEF StageInv, Progress
<1>4. error[c] = "none"
  <2>1. ~Fresh(c, stage[c])
    <3>1. outcome[c][stage[c]].attempted
      BY <1>1, <1>3, CanonicalFields
    <3> QED
      BY <3>1 DEF Fresh, NotStarted
  <2> QED
    BY <1>2, <1>3, <2>1 DEF Current
<1>5. Writing(c)
  BY <1>4 DEF Writing
<1>6. \A r \in Parts(op[c]) : r < RECORD => r \in Plan("set_all") /\ r # RECORD
  BY <1>1, PartFacts
<1>7. Writes!Due(c, RECORD)
  <2>1. RECORD \in Parts(op[c])
    BY <1>1, PartFacts
  <2>2. \A r \in Plan("set_all") : r \in Stages
    BY PlanFacts DEF Ops
  <2> QED
    BY <1>1, <1>2, <1>5, <1>6, <2>1, <2>2, PartFacts DEF Writes!Due, AllParts
<1>8. Writes!Clear(c, RECORD)
  BY DEF Writes!Clear, KB, STATIC, POWER, STATUS, RECORD
<1> QED
  BY <1>5, <1>7, <1>8, PartFacts

\* Every step of Executor is one of StagedWrite or leaves it alone.
LEMMA StagedStep ==
  ASSUME GuardInv, StageInv, [Next]_vars
  PROVE  [Writes!Next]_(Writes!vars)
<1>1. CASE UNCHANGED vars
  BY <1>1 DEF vars, call, history, Writes!vars, Writing
<1>2. CASE Next
  <2>1. PICK c \in Caller : Step(c) \/ \E o \in Ops : Call(c, o)
    BY <1>2 DEF Next
  <2>o. \A d \in Caller \ {c} : Same(d)
    BY <2>1, OthersStand
  <2>n. Writes!Accept(c) \/ Writes!Take(c) \/ Writes!End(c) \/ Writes!Forget(c)
          => Writes!Next
    BY DEF Writes!Next
  <2> SUFFICES \/ Writes!Accept(c) \/ Writes!Take(c) \/ Writes!End(c)
               \/ Writes!Forget(c) \/ UNCHANGED Writes!vars
    BY <2>n
  <2>t. /\ pc \in [Caller -> Points] /\ op \in [Caller -> Ops \cup {"none"}]
        /\ error \in [Caller -> Errors] /\ saved \in [Caller -> BOOLEAN]
        /\ taken \in [Caller -> [Stages -> Nat]]
    BY DEF StageInv, Types
  <2>p. ASSUME Writing(c) PROVE ToWrite(c) = Parts(op[c]) /\ ToWrite(c) # {}
    <3>1. op[c] \in Ops
      BY <2>p DEF StageInv, Progress, Writing
    <3> QED
      BY <2>p, <3>1, PartFacts DEF ToWrite
  <2>k. ASSUME taken'[c] = taken[c], saved'[c] = saved[c] PROVE Took(c)' = Took(c)
    BY <2>k DEF Took
  \* A step that takes nothing, and ends the writing or does not.
  <2>s. ASSUME taken'[c] = taken[c], saved'[c] = saved[c], op'[c] = op[c],
               Writing(c)' => Writing(c)
        PROVE  Writes!End(c) \/ UNCHANGED Writes!vars
    <3>1. Took(c)' = Took(c)
      BY <2>k, <2>s
    <3>2. CASE Writing(c) /\ ~Writing(c)'
      <4>1. ToWrite(c)' = {}
        BY <3>2 DEF ToWrite
      <4> QED
        BY <2>o, <2>p, <3>1, <3>2, <4>1, StagedSteps
    <3>3. CASE Writing(c) /\ Writing(c)'
      <4>1. ToWrite(c)' = ToWrite(c)
        BY <2>s, <3>3 DEF ToWrite
      <4> QED
        BY <2>o, <3>1, <4>1, StagedSteps
    <3>4. CASE ~Writing(c) /\ ~Writing(c)'
      <4>1. ToWrite(c)' = ToWrite(c)
        BY <3>4 DEF ToWrite
      <4> QED
        BY <2>o, <3>1, <4>1, StagedSteps
    <3> QED
      BY <2>s, <3>2, <3>3, <3>4
  <2>2. ASSUME NEW o \in Ops, Call(c, o)
        PROVE  Writes!Accept(c) \/ UNCHANGED Writes!vars
    <3>1. /\ pc[c] = "idle" /\ error[c] = "none" /\ ~saved[c]
          /\ \A s \in Stages : taken[c][s] = 0
          /\ taken' = taken /\ saved' = saved /\ op'[c] = o
      BY <2>2, <2>t DEF Call, StageInv, Progress, Fresh, Said, history
    <3>2. Took(c)' = Took(c) /\ Took(c) = NothingTaken
      BY <3>1, <2>k DEF Took, NothingTaken, AllParts
    <3>3. ToWrite(c) = {}
      BY <3>1 DEF ToWrite, Writing
    <3>4. CASE pc'[c] = "guard" /\ error'[c] = "none"
      <4>1. ToWrite(c)' = Parts(o)
        BY <3>1, <3>4 DEF ToWrite, Writing
      <4> QED
        BY <2>o, <3>2, <3>3, <4>1, StagedSteps
    <3>5. CASE error'[c] = "refused"
      <4>1. ToWrite(c)' = {}
        BY <3>5 DEF ToWrite, Writing
      <4> QED
        BY <2>o, <3>2, <3>3, <4>1, StagedSteps
    <3> QED
      BY <2>2, <2>t, <3>1, <3>4, <3>5 DEF Call, Goto
  <2>3. CASE TakeGuard(c) \/ Begin(c) \/ Unlock(c) \/ Unlocked(c)
    <3>1. /\ UNCHANGED <<op, error, taken, saved>>
          /\ pc[c] \notin {"idle", "answered"}
      BY <2>3 DEF TakeGuard, Begin, Unlock, Unlocked, call, history
    <3>2. Writing(c)' => Writing(c)
      BY <3>1 DEF Writing
    <3> QED
      BY <2>s, <3>1, <3>2
  <2>4. CASE Busy(c) \/ BeginFails(c) \/ FinishFails(c)
    <3>1. UNCHANGED <<op, taken, saved>> /\ error'[c] # "none"
      BY <2>4, <2>t DEF Busy, BeginFails, FinishFails, history
    <3>2. ~Writing(c)'
      BY <3>1 DEF Writing
    <3> QED
      BY <2>s, <3>1, <3>2
  <2>5. CASE Finish(c)
    <3>1. UNCHANGED <<op, error, taken, saved>> /\ pc[c] = "finish"
      BY <2>5 DEF Finish, history
    <3>2. Writing(c)' => Writing(c)
      BY <3>1 DEF Writing
    <3> QED
      BY <2>s, <3>1, <3>2
  <2>6. CASE Transfer(c) \/ TransferFails(c)
    <3>1. PICK reached \in BOOLEAN : Invoke(c, reached)
      BY <2>6 DEF Transfer, TransferFails
    <3>2. pc[c] = "transfer" /\ op' = op /\ saved' = saved
      BY <2>6, <3>1 DEF Transfer, TransferFails, Invoke
    <3>3. /\ Writes!Due(c, stage[c]) /\ Writes!Clear(c, stage[c])
          /\ stage[c] \in AllParts /\ Writing(c)
      BY <3>2, FrameIsDue
    <3>4. CASE reached
      <4>1. Took(c)' = [Took(c) EXCEPT ![stage[c]] = @ + 1]
        <5>1. stage[c] \in Stages /\ stage[c] # RECORD
          BY PartFacts DEF StageInv, Types
        <5>2. taken'[c] = [taken[c] EXCEPT ![stage[c]] = @ + 1]
          BY <2>t, <3>1, <3>4 DEF Invoke
        <5>3. saved'[c] = saved[c] /\ taken[c] \in [Stages -> Nat]
          BY <2>t, <3>2
        <5> QED
          BY <5>1, <5>2, <5>3 DEF Took, AllParts
      <4>2. ToWrite(c)' = ToWrite(c) \/ ToWrite(c)' = {}
        BY <3>2, <3>3 DEF ToWrite
      <4> QED
        BY <2>o, <3>3, <4>1, <4>2, StagedSteps
    <3>5. CASE ~reached
      <4>1. taken'[c] = taken[c]
        BY <2>t, <3>1, <3>5 DEF Invoke
      <4> QED
        BY <2>s, <3>2, <3>3, <4>1
    <3> QED
      BY <3>4, <3>5
  <2>7. CASE Answer(c)
    <3>1. UNCHANGED <<op, error, taken, saved>> /\ pc[c] = "answer"
      BY <2>7 DEF Answer, call, history
    <3>2. Writing(c)' => Writing(c)
      BY <3>1 DEF Writing
    <3> QED
      BY <2>s, <3>1, <3>2
  <2>8. CASE Persist(c)
    <3>1. /\ pc[c] = "persist" /\ pc'[c] = "answered" /\ taken' = taken /\ op' = op
          /\ \E replaced \in BOOLEAN : saved' = [saved EXCEPT ![c] = replaced]
      BY <2>8, <2>t DEF Persist, Goto, call
    <3>2. /\ Writes!Due(c, RECORD) /\ Writes!Clear(c, RECORD)
          /\ RECORD \in AllParts /\ Writing(c) /\ ~saved[c]
      BY <3>1, RecordIsDue DEF StageInv, Progress, Said
    <3>3. ToWrite(c)' = {} /\ ~Writing(c)'
      BY <3>1 DEF ToWrite, Writing
    <3>4. CASE saved' = [saved EXCEPT ![c] = TRUE]
      <4>1. saved'[c] = TRUE /\ taken'[c] = taken[c]
        BY <2>t, <3>1, <3>4
      <4>2. Took(c)' = [Took(c) EXCEPT ![RECORD] = @ + 1]
        <5>1. Took(c)[RECORD] = 0 /\ 0 + 1 = 1
          BY <3>2 DEF Took
        <5>2. Took(c)' = [s \in AllParts |-> IF s = RECORD THEN 1 ELSE taken[c][s]]
          BY <4>1 DEF Took
        <5>3. Took(c) = [s \in AllParts |-> IF s = RECORD THEN 0 ELSE taken[c][s]]
          BY <3>2 DEF Took
        <5> QED
          BY <5>1, <5>2, <5>3
      <4> QED
        BY <2>o, <3>2, <3>3, <4>2, StagedSteps
    <3>5. CASE saved' = [saved EXCEPT ![c] = FALSE]
      <4>1. saved'[c] = saved[c]
        <5>1. saved'[c] = FALSE /\ saved[c] \in BOOLEAN
          BY <2>t, <3>5
        <5>2. saved[c] = FALSE
          BY <3>2, <5>1
        <5> QED
          BY <5>1, <5>2
      <4> QED
        BY <2>s, <3>1, <3>3, <4>1
    <3> QED
      BY <3>1, <3>4, <3>5
  <2>9. CASE Return(c)
    <3>1. /\ pc[c] = "answered" /\ pc'[c] = "idle"
          /\ taken'[c] = [s \in Stages |-> 0] /\ saved'[c] = FALSE
      BY <2>9, <2>t DEF Return, Goto
    <3>2. Took(c)' = NothingTaken
      BY <3>1, PartFacts DEF Took, NothingTaken, AllParts
    <3>3. ToWrite(c) = {} /\ ToWrite(c)' = {}
      BY <3>1 DEF ToWrite, Writing
    <3> QED
      BY <2>o, <3>2, <3>3, StagedSteps
  <2> QED
    BY <2>1, <2>2, <2>3, <2>4, <2>5, <2>6, <2>7, <2>8, <2>9 DEF Step
<1> QED
  BY <1>1, <1>2

\* StagedWrites: an executor's calls write as StagedWrite says, whoever is Busy,
\* whatever fails and wherever the cleanup fails.
THEOREM ImplementsStagedWrite == Spec => StagedWrites
<1>1. Init => Writes!Init
  BY DEF Init, Writes!Init, Writes!Nothing, Writing
<1>2. GuardInv /\ StageInv /\ [Next]_vars => [Writes!Next]_(Writes!vars)
  BY StagedStep
<1> QED
  BY <1>1, <1>2, GuardInvariant, StageInvariant, PTL
     DEF Spec, StagedWrites, Writes!Spec

------------------------------------------------------------------------------
(* The number of steps of a call. *)

CallSteps ==
  StepsOf(KB) + StepsOf(STATIC) + StepsOf(POWER) + StepsOf(STATUS) + 9

StepsCounted == \A c \in Caller : StepsLeft(c) \in 0..CallSteps

\* Plans have stages of at least one frame, and at most three stages.
LEMMA StepsOfStages ==
  /\ \A s \in Stages : StepsOf(s) = Steps[s] + 2 /\ Steps[s] \in Nat \ {0}
  /\ StepsOf(KB) \in Nat /\ StepsOf(STATIC) \in Nat /\ StepsOf(POWER) \in Nat
  /\ StepsOf(STATUS) \in Nat
BY ExecutorAssumption DEF StepsOf, Stages

LEMMA GuardsCounted ==
  ASSUME NEW c \in Caller
  PROVE  GuardsHeld(c) \in 0..2
BY DEF GuardsHeld

\* The steps of the stages behind the one a call is in.
LEMMA StepsAhead ==
  ASSUME NEW c \in Caller, stage[c] \in Stages
  PROVE  /\ StepsBehind(c) \in Nat
         /\ StepsBehind(c) + StepsOf(stage[c]) + 9 <= CallSteps
<1>1. /\ StepsOf(KB) \in Nat /\ StepsOf(STATIC) \in Nat /\ StepsOf(POWER) \in Nat
      /\ StepsOf(STATUS) \in Nat
  BY StepsOfStages
<1>2. CASE stage[c] = KB
  BY <1>1, <1>2 DEF StepsBehind, CallSteps, KB, STATIC, POWER
<1>3. CASE stage[c] = STATIC
  BY <1>1, <1>3 DEF StepsBehind, CallSteps, STATIC, POWER
<1>4. CASE stage[c] = POWER
  BY <1>1, <1>4 DEF StepsBehind, CallSteps, STATIC, POWER
<1>5. CASE stage[c] = STATUS
  BY <1>1, <1>5 DEF StepsBehind, CallSteps, STATIC, POWER, STATUS
<1> QED
  BY <1>2, <1>3, <1>4, <1>5 DEF Stages

\* A stage that ends well gives up its steps: what is left is what was behind it.
LEMMA NextStageCounts ==
  ASSUME NEW c \in Caller, op[c] \in Ops, op'[c] = op[c],
         stage[c] \in Plan(op[c]), stage[c] < Last(op[c]),
         stage'[c] = stage[c] + 1
  PROVE  /\ stage'[c] \in Stages
         /\ StepsBehind(c) = StepsBehind(c)' + StepsOf(stage'[c])
<1>1. Plan(op[c]) = {KB, STATIC, POWER} /\ stage[c] \in {1, 2}
  <2>1. Plan("set_all") = {KB, STATIC, POWER}
    BY PlanFacts DEF Ops
  <2>2. op[c] = "set_all"
    BY DEF Ops, Plan, First, Last, KB, STATIC, POWER, STATUS
  <2>3. stage[c] \in {1, 2, 3} /\ stage[c] < 3
    BY <2>1, <2>2 DEF Last, KB, STATIC, POWER
  <2> QED
    BY <2>1, <2>2, <2>3
<1>2. StepsOf(2) \in Nat /\ StepsOf(3) \in Nat
  BY StepsOfStages DEF STATIC, POWER
<1>3. /\ StepsBehind(c) = (IF stage[c] < 2 THEN StepsOf(2) ELSE 0)
                          + (IF stage[c] < 3 THEN StepsOf(3) ELSE 0)
      /\ StepsBehind(c)' = (IF stage'[c] < 2 THEN StepsOf(2) ELSE 0)
                           + (IF stage'[c] < 3 THEN StepsOf(3) ELSE 0)
  BY <1>1 DEF StepsBehind, STATIC, POWER
<1>4. CASE stage[c] = 1
  BY <1>2, <1>3, <1>4 DEF Stages, KB, STATIC, POWER
<1>5. CASE stage[c] = 2
  BY <1>2, <1>3, <1>5 DEF Stages, KB, STATIC, POWER
<1> QED
  BY <1>1, <1>4, <1>5

\* The steps left are a number, none for a caller that is idle.
LEMMA StepsLeftRange ==
  ASSUME StageInv
  PROVE  /\ StepsCounted
         /\ \A c \in Caller : StepsLeft(c) \in Nat
<1>1. ASSUME NEW c \in Caller
      PROVE  StepsLeft(c) \in 0..CallSteps /\ StepsLeft(c) \in Nat
  <2>1. pc[c] \in Points /\ stage[c] \in Stages /\ done[c] \in Nat
    BY DEF StageInv, Types
  <2>2. /\ StepsBehind(c) \in Nat /\ GuardsHeld(c) \in 0..2
        /\ StepsBehind(c) + StepsOf(stage[c]) + 9 <= CallSteps
        /\ StepsOf(stage[c]) = Steps[stage[c]] + 2 /\ Steps[stage[c]] \in Nat
    BY <2>1, StepsAhead, StepsOfStages, GuardsCounted
  <2>3. CallSteps \in Nat
    BY StepsOfStages DEF CallSteps
  <2>4. CASE pc[c] \in {"guard", "begin"}
    BY <2>2, <2>3, <2>4 DEF StepsLeft
  <2>5. CASE pc[c] = "transfer"
    <3>1. done[c] < Steps[stage[c]]
      BY <2>5 DEF StageInv, Progress, Current
    <3> QED
      BY <2>1, <2>2, <2>3, <2>5, <3>1 DEF StepsLeft
  <2>6. CASE pc[c] \in {"finish", "unlock"}
    BY <2>2, <2>3, <2>6 DEF StepsLeft
  <2>7. CASE pc[c] \in {"answer", "persist", "answered", "idle"}
    BY <2>2, <2>3, <2>7 DEF StepsLeft
  <2> QED
    BY <2>1, <2>4, <2>5, <2>6, <2>7 DEF Points
<1> QED
  BY <1>1 DEF StepsCounted

\* The end of a stage, wherever it leads, leaves fewer steps than there were.
LEMMA EndStageCounts ==
  ASSUME StageInv, NEW c \in Caller, NEW record, EndStage(c, record),
         pc[c] # "idle", op' = op, held' = held
  PROVE  StepsLeft(c)' <= StepsBehind(c) + 6 /\ StepsLeft(c)' \in Nat
<1>t. /\ pc \in [Caller -> Points] /\ stage \in [Caller -> Stages]
      /\ op[c] \in Ops /\ stage[c] \in Plan(op[c]) /\ stage[c] \in Stages
  BY DEF StageInv, Types, Progress
<1>s. StepsBehind(c) \in Nat
  BY <1>t, StepsAhead
<1>1. CASE ~record.failed /\ stage[c] < Last(op[c])
  <2>1. pc'[c] = "begin" /\ stage'[c] = stage[c] + 1 /\ op'[c] = op[c]
    BY <1>1, <1>t DEF EndStage, Goto
  <2>2. /\ stage'[c] \in Stages
        /\ StepsBehind(c) = StepsBehind(c)' + StepsOf(stage'[c])
    BY <1>1, <1>t, <2>1, NextStageCounts
  <2>3. StepsLeft(c)' = StepsBehind(c)' + StepsOf(stage'[c]) + 6
    BY <2>1 DEF StepsLeft, StepsOf
  <2> QED
    BY <1>s, <2>2, <2>3
<1>2. CASE ~(~record.failed /\ stage[c] < Last(op[c]))
  <2>1. pc'[c] = "unlock"
    BY <1>2, <1>t DEF EndStage, Goto
  <2>2. StepsLeft(c)' = 4 + GuardsHeld(c)
    BY <2>1 DEF StepsLeft, GuardsHeld
  <2> QED
    BY <1>s, <2>2, GuardsCounted
<1> QED
  BY <1>1, <1>2

\* A step the call makes is one it does not have to make any more.
LEMMA StepCounts ==
  ASSUME GuardInv, StageInv, NEW c \in Caller, Step(c)
  PROVE  StepsLeft(c)' < StepsLeft(c)
<1>t. /\ pc \in [Caller -> Points] /\ stage \in [Caller -> Stages]
      /\ held \in [Caller -> SUBSET Guard] /\ done \in [Caller -> Nat]
      /\ stage[c] \in Stages /\ done[c] \in Nat
  BY DEF GuardInv, StageInv, Types
<1>s. /\ StepsBehind(c) \in Nat /\ GuardsHeld(c) \in 0..2
      /\ StepsOf(stage[c]) = Steps[stage[c]] + 2 /\ Steps[stage[c]] \in Nat \ {0}
  BY <1>t, StepsAhead, StepsOfStages, GuardsCounted
<1>u. (stage'[c] = stage[c] /\ op'[c] = op[c]) => StepsBehind(c)' = StepsBehind(c)
  BY DEF StepsBehind
<1>1. CASE TakeGuard(c)
  <2>1. /\ pc[c] = "guard" /\ stage'[c] = stage[c] /\ op'[c] = op[c]
        /\ held'[c] = held[c] \cup {Wanted(c)}
        /\ pc'[c] \in {"guard", "begin"}
    BY <1>1, <1>t DEF TakeGuard, Goto, call
  <2>2. Wanted(c) \in {"keyboard", "aw"} \ held[c]
    <3>1. op[c] \in Ops /\ Wanted(c) \in Guards(op[c]) \ held[c]
      BY <2>1, WantedIsMissing DEF GuardInv, Holding
    <3> QED
      BY <3>1, PlanFacts DEF Guard
  <2>3. GuardsHeld(c)' = GuardsHeld(c) + 1
    BY <2>1, <2>2 DEF GuardsHeld
  <2>4. GuardsHeld(c)' \in 0..2
    BY <2>3, <1>s, <2>2 DEF GuardsHeld
  <2>5. StepsLeft(c) = StepsBehind(c) + StepsOf(stage[c]) + 9 - GuardsHeld(c)
    BY <2>1 DEF StepsLeft
  <2>6. \/ StepsLeft(c)' = StepsBehind(c) + StepsOf(stage[c]) + 9 - GuardsHeld(c)'
        \/ StepsLeft(c)' = StepsBehind(c) + StepsOf(stage[c]) + 6
    BY <1>u, <2>1 DEF StepsLeft, StepsOf
  <2> QED
    BY <1>s, <2>3, <2>4, <2>5, <2>6
<1>2. CASE Busy(c)
  <2>1. pc[c] = "guard" /\ pc'[c] = "unlock" /\ held'[c] = held[c]
    BY <1>2, <1>t DEF Busy, Goto
  <2>2. GuardsHeld(c)' = GuardsHeld(c)
    BY <2>1 DEF GuardsHeld
  <2>3. StepsLeft(c)' = 4 + GuardsHeld(c)
    BY <2>1, <2>2 DEF StepsLeft
  <2>4. StepsLeft(c) = StepsBehind(c) + StepsOf(stage[c]) + 9 - GuardsHeld(c)
    BY <2>1 DEF StepsLeft
  <2> QED
    BY <1>s, <2>3, <2>4
<1>3. CASE Begin(c)
  <2>1. /\ pc[c] = "begin" /\ pc'[c] = "transfer" /\ done[c] = 0
        /\ stage'[c] = stage[c] /\ op'[c] = op[c] /\ done'[c] = done[c]
    BY <1>3, <1>t DEF Begin, Goto, call, StageInv, Progress, Current
  <2>2. StepsLeft(c)' = StepsBehind(c) + (Steps[stage[c]] - 0) + 7
    BY <1>u, <2>1 DEF StepsLeft
  <2>3. StepsLeft(c) = StepsBehind(c) + StepsOf(stage[c]) + 6
    BY <2>1 DEF StepsLeft
  <2> QED
    BY <1>s, <2>2, <2>3
<1>4. CASE BeginFails(c)
  <2>1. pc[c] = "begin" /\ op' = op /\ held' = held /\ \E record : EndStage(c, record)
    BY <1>4 DEF BeginFails
  <2>2. StepsLeft(c)' <= StepsBehind(c) + 6 /\ StepsLeft(c)' \in Nat
    BY <2>1, EndStageCounts
  <2>3. StepsLeft(c) = StepsBehind(c) + StepsOf(stage[c]) + 6
    BY <2>1 DEF StepsLeft
  <2> QED
    BY <1>s, <2>2, <2>3
<1>5. CASE Transfer(c) \/ TransferFails(c)
  <2>1. pc[c] = "transfer" /\ op' = op /\ held' = held
    BY <1>5 DEF Transfer, TransferFails
  <2>2. done[c] < Steps[stage[c]]
    BY <2>1 DEF StageInv, Progress, Current
  <2>3. StepsLeft(c) = StepsBehind(c) + (Steps[stage[c]] - done[c]) + 7
    BY <2>1 DEF StepsLeft
  <2>4. StepsLeft(c) >= StepsBehind(c) + 8 /\ StepsLeft(c) \in Nat
    BY <1>s, <1>t, <2>2, <2>3
  <2>5. CASE \E record : EndStage(c, record)
    <3>1. StepsLeft(c)' <= StepsBehind(c) + 6 /\ StepsLeft(c)' \in Nat
      BY <2>1, <2>5, EndStageCounts
    <3> QED
      BY <1>s, <2>4, <3>1
  <2>6. CASE pc'[c] = "finish" /\ stage' = stage
    <3>1. StepsLeft(c)' = StepsBehind(c) + 7
      BY <1>u, <2>1, <2>6 DEF StepsLeft
    <3> QED
      BY <1>s, <2>4, <3>1
  <2>7. CASE done' = [done EXCEPT ![c] = @ + 1] /\ UNCHANGED <<pc, stage, outcome>>
    <3>1. done'[c] = done[c] + 1 /\ pc'[c] = "transfer" /\ stage'[c] = stage[c]
      BY <1>t, <2>1, <2>7
    <3>2. StepsLeft(c)' = StepsBehind(c) + (Steps[stage[c]] - (done[c] + 1)) + 7
      BY <1>u, <2>1, <3>1 DEF StepsLeft
    <3> QED
      BY <1>s, <1>t, <2>3, <3>2
  <2>8. CASE Transfer(c)
    BY <1>t, <2>5, <2>6, <2>7, <2>8 DEF Transfer, Goto
  <2>9. CASE TransferFails(c)
    <3>1. PICK e \in Failures(c) :
            IF Controller(stage[c]) = "aw"
              THEN Goto(c, "finish") /\ UNCHANGED <<stage, done, outcome>>
              ELSE EndStage(c, Broken(stage[c], e, done[c]))
      BY <2>9 DEF TransferFails
    <3> QED
      BY <1>t, <2>5, <2>6, <3>1 DEF Goto
  <2> QED
    BY <1>5, <2>8, <2>9
<1>6. CASE Finish(c) \/ FinishFails(c)
  <2>1. /\ pc[c] = "finish" /\ op' = op /\ held' = held
        /\ \E record : EndStage(c, record)
    BY <1>6 DEF Finish, FinishFails
  <2>2. StepsLeft(c)' <= StepsBehind(c) + 6 /\ StepsLeft(c)' \in Nat
    BY <2>1, EndStageCounts
  <2>3. StepsLeft(c) = StepsBehind(c) + 7
    BY <2>1 DEF StepsLeft
  <2> QED
    BY <1>s, <2>2, <2>3
<1>7. CASE Unlock(c)
  <2>1. /\ pc[c] = "unlock" /\ pc'[c] = "unlock"
        /\ \/ "aw" \in held[c] /\ held'[c] = held[c] \ {"aw"}
           \/ /\ "aw" \notin held[c] /\ "keyboard" \in held[c]
              /\ held'[c] = held[c] \ {"keyboard"}
    BY <1>7, <1>t DEF Unlock, Guard
  <2>2. GuardsHeld(c)' = GuardsHeld(c) - 1
    BY <2>1 DEF GuardsHeld
  <2> QED
    BY <1>s, <2>1, <2>2 DEF StepsLeft
<1>8. CASE Unlocked(c)
  <2>1. pc[c] = "unlock" /\ pc'[c] = "answer"
    BY <1>8, <1>t DEF Unlocked, Goto
  <2> QED
    BY <1>s, <2>1 DEF StepsLeft
<1>9. CASE Answer(c)
  <2>1. pc[c] = "answer" /\ pc'[c] \in {"persist", "answered"}
    BY <1>9, <1>t DEF Answer, ReportSetAll, ReportOther, Goto
  <2> QED
    BY <2>1 DEF StepsLeft
<1>10. CASE Persist(c)
  <2>1. pc[c] = "persist" /\ pc'[c] = "answered"
    BY <1>10, <1>t DEF Persist, Goto
  <2> QED
    BY <2>1 DEF StepsLeft
<1>11. CASE Return(c)
  <2>1. pc[c] = "answered" /\ pc'[c] = "idle"
    BY <1>11, <1>t DEF Return, Goto
  <2> QED
    BY <2>1 DEF StepsLeft
<1> QED
  BY <1>1, <1>2, <1>3, <1>4, <1>5, <1>6, <1>7, <1>8, <1>9, <1>10, <1>11 DEF Step

\* CallBounded: a call has at most CallSteps steps, whatever fails in it and
\* whatever other callers do meanwhile: it never waits for a guard.
THEOREM BoundedCalls == Spec => []StepsCounted /\ CallBounded
<1> DEFINE Bounded ==
      \A c \in Caller : pc[c] # "idle" =>
        /\ StepsLeft(c)' <= StepsLeft(c)
        /\ Step(c) => StepsLeft(c)' < StepsLeft(c)
<1>1. StageInv => StepsCounted
  BY StepsLeftRange
<1>2. GuardInv /\ StageInv /\ StageInv' /\ [Next]_vars => [Bounded]_vars
  <2> SUFFICES ASSUME GuardInv, StageInv, StageInv', Next,
                      NEW d \in Caller, pc[d] # "idle"
               PROVE  /\ StepsLeft(d)' <= StepsLeft(d)
                      /\ Step(d) => StepsLeft(d)' < StepsLeft(d)
    OBVIOUS
  <2>0. StepsLeft(d) \in Nat /\ StepsLeft(d)' \in Nat
    <3>1. \A c \in Caller : StepsLeft(c) \in Nat
      BY StepsLeftRange
    <3>2. (\A c \in Caller : StepsLeft(c) \in Nat)'
      BY StepsLeftRange, PTL
    <3> QED
      BY <3>1, <3>2
  <2>1. Step(d) => StepsLeft(d)' < StepsLeft(d)
    BY StepCounts
  <2>2. PICK c \in Caller : Step(c) \/ \E o \in Ops : Call(c, o)
    BY DEF Next
  <2>3. CASE c = d
    <3>1. Step(d)
      BY <2>2, <2>3 DEF Call
    <3> QED
      BY <2>0, <2>1, <3>1
  <2>4. CASE c # d
    <3>1. Same(d)
      BY <2>2, <2>4, OthersStand
    <3>2. StepsLeft(d)' = StepsLeft(d)
      BY <3>1 DEF Same, StepsLeft, StepsBehind, GuardsHeld
    <3> QED
      BY <2>0, <2>1, <3>2
  <2> QED
    BY <2>3, <2>4
<1> QED
  BY <1>1, <1>2, GuardInvariant, StageInvariant, PTL DEF Spec, CallBounded

================================================================================
