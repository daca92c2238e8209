-------------------------- MODULE AllProvidersProofs --------------------------
(***************************************************************************)
(* A call of ConcurrentRunner is a batch of tasks (TaskBatch), for any     *)
(* number of tasks, workers and seconds of timeout; it still is when its   *)
(* jobs are the audits of ProviderAudit, and then main's exit code hides   *)
(* nothing, for any scopes, items, exclusions and selection of controls.   *)
(*                                                                         *)
(* The invariant of the runner says where each task is: not started, with  *)
(* a worker, or ended; and that a call that leaves the loop without an     *)
(* exception has collected the outcome of every task.  The invariant of    *)
(* the audits says what is known of each control in each scope.            *)
(***************************************************************************)
EXTENDS AllProviders, FiniteSetTheorems, TLAPS

\* The jobs that no worker has taken are the last ones, and have not run.
NotStarted ==
    \A i \in DOMAIN Tasks :
        i > started => Tasks[i] \notin running /\ outcome[Tasks[i]] = "none"

\* A job that was taken is running, or has ended.
Started ==
    \A i \in DOMAIN Tasks :
        i <= started => Tasks[i] \in running \/ outcome[Tasks[i]] # "none"

RunningHasNoOutcome == \A t \in running : outcome[t] = "none"

ReadyHasEnded == \A t \in ready : outcome[t] # "none"

\* What was collected is the outcome of the task.
CollectedIsOutcome == \A t \in Task : results[t] # "none" => results[t] = outcome[t]

AllSubmitted == IF pc = "submit" THEN submitted < Len(Tasks) ELSE submitted = Len(Tasks)

CollectedAtEnd == pc \in {"leave", "returned"} => AllCollected

NothingLeft == Ended => started = submitted /\ running = {}

RunnerInv ==
    /\ TypeOK
    /\ NotStarted /\ Started /\ RunningHasNoOutcome /\ ReadyHasEnded
    /\ CollectedIsOutcome /\ AllSubmitted /\ CollectedAtEnd /\ NothingLeft

LEMMA TasksFacts ==
  /\ Len(Tasks) \in Nat /\ Len(Tasks) > 0
  /\ DOMAIN Tasks = 1 .. Len(Tasks)
  /\ \A i \in DOMAIN Tasks : Tasks[i] \in Task
  /\ \A t \in Task : \E i \in DOMAIN Tasks : Tasks[i] = t
  /\ \A i, j \in DOMAIN Tasks : Tasks[i] = Tasks[j] => i = j
  BY RunnerAssumption

LEMMA LenNat == Len(Tasks) \in Nat /\ 0 < Len(Tasks)
  BY TasksFacts

LEMMA RunnerInit == Init => RunnerInv
<1> SUFFICES ASSUME Init PROVE RunnerInv
  OBVIOUS
<1>1. TypeOK
  BY TasksFacts, RunnerAssumption DEF Init, TypeOK, Calls, Places
<1>2. NotStarted /\ Started
  BY TasksFacts DEF Init, NotStarted, Started
<1>3. AllSubmitted
  BY LenNat DEF Init, AllSubmitted
<1> QED
  BY <1>1, <1>2, <1>3 DEF Init, RunnerInv, RunningHasNoOutcome, ReadyHasEnded,
     CollectedIsOutcome, CollectedAtEnd, NothingLeft, Ended

-----------------------------------------------------------------------------
(* One lemma per action. *)

LEMMA SubmitStep == RunnerInv /\ Submit => RunnerInv'
<1> SUFFICES ASSUME RunnerInv, Submit PROVE RunnerInv'
  OBVIOUS
<1>1. submitted' = submitted + 1 /\ submitted < Len(Tasks)
  BY DEF RunnerInv, AllSubmitted, Submit
<1>2. TypeOK'
  <2>1. started' \in 0 .. submitted' /\ submitted' \in 0 .. Len(Tasks)
    BY <1>1, LenNat DEF RunnerInv, TypeOK, Submit
  <2>2. pc' \in Places
    BY DEF RunnerInv, TypeOK, Places, Submit
  <2> QED
    BY <2>1, <2>2 DEF RunnerInv, TypeOK, Submit
<1>3. AllSubmitted'
  <2>1. CASE submitted + 1 = Len(Tasks)
    BY <1>1, <2>1 DEF AllSubmitted, Submit
  <2>2. CASE submitted + 1 # Len(Tasks)
    <3>1. submitted \in Nat
      BY DEF RunnerInv, TypeOK
    <3>2. submitted + 1 < Len(Tasks)
      BY <1>1, <2>2, <3>1, LenNat
    <3>3. pc' = "submit"
      BY <2>2 DEF Submit
    <3> QED
      BY <1>1, <3>2, <3>3 DEF AllSubmitted
  <2> QED
    BY <2>1, <2>2
<1>4. CollectedAtEnd' /\ NothingLeft'
  BY DEF Submit, CollectedAtEnd, NothingLeft, Ended
<1> QED
  BY <1>2, <1>3, <1>4 DEF Submit, RunnerInv, NotStarted, Started,
     RunningHasNoOutcome, ReadyHasEnded, CollectedIsOutcome

LEMMA StartJobStep == RunnerInv /\ StartJob => RunnerInv'
<1> SUFFICES ASSUME RunnerInv, StartJob PROVE RunnerInv'
  OBVIOUS
<1> DEFINE next == Tasks[started + 1]
<1>1. /\ started + 1 \in DOMAIN Tasks /\ next \in Task
      /\ started' = started + 1 /\ running' = running \cup {next}
      /\ started < submitted
  BY TasksFacts DEF RunnerInv, TypeOK, StartJob
<1>2. next \notin running /\ outcome[next] = "none"
  BY <1>1, TasksFacts DEF RunnerInv, NotStarted, TypeOK
<1>3. TypeOK'
  BY <1>1 DEF RunnerInv, TypeOK, StartJob
<1>4. NotStarted'
  BY <1>1, TasksFacts DEF RunnerInv, TypeOK, NotStarted, StartJob
<1>5. Started'
  BY <1>1, TasksFacts DEF RunnerInv, TypeOK, Started, StartJob
<1>6. RunningHasNoOutcome'
  BY <1>1, <1>2 DEF RunnerInv, RunningHasNoOutcome, StartJob
<1>7. NothingLeft'
  BY <1>1 DEF RunnerInv, TypeOK, NothingLeft, Ended, StartJob
<1> QED
  BY <1>3, <1>4, <1>5, <1>6, <1>7 DEF StartJob, RunnerInv, ReadyHasEnded,
     CollectedIsOutcome, AllSubmitted, CollectedAtEnd, AllCollected

LEMMA FinishJobStep == ASSUME NEW t \in Task PROVE RunnerInv /\ FinishJob(t) => RunnerInv'
<1> SUFFICES ASSUME RunnerInv, FinishJob(t) PROVE RunnerInv'
  OBVIOUS
<1>1. PICK o \in {"ok", "error"} : outcome' = [outcome EXCEPT ![t] = o]
  BY DEF FinishJob
<1>2. /\ t \in running /\ outcome[t] = "none"
      /\ running' = running \ {t} /\ ready' = ready \cup {t}
  BY DEF FinishJob, RunnerInv, RunningHasNoOutcome
<1>3. TypeOK'
  BY <1>1, <1>2 DEF RunnerInv, TypeOK, FinishJob
<1>4. /\ outcome'[t] = o /\ o # "none"
      /\ \A u \in Task \ {t} : outcome'[u] = outcome[u]
  BY <1>1 DEF RunnerInv, TypeOK
<1>5. NotStarted'
  BY <1>2, <1>4, TasksFacts DEF RunnerInv, NotStarted, FinishJob
<1>6. Started'
  BY <1>2, <1>4, TasksFacts DEF RunnerInv, Started, FinishJob
<1>7. RunningHasNoOutcome' /\ ReadyHasEnded'
  BY <1>2, <1>4 DEF RunnerInv, TypeOK, RunningHasNoOutcome, ReadyHasEnded
<1>8. CollectedIsOutcome'
  BY <1>2, <1>4 DEF RunnerInv, CollectedIsOutcome, FinishJob
<1> QED
  BY <1>2, <1>3, <1>5, <1>6, <1>7, <1>8 DEF FinishJob, RunnerInv, AllSubmitted,
     CollectedAtEnd, AllCollected, NothingLeft, Ended

LEMMA CollectStep == ASSUME NEW t \in Task PROVE RunnerInv /\ Collect(t) => RunnerInv'
<1> SUFFICES ASSUME RunnerInv, Collect(t) PROVE RunnerInv'
  OBVIOUS
<1>1. outcome[t] \in {"ok", "error"}
  BY DEF RunnerInv, TypeOK, ReadyHasEnded, Collect
<1>2. TypeOK'
  BY <1>1 DEF RunnerInv, TypeOK, Collect
<1>3. CollectedIsOutcome'
  BY DEF RunnerInv, TypeOK, CollectedIsOutcome, Collect
<1> QED
  BY <1>2, <1>3 DEF Collect, RunnerInv, NotStarted, Started, RunningHasNoOutcome,
     ReadyHasEnded, AllSubmitted, CollectedAtEnd, NothingLeft, Ended

\* The steps that change nothing but the place of the calling thread and time.
LEMMA OtherStep ==
  RunnerInv /\ (StopCollecting \/ DeadlinePasses \/ LeavePool \/ Tick \/ UNCHANGED vars)
    => RunnerInv'
<1> SUFFICES ASSUME RunnerInv,
                    StopCollecting \/ DeadlinePasses \/ LeavePool \/ Tick \/ UNCHANGED vars
             PROVE  RunnerInv'
  OBVIOUS
<1>1. UNCHANGED <<call, submitted, started, running, ready, results, outcome>>
  BY DEF StopCollecting, DeadlinePasses, LeavePool, Tick, vars
<1>2. TypeOK'
  <2>1. pc' \in Places
    BY DEF RunnerInv, TypeOK, Places, StopCollecting, DeadlinePasses, LeavePool, Tick, vars
  <2>2. clock' \in 0 .. MaxTime /\ spent' \in [Task -> 0 .. clock']
    <3>1. CASE Tick
      <4>1. clock' \in 0 .. MaxTime
        BY <3>1, RunnerAssumption DEF RunnerInv, TypeOK, Tick
      <4>2. spent' \in [Task -> 0 .. clock']
        BY <3>1 DEF RunnerInv, TypeOK, Tick
      <4> QED
        BY <4>1, <4>2
    <3>2. CASE StopCollecting \/ DeadlinePasses \/ LeavePool \/ UNCHANGED vars
      BY <3>2 DEF RunnerInv, TypeOK, StopCollecting, DeadlinePasses, LeavePool, vars
    <3> QED
      BY <3>1, <3>2
  <2> QED
    BY <1>1, <2>1, <2>2 DEF RunnerInv, TypeOK
<1>3. AllSubmitted' /\ CollectedAtEnd' /\ NothingLeft'
  BY <1>1 DEF RunnerInv, AllSubmitted, CollectedAtEnd, AllCollected, NothingLeft, Ended,
     StopCollecting, DeadlinePasses, LeavePool, Tick, vars
<1> QED
  BY <1>1, <1>2, <1>3 DEF RunnerInv, NotStarted, Started, RunningHasNoOutcome,
     ReadyHasEnded, CollectedIsOutcome

LEMMA RunnerStep == RunnerInv /\ [Next]_vars => RunnerInv'
<1> SUFFICES ASSUME RunnerInv, [Next]_vars PROVE RunnerInv'
  OBVIOUS
<1>1. ASSUME NEW t \in Task, FinishJob(t) \/ Collect(t) PROVE RunnerInv'
  BY <1>1, FinishJobStep, CollectStep
<1> QED
  BY <1>1, SubmitStep, StartJobStep, OtherStep DEF Next, MainStep

\* The variables of the runner keep their types.
THEOREM RunnerTypeCorrect == Spec => []TypeOK
<1>1. Init => RunnerInv
  BY RunnerInit
<1>2. RunnerInv /\ [Next]_vars => RunnerInv'
  BY RunnerStep
<1>3. RunnerInv => TypeOK
  BY DEF RunnerInv
<1> QED
  BY <1>1, <1>2, <1>3, PTL DEF Spec

-----------------------------------------------------------------------------
(* The call implements the batch. *)

LEMMA EndedMeansRun == RunnerInv /\ started = submitted /\ running = {} /\ pc # "submit"
                         => \A t \in Task : outcome[t] # "none"
  BY TasksFacts DEF RunnerInv, TypeOK, Started, AllSubmitted

LEMMA BatchInit == Init => Batch!Init
  BY DEF Init, Batch!Init, Batch!Unknown, Batch!Pending, Ended

LEMMA ReturnedIsOutcome == RunnerInv /\ pc \in {"leave", "returned"} => results = outcome
  BY DEF RunnerInv, TypeOK, CollectedAtEnd, AllCollected, CollectedIsOutcome

LEMMA BatchStep == RunnerInv /\ RunnerInv' /\ [Next]_vars => [Batch!Next]_(Batch!vars)
<1> SUFFICES ASSUME RunnerInv, RunnerInv', [Next]_vars
             PROVE  [Batch!Next]_(Batch!vars)
  OBVIOUS
<1> USE DEF Batch!vars, Batch!Pending, Batch!Unknown, Batch!Raised, Batch!Returned
<1>1. CASE Submit \/ StartJob \/ StopCollecting \/ DeadlinePasses \/ Tick \/ UNCHANGED vars
  BY <1>1 DEF Submit, StartJob, StopCollecting, DeadlinePasses, Tick, vars, Ended
<1>2. ASSUME NEW t \in Task, Collect(t) PROVE [Batch!Next]_(Batch!vars)
  BY <1>2 DEF Collect, Ended
<1>3. ASSUME NEW t \in Task, FinishJob(t) PROVE Batch!Next
  <2>1. ~Ended /\ ~Ended' /\ outcome[t] = "none"
    BY <1>3 DEF FinishJob, RunnerInv, NothingLeft, RunningHasNoOutcome, Ended
  <2>2. Batch!Run(t)
    BY <1>3, <2>1 DEF FinishJob, Batch!Run, Batch!Outcomes, Ended
  <2> QED
    BY <2>2 DEF Batch!Next
<1>4. CASE LeavePool
  <2>1. Batch!AllRun
    BY <1>4, EndedMeansRun DEF LeavePool, Batch!AllRun
  <2>2. ~Ended /\ UNCHANGED <<outcome, results>>
    BY <1>4 DEF LeavePool, Ended
  <2>3. CASE pc' = "returned"
    <3>1. results = outcome
      BY <1>4, <2>3, ReturnedIsOutcome DEF LeavePool
    <3> QED
      BY <2>1, <2>2, <2>3, <3>1 DEF Batch!End, Batch!Next, Ended
  <2>4. CASE pc' = "raised"
    BY <2>1, <2>2, <2>4 DEF Batch!End, Batch!Next, Ended
  <2> QED
    BY <1>4, <2>3, <2>4 DEF LeavePool
<1> QED
  BY <1>1, <1>2, <1>3, <1>4 DEF Next, MainStep

\* The runner runs every task exactly once, and gives control back only when
\* all have run: with the outcome of each, or with an exception.
THEOREM RunnerImplementsBatch == Spec => RunsABatch
<1>1. Init => RunnerInv /\ Batch!Init
  BY RunnerInit, BatchInit
<1>2. RunnerInv /\ [Next]_vars => RunnerInv'
  BY RunnerStep
<1>3. RunnerInv /\ RunnerInv' /\ [Next]_vars => [Batch!Next]_(Batch!vars)
  BY BatchStep
<1> QED
  BY <1>1, <1>2, <1>3, PTL DEF Spec, RunsABatch, Batch!Spec

-----------------------------------------------------------------------------
(* The pool. *)

LEMMA WorkersBounds == Workers \in Nat /\ 1 <= Workers /\ Workers <= Greatest(1, MaxWorkers)
  BY LenNat, RunnerAssumption DEF Workers, Least, Greatest

RunnerPool == Cardinality(running) <= Workers

LEMMA PoolStep == RunnerInv /\ RunnerPool /\ [Next]_vars => RunnerPool'
<1> SUFFICES ASSUME RunnerInv, RunnerPool, [Next]_vars PROVE RunnerPool'
  OBVIOUS
<1>1. IsFiniteSet(running) /\ Cardinality(running) \in Nat
  BY RunnerAssumption, FS_Subset, FS_CardinalityType DEF RunnerInv, TypeOK
<1>2. Workers' = Workers
  BY DEF Workers
<1>3. CASE UNCHANGED running
  BY <1>2, <1>3 DEF RunnerPool
<1>4. CASE StartJob
  <2>1. Cardinality(running') <= Cardinality(running) + 1
    <3> DEFINE x == Tasks[started + 1]
    <3>1. running' = running \cup {x}
      BY <1>4 DEF StartJob
    <3>2. Cardinality(running \cup {x}) \in {Cardinality(running), Cardinality(running) + 1}
      BY <1>1, FS_AddElement
    <3>3. Cardinality(running') \in {Cardinality(running), Cardinality(running) + 1}
      BY <3>1, <3>2
    <3> HIDE DEF x
    <3> QED
      BY <1>1, <3>3
  <2>2. Cardinality(running) < Workers
    BY <1>4 DEF StartJob
  <2>3. Cardinality(running') \in Nat
    BY <1>1, <1>4, FS_AddElement, FS_CardinalityType DEF StartJob
  <2> QED
    BY <1>1, <1>2, <2>1, <2>2, <2>3, WorkersBounds DEF RunnerPool
<1>5. ASSUME NEW t \in Task, FinishJob(t) PROVE RunnerPool'
  <2>1. running' \subseteq running
    BY <1>5 DEF FinishJob
  <2>2. Cardinality(running') <= Cardinality(running) /\ Cardinality(running') \in Nat
    BY <1>1, <2>1, FS_Subset, FS_CardinalityType
  <2> QED
    BY <1>1, <1>2, <2>2, WorkersBounds DEF RunnerPool
<1> QED
  BY <1>3, <1>4, <1>5 DEF Next, MainStep, Submit, Collect, StopCollecting,
     DeadlinePasses, LeavePool, Tick, vars

\* Never more jobs at a time than the workers asked for, or than one if the
\* caller asks for none.
THEOREM PoolIsBounded == Spec => []PoolBound
<1>1. Init => RunnerInv /\ RunnerPool
  BY RunnerInit, WorkersBounds, FS_EmptySet DEF Init, RunnerPool
<1>2. RunnerInv /\ [Next]_vars => RunnerInv'
  BY RunnerStep
<1>3. RunnerInv /\ RunnerPool /\ [Next]_vars => RunnerPool'
  BY PoolStep
<1>4. RunnerInv /\ RunnerPool => PoolBound
  <2> SUFFICES ASSUME RunnerInv, RunnerPool PROVE PoolBound
    OBVIOUS
  <2>1. Cardinality(running) \in Nat
    BY RunnerAssumption, FS_Subset, FS_CardinalityType DEF RunnerInv, TypeOK
  <2>2. Greatest(1, MaxWorkers) \in Int
    BY RunnerAssumption DEF Greatest
  <2> QED
    BY <2>1, <2>2, WorkersBounds DEF RunnerPool, PoolBound
<1> QED
  BY <1>1, <1>2, <1>3, <1>4, PTL DEF Spec

-----------------------------------------------------------------------------
(* What is behind Terminates, as far as it can be said without fairness:   *)
(* a call that has not ended has a step to take, and it has only so many   *)
(* of them.                                                                *)

\* No future is lost: a job that ended is yielded, or was.
NoFutureLost == \A t \in Task : outcome[t] # "none" => t \in ready \/ results[t] # "none"

ReadyIsUncollected == \A t \in ready : results[t] = "none"

FuturesInv == RunnerInv /\ NoFutureLost /\ ReadyIsUncollected

\* The guards of the steps, but for the clock and the deadline.
CanStep ==
    \/ pc = "submit"
    \/ started < submitted /\ Cardinality(running) < Workers
    \/ running # {}
    \/ pc = "collect" /\ (ready # {} \/ AllCollected)
    \/ pc \in {"leave", "abort"} /\ started = submitted /\ running = {}

\* Steps of the calling thread between submission and return.
PlacesLeft == CASE pc = "submit" -> 3 [] pc = "collect" -> 2
                [] pc \in {"leave", "abort"} -> 1 [] OTHER -> 0

Unended == {t \in Task : outcome[t] = "none"}
Uncollected == {t \in Task : results[t] = "none"}

StepsLeft ==
    (Len(Tasks) - submitted) + (Len(Tasks) - started)
        + Cardinality(Unended) + Cardinality(Uncollected) + PlacesLeft

LEMMA FuturesInit == Init => FuturesInv
  BY RunnerInit DEF Init, FuturesInv, NoFutureLost, ReadyIsUncollected

LEMMA FuturesStep == FuturesInv /\ [Next]_vars => FuturesInv'
<1> SUFFICES ASSUME FuturesInv, [Next]_vars PROVE NoFutureLost' /\ ReadyIsUncollected'
  BY RunnerStep DEF FuturesInv
<1>1. CASE UNCHANGED <<ready, results, outcome>>
  BY <1>1 DEF FuturesInv, NoFutureLost, ReadyIsUncollected
<1>2. ASSUME NEW t \in Task, FinishJob(t) PROVE NoFutureLost' /\ ReadyIsUncollected'
  <2>1. /\ ready' = ready \cup {t} /\ results' = results
        /\ \A u \in Task \ {t} : outcome'[u] = outcome[u]
    BY <1>2 DEF FinishJob, FuturesInv, RunnerInv, TypeOK
  <2>2. results[t] = "none"
    BY <1>2 DEF FinishJob, FuturesInv, RunnerInv, RunningHasNoOutcome, CollectedIsOutcome
  <2> QED
    BY <2>1, <2>2 DEF FuturesInv, NoFutureLost, ReadyIsUncollected
<1>3. ASSUME NEW t \in Task, Collect(t) PROVE NoFutureLost' /\ ReadyIsUncollected'
  <2>1. /\ ready' = ready \ {t} /\ outcome' = outcome
        /\ results'[t] = outcome[t] /\ outcome[t] # "none"
        /\ \A u \in Task \ {t} : results'[u] = results[u]
    BY <1>3 DEF Collect, FuturesInv, RunnerInv, TypeOK, ReadyHasEnded
  <2>2. ready \subseteq Task
    BY DEF FuturesInv, RunnerInv, TypeOK
  <2> QED
    BY <2>1, <2>2 DEF FuturesInv, NoFutureLost, ReadyIsUncollected
<1> QED
  BY <1>1, <1>2, <1>3 DEF Next, MainStep, Submit, StopCollecting, DeadlinePasses, LeavePool,
     StartJob, Tick, vars

LEMMA NotStuck == FuturesInv => (~Ended => CanStep)
<1> SUFFICES ASSUME FuturesInv, ~Ended, pc # "submit", running = {} PROVE CanStep
  BY DEF CanStep
<1>1. pc \in {"collect", "leave", "abort"} /\ started \in 0 .. submitted /\ submitted \in Nat
  BY DEF FuturesInv, RunnerInv, TypeOK, Places, Ended
<1>2. CASE started < submitted
  <2>1. Cardinality(running) < Workers
    BY FS_EmptySet, WorkersBounds
  <2> QED
    BY <1>2, <2>1 DEF CanStep
<1>3. CASE started = submitted
  <2>1. \A t \in Task : outcome[t] # "none"
    BY <1>3, EndedMeansRun DEF FuturesInv
  <2>2. ready # {} \/ AllCollected
    BY <2>1 DEF FuturesInv, NoFutureLost, AllCollected
  <2> QED
    BY <1>1, <1>3, <2>2 DEF CanStep
<1> QED
  BY <1>1, <1>2, <1>3

\* Taking an element away from what is left.
LEMMA OneLess ==
    ASSUME NEW S, IsFiniteSet(S), NEW x \in S
    PROVE  Cardinality(S \ {x}) = Cardinality(S) - 1 /\ Cardinality(S) \in Nat
  BY FS_RemoveElement, FS_CardinalityType

LEMMA StepsLeftTyped ==
    ASSUME FuturesInv
    PROVE  /\ IsFiniteSet(Unended) /\ Cardinality(Unended) \in Nat
           /\ IsFiniteSet(Uncollected) /\ Cardinality(Uncollected) \in Nat
           /\ PlacesLeft \in 0 .. 3
           /\ Len(Tasks) - submitted \in Nat /\ Len(Tasks) - started \in Nat
           /\ StepsLeft \in Nat
<1>1. IsFiniteSet(Unended) /\ Cardinality(Unended) \in Nat
  BY RunnerAssumption, FS_Subset, FS_CardinalityType DEF Unended
<1>2. IsFiniteSet(Uncollected) /\ Cardinality(Uncollected) \in Nat
  BY RunnerAssumption, FS_Subset, FS_CardinalityType DEF Uncollected
<1>3. PlacesLeft \in 0 .. 3
  BY DEF PlacesLeft
<1>4. Len(Tasks) - submitted \in Nat /\ Len(Tasks) - started \in Nat
  BY LenNat DEF FuturesInv, RunnerInv, TypeOK
<1> QED
  BY <1>1, <1>2, <1>3, <1>4 DEF StepsLeft

LEMMA FewerSteps ==
    ASSUME FuturesInv, Next, ~Tick
    PROVE  StepsLeft' < StepsLeft
<1> DEFINE u == Cardinality(Unended)
           v == Cardinality(Uncollected)
<1>1. /\ u \in Nat /\ v \in Nat /\ PlacesLeft \in 0 .. 3
      /\ Len(Tasks) \in Nat /\ submitted \in Nat /\ started \in Nat
  BY StepsLeftTyped, LenNat DEF FuturesInv, RunnerInv, TypeOK
<1>2. CASE Submit
  <2>1. submitted' = submitted + 1 /\ started' = started /\ u' = u /\ v' = v
    BY <1>2 DEF Submit, Unended, Uncollected
  <2>2. PlacesLeft' \in {2, 3} /\ PlacesLeft = 3
    BY <1>2 DEF Submit, PlacesLeft
  <2> HIDE DEF u, v
  <2> QED
    BY <1>1, <2>1, <2>2 DEF StepsLeft, u, v
<1>3. CASE StartJob
  <2>1. submitted' = submitted /\ started' = started + 1 /\ u' = u /\ v' = v /\ PlacesLeft' = PlacesLeft
    BY <1>3 DEF StartJob, Unended, Uncollected, PlacesLeft
  <2> QED
    BY <1>1, <2>1 DEF StepsLeft
<1>4. ASSUME NEW t \in Task, FinishJob(t) PROVE StepsLeft' < StepsLeft
  <2>1. submitted' = submitted /\ started' = started /\ v' = v /\ PlacesLeft' = PlacesLeft
    BY <1>4 DEF FinishJob, Uncollected, PlacesLeft
  <2>2. t \in Unended /\ Unended' = Unended \ {t}
    BY <1>4 DEF FinishJob, Unended, FuturesInv, RunnerInv, RunningHasNoOutcome, TypeOK
  <2>3. u' = u - 1
    BY <2>2, StepsLeftTyped, OneLess
  <2> QED
    BY <1>1, <2>1, <2>3 DEF StepsLeft
<1>5. ASSUME NEW t \in Task, Collect(t) PROVE StepsLeft' < StepsLeft
  <2>1. submitted' = submitted /\ started' = started /\ u' = u /\ PlacesLeft' = PlacesLeft
    BY <1>5 DEF Collect, Unended, PlacesLeft
  <2>2. t \in Uncollected /\ Uncollected' = Uncollected \ {t}
    BY <1>5 DEF Collect, Uncollected, FuturesInv, RunnerInv, ReadyIsUncollected, ReadyHasEnded, TypeOK
  <2>3. v' = v - 1
    BY <2>2, StepsLeftTyped, OneLess
  <2> QED
    BY <1>1, <2>1, <2>3 DEF StepsLeft
<1>6. CASE StopCollecting \/ DeadlinePasses \/ LeavePool
  <2>1. submitted' = submitted /\ started' = started /\ u' = u /\ v' = v
    BY <1>6 DEF StopCollecting, DeadlinePasses, LeavePool, Unended, Uncollected
  <2>2. PlacesLeft' = PlacesLeft - 1
    BY <1>6 DEF StopCollecting, DeadlinePasses, LeavePool, PlacesLeft
  <2> QED
    BY <1>1, <2>1, <2>2 DEF StepsLeft
<1> QED
  BY <1>2, <1>3, <1>4, <1>5, <1>6 DEF Next, MainStep

\* A call that has not ended is not stuck, whatever the number of workers, and which jobs
\* raised: no job waits for a worker that is not there, and no future is lost.
THEOREM RunnerNeverStuck == Spec => [](~Ended => CanStep)
BY FuturesInit, FuturesStep, NotStuck, PTL DEF Spec

\* And its steps run out: each of them, but for the passing of time, leaves fewer to take.
THEOREM RunnerStepsRunOut == Spec => [][StepsLeft' < StepsLeft \/ Tick]_vars /\ [](StepsLeft \in Nat)
<1>1. FuturesInv /\ [Next]_vars => [StepsLeft' < StepsLeft \/ Tick]_vars
  BY FewerSteps
<1>2. FuturesInv => StepsLeft \in Nat
  BY StepsLeftTyped
<1> QED
  BY <1>1, <1>2, FuturesInit, FuturesStep, PTL DEF Spec

-----------------------------------------------------------------------------
(* The audits of the providers.  The invariant follows each control of     *)
(* each scope: nothing is known of it before its block, what is known in   *)
(* its block is what was read, and it is answered after its block.         *)

Shape ==
    /\ stage = [p \in Provider |-> stage[p]] /\ DOMAIN visible = Provider /\ DOMAIN left = Provider
    /\ DOMAIN scope = Provider /\ DOMAIN block = Provider /\ DOMAIN judged = Provider
    /\ DOMAIN found = Provider /\ DOMAIN seen = Provider /\ DOMAIN missed = Provider

ItemStatus(item, good) == IF item \in ExcludedItem THEN "skip" ELSE PassOrFail(good)

Untouched(p, s, c) ==
    FoundOf(p, s, c) = {} /\ SeenOf(p, s, c) = {} /\ <<s, c>> \notin missed[p]

Mirrored(p, s, c) ==
    /\ <<s, c>> \notin missed[p]
    /\ \A f \in FoundOf(p, s, c) : c \in PerItem /\ f.status # "error"
    /\ c \in PerItem =>
          \A y \in SeenOf(p, s, c) : \E f \in FoundOf(p, s, c) :
             f.item = y.item /\ f.status = ItemStatus(y.item, y.good)
    /\ \A y \in SeenOf(p, s, c) : \E x \in judged[p] : y.good = x.good[c]
    /\ \A x \in judged[p] : \E y \in SeenOf(p, s, c) : y.good = x.good[c]

\* Block i of scope s is still to come, or is the one that p is in.
Ahead(p, s, i) == s \in left[p] \/ (block[p] # 0 /\ s = scope[p] /\ block[p] < i)
Now(p, s, i) == block[p] # 0 /\ s = scope[p] /\ i = block[p]

\* What is known of control c of block i in scope s.
Known(p, s, i, c) ==
    /\ Ahead(p, s, i) => Untouched(p, s, c)
    /\ Now(p, s, i) => Mirrored(p, s, c)
    /\ ~Ahead(p, s, i) /\ ~Now(p, s, i) => Answered(p, s, c)

Progress(p) ==
    \A s \in visible[p], i \in DOMAIN Blocks[p] :
        \A c \in SelectedIn(Blocks[p][i]) : Known(p, s, i, c)

PlaceOK(p) ==
    /\ stage[p] = "start" => /\ visible[p] = {} /\ left[p] = {} /\ found[p] = {}
                             /\ seen[p] = {} /\ missed[p] = {}
    /\ stage[p] \in {"scopes", "block"} => visible[p] # {}
    /\ stage[p] = "over" =>
          /\ left[p] = {}
          /\ visible[p] # {} \/ \E f \in found[p] : f.status \in {"fail", "error"}
    /\ stage[p] = "block" => scope[p] \in visible[p] \ left[p]
    /\ stage[p] # "block" => judged[p] = {}
    /\ left[p] \subseteq visible[p]

SeenIsChosen(p) == \A x \in seen[p] : x.scope \in visible[p] /\ x.control \in Chosen(p)

MissedIsTold(p) ==
    \A m \in missed[p] : \E f \in found[p] :
        f.status = "error" \/ (m[2] = "AZURE-LOG-002" /\ f.status = "fail")

AuditOK(p) == PlaceOK(p) /\ SeenIsChosen(p) /\ MissedIsTold(p) /\ Progress(p)

\* The audit of a job that ended without an exception is over.
EndedIsOver == \A p \in Provider : call = "run_providers" /\ outcome[p] = "ok" => stage[p] = "over"

\* No control is in two blocks, and the one for the listing is in none but that of k8s.
LEMMA BlocksFacts ==
  ASSUME NEW p \in Provider
  PROVE  /\ Len(Blocks[p]) \in Nat /\ DOMAIN Blocks[p] = 1 .. Len(Blocks[p])
         /\ \A i \in DOMAIN Blocks[p] : Blocks[p][i] \subseteq ProviderControls(p)
         /\ \A i, j \in DOMAIN Blocks[p] : i # j => Blocks[p][i] \cap Blocks[p][j] = {}
         /\ \A i \in DOMAIN Blocks[p] : ScopeControl[p] \in Blocks[p][i] => ScopeControl[p] = "K8S-NET-001"
         /\ ProviderControls(p) \subseteq AuditControl
<1>0. p \in {"azure", "gcp", "k8s"}
  BY AuditAssumption
<1>1. /\ \A i \in DOMAIN Blocks[p] : Blocks[p][i] \subseteq ProviderControls(p)
      /\ ProviderControls(p) \subseteq AuditControl
  BY <1>0 DEF ProviderControls, AuditControl
<1>2. CASE p = "azure"
  BY <1>1, <1>2 DEF Blocks, ScopeControl
<1>3. CASE p = "gcp"
  BY <1>1, <1>3 DEF Blocks, ScopeControl
<1>4. CASE p = "k8s"
  BY <1>1, <1>4 DEF Blocks, ScopeControl
<1> QED
  BY <1>0, <1>2, <1>3, <1>4

\* Where GoOn leads.
LEMMA GoOnFacts ==
  ASSUME NEW p \in Provider, NEW i0 \in Nat, Shape, GoOn(p, i0)
  PROVE  /\ stage' = [stage EXCEPT ![p] = stage'[p]]
         /\ block' = [block EXCEPT ![p] = block'[p]]
         /\ \/ /\ stage'[p] = "scopes" /\ block'[p] = 0
               /\ \A i \in DOMAIN Blocks[p] : \A c \in SelectedIn(Blocks[p][i]) : i <= i0
            \/ /\ stage'[p] = "block" /\ block'[p] \in DOMAIN Blocks[p] /\ i0 < block'[p]
               /\ \A i \in DOMAIN Blocks[p] : \A c \in SelectedIn(Blocks[p][i]) :
                     i <= i0 \/ block'[p] <= i
<1>0. \A i \in DOMAIN Blocks[p] : i \in Nat
  BY BlocksFacts
<1>1. CASE Later(p, i0) = {}
  <2>1. \A i \in DOMAIN Blocks[p] : \A c \in SelectedIn(Blocks[p][i]) : i <= i0
    BY <1>0, <1>1 DEF Later
  <2> QED
    BY <1>1, <2>1 DEF GoOn, Shape
<1>2. CASE Later(p, i0) # {}
  <2>1. PICK j \in Later(p, i0) :
           /\ \A k \in Later(p, i0) : j <= k
           /\ stage' = [stage EXCEPT ![p] = "block"] /\ block' = [block EXCEPT ![p] = j]
    BY <1>2 DEF GoOn
  <2>2. stage'[p] = "block" /\ block'[p] = j
    BY <2>1 DEF Shape
  <2>3. \A i \in DOMAIN Blocks[p] : \A c \in SelectedIn(Blocks[p][i]) : i <= i0 \/ j <= i
    BY <1>0, <2>1 DEF Later
  <2> QED
    BY <2>1, <2>2, <2>3 DEF Later
<1> QED
  BY <1>1, <1>2

\* What is known of a control in a scope stays, if nothing is said, read or missed of it.
LEMMA SamePair ==
  ASSUME NEW p, NEW s, NEW c,
         FoundOf(p, s, c)' = FoundOf(p, s, c), SeenOf(p, s, c)' = SeenOf(p, s, c),
         <<s, c>> \in missed'[p] <=> <<s, c>> \in missed[p]
  PROVE  /\ Untouched(p, s, c) => Untouched(p, s, c)'
         /\ Answered(p, s, c) => Answered(p, s, c)'
<1>1. Untouched(p, s, c) => Untouched(p, s, c)'
  BY DEF Untouched
<1>2. Answered(p, s, c) => Answered(p, s, c)'
  BY DEF Answered
<1> QED
  BY <1>1, <1>2

LEMMA SameProgress ==
  ASSUME NEW q \in Provider, Progress(q),
         visible'[q] = visible[q], left'[q] = left[q],
         scope'[q] = scope[q], block'[q] = block[q], judged'[q] = judged[q],
         found'[q] = found[q], seen'[q] = seen[q], missed'[q] = missed[q]
  PROVE  Progress(q)'
<1> SUFFICES ASSUME NEW s \in visible'[q], NEW i \in DOMAIN Blocks[q],
                    NEW c \in SelectedIn(Blocks[q][i])
             PROVE  Known(q, s, i, c)'
  BY DEF Progress
<1>1. Known(q, s, i, c)
  BY DEF Progress
<1>2. FoundOf(q, s, c)' = FoundOf(q, s, c) /\ SeenOf(q, s, c)' = SeenOf(q, s, c)
  BY DEF FoundOf, SeenOf
<1>3. /\ Untouched(q, s, c) => Untouched(q, s, c)'
      /\ Answered(q, s, c) => Answered(q, s, c)'
  BY <1>2, SamePair
<1>4. Mirrored(q, s, c) => Mirrored(q, s, c)'
  BY <1>2 DEF Mirrored
<1>5. (Ahead(q, s, i)' <=> Ahead(q, s, i)) /\ (Now(q, s, i)' <=> Now(q, s, i))
  BY DEF Ahead, Now
<1>6. /\ Ahead(q, s, i)' => Untouched(q, s, c)'
      /\ Now(q, s, i)' => Mirrored(q, s, c)'
      /\ ~Ahead(q, s, i)' /\ ~Now(q, s, i)' => Answered(q, s, c)'
  BY <1>1, <1>3, <1>4, <1>5 DEF Known
<1> QED
  BY <1>6 DEF Known

\* The audits of the other providers are not disturbed.
LEMMA OtherAudit ==
  ASSUME NEW q \in Provider, AuditOK(q),
         stage'[q] = stage[q], visible'[q] = visible[q], left'[q] = left[q],
         scope'[q] = scope[q], block'[q] = block[q], judged'[q] = judged[q],
         found'[q] = found[q], seen'[q] = seen[q], missed'[q] = missed[q]
  PROVE  AuditOK(q)'
<1>1. Progress(q)'
  BY SameProgress DEF AuditOK
<1> QED
  BY <1>1 DEF AuditOK, PlaceOK, SeenIsChosen, MissedIsTold

-----------------------------------------------------------------------------
(* One lemma per step of an audit. *)

LEMMA CannotStartStep ==
  ASSUME NEW p \in Provider, Shape, AuditTypeOK, AuditOK(p), CannotStart(p)
  PROVE  AuditOK(p)'
<1>1. stage'[p] = "raised" /\ stage[p] # "block"
  BY DEF CannotStart, Shape
<1>2. Progress(p)'
  BY SameProgress DEF AuditOK, CannotStart
<1> QED
  BY <1>1, <1>2 DEF AuditOK, PlaceOK, SeenIsChosen, MissedIsTold, CannotStart

LEMMA EndAtOnceStep ==
  ASSUME NEW p \in Provider, Shape, AuditTypeOK, AuditOK(p), CannotList(p) \/ NothingVisible(p)
  PROVE  AuditOK(p)'
<1>1. PICK status \in {"error", "fail"} :
         EndAtOnce(p, status) /\ (status = "fail" => UNCHANGED missed)
  BY DEF CannotList, NothingVisible
<1>2. /\ visible[p] = {} /\ left[p] = {} /\ seen[p] = {} /\ missed[p] = {} /\ judged[p] = {}
      /\ stage'[p] = "over"
  BY <1>1 DEF EndAtOnce, Shape, AuditOK, PlaceOK
<1>3. PICK f : found'[p] = {f} /\ f.status = status
  <2> DEFINE f0 == _finding(ScopeControl[p], Nothing, Nothing, status)
  <2>1. found'[p] = {f0}
    BY <1>1 DEF EndAtOnce, Shape
  <2>2. f0.status = status
    BY DEF _finding
  <2> QED
    BY <2>1, <2>2
<1>4. Progress(p)' /\ SeenIsChosen(p)'
  BY <1>1, <1>2 DEF EndAtOnce, Progress, SeenIsChosen
<1>5. MissedIsTold(p)'
  BY <1>1, <1>2, <1>3 DEF MissedIsTold
<1>6. PlaceOK(p)'
  BY <1>1, <1>2, <1>3 DEF EndAtOnce, PlaceOK
<1> QED
  BY <1>4, <1>5, <1>6 DEF AuditOK

LEMMA ListScopesStep ==
  ASSUME NEW p \in Provider, Shape, AuditTypeOK, AuditOK(p), ListScopes(p)
  PROVE  AuditOK(p)'
<1>1. /\ stage[p] = "start" /\ stage'[p] = "scopes" /\ block[p] = 0
      /\ visible'[p] = left'[p] /\ visible'[p] # {}
      /\ found[p] = {} /\ seen[p] = {} /\ missed[p] = {} /\ judged[p] = {}
      /\ UNCHANGED <<scope, block, judged, found, seen, missed>>
  BY DEF ListScopes, Shape, AuditTypeOK, AuditOK, PlaceOK
<1>2. Progress(p)'
  <2> SUFFICES ASSUME NEW s \in visible'[p], NEW i \in DOMAIN Blocks[p],
                      NEW c \in SelectedIn(Blocks[p][i])
               PROVE  Known(p, s, i, c)'
    BY DEF Progress
  <2>1. Ahead(p, s, i)' /\ ~Now(p, s, i)'
    BY <1>1 DEF Ahead, Now
  <2>2. Untouched(p, s, c)'
    BY <1>1 DEF Untouched, FoundOf, SeenOf
  <2> QED
    BY <2>1, <2>2 DEF Known
<1> QED
  BY <1>1, <1>2 DEF AuditOK, PlaceOK, SeenIsChosen, MissedIsTold

LEMMA UntouchedIsMirrored ==
  ASSUME NEW p, NEW s, NEW c, Untouched(p, s, c), judged[p] = {}
  PROVE  Mirrored(p, s, c)
  BY DEF Untouched, Mirrored

LEMMA OpenScopeStep ==
  ASSUME NEW p \in Provider, Shape, AuditTypeOK, AuditOK(p), OpenScope(p)
  PROVE  AuditOK(p)'
<1>1. PICK s0 \in left[p] :
         /\ left' = [left EXCEPT ![p] = @ \ {s0}]
         /\ scope' = [scope EXCEPT ![p] = s0]
         /\ found' = [found EXCEPT ![p] = @ \cup
               {_finding(c, s0, Nothing, "pass") : c \in SelectedIn({ScopeControl[p]} \ {"K8S-NET-001"})}]
  BY DEF OpenScope
<1>2. /\ stage[p] = "scopes" /\ block[p] = 0 /\ judged[p] = {}
      /\ left'[p] = left[p] \ {s0} /\ scope'[p] = s0
      /\ UNCHANGED <<visible, judged, seen, missed>>
  BY <1>1 DEF OpenScope, Shape, AuditTypeOK, AuditOK, PlaceOK
<1>3. /\ found[p] \subseteq found'[p]
      /\ \A f \in found'[p] \ found[p] : f.control = ScopeControl[p] /\ f.control # "K8S-NET-001"
  BY <1>1 DEF Shape, SelectedIn, _finding
<1>4. GoOn(p, 0)
  BY DEF OpenScope
<1>5. \/ /\ stage'[p] = "scopes" /\ block'[p] = 0
         /\ \A i \in DOMAIN Blocks[p] : \A c \in SelectedIn(Blocks[p][i]) : i <= 0
      \/ /\ stage'[p] = "block" /\ block'[p] \in DOMAIN Blocks[p] /\ 0 < block'[p]
         /\ \A i \in DOMAIN Blocks[p] : \A c \in SelectedIn(Blocks[p][i]) :
               i <= 0 \/ block'[p] <= i
  BY <1>4, GoOnFacts
<1>6. Progress(p)'
  <2> SUFFICES ASSUME NEW s \in visible'[p], NEW i \in DOMAIN Blocks[p],
                      NEW c \in SelectedIn(Blocks[p][i])
               PROVE  Known(p, s, i, c)'
    BY DEF Progress
  <2>1. i \in Nat /\ i > 0 /\ \A j \in DOMAIN Blocks[p] : j \in Nat
    BY BlocksFacts
  <2>2. c \in Blocks[p][i] /\ (c = ScopeControl[p] => c = "K8S-NET-001")
    BY BlocksFacts DEF SelectedIn
  <2>3. FoundOf(p, s, c)' = FoundOf(p, s, c) /\ SeenOf(p, s, c)' = SeenOf(p, s, c)
    BY <1>2, <1>3, <2>2 DEF FoundOf, SeenOf
  <2>4. /\ Untouched(p, s, c) => Untouched(p, s, c)'
        /\ Answered(p, s, c) => Answered(p, s, c)'
    BY <1>2, <2>3, SamePair
  <2>5. Known(p, s, i, c)
    BY <1>2 DEF AuditOK, Progress
  <2>6. CASE s \in left'[p]
    <3>1. Ahead(p, s, i) /\ Ahead(p, s, i)' /\ ~Now(p, s, i)'
      BY <1>2, <2>6 DEF Ahead, Now
    <3> QED
      BY <2>4, <2>5, <3>1 DEF Known
  <2>7. CASE s = s0
    <3>1. Ahead(p, s, i)
      BY <1>1, <2>7 DEF Ahead
    <3>2. Untouched(p, s, c)'
      BY <2>4, <2>5, <3>1 DEF Known
    <3>3. Mirrored(p, s, c)'
      BY <1>2, <3>2 DEF Untouched, Mirrored
    <3>4. Ahead(p, s, i)' \/ Now(p, s, i)'
      BY <1>2, <1>5, <2>1, <2>7 DEF Ahead, Now
    <3> QED
      BY <3>2, <3>3, <3>4 DEF Known
  <2>8. CASE s \notin left'[p] /\ s # s0
    <3>1. ~Ahead(p, s, i) /\ ~Now(p, s, i) /\ ~Ahead(p, s, i)' /\ ~Now(p, s, i)'
      BY <1>2, <2>8 DEF Ahead, Now
    <3> QED
      BY <2>4, <2>5, <3>1 DEF Known
  <2> QED
    BY <2>6, <2>7, <2>8
<1>7. PlaceOK(p)'
  BY <1>1, <1>2, <1>5 DEF AuditOK, PlaceOK
<1>8. SeenIsChosen(p)' /\ MissedIsTold(p)'
  BY <1>2, <1>3 DEF AuditOK, SeenIsChosen, MissedIsTold
<1> QED
  BY <1>6, <1>7, <1>8 DEF AuditOK

LEMMA ReadItemStep ==
  ASSUME NEW p \in Provider, Shape, AuditTypeOK, AuditOK(p), ReadItem(p)
  PROVE  AuditOK(p)'
<1>1. PICK i0 \in ItemsOf[p], good \in [Current(p) -> BOOLEAN] :
         /\ judged' = [judged EXCEPT ![p] = @ \cup {[item |-> i0, good |-> good]}]
         /\ seen' = [seen EXCEPT ![p] = @ \cup
               {[scope |-> scope[p], control |-> c, item |-> i0, good |-> good[c]] : c \in Current(p)}]
         /\ found' = [found EXCEPT ![p] = @ \cup
               {_finding(c, scope[p], i0, IF i0 \in ExcludedItem THEN "skip" ELSE PassOrFail(good[c])) :
                   c \in Current(p) \cap PerItem}]
  BY DEF ReadItem
<1>2. PICK s0 : s0 = scope[p]
  OBVIOUS
<1>3. /\ stage[p] = "block" /\ s0 \in visible[p] \ left[p] /\ block[p] # 0 /\ block[p] \in DOMAIN Blocks[p]
      /\ UNCHANGED <<stage, visible, left, scope, block, missed>>
  BY <1>2 DEF ReadItem, AuditTypeOK, AuditOK, PlaceOK
<1>4. /\ judged'[p] = judged[p] \cup {[item |-> i0, good |-> good]}
      /\ seen'[p] = seen[p] \cup
            {[scope |-> s0, control |-> c, item |-> i0, good |-> good[c]] : c \in Current(p)}
      /\ found'[p] = found[p] \cup
            {_finding(c, s0, i0, ItemStatus(i0, good[c])) : c \in Current(p) \cap PerItem}
  BY <1>1, <1>2 DEF Shape, ItemStatus
<1>5. Current(p) = SelectedIn(Blocks[p][block[p]])
  BY DEF Current
<1>6. Progress(p)'
  <2> SUFFICES ASSUME NEW s \in visible'[p], NEW i \in DOMAIN Blocks[p],
                      NEW c \in SelectedIn(Blocks[p][i])
               PROVE  Known(p, s, i, c)'
    BY DEF Progress
  <2>1. Known(p, s, i, c)
    BY <1>3 DEF AuditOK, Progress
  <2>2. (Ahead(p, s, i)' <=> Ahead(p, s, i)) /\ (Now(p, s, i)' <=> Now(p, s, i))
    BY <1>3 DEF Ahead, Now
  <2>3. ASSUME Now(p, s, i) PROVE Known(p, s, i, c)'
    <3>1. s = s0 /\ c \in Current(p) /\ ~Ahead(p, s, i)
      BY <1>2, <1>3, <1>5, <2>3, BlocksFacts DEF Now, Ahead
    <3>2. Mirrored(p, s, c)
      BY <2>1, <2>3 DEF Known
    <3> DEFINE y0 == [scope |-> s0, control |-> c, item |-> i0, good |-> good[c]]
               x0 == [item |-> i0, good |-> good]
               f0 == _finding(c, s0, i0, ItemStatus(i0, good[c]))
    <3>3. /\ y0.scope = s0 /\ y0.control = c /\ y0.item = i0 /\ y0.good = good[c]
          /\ x0.item = i0 /\ x0.good = good
          /\ f0.scope = s0 /\ f0.control = c /\ f0.item = i0 /\ f0.status = ItemStatus(i0, good[c])
          /\ f0.status # "error"
      BY DEF _finding, ItemStatus, PassOrFail
    <3>4. judged'[p] = judged[p] \cup {x0}
      BY <1>4
    <3>5. SeenOf(p, s, c)' = SeenOf(p, s, c) \cup {y0}
      BY <1>4, <3>1, <3>3 DEF SeenOf
    <3>6. FoundOf(p, s, c)' = IF c \in PerItem THEN FoundOf(p, s, c) \cup {f0} ELSE FoundOf(p, s, c)
      BY <1>4, <3>1, <3>3 DEF FoundOf, _finding
    <3> HIDE DEF y0, x0, f0
    <3>7. Mirrored(p, s, c)'
      <4>1. <<s, c>> \notin missed'[p]
        BY <1>3, <3>2 DEF Mirrored
      <4>2. \A f \in FoundOf(p, s, c)' : c \in PerItem /\ f.status # "error"
        BY <3>2, <3>3, <3>6 DEF Mirrored
      <4>3. ASSUME c \in PerItem, NEW y \in SeenOf(p, s, c)'
            PROVE  \E f \in FoundOf(p, s, c)' : f.item = y.item /\ f.status = ItemStatus(y.item, y.good)
        BY <3>2, <3>3, <3>5, <3>6, <4>3 DEF Mirrored
      <4>4. ASSUME NEW y \in SeenOf(p, s, c)' PROVE \E x \in judged'[p] : y.good = x.good[c]
        BY <3>2, <3>3, <3>4, <3>5 DEF Mirrored
      <4>5. ASSUME NEW x \in judged'[p] PROVE \E y \in SeenOf(p, s, c)' : y.good = x.good[c]
        BY <3>2, <3>3, <3>4, <3>5 DEF Mirrored
      <4> QED
        BY <4>1, <4>2, <4>3, <4>4, <4>5 DEF Mirrored
    <3> QED
      BY <2>2, <2>3, <3>1, <3>7 DEF Known
  <2>4. ASSUME ~Now(p, s, i) PROVE Known(p, s, i, c)'
    <3>1. s # s0 \/ c \notin Current(p)
      BY <1>2, <1>3, <1>5, <2>4, BlocksFacts DEF Now, SelectedIn
    <3>2. FoundOf(p, s, c)' = FoundOf(p, s, c)
      BY <1>4, <3>1 DEF FoundOf, _finding
    <3>3. SeenOf(p, s, c)' = SeenOf(p, s, c)
      BY <1>4, <3>1 DEF SeenOf
    <3>4. /\ Untouched(p, s, c) => Untouched(p, s, c)'
          /\ Answered(p, s, c) => Answered(p, s, c)'
      BY <1>3, <3>2, <3>3, SamePair
    <3> QED
      BY <2>1, <2>2, <2>4, <3>4 DEF Known
  <2> QED
    BY <2>3, <2>4
<1>7. PlaceOK(p)'
  BY <1>3, <1>4 DEF AuditOK, PlaceOK
<1>8. SeenIsChosen(p)'
  <2>1. Current(p) \subseteq Chosen(p)
    BY <1>3, <1>5 DEF Chosen
  <2> QED
    BY <1>3, <1>4, <2>1 DEF AuditOK, SeenIsChosen
<1>9. MissedIsTold(p)'
  BY <1>3, <1>4 DEF AuditOK, MissedIsTold
<1> QED
  BY <1>6, <1>7, <1>8, <1>9 DEF AuditOK

\* A block that ends with an answer for each of its controls.
LEMMA EndBlockStep ==
  ASSUME NEW p \in Provider, Shape, AuditTypeOK, AuditOK(p), stage[p] = "block",
         NEW fs, EndBlock(p, fs), NEW s0, s0 = scope[p],
         \A f \in fs : f.scope = s0 /\ f.control \in Current(p),
         missed[p] \subseteq missed'[p],
         \A m \in missed'[p] \ missed[p] : m[1] = s0 /\ m[2] \in Current(p),
         \A m \in missed'[p] \ missed[p] : \E f \in fs :
             f.status = "error" \/ (m[2] = "AZURE-LOG-002" /\ f.status = "fail"),
         \A c \in Current(p) : Mirrored(p, s0, c) => Answered(p, s0, c)'
  PROVE  AuditOK(p)'
<1>1. /\ s0 \in visible[p] \ left[p] /\ block[p] # 0 /\ block[p] \in DOMAIN Blocks[p]
      /\ UNCHANGED <<visible, left, scope, seen>>
      /\ found'[p] = found[p] \cup fs /\ judged'[p] = {}
  BY DEF EndBlock, Shape, AuditTypeOK, AuditOK, PlaceOK
<1>2. block[p] \in Nat /\ \A j \in DOMAIN Blocks[p] : j \in Nat /\ j # 0
  BY <1>1, BlocksFacts
<1>3. GoOn(p, block[p])
  BY DEF EndBlock
<1>4. \/ /\ stage'[p] = "scopes" /\ block'[p] = 0
         /\ \A i \in DOMAIN Blocks[p] : \A c \in SelectedIn(Blocks[p][i]) : i <= block[p]
      \/ /\ stage'[p] = "block" /\ block'[p] \in DOMAIN Blocks[p] /\ block[p] < block'[p]
         /\ \A i \in DOMAIN Blocks[p] : \A c \in SelectedIn(Blocks[p][i]) :
               i <= block[p] \/ block'[p] <= i
  BY <1>2, <1>3, GoOnFacts
<1>5. Current(p) = SelectedIn(Blocks[p][block[p]])
  BY DEF Current
<1>6. Progress(p)'
  <2> SUFFICES ASSUME NEW s \in visible'[p], NEW i \in DOMAIN Blocks[p],
                      NEW c \in SelectedIn(Blocks[p][i])
               PROVE  Known(p, s, i, c)'
    BY DEF Progress
  <2>0. i \in Nat /\ i # 0
    BY <1>2
  <2>1. Known(p, s, i, c)
    BY <1>1 DEF AuditOK, Progress
  <2>2. CASE Now(p, s, i)
    <3>1. s = s0 /\ c \in Current(p) /\ i = block[p]
      BY <1>5, <2>2 DEF Now
    <3>2. Mirrored(p, s, c)
      BY <2>1, <2>2 DEF Known
    <3>3. Answered(p, s, c)'
      BY <3>1, <3>2
    <3>4. ~Ahead(p, s, i)' /\ ~Now(p, s, i)'
      BY <1>1, <1>2, <1>4, <3>1 DEF Ahead, Now
    <3> QED
      BY <3>3, <3>4 DEF Known
  <2>3. ASSUME ~Now(p, s, i) PROVE Known(p, s, i, c)'
    <3>1. s # s0 \/ c \notin Current(p)
      BY <1>1, <1>5, <2>3, BlocksFacts DEF Now, SelectedIn
    <3>2. FoundOf(p, s, c)' = FoundOf(p, s, c) /\ SeenOf(p, s, c)' = SeenOf(p, s, c)
      BY <1>1, <3>1 DEF FoundOf, SeenOf
    <3>3. <<s, c>> \in missed'[p] <=> <<s, c>> \in missed[p]
      BY <3>1
    <3>4. /\ Untouched(p, s, c) => Untouched(p, s, c)'
          /\ Answered(p, s, c) => Answered(p, s, c)'
      BY <3>2, <3>3, SamePair
    <3>5. CASE Ahead(p, s, i)
      <4>1. Untouched(p, s, c)'
        BY <2>1, <3>4, <3>5 DEF Known
      <4>2. Mirrored(p, s, c)'
        BY <1>1, <4>1 DEF Untouched, Mirrored
      <4>3. Ahead(p, s, i)' \/ Now(p, s, i)'
        <5>1. CASE s \in left[p]
          BY <1>1, <5>1 DEF Ahead
        <5>2. CASE s = scope[p] /\ block[p] < i
          <6>1. block'[p] \in Nat /\ block'[p] # 0 /\ block'[p] <= i
            BY <1>2, <1>4, <2>0, <5>2
          <6> QED
            BY <1>1, <2>0, <5>2, <6>1 DEF Ahead, Now
        <5> QED
          BY <3>5, <5>1, <5>2 DEF Ahead
      <4> QED
        BY <4>1, <4>2, <4>3 DEF Known
    <3>6. CASE ~Ahead(p, s, i)
      <4>1. Answered(p, s, c)'
        BY <2>1, <2>3, <3>4, <3>6 DEF Known
      <4>2. ~Ahead(p, s, i)' /\ ~Now(p, s, i)'
        BY <1>1, <1>2, <1>4, <2>0, <2>3, <3>6 DEF Ahead, Now
      <4> QED
        BY <4>1, <4>2 DEF Known
    <3> QED
      BY <3>5, <3>6
  <2> QED
    BY <2>2, <2>3
<1>7. PlaceOK(p)'
  BY <1>1, <1>4 DEF AuditOK, PlaceOK
<1>8. SeenIsChosen(p)' /\ MissedIsTold(p)'
  BY <1>1 DEF AuditOK, SeenIsChosen, MissedIsTold
<1> QED
  BY <1>6, <1>7, <1>8 DEF AuditOK

\* The finding of a control that is judged as a whole answers for what was read of it.
LEMMA WholeAnswered ==
  ASSUME NEW p, NEW s, NEW c, c \notin PerItem, Mirrored(p, s, c), NEW f0,
         FoundOf(p, s, c)' = FoundOf(p, s, c) \cup {f0},
         SeenOf(p, s, c)' = SeenOf(p, s, c),
         <<s, c>> \in missed'[p] => f0.status = "error" \/ c = "AZURE-LOG-002",
         f0.status = "error" => <<s, c>> \in missed'[p],
         \/ f0.status = "error"
         \/ f0.status = Verdict(c, judged[p])
         \/ f0.status = "manual" /\ c \in {"GCP-SEC-001", "GCP-KMS-001"} /\ judged[p] = {}
  PROVE  Answered(p, s, c)'
<1>1. FoundOf(p, s, c)' = {f0}
  BY DEF Mirrored
<1>2. CASE f0.status = "error"
  BY <1>1, <1>2 DEF Answered
<1>3. CASE f0.status = Verdict(c, judged[p])
  <2>1. Verdict(c, judged[p]) = PassOrFail(IF c \in WantsOne
                                           THEN \E x \in SeenOf(p, s, c) : x.good
                                           ELSE \A x \in SeenOf(p, s, c) : x.good)
    BY DEF Mirrored, Verdict
  <2>2. f0.status # "error"
    BY <1>3, <2>1 DEF PassOrFail
  <2> QED
    BY <1>1, <1>3, <2>1, <2>2 DEF Answered
<1>4. CASE f0.status = "manual" /\ c \in {"GCP-SEC-001", "GCP-KMS-001"} /\ judged[p] = {}
  <2>1. SeenOf(p, s, c)' = {}
    BY <1>4 DEF Mirrored
  <2> QED
    BY <1>1, <1>4, <2>1 DEF Answered
<1> QED
  BY <1>2, <1>3, <1>4

LEMMA EndListStep ==
  ASSUME NEW p \in Provider, Shape, AuditTypeOK, AuditOK(p), EndList(p)
  PROVE  AuditOK(p)'
<1>1. PICK s0 : s0 = scope[p]
  OBVIOUS
<1> DEFINE F(c) == _finding(c, s0, Nothing, Verdict(c, judged[p]))
<1>2. PICK fs : fs = {F(c) : c \in Current(p) \ PerItem}
  OBVIOUS
<1>3. EndBlock(p, fs) /\ missed' = missed /\ stage[p] = "block"
  BY <1>1, <1>2 DEF EndList
<1>4. /\ found'[p] = found[p] \cup fs /\ UNCHANGED <<scope, seen>>
  BY <1>3 DEF EndBlock, Shape
<1>5. \A c : F(c).scope = s0 /\ F(c).control = c /\ F(c).status = Verdict(c, judged[p])
  BY DEF _finding
<1> HIDE DEF F
<1>6. ASSUME NEW c \in Current(p), Mirrored(p, s0, c) PROVE Answered(p, s0, c)'
  <2>1. SeenOf(p, s0, c)' = SeenOf(p, s0, c)
    BY <1>4 DEF SeenOf
  <2>2. <<s0, c>> \notin missed'[p]
    BY <1>3, <1>6 DEF Mirrored
  <2>3. CASE c \in PerItem
    <3>1. FoundOf(p, s0, c)' = FoundOf(p, s0, c)
      BY <1>2, <1>4, <1>5, <2>3 DEF FoundOf
    <3> QED
      BY <1>6, <2>1, <2>2, <2>3, <3>1 DEF Answered, Mirrored, ItemStatus
  <2>4. CASE c \notin PerItem
    <3>1. FoundOf(p, s0, c)' = FoundOf(p, s0, c) \cup {F(c)}
      BY <1>2, <1>4, <1>5, <2>4 DEF FoundOf
    <3>2. F(c).status # "error"
      BY <1>5 DEF Verdict, PassOrFail
    <3> QED
      BY <1>5, <1>6, <2>1, <2>2, <2>4, <3>1, <3>2, WholeAnswered
  <2> QED
    BY <2>3, <2>4
<1> QED
  BY <1>1, <1>2, <1>3, <1>5, <1>6, EndBlockStep

LEMMA CallFailsStep ==
  ASSUME NEW p \in Provider, Shape, AuditTypeOK, AuditOK(p), CallFails(p)
  PROVE  AuditOK(p)'
<1>1. PICK s0 : s0 = scope[p]
  OBVIOUS
<1>0. PICK C : C = Current(p)
  OBVIOUS
<1> DEFINE F(c) == _finding(c, s0, Nothing, "error")
<1>2. PICK fs : fs = {F(c) : c \in C}
  OBVIOUS
<1>3. EndBlock(p, fs) /\ stage[p] = "block"
  BY <1>0, <1>1, <1>2 DEF CallFails
<1>4. /\ found'[p] = found[p] \cup fs /\ UNCHANGED <<scope, seen>>
      /\ missed'[p] = missed[p] \cup {<<s0, c>> : c \in C}
  BY <1>0, <1>1, <1>3 DEF EndBlock, Shape, CallFails
<1>5. \A c : F(c).scope = s0 /\ F(c).control = c /\ F(c).status = "error"
  BY DEF _finding
<1> HIDE DEF F
<1>6. ASSUME NEW c \in C, Mirrored(p, s0, c) PROVE Answered(p, s0, c)'
  <2>1. SeenOf(p, s0, c)' = SeenOf(p, s0, c)
    BY <1>4 DEF SeenOf
  <2>2. <<s0, c>> \in missed'[p]
    BY <1>4
  <2>3. FoundOf(p, s0, c)' = FoundOf(p, s0, c) \cup {F(c)}
    BY <1>2, <1>4, <1>5 DEF FoundOf
  <2>4. CASE c \in PerItem
    BY <1>5, <1>6, <2>1, <2>2, <2>3, <2>4 DEF Answered, Mirrored, ItemStatus
  <2>5. CASE c \notin PerItem
    BY <1>5, <1>6, <2>1, <2>2, <2>3, <2>5, WholeAnswered
  <2> QED
    BY <2>4, <2>5
<1>7. \A m \in missed'[p] \ missed[p] : m[1] = s0 /\ m[2] \in C /\ F(m[2]) \in fs
  BY <1>2, <1>4
<1>8. \A f \in fs : f.scope = s0 /\ f.control \in C
  BY <1>2, <1>5
<1> QED
  BY <1>0, <1>1, <1>3, <1>4, <1>5, <1>6, <1>7, <1>8, EndBlockStep

\* A block of one control that ends with one finding.
LEMMA OneFindingStep ==
  ASSUME NEW p \in Provider, Shape, AuditTypeOK, AuditOK(p), stage[p] = "block", judged[p] = {},
         NEW c0, Current(p) = {c0}, c0 \notin PerItem, NEW status, status # "error",
         EndBlock(p, {_finding(c0, scope[p], Nothing, status)}),
         \/ missed' = missed
         \/ /\ missed' = [missed EXCEPT ![p] = @ \cup {<<scope[p], c0>>}]
            /\ c0 = "AZURE-LOG-002" /\ status = "fail",
         \/ status = Verdict(c0, {})
         \/ status = "manual" /\ c0 \in {"GCP-SEC-001", "GCP-KMS-001"}
  PROVE  AuditOK(p)'
<1>1. PICK s0 : s0 = scope[p]
  OBVIOUS
<1>2. PICK f0 : f0 = _finding(c0, s0, Nothing, status)
  OBVIOUS
<1>3. f0.scope = s0 /\ f0.control = c0 /\ f0.status = status
  BY <1>2 DEF _finding
<1>4. EndBlock(p, {f0})
  BY <1>1, <1>2
<1>5. found'[p] = found[p] \cup {f0} /\ UNCHANGED <<scope, seen>>
  BY <1>4 DEF EndBlock, Shape
<1>6. /\ missed[p] \subseteq missed'[p]
      /\ \A m \in missed'[p] \ missed[p] :
            m[1] = s0 /\ m[2] = c0 /\ c0 = "AZURE-LOG-002" /\ status = "fail"
  BY <1>1 DEF Shape
<1>7. ASSUME Mirrored(p, s0, c0) PROVE Answered(p, s0, c0)'
  <2>1. SeenOf(p, s0, c0)' = SeenOf(p, s0, c0)
    BY <1>5 DEF SeenOf
  <2>2. FoundOf(p, s0, c0)' = FoundOf(p, s0, c0) \cup {f0}
    BY <1>3, <1>5 DEF FoundOf
  <2>3. <<s0, c0>> \in missed'[p] => c0 = "AZURE-LOG-002"
    BY <1>6, <1>7 DEF Mirrored
  <2> QED
    BY <1>3, <1>7, <2>1, <2>2, <2>3, WholeAnswered
<1> QED
  BY <1>1, <1>3, <1>4, <1>6, <1>7, EndBlockStep

LEMMA RefusalMisreadStep ==
  ASSUME NEW p \in Provider, Shape, AuditTypeOK, AuditOK(p), RefusalMisread(p)
  PROVE  AuditOK(p)'
<1> DEFINE c0 == "AZURE-LOG-002"
<1>1. Verdict(c0, {}) = "fail" /\ c0 \notin PerItem
  BY DEF Verdict, PassOrFail, WantsOne, PerItem
<1>2. /\ stage[p] = "block" /\ judged[p] = {} /\ Current(p) = {c0}
      /\ EndBlock(p, {_finding(c0, scope[p], Nothing, "fail")})
      /\ missed' = [missed EXCEPT ![p] = @ \cup {<<scope[p], c0>>}]
  BY <1>1 DEF RefusalMisread
<1> QED
  BY <1>1, <1>2, OneFindingStep

LEMMA LeaveToOperatorStep ==
  ASSUME NEW p \in Provider, Shape, AuditTypeOK, AuditOK(p), LeaveToOperator(p)
  PROVE  AuditOK(p)'
<1>1. PICK c0 \in {"GCP-SEC-001", "GCP-KMS-001"} :
         /\ Current(p) = {c0}
         /\ EndBlock(p, {_finding(c0, scope[p], Nothing, "manual")})
  BY DEF LeaveToOperator
<1>2. c0 \notin PerItem
  BY <1>1 DEF PerItem
<1>3. stage[p] = "block" /\ judged[p] = {} /\ missed' = missed
  BY DEF LeaveToOperator
<1> QED
  BY <1>1, <1>2, <1>3, OneFindingStep

\* A control stays answered when the findings are marked as planned.
LEMMA AnnotatedAnswer ==
  ASSUME NEW p \in Provider, found[p] \subseteq FindingType,
         found'[p] = _annotate_plan(found[p]), seen'[p] = seen[p], missed'[p] = missed[p],
         NEW s, NEW c, Answered(p, s, c)
  PROVE  Answered(p, s, c)'
<1> DEFINE A(f) == [f EXCEPT !.planned = (f.status = "fail")]
<1>1. \A f \in FindingType : /\ A(f).scope = f.scope /\ A(f).control = f.control
                            /\ A(f).item = f.item /\ A(f).status = f.status
  BY DEF FindingType
<1>2. found'[p] = {A(f) : f \in found[p]}
  BY DEF _annotate_plan
<1> HIDE DEF A
<1>3. FoundOf(p, s, c)' = {A(f) : f \in FoundOf(p, s, c)}
  BY <1>1, <1>2 DEF FoundOf
<1>4. SeenOf(p, s, c)' = SeenOf(p, s, c)
  BY DEF SeenOf
<1>5. \A f \in FoundOf(p, s, c) : A(f).item = f.item /\ A(f).status = f.status
  BY <1>1 DEF FoundOf
<1>6. /\ \A f \in FoundOf(p, s, c) : \E g \in FoundOf(p, s, c)' : g.item = f.item /\ g.status = f.status
      /\ \A g \in FoundOf(p, s, c)' : \E f \in FoundOf(p, s, c) : g = A(f) /\ g.status = f.status
  BY <1>3, <1>5
<1>7. c # "AZURE-LOG-002" =>
         ((\E g \in FoundOf(p, s, c)' : g.status = "error") <=> <<s, c>> \in missed'[p])
  BY <1>6 DEF Answered
<1>8. CASE c \in PerItem
  <2>1. ASSUME NEW x \in SeenOf(p, s, c)'
        PROVE  \E g \in FoundOf(p, s, c)' :
                  /\ g.status # "error" /\ g.item = x.item
                  /\ g.status = IF x.item \in ExcludedItem THEN "skip" ELSE PassOrFail(x.good)
    <3>1. PICK f \in FoundOf(p, s, c) :
             /\ f.status # "error" /\ f.item = x.item
             /\ f.status = IF x.item \in ExcludedItem THEN "skip" ELSE PassOrFail(x.good)
      BY <1>4, <1>8, <2>1 DEF Answered
    <3> QED
      BY <1>6, <3>1
  <2> QED
    BY <1>7, <1>8, <2>1 DEF Answered
<1>9. CASE c \notin PerItem
  <2>1. CASE \E f \in FoundOf(p, s, c) : f.status = "error"
    <3>1. \E g \in FoundOf(p, s, c)' : g.status = "error"
      BY <1>6, <2>1
    <3> QED
      BY <1>7, <1>9, <3>1 DEF Answered
  <2>2. CASE ~ \E f \in FoundOf(p, s, c) : f.status = "error"
    <3>1. PICK f \in FoundOf(p, s, c) :
             /\ FoundOf(p, s, c) = {f}
             /\ \/ /\ f.status = "manual" /\ c \in {"GCP-SEC-001", "GCP-KMS-001"}
                   /\ SeenOf(p, s, c) = {}
                \/ f.status = PassOrFail(IF c \in WantsOne
                                         THEN \E x \in SeenOf(p, s, c) : x.good
                                         ELSE \A x \in SeenOf(p, s, c) : x.good)
      BY <1>9, <2>2 DEF Answered
    <3>2. FoundOf(p, s, c)' = {A(f)} /\ A(f).status = f.status /\ f.status # "error"
      BY <1>3, <1>5, <2>2, <3>1
    <3> QED
      BY <1>4, <1>7, <1>9, <3>1, <3>2 DEF Answered
  <2> QED
    BY <2>1, <2>2
<1> QED
  BY <1>8, <1>9

LEMMA FinishAuditStep ==
  ASSUME NEW p \in Provider, Shape, AuditTypeOK, AuditOK(p), FinishAudit(p)
  PROVE  AuditOK(p)'
<1>1. /\ stage[p] = "scopes" /\ stage'[p] = "over" /\ left[p] = {} /\ block[p] = 0
      /\ visible[p] # {} /\ judged[p] = {}
      /\ UNCHANGED <<visible, left, scope, block, judged, seen, missed>>
  BY DEF FinishAudit, Shape, AuditTypeOK, AuditOK, PlaceOK
<1>2. found'[p] = found[p] \/ found'[p] = _annotate_plan(found[p])
  BY DEF FinishAudit, Shape
<1>3. found[p] \subseteq FindingType
  BY DEF AuditTypeOK
<1>4. Progress(p)'
  <2> SUFFICES ASSUME NEW s \in visible'[p], NEW i \in DOMAIN Blocks[p],
                      NEW c \in SelectedIn(Blocks[p][i])
               PROVE  Known(p, s, i, c)'
    BY DEF Progress
  <2>1. Known(p, s, i, c)
    BY <1>1 DEF AuditOK, Progress
  <2>2. /\ ~Ahead(p, s, i) /\ ~Now(p, s, i) /\ ~Ahead(p, s, i)' /\ ~Now(p, s, i)'
    BY <1>1 DEF Ahead, Now
  <2>3. Answered(p, s, c)
    BY <2>1, <2>2 DEF Known
  <2>4. Answered(p, s, c)'
    <3>1. CASE found'[p] = found[p]
      <4>1. FoundOf(p, s, c)' = FoundOf(p, s, c) /\ SeenOf(p, s, c)' = SeenOf(p, s, c)
        BY <1>1, <3>1 DEF FoundOf, SeenOf
      <4> QED
        BY <1>1, <2>3, <4>1, SamePair
    <3>2. CASE found'[p] = _annotate_plan(found[p])
      BY <1>1, <1>3, <2>3, <3>2, AnnotatedAnswer
    <3> QED
      BY <1>2, <3>1, <3>2
  <2> QED
    BY <2>2, <2>4 DEF Known
<1>5. MissedIsTold(p)'
  <2>1. \A f \in found[p] : \E g \in found'[p] : g.status = f.status
    <3> DEFINE A(f) == [f EXCEPT !.planned = (f.status = "fail")]
    <3>1. \A f \in FindingType : A(f).status = f.status
      BY DEF FindingType
    <3>2. _annotate_plan(found[p]) = {A(f) : f \in found[p]}
      BY DEF _annotate_plan
    <3> HIDE DEF A
    <3> QED
      BY <1>2, <1>3, <3>1, <3>2
  <2> QED
    BY <1>1, <2>1 DEF AuditOK, MissedIsTold
<1>6. PlaceOK(p)' /\ SeenIsChosen(p)'
  BY <1>1 DEF AuditOK, PlaceOK, SeenIsChosen
<1> QED
  BY <1>4, <1>5, <1>6 DEF AuditOK

LEMMA AuditStepOK ==
  ASSUME NEW p \in Provider, Shape, AuditTypeOK, AuditOK(p), AuditStep(p)
  PROVE  AuditOK(p)'
  BY CannotStartStep, EndAtOnceStep, ListScopesStep, OpenScopeStep, ReadItemStep, EndListStep,
     CallFailsStep, RefusalMisreadStep, LeaveToOperatorStep, FinishAuditStep DEF AuditStep

\* A step of the audit of p changes nothing of another's.
Apart(p) ==
    \A q \in Provider \ {p} :
        /\ stage'[q] = stage[q] /\ visible'[q] = visible[q] /\ left'[q] = left[q]
        /\ scope'[q] = scope[q] /\ block'[q] = block[q] /\ judged'[q] = judged[q]
        /\ found'[q] = found[q] /\ seen'[q] = seen[q] /\ missed'[q] = missed[q]

LEMMA EndBlockIsApart ==
  ASSUME NEW p \in Provider, Shape, AuditTypeOK, NEW fs, EndBlock(p, fs), stage[p] = "block",
         \A q \in Provider \ {p} : missed'[q] = missed[q], DOMAIN missed' = Provider
  PROVE  Apart(p) /\ Shape'
<1>1. block[p] \in Nat
  BY BlocksFacts DEF AuditTypeOK
<1>2. stage' = [stage EXCEPT ![p] = stage'[p]] /\ block' = [block EXCEPT ![p] = block'[p]]
  BY <1>1, GoOnFacts DEF EndBlock
<1>3. Shape'
  BY <1>2 DEF EndBlock, Shape
<1> QED
  BY <1>2, <1>3 DEF EndBlock, Shape, Apart

LEMMA AuditsAreApart ==
  ASSUME NEW p \in Provider, Shape, AuditTypeOK, AuditStep(p)
  PROVE  Apart(p) /\ Shape'
<1>1. CASE CannotStart(p) \/ CannotList(p) \/ NothingVisible(p) \/ ListScopes(p)
  BY <1>1 DEF CannotStart, CannotList, NothingVisible, EndAtOnce, ListScopes, Shape, Apart
<1>2. CASE OpenScope(p)
  <2>1. stage' = [stage EXCEPT ![p] = stage'[p]] /\ block' = [block EXCEPT ![p] = block'[p]]
    BY <1>2, GoOnFacts DEF OpenScope
  <2> QED
    BY <1>2, <2>1 DEF OpenScope, Shape, Apart
<1>3. CASE ReadItem(p) \/ FinishAudit(p)
  BY <1>3 DEF ReadItem, FinishAudit, Shape, Apart
<1>4. CASE EndList(p)
  BY <1>4, EndBlockIsApart DEF EndList, Shape
<1>5. CASE CallFails(p)
  BY <1>5, EndBlockIsApart DEF CallFails, Shape
<1>6. CASE RefusalMisread(p)
  BY <1>6, EndBlockIsApart DEF RefusalMisread, Shape
<1>7. CASE LeaveToOperator(p)
  BY <1>7, EndBlockIsApart DEF LeaveToOperator, Shape
<1> QED
  BY <1>1, <1>2, <1>3, <1>4, <1>5, <1>6, <1>7 DEF AuditStep

-----------------------------------------------------------------------------
(* Types. *)

Stages == {"start", "scopes", "block", "over", "raised"}

TypeAt(p) ==
    /\ stage[p] \in Stages
    /\ visible[p] \subseteq ScopesOf[p] /\ left[p] \subseteq visible[p]
    /\ scope[p] \in visible[p] \cup {Nothing}
    /\ block[p] \in DOMAIN Blocks[p] \cup {0}
    /\ stage[p] = "block" <=> block[p] # 0
    /\ found[p] \subseteq FindingType
    /\ \A x \in judged[p] : x.item \in ItemsOf[p] /\ x.good \in [Current(p) -> BOOLEAN]

LEMMA FindingTyped ==
  ASSUME NEW p \in Provider, NEW c \in AuditControl, NEW s \in ScopesOf[p] \cup {Nothing},
         NEW i \in ItemsOf[p] \cup {Nothing}, NEW status \in {"pass", "fail", "error", "skip", "manual"}
  PROVE  _finding(c, s, i, status) \in FindingType
<1>1. s \in (UNION {ScopesOf[q] : q \in Provider}) \cup {Nothing}
  OBVIOUS
<1>2. i \in (UNION {ItemsOf[q] : q \in Provider}) \cup {Nothing}
  OBVIOUS
<1> QED
  BY <1>1, <1>2 DEF _finding, FindingType

LEMMA ControlsTyped ==
  ASSUME NEW p \in Provider
  PROVE  /\ ScopeControl[p] \in AuditControl
         /\ \A i \in DOMAIN Blocks[p] : SelectedIn(Blocks[p][i]) \subseteq AuditControl
<1>1. ScopeControl[p] \in ProviderControls(p)
  BY DEF ProviderControls
<1> QED
  BY <1>1, BlocksFacts DEF SelectedIn

LEMMA EndBlockTyped ==
  ASSUME NEW p \in Provider, Shape, TypeAt(p), AuditOK(p), NEW fs, EndBlock(p, fs), stage[p] = "block",
         \A f \in fs : \E c \in Current(p), status \in {"pass", "fail", "error", "skip", "manual"} :
            f = _finding(c, scope[p], Nothing, status)
  PROVE  TypeAt(p)'
<1>1. block[p] \in Nat /\ block[p] \in DOMAIN Blocks[p]
  BY BlocksFacts DEF TypeAt
<1>2. Current(p) \subseteq AuditControl
  BY <1>1, ControlsTyped DEF Current
<1>3. scope[p] \in ScopesOf[p]
  BY DEF TypeAt, AuditOK, PlaceOK
<1>4. fs \subseteq FindingType
  BY <1>2, <1>3, FindingTyped
<1>5. /\ UNCHANGED <<visible, left, scope>> /\ judged'[p] = {} /\ found'[p] = found[p] \cup fs
  BY DEF EndBlock, Shape
<1>6. \/ stage'[p] = "scopes" /\ block'[p] = 0
      \/ stage'[p] = "block" /\ block'[p] \in DOMAIN Blocks[p] /\ block[p] < block'[p]
  BY <1>1, GoOnFacts DEF EndBlock
<1>7. 0 \notin DOMAIN Blocks[p]
  BY BlocksFacts
<1> QED
  BY <1>4, <1>5, <1>6, <1>7 DEF TypeAt, Stages

LEMMA TypeStep ==
  ASSUME NEW p \in Provider, Shape, TypeAt(p), AuditOK(p), AuditStep(p)
  PROVE  TypeAt(p)'
<1> USE DEF TypeAt, Stages
<1>0. 0 \notin DOMAIN Blocks[p]
  BY BlocksFacts
<1>1. CASE CannotStart(p)
  BY <1>1 DEF CannotStart, Shape, AuditOK, PlaceOK
<1>2. CASE CannotList(p) \/ NothingVisible(p)
  <2>1. PICK status \in {"error", "fail"} : EndAtOnce(p, status)
    BY <1>2 DEF CannotList, NothingVisible
  <2>2. _finding(ScopeControl[p], Nothing, Nothing, status) \in FindingType
    BY ControlsTyped, FindingTyped
  <2> QED
    BY <2>1, <2>2 DEF EndAtOnce, Shape, AuditOK, PlaceOK
<1>3. CASE ListScopes(p)
  <2>1. /\ stage[p] = "start" /\ stage'[p] = "scopes" /\ judged[p] = {}
        /\ visible'[p] \subseteq ScopesOf[p] /\ left'[p] = visible'[p]
        /\ scope[p] = Nothing \/ scope[p] \in visible[p]
        /\ visible[p] = {}
        /\ UNCHANGED <<scope, block, judged, found>>
    BY <1>3 DEF ListScopes, Shape, AuditOK, PlaceOK
  <2> QED
    BY <2>1
<1>4. CASE OpenScope(p)
  <2>1. PICK s0 \in left[p] :
           /\ left' = [left EXCEPT ![p] = @ \ {s0}]
           /\ scope' = [scope EXCEPT ![p] = s0]
           /\ found' = [found EXCEPT ![p] = @ \cup
                 {_finding(c, s0, Nothing, "pass") : c \in SelectedIn({ScopeControl[p]} \ {"K8S-NET-001"})}]
    BY <1>4 DEF OpenScope
  <2>2. \/ stage'[p] = "scopes" /\ block'[p] = 0
        \/ stage'[p] = "block" /\ block'[p] \in DOMAIN Blocks[p]
    BY <1>4, GoOnFacts DEF OpenScope
  <2>3. judged'[p] = {} /\ visible'[p] = visible[p]
    BY <1>4 DEF OpenScope, AuditOK, PlaceOK
  <2>4. s0 \in visible[p] /\ s0 \in ScopesOf[p]
    BY <2>1
  <2>5. \A c \in SelectedIn({ScopeControl[p]} \ {"K8S-NET-001"}) :
           _finding(c, s0, Nothing, "pass") \in FindingType
    BY <2>4, ControlsTyped, FindingTyped DEF SelectedIn
  <2>6. found'[p] \subseteq FindingType
    BY <2>1, <2>5 DEF Shape
  <2>7. left'[p] \subseteq visible[p] /\ scope'[p] = s0
    BY <2>1 DEF Shape
  <2> QED
    BY <1>0, <2>2, <2>3, <2>4, <2>6, <2>7
<1>5. CASE ReadItem(p)
  <2>1. PICK i0 \in ItemsOf[p], good \in [Current(p) -> BOOLEAN] :
           /\ judged' = [judged EXCEPT ![p] = @ \cup {[item |-> i0, good |-> good]}]
           /\ found' = [found EXCEPT ![p] = @ \cup
                 {_finding(c, scope[p], i0, IF i0 \in ExcludedItem THEN "skip" ELSE PassOrFail(good[c])) :
                     c \in Current(p) \cap PerItem}]
    BY <1>5 DEF ReadItem
  <2>2. stage[p] = "block" /\ UNCHANGED <<stage, visible, left, scope, block>>
    BY <1>5 DEF ReadItem
  <2>3. Current(p)' = Current(p)
    BY <2>2 DEF Current
  <2>4. Current(p) \subseteq AuditControl /\ scope[p] \in ScopesOf[p]
    BY <2>2, ControlsTyped DEF Current, AuditOK, PlaceOK
  <2>5. \A c \in Current(p) \cap PerItem :
           _finding(c, scope[p], i0, IF i0 \in ExcludedItem THEN "skip" ELSE PassOrFail(good[c])) \in FindingType
    BY <2>4, FindingTyped DEF PassOrFail
  <2>6. found'[p] \subseteq FindingType
    BY <2>1, <2>5 DEF Shape
  <2>7. judged'[p] = judged[p] \cup {[item |-> i0, good |-> good]}
    BY <2>1 DEF Shape
  <2>8. \A x \in judged'[p] : x.item \in ItemsOf[p] /\ x.good \in [Current(p)' -> BOOLEAN]
    BY <2>3, <2>7
  <2> QED
    BY <2>2, <2>6, <2>8
<1>6. CASE EndList(p)
  <2>1. \A c : Verdict(c, judged[p]) \in {"pass", "fail"}
    BY DEF Verdict, PassOrFail
  <2>2. stage[p] = "block" /\ EndBlock(p, {_finding(c, scope[p], Nothing, Verdict(c, judged[p])) : c \in Current(p) \ PerItem})
    BY <1>6 DEF EndList
  <2> QED
    BY <2>1, <2>2, EndBlockTyped
<1>7. CASE CallFails(p)
  BY <1>7, EndBlockTyped DEF CallFails
<1>8. CASE RefusalMisread(p)
  <2>1. PICK status \in {"pass", "fail"} : status = Verdict("AZURE-LOG-002", {})
    BY DEF Verdict, PassOrFail
  <2>2. /\ stage[p] = "block" /\ Current(p) = {"AZURE-LOG-002"}
        /\ EndBlock(p, {_finding("AZURE-LOG-002", scope[p], Nothing, status)})
    BY <1>8, <2>1 DEF RefusalMisread
  <2>3. PICK fs : fs = {_finding("AZURE-LOG-002", scope[p], Nothing, status)}
    OBVIOUS
  <2>4. \A f \in fs : \E c \in Current(p), st \in {"pass", "fail", "error", "skip", "manual"} :
           f = _finding(c, scope[p], Nothing, st)
    BY <2>1, <2>2, <2>3
  <2>5. EndBlock(p, fs) /\ stage[p] = "block"
    BY <2>2, <2>3
  <2> QED
    BY <2>4, <2>5, EndBlockTyped
<1>9. CASE LeaveToOperator(p)
  BY <1>9, EndBlockTyped DEF LeaveToOperator
<1>10. CASE FinishAudit(p)
  <2>1. _annotate_plan(found[p]) \subseteq FindingType
    <3>1. \A f \in FindingType : [f EXCEPT !.planned = (f.status = "fail")] \in FindingType
      BY DEF FindingType
    <3> QED
      BY <3>1 DEF _annotate_plan
  <2> QED
    BY <1>10, <2>1 DEF FinishAudit, Shape, AuditOK, PlaceOK
<1> QED
  BY <1>1, <1>2, <1>3, <1>4, <1>5, <1>6, <1>7, <1>8, <1>9, <1>10 DEF AuditStep

AuditInv == Shape /\ \A p \in Provider : TypeAt(p) /\ AuditOK(p)

LEMMA TypesAreTypes ==
  Shape => (AuditTypeOK <=> \A p \in Provider : TypeAt(p))
<1> SUFFICES ASSUME Shape PROVE AuditTypeOK <=> \A p \in Provider : TypeAt(p)
  OBVIOUS
<1>1. AuditTypeOK => \A p \in Provider : TypeAt(p)
  BY DEF AuditTypeOK, TypeAt, Stages
<1>2. ASSUME \A p \in Provider : TypeAt(p) PROVE AuditTypeOK
  <2>1. stage \in [Provider -> Stages]
    BY <1>2 DEF TypeAt, Shape
  <2> QED
    BY <1>2, <2>1 DEF AuditTypeOK, TypeAt, Stages
<1> QED
  BY <1>1, <1>2

LEMMA OtherType ==
  ASSUME NEW q \in Provider, TypeAt(q),
         stage'[q] = stage[q], visible'[q] = visible[q], left'[q] = left[q],
         scope'[q] = scope[q], block'[q] = block[q], judged'[q] = judged[q], found'[q] = found[q]
  PROVE  TypeAt(q)'
<1>1. Current(q)' = Current(q)
  BY DEF Current
<1> QED
  BY <1>1 DEF TypeAt

LEMMA AuditInvStep ==
  ASSUME NEW p \in Provider, AuditInv, AuditStep(p)
  PROVE  AuditInv'
<1> USE DEF AuditInv
<1>1. AuditTypeOK
  BY TypesAreTypes
<1>2. Apart(p) /\ Shape'
  BY <1>1, AuditsAreApart
<1>3. AuditOK(p)' /\ TypeAt(p)'
  BY <1>1, AuditStepOK, TypeStep
<1>4. ASSUME NEW q \in Provider, q # p PROVE AuditOK(q)' /\ TypeAt(q)'
  BY <1>2, <1>4, OtherAudit, OtherType DEF Apart
<1> QED
  BY <1>2, <1>3, <1>4

LEMMA AuditInvStutter == AuditInv /\ UNCHANGED auditVars => AuditInv'
<1> SUFFICES ASSUME AuditInv, UNCHANGED auditVars PROVE AuditInv'
  OBVIOUS
<1> USE DEF AuditInv
<1>1. Shape'
  BY DEF Shape, auditVars
<1>2. ASSUME NEW q \in Provider PROVE AuditOK(q)' /\ TypeAt(q)'
  BY <1>2, OtherAudit, OtherType DEF auditVars
<1> QED
  BY <1>1, <1>2

LEMMA AuditInvInit == AuditInit => AuditInv
<1> SUFFICES ASSUME AuditInit PROVE AuditInv
  OBVIOUS
<1>1. Shape
  BY DEF AuditInit, Shape
<1>2. ASSUME NEW p \in Provider PROVE AuditOK(p) /\ TypeAt(p)
  <2>1. /\ stage[p] = "start" /\ visible[p] = {} /\ left[p] = {} /\ scope[p] = Nothing
        /\ block[p] = 0 /\ judged[p] = {} /\ found[p] = {} /\ seen[p] = {} /\ missed[p] = {}
    BY DEF AuditInit
  <2> QED
    BY <2>1 DEF AuditOK, PlaceOK, SeenIsChosen, MissedIsTold, Progress, TypeAt, Stages
<1> QED
  BY <1>1, <1>2 DEF AuditInv

-----------------------------------------------------------------------------
(* The audits on the threads of the runner. *)

AllInv == RunnerInv /\ AuditInv /\ EndedIsOver

LEMMA AllInvInit == AllInit => AllInv
<1>1. AllInit => EndedIsOver
  BY AllAssumption DEF AllInit, EndedIsOver, Init
<1> QED
  BY <1>1, RunnerInit, AuditInvInit DEF AllInit, AllInv

\* A step of the whole is a step of the runner, or none of it.
LEMMA AllStepIsRunnerStep == [AllNext]_allVars => [Next]_vars
  BY DEF AllNext, allVars, AuditRuns, AuditEnds, Next

LEMMA EndedIsOverStep == AllInv /\ [AllNext]_allVars => EndedIsOver'
<1> SUFFICES ASSUME AllInv, [AllNext]_allVars, NEW p \in Provider,
                    call' = "run_providers", outcome'[p] = "ok"
             PROVE  stage'[p] = "over"
  BY DEF EndedIsOver
<1>1. p \in Task /\ stage \in [Provider -> Stages] /\ outcome \in [Task -> {"none", "ok", "error"}]
  BY AllAssumption, TypesAreTypes DEF AllInv, AuditInv, AuditTypeOK, Stages, RunnerInv, TypeOK
<1>2. call' = call
  BY DEF AllNext, AuditRuns, AuditEnds, FinishJob, MainStep, Submit, Collect, StopCollecting,
     DeadlinePasses, LeavePool, StartJob, Tick, vars, allVars
<1>3. CASE outcome' = outcome /\ stage'[p] = stage[p]
  BY <1>2, <1>3 DEF AllInv, EndedIsOver
<1>4. ASSUME NEW t \in Task, AuditRuns(t) PROVE stage'[p] = "over"
  <2>1. t \in Provider /\ AuditStep(t) /\ t \in running /\ outcome' = outcome
    BY <1>4 DEF AuditRuns, Audited, vars
  <2>2. t # p
    BY <2>1 DEF AllInv, RunnerInv, RunningHasNoOutcome
  <2>3. stage'[p] = stage[p]
    BY <2>1, <2>2, TypesAreTypes, AuditsAreApart DEF AllInv, AuditInv, Apart
  <2> QED
    BY <1>3, <2>1, <2>3
<1>5. ASSUME NEW t \in Task, AuditEnds(t) PROVE stage'[p] = "over"
  <2>1. /\ stage' = stage
        /\ Audited(t) => outcome'[t] = IF stage[t] = "over" THEN "ok" ELSE "error"
        /\ \A u \in Task \ {t} : outcome'[u] = outcome[u]
    BY <1>1, <1>5 DEF AuditEnds, FinishJob, auditVars
  <2>2. CASE t = p
    BY <1>2, <2>1, <2>2 DEF Audited
  <2>3. CASE t # p
    BY <1>1, <1>2, <2>1, <2>3 DEF AllInv, EndedIsOver
  <2> QED
    BY <2>2, <2>3
<1>6. CASE (MainStep \/ StartJob \/ Tick) /\ UNCHANGED auditVars
  BY <1>3, <1>6 DEF MainStep, Submit, Collect, StopCollecting, DeadlinePasses, LeavePool,
     StartJob, Tick, auditVars
<1> QED
  BY <1>3, <1>4, <1>5, <1>6 DEF AllNext, allVars, vars, auditVars

LEMMA AllInvStep == AllInv /\ [AllNext]_allVars => AllInv'
<1> SUFFICES ASSUME AllInv, [AllNext]_allVars PROVE AllInv'
  OBVIOUS
<1>1. RunnerInv'
  BY AllStepIsRunnerStep, RunnerStep DEF AllInv
<1>2. AuditInv'
  <2>1. CASE UNCHANGED auditVars
    BY <2>1, AuditInvStutter DEF AllInv
  <2>2. ASSUME NEW t \in Task, AuditRuns(t) PROVE AuditInv'
    BY <2>2, AuditInvStep DEF AllInv, AuditRuns, Audited
  <2> QED
    BY <2>1, <2>2 DEF AllNext, AuditEnds, allVars
<1> QED
  BY <1>1, <1>2, EndedIsOverStep DEF AllInv

\* The variables of the runner and of the audits keep their types.
THEOREM AllTypeCorrect == AllSpec => []AllTypeOK
<1>1. AllInv => AllTypeOK
  BY TypesAreTypes DEF AllInv, RunnerInv, AuditInv, AllTypeOK
<1> QED
  BY <1>1, AllInvInit, AllInvStep, PTL DEF AllSpec

\* With audits that take their steps on the workers, the call is still a batch.
THEOREM AllRunsABatch == AllSpec => RunsABatch
<1>1. AllInit => Batch!Init
  BY BatchInit DEF AllInit
<1>2. AllInv /\ AllInv' /\ [AllNext]_allVars => [Batch!Next]_(Batch!vars)
  BY AllStepIsRunnerStep, BatchStep DEF AllInv
<1> QED
  BY <1>1, <1>2, AllInvInit, AllInvStep, PTL DEF AllSpec, RunsABatch, Batch!Spec

\* The findings of an audit that is over answer for every control of every scope.
LEMMA OverIsAnswered ==
  ASSUME NEW p \in Provider, AuditInv, stage[p] = "over"
  PROVE  EveryScopeAnswered(p)
<1> SUFFICES ASSUME NEW s \in visible[p], NEW c \in Chosen(p) PROVE Answered(p, s, c)
  BY DEF EveryScopeAnswered
<1>1. PICK i \in DOMAIN Blocks[p] : c \in SelectedIn(Blocks[p][i])
  BY DEF Chosen
<1>2. Known(p, s, i, c)
  BY <1>1 DEF AuditInv, AuditOK, Progress
<1>3. left[p] = {} /\ block[p] = 0
  BY DEF AuditInv, AuditOK, PlaceOK, TypeAt
<1> QED
  BY <1>2, <1>3 DEF Known, Ahead, Now

\* If none of its findings is an error or a failure, all was read and complies.
LEMMA NothingWrong ==
  ASSUME NEW p \in Provider, AuditInv, stage[p] = "over",
         \A f \in found[p] : f.status \notin {"error", "fail"}
  PROVE  /\ visible[p] # {} /\ missed[p] = {}
         /\ \A x \in seen[p] :
               x.good \/ (x.item \in ExcludedItem /\ x.control \in PerItem)
                      \/ x.control \in WantsOne
<1>1. visible[p] # {} /\ missed[p] = {}
  BY DEF AuditInv, AuditOK, PlaceOK, MissedIsTold
<1>2. ASSUME NEW x \in seen[p], ~(x.item \in ExcludedItem /\ x.control \in PerItem),
             x.control \notin WantsOne
      PROVE  x.good
  <2>1. PICK s, c : s = x.scope /\ c = x.control
    OBVIOUS
  <2>2. s \in visible[p] /\ c \in Chosen(p) /\ x \in SeenOf(p, s, c)
    BY <2>1 DEF AuditInv, AuditOK, SeenIsChosen, SeenOf
  <2>3. Answered(p, s, c)
    BY <2>2, OverIsAnswered DEF EveryScopeAnswered
  <2>4. \A f \in FoundOf(p, s, c) : f.status \notin {"error", "fail"}
    BY DEF FoundOf
  <2>5. CASE c \in PerItem
    <3>1. PICK f \in FoundOf(p, s, c) :
             f.status = IF x.item \in ExcludedItem THEN "skip" ELSE PassOrFail(x.good)
      BY <2>2, <2>3, <2>5 DEF Answered
    <3> QED
      BY <1>2, <2>1, <2>4, <2>5, <3>1 DEF PassOrFail
  <2>6. CASE c \notin PerItem
    <3>1. PICK f \in FoundOf(p, s, c) :
             \/ SeenOf(p, s, c) = {}
             \/ f.status = PassOrFail(IF c \in WantsOne
                                      THEN \E y \in SeenOf(p, s, c) : y.good
                                      ELSE \A y \in SeenOf(p, s, c) : y.good)
      BY <2>3, <2>4, <2>6 DEF Answered
    <3> QED
      BY <1>2, <2>1, <2>2, <2>4, <3>1 DEF PassOrFail
  <2> QED
    BY <2>5, <2>6
<1> QED
  BY <1>1, <1>2

\* The exit code hides neither what failed nor what could not be read, but for the
\* one answer that is misread.
THEOREM ExitIsHonest == AllSpec => []ExitTellsAll
<1>1. ASSUME AllInv PROVE ExitTellsAll
  <2> SUFFICES ASSUME pc = "returned", call = "run_providers"
               PROVE  /\ \A p \in Provider : results[p] = "ok" => EveryScopeAnswered(p)
                      /\ AllExit # 2 =>
                            \A p \in Provider :
                                results[p] = "ok" /\ \A m \in missed[p] : m[2] = "AZURE-LOG-002"
                      /\ AllExit = 0 =>
                            \A p \in Provider :
                                /\ visible[p] # {} /\ missed[p] = {}
                                /\ \A x \in seen[p] :
                                      x.good \/ (x.item \in ExcludedItem /\ x.control \in PerItem)
                                             \/ x.control \in WantsOne
    BY DEF ExitTellsAll
  <2>1. ASSUME NEW p \in Provider
        PROVE  /\ results[p] \in {"ok", "error"} /\ p \in Task
               /\ results[p] = "ok" => stage[p] = "over"
    BY <1>1, AllAssumption DEF AllInv, RunnerInv, TypeOK, CollectedAtEnd, AllCollected,
       CollectedIsOutcome, EndedIsOver
  <2>2. \A p \in Provider : results[p] = "ok" => EveryScopeAnswered(p)
    BY <1>1, <2>1, OverIsAnswered DEF AllInv
  <2>3. ASSUME AllExit # 2, NEW p \in Provider
        PROVE  /\ results[p] = "ok" /\ stage[p] = "over"
               /\ \A f \in found[p] : f.status # "error"
    <3>1. \A t \in Task : \A f \in Findings(t) : f.status # "error"
      BY <2>3 DEF AllExit, exit_code
    <3>2. results[p] # "error"
      <4>1. _finding("RUNNER-001", Nothing, Nothing, "error").status = "error"
        BY DEF _finding
      <4> QED
        BY <2>1, <3>1, <4>1 DEF Findings
    <3>3. Findings(p) = found[p]
      BY <2>1, <3>2 DEF Findings
    <3> QED
      BY <2>1, <3>1, <3>2, <3>3
  <2>4. ASSUME AllExit # 2, NEW p \in Provider, NEW m \in missed[p] PROVE m[2] = "AZURE-LOG-002"
    BY <1>1, <2>3, <2>4 DEF AllInv, AuditInv, AuditOK, MissedIsTold
  <2>5. ASSUME AllExit = 0, NEW p \in Provider
        PROVE  \A f \in found[p] : f.status \notin {"error", "fail"}
    <3>1. ~ \E f \in UNION {Findings(t) : t \in Task} : f.status = "fail"
      BY <2>5 DEF AllExit, exit_code
    <3>2. Findings(p) = found[p]
      BY <2>3, <2>5 DEF Findings
    <3> QED
      BY <2>1, <2>3, <2>5, <3>1, <3>2
  <2>6. ASSUME AllExit = 0, NEW p \in Provider
        PROVE  /\ visible[p] # {} /\ missed[p] = {}
               /\ \A x \in seen[p] :
                     x.good \/ (x.item \in ExcludedItem /\ x.control \in PerItem)
                            \/ x.control \in WantsOne
    BY <1>1, <2>3, <2>5, <2>6, NothingWrong DEF AllInv
  <2> QED
    BY <2>2, <2>3, <2>4, <2>6
<1> QED
  BY <1>1, AllInvInit, AllInvStep, PTL DEF AllSpec
=============================================================================
