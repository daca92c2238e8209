---------------------------- MODULE ConcurrentRunner ----------------------------
(***************************************************************************)
(* One call of ConcurrentRunner (concurrent_runner.py): run_providers, as  *)
(* `pagerwesi all` uses it, or run_regions.  The calling thread submits    *)
(* one job per task to a pool, collects the futures as they complete, and  *)
(* leaves the with-block of the pool, which waits for every job.           *)
(*                                                                         *)
(* The pool is concurrent.futures.ThreadPoolExecutor: jobs start in the    *)
(* order of submission, and leaving its with-block cancels nothing.        *)
(* as_completed raises TimeoutError when it is about to wait after its     *)
(* deadline has passed.                                                    *)
(***************************************************************************)
EXTENDS Integers, Sequences, FiniteSets

CONSTANTS
    Task,           \* the provider tasks, or the regions
    Tasks,          \* the same, in the order they are passed
    MaxWorkers,     \* the argument max_workers of the constructor
    Timeout,        \* task.timeout, the same for every task
    MaxTime         \* bound: the clock

VARIABLES
    call,       \* which of the two functions was called
    pc,         \* where the calling thread is
    submitted,  \* how many of Tasks are submitted
    started,    \* how many of them a worker has taken
    running,    \* jobs that a worker is on
    ready,      \* finished futures as_completed has not yielded
    results,    \* results[t]: the result collected for t
    outcome,    \* outcome[t]: how the audit function of t ended
    clock,      \* seconds since as_completed was called
    spent       \* spent[t]: seconds the audit function of t has run

vars == <<call, pc, submitted, started, running, ready, results, outcome, clock, spent>>

ASSUME RunnerAssumption ==
    /\ IsFiniteSet(Task)
    /\ Tasks \in Seq(Task) /\ Tasks # <<>>
    /\ \A t \in Task : \E i \in DOMAIN Tasks : Tasks[i] = t
    /\ \A i, j \in DOMAIN Tasks : Tasks[i] = Tasks[j] => i = j
    /\ MaxWorkers \in Int
    /\ Timeout \in Nat
    /\ MaxTime \in Nat

Calls == {"run_providers", "run_regions"}
Places == {"submit", "collect", "leave", "abort", "returned", "raised"}

Ended == pc \in {"returned", "raised"}

Least(m, n) == IF m < n THEN m ELSE n
Greatest(m, n) == IF m < n THEN n ELSE m

\* MAX_WORKERS_LIMIT and the constructor, then one worker per task at most.
Workers == Least(Greatest(1, Least(MaxWorkers, 32)), Len(Tasks))

-----------------------------------------------------------------------------

Init ==
    /\ call \in Calls
    /\ pc = "submit"
    /\ submitted = 0
    /\ started = 0
    /\ running = {}
    /\ ready = {}
    /\ results = [t \in Task |-> "none"]
    /\ outcome = [t \in Task |-> "none"]
    /\ clock = 0
    /\ spent = [t \in Task |-> 0]

\* Mutation: one job too many.
SubmitOneMore ==
    /\ pc = "submit"
    /\ submitted' = submitted + 1
    /\ pc' = IF submitted = Len(Tasks) THEN "collect" ELSE pc
    /\ UNCHANGED <<call, started, running, ready, results, outcome, clock, spent>>

\* executor.submit: the pool may start the first jobs before the last is in.
Submit ==
    /\ pc = "submit"
    /\ submitted' = submitted + 1
    /\ pc' = IF submitted + 1 = Len(Tasks) THEN "collect" ELSE pc
    /\ UNCHANGED <<call, started, running, ready, results, outcome, clock, spent>>

StartJob ==
    /\ started < submitted /\ Cardinality(running) < Workers
    /\ started' = started + 1
    /\ running' = running \cup {Tasks[started + 1]}
    /\ UNCHANGED <<call, pc, submitted, ready, results, outcome, clock, spent>>

\* Mutation: a job that raises completes no future.
FinishJobLosingErrors(t) ==
    /\ t \in running
    /\ \/ outcome' = [outcome EXCEPT ![t] = "ok"] /\ ready' = ready \cup {t}
       \/ outcome' = [outcome EXCEPT ![t] = "error"] /\ UNCHANGED ready
    /\ running' = running \ {t}
    /\ UNCHANGED <<call, pc, submitted, started, results, clock, spent>>

\* The audit function returns, or raises an Exception.
FinishJob(t) ==
    /\ t \in running
    /\ outcome' = [outcome EXCEPT ![t] = "ok"] \/ outcome' = [outcome EXCEPT ![t] = "error"]
    /\ running' = running \ {t}
    /\ ready' = ready \cup {t}
    /\ UNCHANGED <<call, pc, submitted, started, results, clock, spent>>

\* as_completed yields a future.  An error was made a result by _execute_task
\* (RUNNER-001); in run_regions it is made one here (RUNNER-002).
Collect(t) ==
    /\ pc = "collect" /\ t \in ready
    /\ results' = [results EXCEPT ![t] = outcome[t]]
    /\ ready' = ready \ {t}
    /\ UNCHANGED <<call, pc, submitted, started, running, outcome, clock, spent>>

AllCollected == \A t \in Task : results[t] # "none"

\* as_completed is exhausted.
StopCollecting ==
    /\ pc = "collect" /\ AllCollected
    /\ pc' = "leave"
    /\ UNCHANGED <<call, submitted, started, running, ready, results, outcome, clock, spent>>

\* as_completed gives up; run_regions passes it no timeout.
DeadlinePasses ==
    /\ pc = "collect" /\ ~AllCollected
    /\ call = "run_providers" /\ clock > Timeout
    /\ pc' = "abort"
    /\ UNCHANGED <<call, submitted, started, running, ready, results, outcome, clock, spent>>

\* Mutation: shutdown(wait=False).
LeavePoolAtOnce ==
    /\ pc \in {"leave", "abort"}
    /\ pc' = IF pc = "leave" THEN "returned" ELSE "raised"
    /\ UNCHANGED <<call, submitted, started, running, ready, results, outcome, clock, spent>>

\* The end of the with-block: shutdown(wait=True).
LeavePool ==
    /\ pc \in {"leave", "abort"} /\ started = submitted /\ running = {}
    /\ pc' = IF pc = "leave" THEN "returned" ELSE "raised"
    /\ UNCHANGED <<call, submitted, started, running, ready, results, outcome, clock, spent>>

\* Submitting a job and collecting a future take no time, against an audit.
Tick ==
    /\ clock < MaxTime /\ ~Ended
    /\ pc # "submit" /\ (pc = "collect" => ready = {})
    /\ clock' = clock + 1
    /\ spent' = [t \in Task |-> IF t \in running THEN spent[t] + 1 ELSE spent[t]]
    /\ UNCHANGED <<call, pc, submitted, started, running, ready, results, outcome>>

MainStep ==
    Submit \/ (\E t \in Task : Collect(t)) \/ StopCollecting \/ DeadlinePasses \/ LeavePool

Next == MainStep \/ StartJob \/ (\E t \in Task : FinishJob(t)) \/ Tick

\* Threads run, time passes, and every audit function ends: the with-block of
\* the pool waits for ever for one that does not.
Spec ==
    /\ Init /\ [][Next]_vars
    /\ WF_vars(MainStep) /\ WF_vars(StartJob) /\ WF_vars(Tick)
    /\ \A t \in Task : WF_vars(FinishJob(t))

-----------------------------------------------------------------------------
(* Properties. *)

TypeOK ==
    /\ call \in Calls
    /\ pc \in Places
    /\ started \in 0 .. submitted /\ submitted \in 0 .. Len(Tasks)
    /\ running \subseteq Task
    /\ ready \subseteq Task
    /\ results \in [Task -> {"none", "ok", "error"}]
    /\ outcome \in [Task -> {"none", "ok", "error"}]
    /\ clock \in 0 .. MaxTime
    /\ spent \in [Task -> 0 .. clock]

\* The call is a batch of tasks: each is run once, and the caller gets control
\* back only when all have run, with the outcome of every one of them if it
\* returns (docstrings of ConcurrentRunner and run_providers).
Batch == INSTANCE TaskBatch
            WITH answer <-
                [kind    |-> IF Ended THEN pc ELSE "pending",
                 results |-> IF pc = "returned" THEN results ELSE [t \in Task |-> "none"]]
RunsABatch == Batch!Spec

\* Never more jobs at a time than workers, and never none because the caller
\* asked for zero workers or fewer.
PoolBound == Cardinality(running) <= Greatest(1, MaxWorkers)

\* If every audit function ends, the call ends.
Terminates == <>Ended

\* "Failures in one provider do not affect others": the result of a provider
\* that answered within its timeout is not lost.
FailuresAreIsolated ==
    Ended => \A t \in Task : outcome[t] # "none" /\ spent[t] <= Timeout => pc = "returned"
=============================================================================
