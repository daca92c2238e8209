---------------------------- MODULE AwsRemediation ----------------------------
(***************************************************************************)
(* Apply, then roll back: a process of AwsRun, and after it processes of   *)
(* AwsRollback on the change manifest it wrote, over the same cloud and    *)
(* the same file.                                                          *)
(***************************************************************************)
EXTENDS AwsRun, AwsRollback

VARIABLE original   \* history: the settings before the run

vars == <<cloud, drifted, manifest, mode, phase, visit, region, todo, seen, queued,
          running, batch, report, puts, rbPhase, remaining, results, attempts,
          original>>

Init ==
    /\ RunInit
    /\ rbPhase = "idle" /\ remaining = {} /\ results = {} /\ attempts = 0
    /\ original = cloud

\* The rollback is run by hand once the run has ended.
Next ==
    \/ /\ MainStep \/ (\E b \in Bucket : WorkerStep(b)) \/ Crash
       /\ UNCHANGED rollbackOnly /\ UNCHANGED original
    \/ /\ Ended
       /\ StartRollback \/ RollbackStep \/ CrashRollback
       /\ UNCHANGED runOnly /\ UNCHANGED original
    \/ Drift /\ UNCHANGED runOnly /\ UNCHANGED rollbackOnly /\ UNCHANGED original

Spec == Init /\ [][Next]_vars

-----------------------------------------------------------------------------
(* Properties. *)

\* A setting of the account, and of the region if it has one, that the rollback
\* session acts in.
AtHome(t) == t[2] = Home /\ (t[1] \in RegionRemediable => t[3] = HomeRegion)

\* The changes that put p is listed as, and what rollback said of them.
ResultsOf(p) ==
    {r \in results : /\ r.change.control = p.target[1]
                     /\ r.change.resource = Resource(p.target[1], p.target[2], p.target[3])}

\* "Previous configuration was restored" is true of a setting at home of which a
\* change was recorded with the value it had: after all its changes are rolled
\* back, in whatever number of attempts, it is what it was before the run
\* (rollback.py, the PASS finding).
PassMeansRestored ==
    rbPhase = "done" =>
        \A p \in puts :
            /\ AtHome(p.target) /\ p.target \notin drifted
            /\ p.old = p.before
            /\ \E r \in ResultsOf(p) : Records(r.change, p)
            /\ \A r \in ResultsOf(p) : r.status = "pass"
            => cloud[p.target] = original[p.target]

\* The EBS default of the rollback's own account and region, when the run turned it
\* on only in others: the manifest names no region, and the call no account
\* (rollback.py:88).
MistakenForHome(t) ==
    /\ t = <<"AWS-EBS-001", Home, HomeRegion>>
    /\ \E p \in puts : p.target[1] = "AWS-EBS-001" /\ p.target # t

\* Only apply mode writes (README.md, "Plan manifests contain the proposed
\* before/after values and do not call mutation APIs"), and the rollback leaves alone
\* every setting that the run did not write, with that one exception.
NoCollateral ==
    \A t \in Target :
        \/ t \in drifted
        \/ mode = "apply" /\ \E p \in puts : p.target = t
        \/ cloud[t] = original[t]
        \/ MistakenForHome(t)

\* What a rollback has no call for: an analyzer, whose identifier no manifest holds,
\* and the EBS default of another account or region.
OutOfReach(t) == t[1] = "AWS-IAM-002" \/ (t[1] = "AWS-EBS-001" /\ ~AtHome(t))

\* What the two exit codes promise together: if the run met no error and the rollback
\* of its manifest exits 0, every setting has the value it had before the run, unless
\* somebody else changed it, it is out of reach, or what apply read of it was not
\* what it overwrote.
CleanRoundTripRestores ==
    rbPhase = "done" /\ RollbackExit = 0 /\ exit_code(report) # 2 =>
        \A t \in Target :
            \/ t \in drifted
            \/ cloud[t] = original[t]
            \/ MistakenForHome(t)
            \/ \E p \in puts : p.target = t /\ (OutOfReach(t) \/ p.old # p.before)

\* Exit code 0 of a rollback means that every listed change is undone.
ExitZeroMeansUndone ==
    rbPhase = "done" /\ RollbackExit = 0 =>
        \A p \in puts :
            \/ p.target \in drifted \/ ~p.acked
            \/ cloud[p.target] = original[p.target]
=============================================================================
