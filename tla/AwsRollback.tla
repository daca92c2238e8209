------------------------------ MODULE AwsRollback ------------------------------
(***************************************************************************)
(* `pagerwesi aws --mode rollback --rollback-manifest FILE`                *)
(* (rollback_manifest of providers/aws/rollback.py and the exit code of    *)
(* main.main).  One session, in one account and one region, works through  *)
(* the changes of the manifest in reverse order.  The process may be       *)
(* killed and started again on the same file.                              *)
(***************************************************************************)
EXTENDS AwsCloud

CONSTANTS
    Home,               \* the account of the rollback session
    HomeRegion,         \* its region: --region, or the default of the profile
    InitialManifests,   \* the files a rollback may be given
    MaxAttempts         \* bound: how often the rollback is started

VARIABLES
    rbPhase,    \* idle, restoring, done, failed
    remaining,  \* the changes still to roll back
    results,    \* the findings of the rollback, each with its change
    attempts    \* how often it was started

rollbackOnly == <<rbPhase, remaining, results, attempts>>
rollbackVars == <<cloud, drifted, manifest, rbPhase, remaining, results, attempts>>

ASSUME RollbackAssumption ==
    /\ Home \in Account
    /\ HomeRegion \in Region
    /\ InitialManifests \subseteq [kind : ManifestKinds, entries : SUBSET FindingSet]
    /\ \A m \in InitialManifests : \A e \in m.entries :
          e.control \in Remediable => e.before \in Settings(e.control) \cup {NoValue}
    /\ MaxAttempts \in Nat

RollbackPhases == {"idle", "restoring", "done", "failed"}

-----------------------------------------------------------------------------
(* The rollback of one change. *)

\* Mutation: the changes are rolled back in the order of the file.
ListedAfter(d, e) ==
    /\ d.control = e.control /\ d.resource = e.resource
    /\ e.at[1] < d.at[1] \/ (d.at[1] = e.at[1] /\ e.at[2] < d.at[2])

\* Sorting by control and resource is stable: only changes of one control and
\* one resource keep the order of the run.  Changes that differ there touch
\* different settings, or set one setting to the same value.
ListedBefore(d, e) ==
    /\ d.control = e.control /\ d.resource = e.resource
    /\ d.at[1] < e.at[1] \/ (d.at[1] = e.at[1] /\ d.at[2] < e.at[2])

IsLast(e) == e \in remaining /\ \A d \in remaining : ~ListedBefore(e, d)

\* Mutation: the bucket block is restored on the account.
RollbackTargetAccount(e) ==
    IF e.control \in {"AWS-S3-001", "AWS-S3-004"} THEN <<"AWS-S3-001", Home, Global>>
    ELSE IF e.control \in BucketControls THEN <<e.control, Owner[e.resource], e.resource>>
    ELSE <<e.control, Home, HomeRegion>>

\* The setting that the API call for change e acts on: the manifest names no
\* region, and only S3 calls name an account or a bucket.
RollbackTarget(e) ==
    CASE e.control = "AWS-S3-001" -> <<e.control, e.resource, Global>>
      [] e.control \in BucketControls -> <<e.control, Owner[e.resource], e.resource>>
      [] OTHER -> <<e.control, Home, HomeRegion>>

\* The verdict on a change for which no call is made, and "call" otherwise.
Plan(e) ==
    CASE e.control \in {"AWS-S3-001", "AWS-S3-004", "AWS-S3-005"} -> "call"
      [] e.control = "AWS-S3-006"  -> "manual"
      [] e.control = "AWS-EBS-001" ->
            IF e.before = "off" /\ e.after = "on" THEN "call" ELSE "skip"
      [] e.control = "AWS-IAM-002" ->
            IF e.id /\ e.before = "absent" THEN "call" ELSE "skip"
      [] e.control = "AWS-VPC-001" -> IF e.id THEN "call" ELSE "manual"
      [] OTHER -> "skip"

\* Mutation: a setting that was not configured is written back, not deleted.
RestoredRaw(e) ==
    CASE e.control = "AWS-EBS-001" -> "off"
      [] e.control = "AWS-IAM-002" -> "absent"
      [] e.control = "AWS-VPC-001" -> "missing"
      [] OTHER -> e.before

\* The value the call leaves behind: "before", or nothing after a deletion.
Restored(e) ==
    CASE e.control = "AWS-EBS-001" -> "off"
      [] e.control = "AWS-IAM-002" -> "absent"
      [] e.control = "AWS-VPC-001" -> "missing"
      [] OTHER -> IF e.before = NoValue THEN "none" ELSE e.before

\* The service accepts the call: S3 settings of the session's own account, and
\* identifiers of things that exist.
Accepted(e) ==
    LET t == RollbackTarget(e) IN
    /\ t[2] = Home
    /\ e.control \in {"AWS-IAM-002", "AWS-VPC-001"} => cloud[t] = "tool"

Answer(e, status) ==
    /\ results' = results \cup {[change |-> e, status |-> status]}
    /\ remaining' = remaining \ {e}

-----------------------------------------------------------------------------
(* Actions. *)

RollbackInit ==
    /\ cloud \in InitialClouds
    /\ drifted = {}
    /\ manifest \in InitialManifests
    /\ rbPhase = "idle"
    /\ remaining = {}
    /\ results = {}
    /\ attempts = 0

\* A file without a list of changes raises, and main returns 2.
StartRollback ==
    /\ rbPhase # "restoring" /\ attempts < MaxAttempts
    /\ attempts' = attempts + 1
    /\ results' = {}
    /\ \/ /\ manifest.kind = "changes"
          /\ rbPhase' = "restoring"
          /\ remaining' = manifest.entries
       \/ /\ manifest.kind # "changes"
          /\ rbPhase' = "failed"
          /\ remaining' = {}
    /\ UNCHANGED <<cloud, drifted, manifest>>

\* No API call: the change is reported MANUAL or SKIP.
LeaveChange(e) ==
    /\ rbPhase = "restoring" /\ IsLast(e) /\ Plan(e) # "call"
    /\ Answer(e, Plan(e))
    /\ UNCHANGED <<cloud, drifted, manifest, rbPhase, attempts>>

RestoreChange(e) ==
    /\ rbPhase = "restoring" /\ IsLast(e) /\ Plan(e) = "call"
    /\ Accepted(e)
    /\ cloud' = [cloud EXCEPT ![RollbackTarget(e)] = Restored(e)]
    /\ Answer(e, "pass")
    /\ UNCHANGED <<drifted, manifest, rbPhase, attempts>>

\* Mutation: the first call that fails ends the loop.
RestoreFailsAborts(e) ==
    /\ rbPhase = "restoring" /\ IsLast(e) /\ Plan(e) = "call"
    /\ Answer(e, "error")
    /\ rbPhase' = "done"
    /\ UNCHANGED <<cloud, drifted, manifest, attempts>>

\* Mutation: a call that fails is tried again for ever.
RestoreFailsRetries(e) ==
    /\ rbPhase = "restoring" /\ IsLast(e) /\ Plan(e) = "call"
    /\ results' = results \cup {[change |-> e, status |-> "error"]}
    /\ UNCHANGED <<cloud, drifted, manifest, rbPhase, remaining, attempts>>

\* The call raises: it was refused, or its answer was lost after it took effect.
RestoreFails(e) ==
    /\ rbPhase = "restoring" /\ IsLast(e) /\ Plan(e) = "call"
    /\ \/ UNCHANGED cloud
       \/ /\ Accepted(e)
          /\ cloud' = [cloud EXCEPT ![RollbackTarget(e)] = Restored(e)]
    /\ Answer(e, "error")
    /\ UNCHANGED <<drifted, manifest, rbPhase, attempts>>

FinishRollback ==
    /\ rbPhase = "restoring" /\ remaining = {}
    /\ rbPhase' = "done"
    /\ UNCHANGED <<cloud, drifted, manifest, remaining, results, attempts>>

CrashRollback ==
    /\ rbPhase = "restoring"
    /\ rbPhase' = "failed"
    /\ remaining' = {} /\ results' = {}
    /\ UNCHANGED <<cloud, drifted, manifest, attempts>>

RollbackStep ==
    \/ \E e \in remaining : LeaveChange(e) \/ RestoreChange(e) \/ RestoreFails(e)
    \/ FinishRollback

RollbackNext == StartRollback \/ RollbackStep \/ CrashRollback \/ (Drift /\ UNCHANGED rollbackOnly)

RollbackSpec ==
    RollbackInit /\ [][RollbackNext]_rollbackVars /\ WF_rollbackVars(RollbackStep)

\* Mutation: calls that failed do not show in the exit code.
RollbackExitManualOnly == IF \E r \in results : r.status = "manual" THEN 1 ELSE 0

\* The exit code of the process: a MANUAL result makes it at least 1.
RollbackExit ==
    IF \E r \in results : r.status = "error" THEN 2
    ELSE IF \E r \in results : r.status = "manual" THEN 1 ELSE 0

-----------------------------------------------------------------------------
(* Properties. *)

RollbackTypeOK ==
    /\ CloudTypeOK
    /\ rbPhase \in RollbackPhases
    /\ remaining \subseteq FindingSet
    /\ results \subseteq [change : FindingSet, status : Status]
    /\ attempts \in 0 .. MaxAttempts

\* A rollback that ends has answered every change of the manifest exactly once,
\* whatever failed in between, and no other; and one of versioning, which is left to
\* the operator, is never passed over (README.md, "versioning rollback is reported as
\* MANUAL with a nonzero exit code").
EveryChangeAnswered ==
    rbPhase = "done" =>
        /\ {r.change : r \in results} = manifest.entries
        /\ \A r, s \in results : r.change = s.change => r = s
        /\ (\E e \in manifest.entries : e.control = "AWS-S3-006") => RollbackExit # 0

\* A rollback that is started ends, or is killed.
RollbackTerminates == rbPhase = "restoring" ~> rbPhase \in {"done", "failed"}
=============================================================================
