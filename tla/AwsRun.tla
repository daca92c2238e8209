-------------------------------- MODULE AwsRun --------------------------------
(***************************************************************************)
(* One process `pagerwesi aws --mode audit|plan|apply` (run_audit of       *)
(* baseline.py, check_aws_services, and the end of main.main).             *)
(*                                                                         *)
(* The process visits accounts one after the other: the account of its     *)
(* credentials, or one per named profile, or every account of an AWS       *)
(* Organization.  In each account the main thread runs the regional        *)
(* controls in every region, then the account Public Access Block, then    *)
(* lists the buckets; a pool of workers then runs the bucket controls, one *)
(* job per bucket.  A control that changes something reads the setting in  *)
(* one API call and writes it in another; every call may be refused, and a *)
(* write may take effect although its answer is lost.                      *)
(***************************************************************************)
EXTENDS AwsCloud

CONSTANTS
    Main,           \* the main thread; the job of bucket b is named b
    Modes,          \* the modes explored
    ControlArg,     \* args.control: the controls selected, {} for all
    Base,           \* the account of the process's own credentials
    Visits,         \* the accounts visited, in order
    OrgRole,        \* --organization-role is given: members are isolated
    Regions,        \* the regions of the run, in order
    Excluded,       \* buckets that policy exclude_resources matches
    Destination,    \* the policy sets vpc_flow_log_destination_arn
    Workers,        \* size of the bucket pool
    ManifestAsked   \* --change-manifest or --plan-manifest is given

VARIABLES
    mode,       \* args.mode
    phase,      \* where the main thread is
    visit,      \* index in Visits of the account being audited
    region,     \* index in Regions of the region being audited
    todo,       \* todo[k]: the controls thread k has still to run
    seen,       \* seen[k]: what k has read and is about to overwrite
    queued,     \* buckets submitted to the pool and not started
    running,    \* buckets a worker is on
    batch,      \* findings of the account being audited
    report,     \* findings of the run
    puts        \* history: the writes that took effect, with what they replaced

runOnly == <<mode, phase, visit, region, todo, seen, queued, running, batch,
             report, puts>>
runVars == <<cloud, drifted, manifest, mode, phase, visit, region, todo, seen,
             queued, running, batch, report, puts>>

ASSUME RunAssumption ==
    /\ Main \notin Bucket
    /\ Modes \subseteq {"audit", "plan", "apply"}
    /\ ControlArg \subseteq Control
    /\ Base \in Account
    /\ Visits \in Seq(Account) /\ Visits # <<>>
    /\ Regions \in Seq(Region) /\ Regions # <<>>
    /\ OrgRole \in BOOLEAN /\ Destination \in BOOLEAN /\ ManifestAsked \in BOOLEAN
    /\ Excluded \subseteq Bucket
    /\ Workers \in Nat \ {0}

Thread == {Main} \cup Bucket

Phases == {"org", "open", "regions", "block", "buckets", "report", "manifest",
           "done", "failed"}

Ended == phase \in {"done", "failed"}

-----------------------------------------------------------------------------
(* Selection and order. *)

Selected(c) == ControlArg = {} \/ c \in ControlArg

Chosen(controls) == {c \in controls : Selected(c)}

\* args.control names an organization aggregate control.
OrgAggregateSelected == ControlArg \cap OrgControls # {}

S3Selected == Chosen(S3Controls) # {}

\* c is the control that thread k runs next.
IsNext(k, c) == c \in todo[k] /\ \A d \in todo[k] : Rank[c] <= Rank[d]

\* The position of thread k in the list of findings.
At(k) == CASE phase = "org" -> <<0, 0>>
           [] phase = "regions" -> <<visit, region>>
           [] OTHER -> <<visit, 0>>

AccountOf(k) == IF phase = "org" THEN Base ELSE IF k = Main THEN Visits[visit] ELSE Owner[k]

PlaceOf(k, c) == IF k # Main THEN k
                 ELSE IF c = "AWS-S3-001" THEN Global ELSE Regions[region]

TargetOf(k, c) == <<c, AccountOf(k), PlaceOf(k, c)>>

FindingOf(k, c, status) ==
    Finding(c, Resource(c, AccountOf(k), PlaceOf(k, c)), status, At(k))

-----------------------------------------------------------------------------
(* What a control makes of the answer of the API. *)

ApiError == "api error"

\* Controls that only report: the status for each kind of answer.  Nothing an
\* organization control meets is an error: a member account may not ask.
OrgVerdict(answer) ==
    CASE answer = "compliant" -> "pass"
      [] answer = "noncompliant" -> "fail"
      [] OTHER -> "manual"

\* Security Hub that is not enabled answers with an error of its own.
ServiceVerdict(c, answer) ==
    CASE answer = "compliant" -> "pass"
      [] answer = "noncompliant" \/ (answer = "unconfigured" /\ c = "AWS-SH-001") -> "fail"
      [] OTHER -> "error"

\* So does a bucket without a policy, which is not public.
BucketVerdict(c, answer) ==
    CASE answer = "compliant" \/ (answer = "unconfigured" /\ c = "AWS-S3-003") -> "pass"
      [] answer = "noncompliant" -> "fail"
      [] OTHER -> "error"

Verdict(c, answer) ==
    CASE c \in OrgControls -> OrgVerdict(answer)
      [] c \in ServiceControls -> ServiceVerdict(c, answer)
      [] OTHER -> BucketVerdict(c, answer)

\* Mutation: every control takes a read error for "not configured".
UnderstoodLax(c, answer) == IF answer = ApiError THEN "none" ELSE answer

\* The two bucket controls take any read error for "not configured".
Understood(c, answer) ==
    IF answer = ApiError /\ c \in {"AWS-S3-004", "AWS-S3-005"} THEN "none" ELSE answer

\* Mutation: plan mode writes as apply mode does.
WillPutInPlan(c, value) ==
    mode # "audit" /\ ~Compliant(value) /\ (c = "AWS-VPC-001" => Destination)

WillPut(c, value) ==
    /\ mode = "apply"
    /\ ~Compliant(value)
    /\ c = "AWS-VPC-001" => Destination

\* "before" of a change: the flow-log list is emptied before it is recorded.
RecordedBefore(c, value) == IF c = "AWS-VPC-001" THEN "own" ELSE value

\* The finding of a control that did not write.
Observation(k, c, value) ==
    LET planned == mode = "plan" /\ ~Compliant(value)
        status  == IF Compliant(value) THEN "pass"
                   ELSE IF c = "AWS-VPC-001" /\ mode = "apply" THEN "manual" ELSE "fail"
    IN  [FindingOf(k, c, status) EXCEPT
            !.planned = planned,
            !.before  = IF planned \/ c \in S3Controls THEN value ELSE NoValue,
            !.after   = IF planned THEN Desired(c)
                        ELSE IF c \in S3Controls THEN value ELSE NoValue]

\* The finding of a control that wrote.
Change(k, c, value) ==
    [FindingOf(k, c, "pass") EXCEPT
        !.changed = TRUE,
        !.before  = RecordedBefore(c, value),
        !.after   = Desired(c)]

-----------------------------------------------------------------------------
(* Actions. *)

RunInit ==
    /\ cloud \in InitialClouds
    /\ drifted = {}
    /\ manifest = NoManifest
    /\ mode \in Modes
    /\ phase = IF OrgRole THEN "org" ELSE "open"
    /\ visit = 1
    /\ region = 1
    /\ todo = [k \in Thread |-> IF OrgRole /\ k = Main THEN Chosen(OrgControls) ELSE {}]
    /\ seen = [k \in Thread |-> NoValue]
    /\ queued = {}
    /\ running = {}
    /\ batch = {}
    /\ report = {}
    /\ puts = {}

\* Thread k is done with control c, which added finding f.
Report(k, c, f) ==
    /\ todo' = [todo EXCEPT ![k] = @ \ {c}]
    /\ batch' = batch \cup {f}

\* A control that only reports.
Inspect(k, c) ==
    /\ IsNext(k, c) /\ c \notin Remediable
    /\ \E answer \in {"compliant", "noncompliant", "unconfigured", ApiError} :
          Report(k, c, FindingOf(k, c, Verdict(c, answer)))
    /\ UNCHANGED <<cloud, drifted, manifest, mode, phase, visit, region, seen,
                   queued, running, report, puts>>

\* The read of a control that can change its setting.
ReadSetting(k, c) ==
    /\ IsNext(k, c) /\ c \in Remediable /\ seen[k] = NoValue
    /\ \E answer \in {cloud[TargetOf(k, c)], ApiError} :
          LET value == Understood(c, answer) IN
          \/ /\ value = ApiError
             /\ Report(k, c, FindingOf(k, c, "error"))
             /\ UNCHANGED seen
          \/ /\ value # ApiError /\ ~WillPut(c, value)
             /\ Report(k, c, Observation(k, c, value))
             /\ UNCHANGED seen
          \/ /\ value # ApiError /\ WillPut(c, value)
             /\ seen' = [seen EXCEPT ![k] = value]
             /\ UNCHANGED <<todo, batch>>
    /\ UNCHANGED <<cloud, drifted, manifest, mode, phase, visit, region,
                   queued, running, report, puts>>

\* The write takes effect in the cloud.
Put(k, c, acked) ==
    LET t == TargetOf(k, c) IN
    /\ cloud' = [cloud EXCEPT ![t] = Desired(c)]
    /\ puts' = puts \cup {[target |-> t, old |-> cloud[t], before |-> seen[k],
                           acked |-> acked, at |-> At(k)]}

\* The write is answered: the finding records the change.
PutSetting(k, c) ==
    /\ IsNext(k, c) /\ seen[k] # NoValue
    /\ Put(k, c, TRUE)
    /\ Report(k, c, Change(k, c, seen[k]))
    /\ seen' = [seen EXCEPT ![k] = NoValue]
    /\ UNCHANGED <<drifted, manifest, mode, phase, visit, region, queued, running,
                   report>>

\* Mutation: the visit is counted past the last account.
NextVisitPastEnd ==
    /\ visit' = visit + 1
    /\ phase' = IF visit < Len(Visits) THEN "open" ELSE "report"
    /\ region' = 1

\* The run goes on to the next account, or to its report.
NextVisit ==
    /\ visit' = IF visit < Len(Visits) THEN visit + 1 ELSE visit
    /\ phase' = IF visit < Len(Visits) THEN "open" ELSE "report"
    /\ region' = 1

\* Mutation: the account is abandoned without its AWS-ORG-001 finding.
AbandonSilently ==
    /\ batch' = {}
    /\ todo' = [k \in Thread |-> {}]
    /\ seen' = [k \in Thread |-> NoValue]
    /\ IF OrgRole THEN NextVisit ELSE phase' = "failed" /\ UNCHANGED <<visit, region>>
    /\ UNCHANGED <<report, drifted, manifest, mode, queued, running>>

\* An exception leaves run_audit: it loses the findings of the account.  With
\* --organization-role the next account follows, otherwise the process exits 2.
Abandon ==
    /\ batch' = {}
    /\ todo' = [k \in Thread |-> {}]
    /\ seen' = [k \in Thread |-> NoValue]
    /\ \/ /\ OrgRole
          /\ report' = report \cup
                {Finding("AWS-ORG-001", Visits[visit], "error", <<visit, 0>>)}
          /\ NextVisit
       \/ /\ ~OrgRole
          /\ phase' = "failed"
          /\ UNCHANGED <<report, visit, region>>
    /\ UNCHANGED <<drifted, manifest, mode, queued, running>>

\* Mutation: a bucket or region control records the change although it failed.
PutFailsRecorded(k, c) ==
    /\ IsNext(k, c) /\ seen[k] # NoValue /\ c # "AWS-S3-001"
    /\ Report(k, c, Change(k, c, seen[k]))
    /\ seen' = [seen EXCEPT ![k] = NoValue]
    /\ UNCHANGED <<cloud, puts, drifted, manifest, mode, phase, visit, region, queued,
                   running, report>>

\* The write raises: it was refused, or it took effect and the answer was
\* lost.  Only the account Public Access Block does not catch the exception.
PutFails(k, c) ==
    /\ IsNext(k, c) /\ seen[k] # NoValue
    /\ \/ UNCHANGED <<cloud, puts>>
       \/ Put(k, c, FALSE)
    /\ \/ /\ c = "AWS-S3-001"
          /\ Abandon
       \/ /\ c # "AWS-S3-001"
          /\ Report(k, c, FindingOf(k, c, "error"))
          /\ seen' = [seen EXCEPT ![k] = NoValue]
          /\ UNCHANGED <<drifted, manifest, mode, phase, visit, region, queued,
                         running, report>>

\* Organization controls are done: the members are discovered.
DiscoverAccounts ==
    /\ phase = "org" /\ todo[Main] = {}
    /\ \/ phase' = "open"
       \/ phase' = "failed"
    /\ report' = report \cup batch
    /\ batch' = {}
    /\ UNCHANGED <<cloud, drifted, manifest, mode, visit, region, todo, seen,
                   queued, running, puts>>

\* The session of the account: assume_role and get_caller_identity.
OpenAccount ==
    /\ phase = "open"
    /\ phase' = "regions"
    /\ todo' = [todo EXCEPT ![Main] =
                   Chosen(ServiceControls) \cup
                       (IF OrgAggregateSelected /\ ~OrgRole THEN Chosen(OrgControls) ELSE {})]
    /\ UNCHANGED <<cloud, drifted, manifest, mode, visit, region, seen, queued,
                   running, batch, report, puts>>

AccountUnreachable ==
    /\ phase = "open"
    /\ Abandon
    /\ UNCHANGED <<cloud, puts>>

NextRegion ==
    /\ phase = "regions" /\ todo[Main] = {}
    /\ \/ /\ region < Len(Regions)
          /\ region' = region + 1
          /\ todo' = [todo EXCEPT ![Main] = Chosen(ServiceControls)]
          /\ UNCHANGED phase
       \/ /\ region = Len(Regions)
          /\ phase' = IF S3Selected THEN "block" ELSE "buckets"
          /\ todo' = [todo EXCEPT ![Main] = IF S3Selected THEN Chosen({"AWS-S3-001"}) ELSE {}]
          /\ UNCHANGED region
    /\ UNCHANGED <<cloud, drifted, manifest, mode, visit, seen, queued, running,
                   batch, report, puts>>

\* Mutation: the buckets are listed with the base session.
ListBucketsOfBase ==
    /\ phase = "block" /\ todo[Main] = {}
    /\ phase' = "buckets"
    /\ queued' = {b \in Bucket : Owner[b] = Base}
    /\ UNCHANGED <<cloud, drifted, manifest, mode, visit, region, todo, seen,
                   running, batch, report, puts>>

ListBuckets ==
    /\ phase = "block" /\ todo[Main] = {}
    /\ phase' = "buckets"
    /\ queued' = {b \in Bucket : Owner[b] = Visits[visit]}
    /\ UNCHANGED <<cloud, drifted, manifest, mode, visit, region, todo, seen,
                   running, batch, report, puts>>

ListBucketsFails ==
    /\ phase = "block" /\ todo[Main] = {}
    /\ Abandon
    /\ UNCHANGED <<cloud, puts>>

\* A worker takes a job; an excluded bucket only yields SKIP findings.
StartBucket(b) ==
    /\ b \in queued /\ Cardinality(running) < Workers
    /\ queued' = queued \ {b}
    /\ running' = running \cup {b}
    /\ \/ /\ b \in Excluded
          /\ batch' = batch \cup
                {FindingOf(b, c, "skip") : c \in Chosen(BucketControls)}
          /\ UNCHANGED todo
       \/ /\ b \notin Excluded
          /\ todo' = [todo EXCEPT ![b] = Chosen(BucketControls)]
          /\ UNCHANGED batch
    /\ UNCHANGED <<cloud, drifted, manifest, mode, phase, visit, region, seen,
                   report, puts>>

\* Mutation: a job that met an error never completes.
FinishBucketUnlessError(b) ==
    /\ b \in running /\ todo[b] = {}
    /\ \A f \in batch : f.resource = b => f.status # "error"
    /\ running' = running \ {b}
    /\ UNCHANGED <<cloud, drifted, manifest, mode, phase, visit, region, todo, seen,
                   queued, batch, report, puts>>

FinishBucket(b) ==
    /\ b \in running /\ todo[b] = {}
    /\ running' = running \ {b}
    /\ UNCHANGED <<cloud, drifted, manifest, mode, phase, visit, region, todo, seen,
                   queued, batch, report, puts>>

FinishAccount ==
    /\ phase = "buckets" /\ queued = {} /\ running = {}
    /\ report' = report \cup batch
    /\ batch' = {}
    /\ NextVisit
    /\ UNCHANGED <<cloud, drifted, manifest, mode, todo, seen, queued, running, puts>>

\* The report is written first; the manifest of the mode, if asked for, after it.
WriteReport ==
    /\ phase = "report"
    /\ \/ phase' = IF ManifestAsked /\ mode # "audit" THEN "manifest" ELSE "done"
       \/ phase' = "failed"
    /\ UNCHANGED <<cloud, drifted, manifest, mode, visit, region, todo, seen, queued,
                   running, batch, report, puts>>

WriteManifest ==
    /\ phase = "manifest"
    /\ \/ /\ phase' = "done"
          /\ manifest' = IF mode = "apply" THEN change_manifest(report)
                         ELSE plan_manifest(report)
       \/ /\ phase' = "failed"
          /\ manifest' \in {NoManifest, [NoManifest EXCEPT !.kind = "torn"]}
    /\ UNCHANGED <<cloud, drifted, mode, visit, region, todo, seen, queued, running,
                   batch, report, puts>>

\* The process is killed.
Crash ==
    /\ ~Ended
    /\ phase' = "failed"
    /\ todo' = [k \in Thread |-> {}]
    /\ seen' = [k \in Thread |-> NoValue]
    /\ queued' = {} /\ running' = {}
    /\ batch' = {} /\ report' = {}
    /\ UNCHANGED <<cloud, drifted, manifest, mode, visit, region, puts>>

ThreadStep(k) ==
    \E c \in Control :
        Inspect(k, c) \/ ReadSetting(k, c) \/ PutSetting(k, c) \/ PutFails(k, c)

MainStep ==
    \/ ThreadStep(Main)
    \/ DiscoverAccounts \/ OpenAccount \/ AccountUnreachable
    \/ NextRegion \/ ListBuckets \/ ListBucketsFails
    \/ FinishAccount \/ WriteReport \/ WriteManifest

WorkerStep(b) == StartBucket(b) \/ ThreadStep(b) \/ FinishBucket(b)

RunNext ==
    \/ MainStep
    \/ \E b \in Bucket : WorkerStep(b)
    \/ Crash
    \/ Drift /\ UNCHANGED runOnly

\* The operating system runs every thread of the process again and again.
RunFairness == WF_runVars(MainStep) /\ \A b \in Bucket : WF_runVars(WorkerStep(b))

RunSpec == RunInit /\ [][RunNext]_runVars /\ RunFairness

-----------------------------------------------------------------------------
(* Properties. *)

PutSet == [target : Target, old : Value, before : Value, acked : BOOLEAN,
           at : Nat \X Nat]

\* Every variable stays in its type.
RunTypeOK ==
    /\ CloudTypeOK
    /\ mode \in Modes
    /\ phase \in Phases
    /\ visit \in 1 .. Len(Visits)
    /\ region \in 1 .. Len(Regions)
    /\ todo \in [Thread -> SUBSET Control]
    /\ seen \in [Thread -> Value \cup {NoValue}]
    /\ queued \subseteq Bucket
    /\ running \subseteq Bucket
    /\ batch \subseteq FindingSet
    /\ report \subseteq FindingSet
    /\ puts \subseteq PutSet

\* The finding f records the write p.
Records(f, p) ==
    /\ f.changed
    /\ f.control = p.target[1]
    /\ f.resource = Resource(p.target[1], p.target[2], p.target[3])
    /\ f.at = p.at
    /\ f.after = Desired(p.target[1])
    /\ f.before = RecordedBefore(p.target[1], p.before)

\* A process that ends with exit code 0 or 1 after it wrote its change
\* manifest lists there every write that took effect, whatever was refused,
\* lost or retried on the way (core.change_manifest and exit_code).
CleanExitIsComplete ==
    phase = "done" /\ manifest.kind = "changes" /\ exit_code(report) # 2
        => \A p \in puts : \E f \in manifest.entries : Records(f, p)

\* A manifest never lists a change that did not happen: every entry is the
\* record of an answered write (the findings with changed=True).
EveryChangeWasPut ==
    manifest.kind = "changes" =>
        \A f \in manifest.entries : \E p \in puts : p.acked /\ Records(f, p)

\* What a write records as read is what it replaced, unless somebody else
\* changed the setting in between or a bucket control took a read error for
\* "not configured" (baseline.py, S3-004 and S3-005).
BeforeIsWhatWasOverwritten ==
    \A p \in puts :
        \/ p.old = p.before
        \/ p.target \in drifted
        \/ p.target[1] \in {"AWS-S3-004", "AWS-S3-005"} /\ p.before = "none"

\* A run that reaches its report has a finding of every selected control in
\* every account, region and bucket, or, with --organization-role, the
\* AWS-ORG-001 error of the account (no visit is silently dropped).
Covered(v) ==
    /\ \A c \in Chosen(ServiceControls), r \in DOMAIN Regions :
          \E f \in report : f.control = c /\ f.at = <<v, r>>
    /\ \A c \in Chosen({"AWS-S3-001"}) :
          \E f \in report : f.control = c /\ f.at = <<v, 0>>
    /\ \A b \in Bucket, c \in Chosen(BucketControls) :
          Owner[b] = Visits[v] =>
              \E f \in report : f.control = c /\ f.resource = b /\ f.at = <<v, 0>>

NothingSkipped ==
    phase \in {"report", "manifest", "done"} =>
        \A v \in DOMAIN Visits :
            \/ Covered(v)
            \/ OrgRole /\ \E f \in report : f.control = "AWS-ORG-001" /\ f.at = <<v, 0>>

\* Every run ends: the pool drains and no thread waits for ever.
RunTerminates == <>Ended
=============================================================================
