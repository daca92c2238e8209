----------------------------- MODULE AwsRunProofs -----------------------------
(***************************************************************************)
(* Proofs about AwsRun, for every set of accounts, regions and buckets,    *)
(* every selection of controls and every number of workers.                *)
(***************************************************************************)
EXTENDS AwsRun, TLAPS

\* The controls a thread may hold, and when the pool is in use.
ThreadsOK ==
    /\ todo[Main] \subseteq Control \ BucketControls
    /\ phase = "org" => todo[Main] \subseteq OrgControls
    /\ todo[Main] # {} => phase \in {"org", "regions", "block"}
    /\ \A b \in Bucket : /\ todo[b] \subseteq BucketControls
                         /\ todo[b] # {} => b \in running
    /\ running \cup queued # {} => phase = "buckets"
    /\ running \cap queued = {}
    /\ \A k \in Thread : seen[k] # NoValue =>
          \E c \in Remediable :
              IsNext(k, c) /\ WillPut(c, seen[k]) /\ seen[k] \in Settings(c)

\* RunTypeOK is inductive together with ThreadsOK.
TypeInv == RunTypeOK /\ ThreadsOK

-----------------------------------------------------------------------------
(* Constants. *)

\* Every control has a rank.
LEMMA ControlRanked == Control \subseteq {CheckOrder[i] : i \in DOMAIN CheckOrder}
<1>1. DOMAIN CheckOrder = 1 .. 22
  BY DEF CheckOrder
<1>. DEFINE R == {CheckOrder[i] : i \in 1 .. 22}
<1>2. OrgControls \subseteq R
  BY DEF CheckOrder, OrgControls
<1>3. ServiceControls \subseteq R
  BY DEF CheckOrder, ServiceControls
<1>4. S3Controls \subseteq R
  BY DEF CheckOrder, S3Controls, BucketControls
<1>. QED
  BY <1>1, <1>2, <1>3, <1>4 DEF Control

\* No two controls have the same rank, so a thread has one next control.
LEMMA OneNext ==
    ASSUME NEW k, NEW c \in Control, NEW d \in Control, IsNext(k, c), IsNext(k, d)
    PROVE  c = d
<1>. DEFINE N == DOMAIN CheckOrder
<1>1. N = 1 .. 22
  BY DEF CheckOrder
<1>2. \A x \in Control : Rank[x] \in N /\ CheckOrder[Rank[x]] = x
  <2>. SUFFICES ASSUME NEW x \in Control
                PROVE  Rank[x] \in N /\ CheckOrder[Rank[x]] = x
    OBVIOUS
  <2>1. x \in {CheckOrder[i] : i \in DOMAIN CheckOrder}
    BY ControlRanked
  <2>2. Rank[x] = CHOOSE i \in DOMAIN CheckOrder : CheckOrder[i] = x
    BY <2>1 DEF Rank
  <2>3. \E i \in DOMAIN CheckOrder : CheckOrder[i] = x
    BY <2>1
  <2>. HIDE DEF N
  <2>. QED
    BY <2>2, <2>3 DEF N
<1>3. Rank[c] <= Rank[d] /\ Rank[d] <= Rank[c]
  BY DEF IsNext
<1>4. Rank[c] = Rank[d]
  BY <1>1, <1>2, <1>3
<1>. QED
  BY <1>2, <1>4

\* What apply writes is a legal, compliant value.
LEMMA DesiredTyped ==
    ASSUME NEW c \in Remediable
    PROVE  Desired(c) \in Settings(c) /\ Desired(c) \in Value
BY DEF Remediable, RegionRemediable, BucketRemediable, Desired, Settings, Value

\* A thread acts on a setting of the cloud.
LEMMA TargetTyped ==
    ASSUME TypeInv, NEW k \in Thread, NEW c \in todo[k]
    PROVE  /\ AccountOf(k) \in Account
           /\ Resource(c, AccountOf(k), PlaceOf(k, c)) \in Account \cup Bucket
           /\ At(k) \in Nat \X Nat
           /\ c \in Remediable => TargetOf(k, c) \in Target
<1>. USE DEF TypeInv, RunTypeOK, ThreadsOK
<1>1. visit \in Nat /\ region \in Nat /\ Visits[visit] \in Account /\ Regions[region] \in Region
  BY RunAssumption
<1>2. AccountOf(k) \in Account
  BY <1>1, RunAssumption, OwnerAssumption DEF AccountOf, Thread
<1>3. c \in BucketControls <=> k # Main
  BY RunAssumption DEF Thread
<1>4. Resource(c, AccountOf(k), PlaceOf(k, c)) \in Account \cup Bucket
  BY <1>2, <1>3 DEF Resource, PlaceOf, Thread
<1>5. At(k) \in Nat \X Nat
  BY <1>1 DEF At
<1>6. ASSUME c \in Remediable PROVE TargetOf(k, c) \in Target
  <2>1. CASE k = Main
    <3>1. c = "AWS-S3-001" \/ c \in RegionRemediable
      BY <1>3, <1>6, <2>1 DEF Remediable, BucketRemediable, BucketControls
    <3>2. c \in RegionRemediable => c # "AWS-S3-001"
      BY DEF RegionRemediable
    <3>. QED
      BY <1>1, <1>2, <2>1, <3>1, <3>2 DEF TargetOf, PlaceOf, Target
  <2>2. CASE k # Main
    <3>1. k \in Bucket /\ c \in BucketRemediable
      BY <1>3, <1>6, <2>2 DEF Thread, Remediable, RegionRemediable, BucketControls
    <3>2. phase # "org"
      BY <3>1
    <3>. QED
      BY <2>2, <3>1, <3>2 DEF TargetOf, AccountOf, PlaceOf, Target
  <2>. QED
    BY <2>1, <2>2
<1>. QED
  BY <1>2, <1>4, <1>5, <1>6

\* The findings a thread adds are findings.
LEMMA FindingTyped ==
    ASSUME TypeInv, NEW k \in Thread, NEW c \in todo[k], NEW status \in Status
    PROVE  FindingOf(k, c, status) \in FindingSet
<1>1. c \in Control
  BY DEF TypeInv, RunTypeOK
<1>. QED
  BY <1>1, TargetTyped DEF FindingOf, Finding, FindingSet

LEMMA ChangeTyped ==
    ASSUME TypeInv, NEW k \in Thread, NEW c \in todo[k], c \in Remediable,
           NEW value \in Value
    PROVE  Change(k, c, value) \in FindingSet
<1>1. FindingOf(k, c, "pass") \in FindingSet
  BY FindingTyped DEF Status
<1>2. RecordedBefore(c, value) \in Value
  BY DEF RecordedBefore, Value
<1>. QED
  BY <1>1, <1>2, DesiredTyped DEF Change, FindingSet

LEMMA ObservationTyped ==
    ASSUME TypeInv, NEW k \in Thread, NEW c \in todo[k], c \in Remediable,
           NEW value \in Value
    PROVE  Observation(k, c, value) \in FindingSet
<1>. DEFINE planned == mode = "plan" /\ ~Compliant(value)
            status  == IF Compliant(value) THEN "pass"
                       ELSE IF c = "AWS-VPC-001" /\ mode = "apply" THEN "manual" ELSE "fail"
            b == IF planned \/ c \in S3Controls THEN value ELSE NoValue
            a == IF planned THEN Desired(c)
                 ELSE IF c \in S3Controls THEN value ELSE NoValue
<1>1. status \in Status
  BY DEF Status
<1>2. FindingOf(k, c, status) \in FindingSet
  BY <1>1, FindingTyped
<1>3. planned \in BOOLEAN /\ b \in Value \cup {NoValue} /\ a \in Value \cup {NoValue}
  BY DesiredTyped
<1>4. Observation(k, c, value) =
        [FindingOf(k, c, status) EXCEPT !.planned = planned, !.before = b, !.after = a]
  BY DEF Observation
<1>. HIDE DEF planned, status, a, b
<1>. QED
  BY <1>2, <1>3, <1>4 DEF FindingSet

-----------------------------------------------------------------------------
(* Type correctness. *)

LEMMA InitTyped == RunInit => TypeInv
<1>. SUFFICES ASSUME RunInit PROVE TypeInv
  OBVIOUS
<1>. USE RunAssumption, InitialCloudsAssumption DEF RunInit
<1>1. CloudTypeOK
  BY DEF CloudTypeOK, CloudOK, NoManifest, ManifestKinds
<1>2. todo \in [Thread -> SUBSET Control] /\ todo[Main] \subseteq OrgControls
  BY DEF Thread, Chosen, Control
<1>3. RunTypeOK
  BY <1>1, <1>2 DEF RunTypeOK, Phases
<1>4. OrgControls \subseteq Control \ BucketControls
  BY DEF Control, OrgControls, BucketControls
<1>5. ThreadsOK
  BY <1>2, <1>4 DEF ThreadsOK, Thread
<1>. QED
  BY <1>3, <1>5 DEF TypeInv

\* A thread that is done with a control is ready for its next one.
LEMMA ReportKeepsThreads ==
    ASSUME TypeInv, NEW k \in Thread, NEW c \in todo[k], NEW STATE f, f \in FindingSet,
           Report(k, c, f), UNCHANGED <<mode, phase, queued, running>>,
           seen' = [seen EXCEPT ![k] = NoValue]
    PROVE  /\ ThreadsOK'
           /\ todo' \in [Thread -> SUBSET Control]
           /\ seen' \in [Thread -> Value \cup {NoValue}]
           /\ batch' \subseteq FindingSet
<1>. USE DEF TypeInv, RunTypeOK, Report
<1>1. todo' \in [Thread -> SUBSET Control] /\ todo'[k] = todo[k] \ {c}
  OBVIOUS
<1>2. \A j \in Thread \ {k} : todo'[j] = todo[j] /\ seen'[j] = seen[j]
  OBVIOUS
<1>3. seen'[k] = NoValue
  OBVIOUS
<1>4. todo'[Main] \subseteq todo[Main] /\ \A b \in Bucket : todo'[b] \subseteq todo[b]
  BY <1>1, <1>2 DEF Thread
<1>5. ASSUME NEW j \in Thread, seen'[j] # NoValue
      PROVE  \E d \in Remediable : IsNext(j, d)' /\ WillPut(d, seen[j])' /\ seen'[j] \in Settings(d)
  <2>1. j # k /\ seen[j] # NoValue
    BY <1>2, <1>3, <1>5
  <2>2. PICK d \in Remediable : IsNext(j, d) /\ WillPut(d, seen[j]) /\ seen[j] \in Settings(d)
    BY <2>1 DEF ThreadsOK
  <2>. QED
    BY <1>2, <2>1, <2>2 DEF IsNext, WillPut
<1>. QED
  BY <1>1, <1>4, <1>5 DEF ThreadsOK

LEMMA InspectTyped ==
    ASSUME TypeInv, NEW k \in Thread, NEW c \in Control, Inspect(k, c)
    PROVE  TypeInv'
<1>1. PICK answer \in {"compliant", "noncompliant", "unconfigured", ApiError} :
        Report(k, c, FindingOf(k, c, Verdict(c, answer)))
  BY DEF Inspect
<1>2. c \in todo[k]
  BY DEF Inspect, IsNext
<1>3. Verdict(c, answer) \in Status
  BY DEF Verdict, OrgVerdict, ServiceVerdict, BucketVerdict, Status, ApiError
<1>4. FindingOf(k, c, Verdict(c, answer)) \in FindingSet
  BY <1>2, <1>3, FindingTyped
<1>5. seen[k] = NoValue
  <2>. SUFFICES ASSUME seen[k] # NoValue PROVE FALSE
    OBVIOUS
  <2>1. PICK d \in Remediable : IsNext(k, d)
    BY DEF TypeInv, ThreadsOK
  <2>2. d \in Control
    BY DEF Remediable, RegionRemediable, BucketRemediable, Control, S3Controls,
           ServiceControls, BucketControls
  <2>. QED
    BY <2>1, <2>2, OneNext DEF Inspect
<1>6. seen' = [seen EXCEPT ![k] = NoValue]
  BY <1>5 DEF Inspect, TypeInv, RunTypeOK
<1>. QED
  BY <1>1, <1>2, <1>4, <1>6, ReportKeepsThreads
  DEF Inspect, TypeInv, RunTypeOK, CloudTypeOK, CloudOK

LEMMA ReadSettingTyped ==
    ASSUME TypeInv, NEW k \in Thread, NEW c \in Control, ReadSetting(k, c)
    PROVE  TypeInv'
<1>. USE DEF ReadSetting
<1>1. PICK answer \in {cloud[TargetOf(k, c)], ApiError} :
          LET value == Understood(c, answer) IN
          \/ /\ value = ApiError
             /\ Report(k, c, FindingOf(k, c, "error"))
             /\ UNCHANGED seen
          \/ /\ value # ApiError /\ ~WillPut(c, value)
             /\ Report(k, c, Observation(k, c, value))
             /\ UNCHANGED seen
          \/ /\ value # ApiError /\ WillPut(c, value)
             /\ seen' = [seen EXCEPT ![k] = value]
             /\ UNCHANGED <<todo, batch>>
  OBVIOUS
<1>. DEFINE value == Understood(c, answer)
<1>2. c \in todo[k] /\ c \in Remediable
  BY DEF IsNext
<1>3. value # ApiError => value \in Value /\ value \in Settings(c)
  <2>1. cloud[TargetOf(k, c)] \in Value /\ cloud[TargetOf(k, c)] \in Settings(c)
    BY <1>2, TargetTyped DEF TypeInv, RunTypeOK, CloudTypeOK, CloudOK, TargetOf
  <2>2. c \in {"AWS-S3-004", "AWS-S3-005"} => "none" \in Settings(c)
    BY DEF Settings
  <2>. QED
    BY <2>1, <2>2 DEF Understood, Value
<1>4. seen[k] = NoValue => [seen EXCEPT ![k] = NoValue] = seen
  BY DEF TypeInv, RunTypeOK
<1>5. ASSUME NEW f \in FindingSet, Report(k, c, f), UNCHANGED seen
      PROVE  TypeInv'
  BY <1>2, <1>4, <1>5, ReportKeepsThreads
  DEF TypeInv, RunTypeOK, CloudTypeOK, CloudOK
<1>6. CASE value = ApiError
  <2>1. FindingOf(k, c, "error") \in FindingSet
    BY <1>2, FindingTyped DEF Status
  <2>. QED
    BY <1>1, <1>5, <1>6, <2>1
<1>7. CASE value # ApiError /\ ~WillPut(c, value)
  <2>1. Observation(k, c, value) \in FindingSet
    BY <1>2, <1>3, <1>7, ObservationTyped
  <2>. QED
    BY <1>1, <1>5, <1>7, <2>1
<1>8. CASE value # ApiError /\ WillPut(c, value)
  <2>1. seen' = [seen EXCEPT ![k] = value] /\ UNCHANGED <<todo, batch>>
    BY <1>1, <1>8
  <2>2. value \in Value
    BY <1>3, <1>8
  <2>3. RunTypeOK'
    BY <2>1, <2>2 DEF TypeInv, RunTypeOK, CloudTypeOK, CloudOK
  <2>4. ASSUME NEW j \in Thread, seen'[j] # NoValue
        PROVE  \E d \in Remediable : IsNext(j, d)' /\ WillPut(d, seen[j])' /\ seen'[j] \in Settings(d)
    <3>1. CASE j = k
      BY <1>2, <1>3, <1>8, <2>1, <3>1 DEF TypeInv, RunTypeOK, IsNext, WillPut
    <3>2. CASE j # k
      <4>1. seen'[j] = seen[j]
        BY <2>1, <3>2 DEF TypeInv, RunTypeOK
      <4>2. PICK d \in Remediable : IsNext(j, d) /\ WillPut(d, seen[j]) /\ seen[j] \in Settings(d)
        BY <2>4, <4>1 DEF TypeInv, ThreadsOK
      <4>. QED
        BY <2>1, <4>1, <4>2 DEF IsNext, WillPut
    <3>. QED
      BY <3>1, <3>2
  <2>5. ThreadsOK'
    BY <2>1, <2>4 DEF TypeInv, ThreadsOK
  <2>. QED
    BY <2>3, <2>5 DEF TypeInv
<1>. HIDE DEF value
<1>. QED
  BY <1>6, <1>7, <1>8

\* A thread that is about to write is at a control that writes.
LEMMA AboutToWrite ==
    ASSUME TypeInv, NEW k \in Thread, NEW c \in Control, IsNext(k, c), seen[k] # NoValue
    PROVE  /\ c \in todo[k] /\ c \in Remediable /\ WillPut(c, seen[k])
           /\ seen[k] \in Value /\ seen[k] \in Settings(c)
<1>1. PICK d \in Remediable : IsNext(k, d) /\ WillPut(d, seen[k]) /\ seen[k] \in Settings(d)
  BY DEF TypeInv, ThreadsOK
<1>2. d \in Control
  BY DEF Remediable, RegionRemediable, BucketRemediable, Control, S3Controls,
         ServiceControls, BucketControls
<1>3. c = d
  BY <1>1, <1>2, OneNext
<1>. QED
  BY <1>1, <1>3 DEF IsNext, TypeInv, RunTypeOK

LEMMA PutTyped ==
    ASSUME TypeInv, NEW k \in Thread, NEW c \in Control, IsNext(k, c),
           seen[k] # NoValue, NEW acked \in BOOLEAN, Put(k, c, acked)
    PROVE  CloudOK' /\ puts' \subseteq PutSet
<1>. DEFINE t == TargetOf(k, c)
<1>1. c \in todo[k] /\ c \in Remediable /\ seen[k] \in Value
  BY AboutToWrite
<1>2. t \in Target /\ t[1] = c /\ At(k) \in Nat \X Nat
  BY <1>1, TargetTyped DEF TargetOf
<1>3. Desired(c) \in Settings(c) /\ Desired(c) \in Value
  BY <1>1, DesiredTyped
<1>4. cloud' = [cloud EXCEPT ![t] = Desired(c)]
  BY DEF Put
<1>5. CloudOK'
  <2>1. cloud' \in [Target -> Value]
    BY <1>2, <1>3, <1>4 DEF TypeInv, RunTypeOK, CloudTypeOK, CloudOK
  <2>2. ASSUME NEW u \in Target PROVE cloud'[u] \in Settings(u[1])
    BY <1>2, <1>3, <1>4 DEF TypeInv, RunTypeOK, CloudTypeOK, CloudOK
  <2>. QED
    BY <2>1, <2>2 DEF CloudOK
<1>6. puts' \subseteq PutSet
  BY <1>1, <1>2 DEF Put, PutSet, TypeInv, RunTypeOK, CloudTypeOK, CloudOK
<1>. QED
  BY <1>5, <1>6

LEMMA PutSettingTyped ==
    ASSUME TypeInv, NEW k \in Thread, NEW c \in Control, PutSetting(k, c)
    PROVE  TypeInv'
<1>1. c \in todo[k] /\ c \in Remediable /\ seen[k] \in Value
  BY AboutToWrite DEF PutSetting
<1>2. CloudOK' /\ puts' \subseteq PutSet
  BY PutTyped DEF PutSetting
<1>3. Change(k, c, seen[k]) \in FindingSet
  BY <1>1, ChangeTyped
<1>. QED
  BY <1>1, <1>2, <1>3, ReportKeepsThreads DEF PutSetting, TypeInv, RunTypeOK, CloudTypeOK

\* Leaving an account keeps the types.
LEMMA AbandonTyped ==
    ASSUME TypeInv, Abandon, queued = {}, running = {}, CloudOK', puts' \subseteq PutSet
    PROVE  TypeInv'
<1>. USE DEF Abandon, TypeInv, RunTypeOK
<1>1. visit \in Nat /\ Visits[visit] \in Account /\ Len(Visits) \in Nat /\ Len(Regions) \in Nat
      /\ 1 \in 1 .. Len(Regions)
  BY RunAssumption
<1>2. Finding("AWS-ORG-001", Visits[visit], "error", <<visit, 0>>) \in FindingSet
  BY <1>1 DEF Finding, FindingSet, Status
<1>3. report' \subseteq FindingSet
  BY <1>2
<1>4. visit' \in 1 .. Len(Visits) /\ region' \in 1 .. Len(Regions) /\ phase' \in Phases
  BY <1>1 DEF NextVisit, Phases
<1>5. RunTypeOK'
  BY <1>3, <1>4 DEF CloudTypeOK
<1>6. ThreadsOK'
  BY <1>3, <1>4 DEF ThreadsOK, NextVisit, Thread
<1>. QED
  BY <1>5, <1>6

LEMMA PutFailsTyped ==
    ASSUME TypeInv, NEW k \in Thread, NEW c \in Control, PutFails(k, c)
    PROVE  TypeInv'
<1>. USE DEF PutFails
<1>1. c \in todo[k] /\ c \in Remediable
  BY AboutToWrite
<1>2. CloudOK' /\ puts' \subseteq PutSet
  <2>1. CASE UNCHANGED <<cloud, puts>>
    BY <2>1 DEF TypeInv, RunTypeOK, CloudTypeOK, CloudOK
  <2>2. CASE Put(k, c, FALSE)
    BY <2>2, PutTyped
  <2>. QED
    BY <2>1, <2>2
<1>3. CASE c = "AWS-S3-001"
  <2>1. k = Main
    BY <1>1, <1>3 DEF TypeInv, ThreadsOK, Thread, BucketControls
  <2>2. queued = {} /\ running = {}
    BY <1>1, <2>1 DEF TypeInv, ThreadsOK
  <2>. QED
    BY <1>2, <1>3, <2>2, AbandonTyped
<1>4. CASE c # "AWS-S3-001"
  <2>1. FindingOf(k, c, "error") \in FindingSet
    BY <1>1, FindingTyped DEF Status
  <2>2. Report(k, c, FindingOf(k, c, "error"))
    BY <1>4
  <2>. QED
    BY <1>1, <1>2, <1>4, <2>1, <2>2, ReportKeepsThreads DEF TypeInv, RunTypeOK, CloudTypeOK
<1>. QED
  BY <1>3, <1>4

\* The steps of the main thread between two controls.
LEMMA MainTyped ==
    ASSUME TypeInv,
           \/ DiscoverAccounts \/ OpenAccount \/ AccountUnreachable
           \/ NextRegion \/ ListBuckets \/ ListBucketsFails
           \/ FinishAccount \/ WriteReport \/ WriteManifest
    PROVE  TypeInv'
<1>. USE DEF TypeInv, RunTypeOK
<1>1. visit \in Nat /\ region \in Nat /\ Len(Visits) \in Nat /\ Len(Regions) \in Nat
      /\ 1 \in 1 .. Len(Regions)
  BY RunAssumption
<1>2. /\ Chosen(ServiceControls) \subseteq Control \ BucketControls
      /\ Chosen(OrgControls) \subseteq Control \ BucketControls
      /\ Chosen({"AWS-S3-001"}) \subseteq Control \ BucketControls
  BY DEF Chosen, Control, ServiceControls, OrgControls, BucketControls, S3Controls
<1>3. ASSUME phase \in {"open", "block"}, Abandon, UNCHANGED <<cloud, puts>>
      PROVE  TypeInv'
  <2>1. queued = {} /\ running = {}
    BY <1>3 DEF ThreadsOK
  <2>2. CloudOK' /\ puts' \subseteq PutSet
    BY <1>3 DEF CloudTypeOK, CloudOK
  <2>. QED
    BY <1>3, <2>1, <2>2, AbandonTyped
<1>4. CASE DiscoverAccounts
  BY <1>4 DEF DiscoverAccounts, CloudTypeOK, CloudOK, Phases, ThreadsOK, IsNext, WillPut
<1>5. CASE OpenAccount
  <2>1. todo' \in [Thread -> SUBSET Control] /\ todo'[Main] \subseteq Control \ BucketControls
        /\ \A b \in Bucket : todo'[b] = todo[b]
    BY <1>2, <1>5, RunAssumption DEF OpenAccount, Thread
  <2>2. \A k \in Thread : seen[k] = NoValue
    <3>1. \A k \in Thread : todo[k] = {}
      BY <1>5 DEF OpenAccount, ThreadsOK, Thread
    <3>. QED
      BY <3>1 DEF ThreadsOK, IsNext
  <2>. QED
    BY <1>5, <2>1, <2>2 DEF OpenAccount, CloudTypeOK, CloudOK, Phases, ThreadsOK
<1>6. CASE AccountUnreachable
  BY <1>3, <1>6 DEF AccountUnreachable
<1>7. CASE NextRegion
  <2>1. todo' \in [Thread -> SUBSET Control] /\ todo'[Main] \subseteq Control \ BucketControls
        /\ \A b \in Bucket : todo'[b] = todo[b]
    BY <1>2, <1>7, RunAssumption DEF NextRegion, Thread
  <2>2. \A k \in Thread : seen[k] = NoValue
    <3>1. \A k \in Thread : todo[k] = {}
      BY <1>7 DEF NextRegion, ThreadsOK, Thread
    <3>. QED
      BY <3>1 DEF ThreadsOK, IsNext
  <2>3. region' \in 1 .. Len(Regions) /\ phase' \in Phases
    BY <1>1, <1>7 DEF NextRegion, Phases
  <2>4. todo'[Main] # {} => phase' \in {"org", "regions", "block"}
    BY <1>7, RunAssumption DEF NextRegion, Thread
  <2>5. phase' # "org" /\ running = {} /\ queued = {}
    BY <1>7 DEF NextRegion, ThreadsOK
  <2>. QED
    BY <1>7, <2>1, <2>2, <2>3, <2>4, <2>5 DEF NextRegion, CloudTypeOK, CloudOK, ThreadsOK
<1>8. CASE ListBuckets
  BY <1>8 DEF ListBuckets, CloudTypeOK, CloudOK, Phases, ThreadsOK, IsNext, WillPut
<1>9. CASE ListBucketsFails
  BY <1>3, <1>9 DEF ListBucketsFails
<1>10. CASE FinishAccount
  BY <1>1, <1>10
  DEF FinishAccount, NextVisit, CloudTypeOK, CloudOK, Phases, ThreadsOK, IsNext, WillPut
<1>11. CASE WriteReport
  BY <1>11 DEF WriteReport, CloudTypeOK, CloudOK, Phases, ThreadsOK, IsNext, WillPut
<1>12. CASE WriteManifest
  <2>1. manifest' \in [kind : ManifestKinds, entries : SUBSET FindingSet]
    BY <1>12 DEF WriteManifest, change_manifest, plan_manifest, NoManifest, ManifestKinds
  <2>. QED
    BY <1>12, <2>1 DEF WriteManifest, CloudTypeOK, CloudOK, Phases, ThreadsOK, IsNext, WillPut
<1>. QED
  BY <1>4, <1>5, <1>6, <1>7, <1>8, <1>9, <1>10, <1>11, <1>12

LEMMA PoolTyped ==
    ASSUME TypeInv, NEW b \in Bucket, StartBucket(b) \/ FinishBucket(b)
    PROVE  TypeInv'
<1>. USE DEF TypeInv, RunTypeOK
<1>1. CASE StartBucket(b) /\ b \in Excluded
  <2>1. phase = "buckets" /\ b # Main
    BY <1>1, RunAssumption DEF StartBucket, ThreadsOK
  <2>2. ASSUME NEW c \in Chosen(BucketControls)
        PROVE  FindingOf(b, c, "skip") \in FindingSet
    BY <2>1, <2>2, RunAssumption, OwnerAssumption
    DEF Chosen, Control, S3Controls, FindingOf, Finding, FindingSet, Resource, At,
        AccountOf, PlaceOf, Status
  <2>3. batch' \subseteq FindingSet
    BY <1>1, <2>2 DEF StartBucket
  <2>. QED
    BY <1>1, <2>1, <2>3 DEF StartBucket, CloudTypeOK, CloudOK, ThreadsOK, IsNext, WillPut
<1>2. CASE StartBucket(b) /\ b \notin Excluded
  <2>1. Chosen(BucketControls) \subseteq BucketControls /\ BucketControls \subseteq Control
    BY DEF Chosen, Control, S3Controls
  <2>2. phase = "buckets" /\ b # Main /\ b \in Thread
    BY <1>2, RunAssumption DEF StartBucket, ThreadsOK, Thread
  <2>3. todo' = [todo EXCEPT ![b] = Chosen(BucketControls)]
    BY <1>2 DEF StartBucket
  <2>4. RunTypeOK'
    BY <1>2, <2>1, <2>3 DEF StartBucket, CloudTypeOK, CloudOK
  <2>5. \A d \in Bucket : todo'[d] \subseteq BucketControls /\ (todo'[d] # {} => d \in running')
    BY <1>2, <2>1, <2>2, <2>3 DEF StartBucket, ThreadsOK, Thread
  <2>6. ASSUME NEW j \in Thread, seen'[j] # NoValue
        PROVE  \E d \in Remediable : IsNext(j, d)' /\ WillPut(d, seen[j])' /\ seen'[j] \in Settings(d)
    <3>1. seen' = seen /\ mode' = mode
      BY <1>2 DEF StartBucket
    <3>2. PICK d \in Remediable : IsNext(j, d) /\ WillPut(d, seen[j]) /\ seen[j] \in Settings(d)
      BY <2>6, <3>1 DEF ThreadsOK
    <3>3. CASE j # b
      BY <2>3, <3>1, <3>2, <3>3 DEF IsNext, WillPut
    <3>4. CASE j = b
      <4>1. b \notin running
        BY <1>2 DEF StartBucket, ThreadsOK
      <4>. QED
        BY <3>2, <3>4, <4>1 DEF ThreadsOK, IsNext
    <3>. QED
      BY <3>3, <3>4
  <2>7. ThreadsOK'
    BY <1>2, <2>2, <2>3, <2>5, <2>6 DEF StartBucket, ThreadsOK
  <2>. QED
    BY <2>4, <2>7
<1>3. CASE FinishBucket(b)
  BY <1>3 DEF FinishBucket, CloudTypeOK, CloudOK, ThreadsOK, IsNext, WillPut
<1>. QED
  BY <1>1, <1>2, <1>3

LEMMA OthersTyped ==
    ASSUME TypeInv, Crash \/ (Drift /\ UNCHANGED runOnly)
    PROVE  TypeInv'
<1>. USE DEF TypeInv, RunTypeOK
<1>1. CASE Crash
  BY <1>1 DEF Crash, CloudTypeOK, CloudOK, Phases, ThreadsOK, Thread
<1>2. CASE Drift /\ UNCHANGED runOnly
  <2>1. PICK t \in Contested \ drifted : \E v \in Settings(t[1]) \ {cloud[t], "Disabled", "tool"} :
          cloud' = [cloud EXCEPT ![t] = v] /\ drifted' = drifted \cup {t}
    BY <1>2 DEF Drift
  <2>5. t \in Target
    BY ContestedAssumption
  <2>2. PICK v \in Settings(t[1]) : cloud' = [cloud EXCEPT ![t] = v]
    BY <2>1
  <2>3. v \in Value
    <3>1. t[1] \in Remediable
      BY <2>5 DEF Target, Remediable
    <3>. QED
      BY <3>1 DEF Settings, Value, Remediable, RegionRemediable, BucketRemediable
  <2>4. CloudOK'
    BY <2>2, <2>3, <2>5 DEF CloudTypeOK, CloudOK
  <2>. QED
    BY <1>2, <2>1, <2>4, <2>5 DEF Drift, runOnly, CloudTypeOK, ThreadsOK, IsNext, WillPut
<1>. QED
  BY <1>1, <1>2

\* TypeInv is inductive.
LEMMA TypeStep == TypeInv /\ [RunNext]_runVars => TypeInv'
<1>. SUFFICES ASSUME TypeInv, [RunNext]_runVars PROVE TypeInv'
  OBVIOUS
<1>1. ASSUME NEW k \in Thread, ThreadStep(k) PROVE TypeInv'
  BY <1>1, InspectTyped, ReadSettingTyped, PutSettingTyped, PutFailsTyped DEF ThreadStep
<1>2. CASE MainStep
  BY <1>1, <1>2, MainTyped DEF MainStep, Thread
<1>3. ASSUME NEW b \in Bucket, WorkerStep(b) PROVE TypeInv'
  BY <1>1, <1>3, PoolTyped DEF WorkerStep, Thread
<1>4. CASE Crash \/ (Drift /\ UNCHANGED runOnly)
  BY <1>4, OthersTyped
<1>5. CASE UNCHANGED runVars
  BY <1>5 DEF runVars, TypeInv, RunTypeOK, ThreadsOK, CloudTypeOK, CloudOK, IsNext, WillPut
<1>. QED
  BY <1>2, <1>3, <1>4, <1>5 DEF RunNext

\* Every variable of a run stays in its type, and the pool is in use only
\* while the bucket controls run.
THEOREM TypeCorrect == RunSpec => []RunTypeOK
<1>1. TypeInv => RunTypeOK
  BY DEF TypeInv
<1>. QED
  BY <1>1, InitTyped, TypeStep, PTL DEF RunSpec

-----------------------------------------------------------------------------
(* The change manifest. *)

\* Every finding marked as a change is the record of an answered write.
ChangesWerePut ==
    \A f \in batch \cup report \cup
            (IF manifest.kind = "changes" THEN manifest.entries ELSE {}) :
        f.changed => \E p \in puts : p.acked /\ Records(f, p)

\* Every write is recorded, or something is reported as an error.
PutsAccounted ==
    phase # "failed" =>
        \A p \in puts : \E f \in batch \cup report : Records(f, p) \/ f.status = "error"

\* What the manifest of a run holds, and when.
ManifestOK ==
    /\ phase \in {"report", "manifest", "done"} => batch = {}
    /\ phase \notin {"done", "failed"} => manifest = NoManifest
    /\ phase = "done" /\ manifest.kind = "changes" => manifest = change_manifest(report)
    /\ phase = "failed" => manifest.kind # "changes"

ManifestInv == TypeInv /\ ChangesWerePut /\ PutsAccounted /\ ManifestOK

LEMMA ManifestInit == RunInit => ManifestInv
BY InitTyped
DEF RunInit, ManifestInv, ChangesWerePut, PutsAccounted, ManifestOK, NoManifest

\* Findings that record no change may be added at any time before the report.
LEMMA AddPlainFindings ==
    ASSUME ManifestInv, NEW STATE F, \A f \in F : f.changed = FALSE,
           batch' = batch \cup F, UNCHANGED <<manifest, report, puts, phase>>,
           phase \in {"org", "regions", "block", "buckets"}
    PROVE  ChangesWerePut' /\ PutsAccounted' /\ ManifestOK'
BY DEF ManifestInv, ChangesWerePut, PutsAccounted, ManifestOK, Records

\* A thread only works before the report.
LEMMA WorkPhase ==
    ASSUME TypeInv, NEW k \in Thread, todo[k] # {}
    PROVE  phase \in {"org", "regions", "block", "buckets"}
BY DEF TypeInv, ThreadsOK, Thread

LEMMA FindingPlain ==
    ASSUME NEW k, NEW c, NEW status
    PROVE  /\ FindingOf(k, c, status).changed = FALSE
           /\ FindingOf(k, c, status).status = status
BY DEF FindingOf, Finding

LEMMA ObservationPlain ==
    ASSUME NEW k, NEW c, NEW value
    PROVE  Observation(k, c, value).changed = FALSE
BY DEF FindingOf, Finding, Observation

LEMMA ReadManifest ==
    ASSUME ManifestInv, NEW k \in Thread, NEW c \in Control,
           Inspect(k, c) \/ ReadSetting(k, c)
    PROVE  ChangesWerePut' /\ PutsAccounted' /\ ManifestOK'
<1>1. phase \in {"org", "regions", "block", "buckets"}
  BY WorkPhase DEF ManifestInv, Inspect, ReadSetting, IsNext
<1>2. ASSUME NEW STATE f, f.changed = FALSE, Report(k, c, f),
             UNCHANGED <<manifest, report, puts, phase>>
      PROVE  ChangesWerePut' /\ PutsAccounted' /\ ManifestOK'
  BY <1>1, <1>2
  DEF Report, ManifestInv, ChangesWerePut, PutsAccounted, ManifestOK, Records
<1>3. CASE Inspect(k, c)
  <2>1. PICK answer \in {"compliant", "noncompliant", "unconfigured", ApiError} :
          Report(k, c, FindingOf(k, c, Verdict(c, answer)))
    BY <1>3 DEF Inspect
  <2>. DEFINE f == FindingOf(k, c, Verdict(c, answer))
  <2>2. f.changed = FALSE
    BY FindingPlain
  <2>3. Report(k, c, f) /\ UNCHANGED <<manifest, report, puts, phase>>
    BY <1>3, <2>1 DEF Inspect
  <2>. HIDE DEF f
  <2>. QED
    BY <1>2, <2>2, <2>3
<1>4. CASE ReadSetting(k, c)
  <2>1. PICK answer \in {cloud[TargetOf(k, c)], ApiError} :
          LET value == Understood(c, answer) IN
          \/ Report(k, c, FindingOf(k, c, "error"))
          \/ Report(k, c, Observation(k, c, value))
          \/ UNCHANGED <<todo, batch>>
    BY <1>4 DEF ReadSetting
  <2>. DEFINE value == Understood(c, answer)
  <2>2. UNCHANGED <<manifest, report, puts, phase>>
    BY <1>4 DEF ReadSetting
  <2>3. CASE Report(k, c, FindingOf(k, c, "error"))
    <3>1. FindingOf(k, c, "error").changed = FALSE
      BY FindingPlain
    <3>. QED
      BY <1>2, <2>2, <2>3, <3>1
  <2>4. CASE Report(k, c, Observation(k, c, value))
    <3>1. Observation(k, c, value).changed = FALSE
      BY ObservationPlain
    <3>. QED
      BY <1>2, <2>2, <2>4, <3>1
  <2>5. CASE UNCHANGED <<todo, batch>>
    BY <1>1, <2>2, <2>5
    DEF ManifestInv, ChangesWerePut, PutsAccounted, ManifestOK, Records
  <2>. QED
    BY <2>1, <2>3, <2>4, <2>5
<1>. QED
  BY <1>3, <1>4

LEMMA PutManifest ==
    ASSUME ManifestInv, NEW k \in Thread, NEW c \in Control, PutSetting(k, c)
    PROVE  ChangesWerePut' /\ PutsAccounted' /\ ManifestOK'
<1>. DEFINE t == TargetOf(k, c)
            p == [target |-> t, old |-> cloud[t], before |-> seen[k],
                  acked |-> TRUE, at |-> At(k)]
            f == Change(k, c, seen[k])
<1>1. phase \in {"org", "regions", "block", "buckets"}
  BY WorkPhase DEF ManifestInv, PutSetting, IsNext
<1>2. puts' = puts \cup {p} /\ batch' = batch \cup {f}
  BY DEF PutSetting, Put, Report
<1>3. Records(f, p) /\ p.acked
  BY DEF Records, Change, FindingOf, Finding, TargetOf
<1>. HIDE DEF f, p
<1>4. UNCHANGED <<manifest, report, phase>>
  BY DEF PutSetting
<1>. QED
  BY <1>1, <1>2, <1>3, <1>4
  DEF ManifestInv, ChangesWerePut, PutsAccounted, ManifestOK, Records

\* Leaving an account loses findings of changes, but leaves an error.
LEMMA AbandonManifest ==
    ASSUME ManifestInv, Abandon, puts \subseteq puts',
           phase \notin {"done", "failed"}
    PROVE  ChangesWerePut' /\ PutsAccounted' /\ ManifestOK'
<1>. DEFINE e == Finding("AWS-ORG-001", Visits[visit], "error", <<visit, 0>>)
<1>1. e.changed = FALSE /\ e.status = "error"
  BY DEF Finding
<1>2. batch' = {} /\ UNCHANGED manifest /\ manifest = NoManifest
  BY DEF Abandon, ManifestInv, ManifestOK
<1>3. CASE OrgRole /\ report' = report \cup {e} /\ NextVisit
  BY <1>1, <1>2, <1>3
  DEF ManifestInv, ChangesWerePut, PutsAccounted, ManifestOK, NextVisit, NoManifest, Records
<1>4. CASE phase' = "failed" /\ UNCHANGED report
  BY <1>2, <1>4
  DEF ManifestInv, ChangesWerePut, PutsAccounted, ManifestOK, NoManifest, Records
<1>. QED
  BY <1>3, <1>4 DEF Abandon

LEMMA PutFailsManifest ==
    ASSUME ManifestInv, NEW k \in Thread, NEW c \in Control, PutFails(k, c)
    PROVE  ChangesWerePut' /\ PutsAccounted' /\ ManifestOK'
<1>1. phase \in {"org", "regions", "block", "buckets"}
  BY WorkPhase DEF ManifestInv, PutFails, IsNext
<1>2. puts \subseteq puts'
  BY DEF PutFails, Put
<1>3. CASE Abandon
  BY <1>1, <1>2, <1>3, AbandonManifest
<1>4. CASE ~Abandon
  <2>. DEFINE f == FindingOf(k, c, "error")
  <2>1. batch' = batch \cup {f} /\ UNCHANGED <<manifest, report, phase>>
    BY <1>4 DEF PutFails, Report
  <2>2. f.changed = FALSE /\ f.status = "error"
    BY FindingPlain
  <2>. HIDE DEF f
  <2>. QED
    BY <1>1, <1>2, <2>1, <2>2
    DEF ManifestInv, ChangesWerePut, PutsAccounted, ManifestOK, Records
<1>. QED
  BY <1>3, <1>4

LEMMA MainManifest ==
    ASSUME ManifestInv,
           \/ DiscoverAccounts \/ OpenAccount \/ AccountUnreachable
           \/ NextRegion \/ ListBuckets \/ ListBucketsFails
           \/ FinishAccount \/ WriteReport \/ WriteManifest
    PROVE  ChangesWerePut' /\ PutsAccounted' /\ ManifestOK'
<1>1. CASE DiscoverAccounts
  BY <1>1 DEF DiscoverAccounts, ManifestInv, ChangesWerePut, PutsAccounted, ManifestOK,
              NoManifest, Records
<1>2. CASE AccountUnreachable
  BY <1>2, AbandonManifest DEF AccountUnreachable
<1>3. CASE ListBucketsFails
  BY <1>3, AbandonManifest DEF ListBucketsFails
<1>4. CASE OpenAccount \/ NextRegion \/ ListBuckets
  BY <1>4 DEF OpenAccount, NextRegion, ListBuckets, ManifestInv, ChangesWerePut,
              PutsAccounted, ManifestOK, Records
<1>5. CASE FinishAccount
  BY <1>5 DEF FinishAccount, NextVisit, ManifestInv, ChangesWerePut, PutsAccounted,
              ManifestOK, Records
<1>6. CASE WriteReport
  BY <1>6 DEF WriteReport, ManifestInv, ChangesWerePut, PutsAccounted, ManifestOK,
              NoManifest, Records
<1>7. CASE WriteManifest
  BY <1>7 DEF WriteManifest, ManifestInv, ChangesWerePut, PutsAccounted, ManifestOK,
              NoManifest, change_manifest, plan_manifest, Records
<1>. QED
  BY <1>1, <1>2, <1>3, <1>4, <1>5, <1>6, <1>7

LEMMA OthersManifest ==
    ASSUME ManifestInv,
           \/ \E b \in Bucket : StartBucket(b) \/ FinishBucket(b)
           \/ Crash
           \/ Drift /\ UNCHANGED runOnly
    PROVE  ChangesWerePut' /\ PutsAccounted' /\ ManifestOK'
<1>1. ASSUME NEW b \in Bucket, StartBucket(b)
      PROVE  ChangesWerePut' /\ PutsAccounted' /\ ManifestOK'
  <2>1. phase = "buckets"
    BY <1>1 DEF StartBucket, ManifestInv, TypeInv, ThreadsOK
  <2>. DEFINE F == {FindingOf(b, c, "skip") : c \in Chosen(BucketControls)}
  <2>2. \A f \in F : f.changed = FALSE
    <3>1. ASSUME NEW c \in Chosen(BucketControls)
          PROVE  FindingOf(b, c, "skip").changed = FALSE
      BY FindingPlain
    <3>. QED
      BY <3>1
  <2>3. UNCHANGED <<manifest, report, puts, phase>>
    BY <1>1 DEF StartBucket
  <2>4. CASE batch' = batch
    BY <2>1, <2>3, <2>4
    DEF ManifestInv, ChangesWerePut, PutsAccounted, ManifestOK, Records
  <2>5. CASE batch' = batch \cup F
    <3>. HIDE DEF F
    <3>. QED
      BY <2>1, <2>2, <2>3, <2>5, AddPlainFindings
  <2>. QED
    BY <1>1, <2>4, <2>5 DEF StartBucket
<1>2. ASSUME NEW b \in Bucket, FinishBucket(b)
      PROVE  ChangesWerePut' /\ PutsAccounted' /\ ManifestOK'
  BY <1>2 DEF FinishBucket, ManifestInv, ChangesWerePut, PutsAccounted, ManifestOK, Records
<1>3. CASE Crash
  BY <1>3 DEF Crash, Ended, ManifestInv, ChangesWerePut, PutsAccounted, ManifestOK,
              NoManifest, Records
<1>4. CASE Drift /\ UNCHANGED runOnly
  BY <1>4 DEF Drift, runOnly, ManifestInv, ChangesWerePut, PutsAccounted, ManifestOK, Records
<1>. QED
  BY <1>1, <1>2, <1>3, <1>4

LEMMA ManifestStep == ManifestInv /\ [RunNext]_runVars => ManifestInv'
<1>. SUFFICES ASSUME ManifestInv, [RunNext]_runVars PROVE ManifestInv'
  OBVIOUS
<1>1. TypeInv'
  BY TypeStep DEF ManifestInv
<1>2. ASSUME NEW k \in Thread, ThreadStep(k)
      PROVE  ChangesWerePut' /\ PutsAccounted' /\ ManifestOK'
  BY <1>2, ReadManifest, PutManifest, PutFailsManifest DEF ThreadStep
<1>3. CASE MainStep
  BY <1>1, <1>2, <1>3, MainManifest DEF MainStep, Thread, ManifestInv
<1>4. ASSUME NEW b \in Bucket, WorkerStep(b) PROVE ManifestInv'
  BY <1>1, <1>2, <1>4, OthersManifest DEF WorkerStep, Thread, ManifestInv
<1>5. CASE Crash \/ (Drift /\ UNCHANGED runOnly)
  BY <1>1, <1>5, OthersManifest DEF ManifestInv
<1>6. CASE UNCHANGED runVars
  BY <1>1, <1>6
  DEF runVars, ManifestInv, ChangesWerePut, PutsAccounted, ManifestOK, Records
<1>. QED
  BY <1>3, <1>4, <1>5, <1>6 DEF RunNext

LEMMA CompleteManifest == ManifestInv => CleanExitIsComplete
<1>. SUFFICES ASSUME ManifestInv, phase = "done", manifest.kind = "changes",
                     exit_code(report) # 2, NEW p \in puts
              PROVE  \E f \in manifest.entries : Records(f, p)
  BY DEF CleanExitIsComplete
<1>1. \A f \in report : f.status # "error"
  BY DEF exit_code
<1>2. PICK f \in report : Records(f, p)
  BY <1>1 DEF ManifestInv, ManifestOK, PutsAccounted
<1>3. f \in manifest.entries
  BY <1>2 DEF ManifestInv, ManifestOK, change_manifest, Records
<1>. QED
  BY <1>2, <1>3

\* Whatever is refused, lost, abandoned or killed: an exit code below 2 comes
\* with a change manifest that lists every write that took effect.
THEOREM ManifestComplete == RunSpec => []CleanExitIsComplete
BY CompleteManifest, ManifestInit, ManifestStep, PTL DEF RunSpec

LEMMA SoundManifest == ManifestInv => EveryChangeWasPut
<1>. SUFFICES ASSUME ManifestInv, manifest.kind = "changes", NEW f \in manifest.entries
              PROVE  \E p \in puts : p.acked /\ Records(f, p)
  BY DEF EveryChangeWasPut
<1>1. f.changed
  BY DEF ManifestInv, ManifestOK, NoManifest, change_manifest
<1>. QED
  BY <1>1 DEF ManifestInv, ChangesWerePut

\* A change manifest lists no change that did not happen.
THEOREM ManifestSound == RunSpec => []EveryChangeWasPut
BY SoundManifest, ManifestInit, ManifestStep, PTL DEF RunSpec
-----------------------------------------------------------------------------
(* What a write replaces. *)

\* A thread that is about to write has read the setting as it is, but for what others
\* did to it, or has taken an error for a setting that is not configured.
Fresh(k, c) ==
    \/ seen[k] = cloud[TargetOf(k, c)]
    \/ TargetOf(k, c) \in drifted
    \/ c \in {"AWS-S3-004", "AWS-S3-005"} /\ seen[k] = "none"

FreshOK == \A k \in Thread, c \in Remediable : seen[k] # NoValue /\ IsNext(k, c) => Fresh(k, c)

BeforeInv == TypeInv /\ FreshOK /\ BeforeIsWhatWasOverwritten

\* No two threads work on one setting.
LEMMA TargetsDiffer ==
    ASSUME TypeInv, NEW k \in Thread, NEW j \in Thread, k # j,
           NEW c \in todo[k], NEW d \in todo[j]
    PROVE  TargetOf(k, c) # TargetOf(j, d)
<1>1. CASE k = Main \/ j = Main
  <2>1. c # d
    BY <1>1 DEF TypeInv, ThreadsOK, Thread
  <2> QED
    BY <2>1 DEF TargetOf
<1>2. CASE k # Main /\ j # Main
  <2>1. PlaceOf(k, c) = k /\ PlaceOf(j, d) = j
    BY <1>2 DEF PlaceOf
  <2> QED
    BY <2>1 DEF TargetOf
<1> QED
  BY <1>1, <1>2

\* A thread that stays where it is keeps what it read, whatever another one writes.
LEMMA FreshElsewhere ==
    ASSUME BeforeInv, NEW k \in Thread, NEW c \in todo[k], NEW v,
           cloud' = cloud \/ cloud' = [cloud EXCEPT ![TargetOf(k, c)] = v],
           UNCHANGED <<visit, region, phase>>, drifted' = drifted,
           NEW j \in Thread, j # k, seen'[j] = seen[j], todo'[j] = todo[j], seen[j] # NoValue,
           NEW d \in Remediable, IsNext(j, d)'
    PROVE  Fresh(j, d)'
<1>1. IsNext(j, d) /\ d \in todo[j]
  BY DEF IsNext
<1>2. TargetOf(j, d)' = TargetOf(j, d)
  BY DEF TargetOf, AccountOf, PlaceOf
<1>3. TargetOf(j, d) \in Target /\ TargetOf(j, d) # TargetOf(k, c)
  BY <1>1, TargetTyped, TargetsDiffer DEF BeforeInv
<1>4. cloud'[TargetOf(j, d)] = cloud[TargetOf(j, d)]
  BY <1>3 DEF BeforeInv, TypeInv, RunTypeOK, CloudTypeOK, CloudOK
<1>5. Fresh(j, d)
  BY <1>1 DEF BeforeInv, FreshOK
<1> QED
  BY <1>2, <1>4, <1>5 DEF Fresh

\* Thread k finished control c, and may have written it.
LEMMA FreshReported ==
    ASSUME BeforeInv, NEW k \in Thread, NEW c \in todo[k], NEW STATE f, Report(k, c, f), NEW v,
           cloud' = cloud \/ cloud' = [cloud EXCEPT ![TargetOf(k, c)] = v],
           UNCHANGED <<visit, region, phase, drifted>>, seen' = [seen EXCEPT ![k] = NoValue]
    PROVE  FreshOK'
<1> SUFFICES ASSUME NEW j \in Thread, NEW d \in Remediable, seen'[j] # NoValue, IsNext(j, d)'
             PROVE  Fresh(j, d)'
  BY DEF FreshOK, Thread
<1>1. j # k /\ seen'[j] = seen[j] /\ todo'[j] = todo[j]
  BY DEF Report, BeforeInv, TypeInv, RunTypeOK
<1> QED
  BY <1>1, FreshElsewhere

LEMMA ReadFresh ==
    ASSUME BeforeInv, NEW k \in Thread, NEW c \in Control, Inspect(k, c) \/ ReadSetting(k, c)
    PROVE  FreshOK'
<1>1. c \in todo[k] /\ UNCHANGED <<cloud, drifted, visit, region, phase>>
  BY DEF Inspect, ReadSetting, IsNext
<1>2. ASSUME NEW STATE f, Report(k, c, f), seen' = seen, seen[k] = NoValue PROVE FreshOK'
  <2>1. seen' = [seen EXCEPT ![k] = NoValue]
    BY <1>2 DEF BeforeInv, TypeInv, RunTypeOK
  <2> QED
    BY <1>1, <1>2, <2>1, FreshReported
<1>3. CASE Inspect(k, c)
  <2>1. PICK answer \in {"compliant", "noncompliant", "unconfigured", ApiError} :
          Report(k, c, FindingOf(k, c, Verdict(c, answer)))
    BY <1>3 DEF Inspect
  <2>2. seen' = seen /\ IsNext(k, c)
    BY <1>3 DEF Inspect
  <2>3. seen[k] = NoValue
    BY <1>3, <2>2, AboutToWrite DEF Inspect, BeforeInv
  <2> QED
    BY <1>2, <2>1, <2>2, <2>3
<1>4. CASE ReadSetting(k, c)
  <2>1. PICK answer \in {cloud[TargetOf(k, c)], ApiError} :
          LET value == Understood(c, answer) IN
          \/ Report(k, c, FindingOf(k, c, "error")) /\ UNCHANGED seen
          \/ Report(k, c, Observation(k, c, value)) /\ UNCHANGED seen
          \/ /\ value # ApiError
             /\ seen' = [seen EXCEPT ![k] = value]
             /\ UNCHANGED todo
    BY <1>4 DEF ReadSetting
  <2> DEFINE value == Understood(c, answer)
  <2>2. seen[k] = NoValue /\ IsNext(k, c) /\ c \in Remediable
    BY <1>4 DEF ReadSetting
  <2>3. CASE Report(k, c, FindingOf(k, c, "error")) /\ UNCHANGED seen
    BY <1>2, <2>2, <2>3
  <2>4. CASE Report(k, c, Observation(k, c, value)) /\ UNCHANGED seen
    BY <1>2, <2>2, <2>4
  <2>5. CASE value # ApiError /\ seen' = [seen EXCEPT ![k] = value] /\ UNCHANGED todo
    <3> SUFFICES ASSUME NEW j \in Thread, NEW d \in Remediable, seen'[j] # NoValue, IsNext(j, d)'
                 PROVE  Fresh(j, d)'
      BY DEF FreshOK, Thread
    <3>1. CASE j = k
      <4>1. IsNext(k, d) /\ d \in Control
        BY <2>5, <3>1 DEF IsNext, BeforeInv, TypeInv, RunTypeOK
      <4>2. d = c
        BY <2>2, <4>1, OneNext
      <4>3. seen'[k] = value
        BY <2>5 DEF BeforeInv, TypeInv, RunTypeOK
      <4>4. TargetOf(k, c)' = TargetOf(k, c)
        BY <1>1 DEF TargetOf, AccountOf, PlaceOf
      <4>5. value = cloud[TargetOf(k, c)] \/ (c \in {"AWS-S3-004", "AWS-S3-005"} /\ value = "none")
        BY <2>5 DEF Understood
      <4> HIDE DEF value
      <4> QED
        BY <1>1, <3>1, <4>2, <4>3, <4>4, <4>5 DEF Fresh
    <3>2. CASE j # k
      <4>1. seen'[j] = seen[j] /\ todo'[j] = todo[j]
        BY <2>5, <3>2 DEF BeforeInv, TypeInv, RunTypeOK
      <4> QED
        BY <1>1, <3>2, <4>1, FreshElsewhere
    <3> QED
      BY <3>1, <3>2
  <2> HIDE DEF value
  <2> QED
    BY <2>1, <2>3, <2>4, <2>5 DEF value
<1> QED
  BY <1>3, <1>4

\* A write records what it replaces.
LEMMA PutBefore ==
    ASSUME BeforeInv, NEW k \in Thread, NEW c \in Control, IsNext(k, c), seen[k] # NoValue,
           NEW acked, Put(k, c, acked), drifted' = drifted
    PROVE  BeforeIsWhatWasOverwritten'
<1> DEFINE t == TargetOf(k, c)
           p == [target |-> t, old |-> cloud[t], before |-> seen[k], acked |-> acked, at |-> At(k)]
<1>1. c \in Remediable
  BY AboutToWrite DEF BeforeInv
<1>2. Fresh(k, c)
  BY <1>1 DEF BeforeInv, FreshOK
<1>3. puts' = puts \cup {p}
  BY DEF Put
<1>4. p.old = p.before \/ p.target \in drifted
      \/ (p.target[1] \in {"AWS-S3-004", "AWS-S3-005"} /\ p.before = "none")
  BY <1>2 DEF Fresh, TargetOf
<1> HIDE DEF p
<1> QED
  BY <1>3, <1>4 DEF BeforeInv, BeforeIsWhatWasOverwritten

LEMMA PutFresh ==
    ASSUME BeforeInv, NEW k \in Thread, NEW c \in Control, PutSetting(k, c) \/ PutFails(k, c)
    PROVE  FreshOK' /\ BeforeIsWhatWasOverwritten'
<1>1. IsNext(k, c) /\ c \in todo[k] /\ seen[k] # NoValue /\ drifted' = drifted
  BY DEF PutSetting, PutFails, Abandon, IsNext
<1>2. UNCHANGED <<cloud, puts>> \/ Put(k, c, TRUE) \/ Put(k, c, FALSE)
  BY DEF PutSetting, PutFails
<1>3. BeforeIsWhatWasOverwritten'
  BY <1>1, <1>2, PutBefore DEF BeforeInv, BeforeIsWhatWasOverwritten
<1>4. cloud' = cloud \/ cloud' = [cloud EXCEPT ![TargetOf(k, c)] = Desired(c)]
  BY <1>2 DEF Put
<1>5. ASSUME Abandon PROVE FreshOK'
  BY <1>5 DEF Abandon, FreshOK, Thread
<1>6. ASSUME ~Abandon PROVE FreshOK'
  <2>1. /\ Report(k, c, Change(k, c, seen[k])) \/ Report(k, c, FindingOf(k, c, "error"))
        /\ UNCHANGED <<visit, region, phase>> /\ seen' = [seen EXCEPT ![k] = NoValue]
    BY <1>6 DEF PutSetting, PutFails
  <2> QED
    BY <1>1, <1>4, <2>1, FreshReported
<1> QED
  BY <1>3, <1>5, <1>6

\* The main thread goes on when no thread is about to write.
LEMMA MainFresh ==
    ASSUME BeforeInv,
           \/ DiscoverAccounts \/ OpenAccount \/ AccountUnreachable
           \/ NextRegion \/ ListBuckets \/ ListBucketsFails
           \/ FinishAccount \/ WriteReport \/ WriteManifest
    PROVE  FreshOK'
<1>1. todo[Main] = {} /\ \A b \in Bucket : todo[b] = {}
  BY DEF DiscoverAccounts, OpenAccount, AccountUnreachable, NextRegion, ListBuckets, ListBucketsFails,
         FinishAccount, WriteReport, WriteManifest, BeforeInv, TypeInv, ThreadsOK
<1>2. \A k \in Thread : seen[k] = NoValue
  BY <1>1 DEF BeforeInv, TypeInv, ThreadsOK, IsNext, Thread
<1>3. seen' = seen \/ seen' = [k \in Thread |-> NoValue]
  BY DEF DiscoverAccounts, OpenAccount, AccountUnreachable, NextRegion, ListBuckets, ListBucketsFails,
         FinishAccount, WriteReport, WriteManifest, Abandon
<1>4. \A k \in Thread : seen'[k] = NoValue
  BY <1>2, <1>3
<1> QED
  BY <1>4 DEF FreshOK, Thread

LEMMA OthersFresh ==
    ASSUME BeforeInv,
           \/ \E b \in Bucket : StartBucket(b) \/ FinishBucket(b)
           \/ Crash
           \/ Drift /\ UNCHANGED runOnly
           \/ UNCHANGED runVars
    PROVE  FreshOK' /\ BeforeIsWhatWasOverwritten'
<1>1. CASE Crash
  BY <1>1 DEF Crash, FreshOK, BeforeInv, BeforeIsWhatWasOverwritten
<1>2. CASE Drift /\ UNCHANGED runOnly
  <2>1. PICK t \in Contested \ drifted :
          drifted' = drifted \cup {t} /\ \E v : cloud' = [cloud EXCEPT ![t] = v]
    BY <1>2 DEF Drift
  <2>2. \A u \in Target : u \in drifted' \/ cloud'[u] = cloud[u]
    BY <2>1 DEF BeforeInv, TypeInv, RunTypeOK, CloudTypeOK, CloudOK
  <2>3. UNCHANGED <<todo, seen, visit, region, phase, puts>>
    BY <1>2 DEF runOnly
  <2>4. ASSUME NEW k \in Thread, NEW c \in Remediable, seen'[k] # NoValue, IsNext(k, c)'
        PROVE  Fresh(k, c)'
    <3>1. IsNext(k, c) /\ c \in todo[k] /\ Fresh(k, c)
      BY <2>3, <2>4 DEF IsNext, BeforeInv, FreshOK
    <3>2. TargetOf(k, c)' = TargetOf(k, c) /\ TargetOf(k, c) \in Target
      BY <2>3, <3>1, TargetTyped DEF TargetOf, AccountOf, PlaceOf, BeforeInv
    <3> QED
      BY <2>1, <2>2, <2>3, <3>1, <3>2 DEF Fresh
  <2>5. BeforeIsWhatWasOverwritten'
    BY <2>1, <2>3 DEF BeforeInv, BeforeIsWhatWasOverwritten
  <2> QED
    BY <2>4, <2>5 DEF FreshOK, Thread
<1>3. ASSUME \/ \E b \in Bucket : StartBucket(b) \/ FinishBucket(b)
             \/ UNCHANGED runVars
      PROVE  FreshOK' /\ BeforeIsWhatWasOverwritten'
  <2>1. UNCHANGED <<cloud, drifted, seen, visit, region, phase, puts>>
    BY <1>3 DEF StartBucket, FinishBucket, runVars
  <2>2. \A k \in Thread : todo'[k] = todo[k] \/ todo[k] = {}
    BY <1>3 DEF StartBucket, FinishBucket, runVars, BeforeInv, TypeInv, RunTypeOK, ThreadsOK
  <2>3. ASSUME NEW k \in Thread, NEW c \in Remediable, seen'[k] # NoValue, IsNext(k, c)'
        PROVE  Fresh(k, c)'
    <3>1. todo[k] # {}
      BY <2>1, <2>3 DEF BeforeInv, TypeInv, ThreadsOK, IsNext
    <3>2. IsNext(k, c) /\ Fresh(k, c)
      BY <2>1, <2>2, <2>3, <3>1 DEF IsNext, BeforeInv, FreshOK
    <3>3. TargetOf(k, c)' = TargetOf(k, c)
      BY <2>1 DEF TargetOf, AccountOf, PlaceOf
    <3> QED
      BY <2>1, <3>2, <3>3 DEF Fresh
  <2> QED
    BY <2>1, <2>3 DEF FreshOK, Thread, BeforeInv, BeforeIsWhatWasOverwritten
<1> QED
  BY <1>1, <1>2, <1>3

LEMMA BeforeStep == BeforeInv /\ [RunNext]_runVars => BeforeInv'
<1> SUFFICES ASSUME BeforeInv, [RunNext]_runVars PROVE BeforeInv'
  OBVIOUS
<1>1. TypeInv'
  BY TypeStep DEF BeforeInv
<1>2. ASSUME NEW k \in Thread, NEW c \in Control, Inspect(k, c) \/ ReadSetting(k, c)
      PROVE  FreshOK' /\ BeforeIsWhatWasOverwritten'
  <2>1. UNCHANGED <<puts, drifted>>
    BY <1>2 DEF Inspect, ReadSetting
  <2> QED
    BY <1>2, <2>1, ReadFresh DEF BeforeInv, BeforeIsWhatWasOverwritten
<1>3. ASSUME NEW k \in Thread, ThreadStep(k) PROVE FreshOK' /\ BeforeIsWhatWasOverwritten'
  BY <1>2, <1>3, PutFresh DEF ThreadStep
<1>4. ASSUME \/ DiscoverAccounts \/ OpenAccount \/ AccountUnreachable
             \/ NextRegion \/ ListBuckets \/ ListBucketsFails
             \/ FinishAccount \/ WriteReport \/ WriteManifest
      PROVE  FreshOK' /\ BeforeIsWhatWasOverwritten'
  <2>1. UNCHANGED <<puts, drifted>>
    BY <1>4 DEF DiscoverAccounts, OpenAccount, AccountUnreachable, NextRegion, ListBuckets,
                ListBucketsFails, FinishAccount, WriteReport, WriteManifest, Abandon
  <2> QED
    BY <1>4, <2>1, MainFresh DEF BeforeInv, BeforeIsWhatWasOverwritten
<1>5. FreshOK' /\ BeforeIsWhatWasOverwritten'
  BY <1>3, <1>4, OthersFresh DEF RunNext, MainStep, WorkerStep, Thread
<1> QED
  BY <1>1, <1>5 DEF BeforeInv

\* The value recorded for a change is the one that the write replaced, with two
\* exceptions: somebody else's change, and a read error of a bucket control.
THEOREM BeforeIsTrue == RunSpec => []BeforeIsWhatWasOverwritten
<1>1. RunInit => BeforeInv
  BY InitTyped DEF RunInit, BeforeInv, FreshOK, BeforeIsWhatWasOverwritten, Thread
<1>2. BeforeInv => BeforeIsWhatWasOverwritten
  BY DEF BeforeInv
<1> QED
  BY <1>1, <1>2, BeforeStep, PTL DEF RunSpec
-----------------------------------------------------------------------------
(* Nothing is skipped. *)

\* F has a finding of control c at a place of the run.
Has(F, c, at) == \E f \in F : f.control = c /\ f.at = at
HasBucket(F, c, b, at) == \E f \in F : f.control = c /\ f.resource = b /\ f.at = at

\* Of the account that is visited, every control is still to run or has its finding.
VisitOK ==
    /\ phase \in {"org", "open"} => region = 1
    /\ phase = "regions" =>
          \A c \in Chosen(ServiceControls), r \in 1 .. region :
              (r = region /\ c \in todo[Main]) \/ Has(batch, c, <<visit, r>>)
    /\ phase \in {"block", "buckets"} =>
          \A c \in Chosen(ServiceControls), r \in DOMAIN Regions : Has(batch, c, <<visit, r>>)
    /\ phase \in {"block", "buckets"} =>
          \A c \in Chosen({"AWS-S3-001"}) :
              (phase = "block" /\ c \in todo[Main]) \/ Has(batch, c, <<visit, 0>>)
    /\ phase = "buckets" =>
          \A b \in Bucket, c \in Chosen(BucketControls) : Owner[b] = Visits[visit] =>
              b \in queued \/ c \in todo[b] \/ HasBucket(batch, c, b, <<visit, 0>>)

\* What a report holds of a visit that was not given up.
CoveredBy(F, v) ==
    /\ \A c \in Chosen(ServiceControls), r \in DOMAIN Regions : Has(F, c, <<v, r>>)
    /\ \A c \in Chosen({"AWS-S3-001"}) : Has(F, c, <<v, 0>>)
    /\ \A b \in Bucket, c \in Chosen(BucketControls) :
          Owner[b] = Visits[v] => HasBucket(F, c, b, <<v, 0>>)

\* A visit that is over has its findings in the report, or its error.
Answered(v) == CoveredBy(report, v) \/ (OrgRole /\ Has(report, "AWS-ORG-001", <<v, 0>>))

ReportOK ==
    /\ phase # "failed" => \A v \in 1 .. visit - 1 : Answered(v)
    /\ phase \in {"report", "manifest", "done"} => visit = Len(Visits) /\ Answered(visit)

SkipInv == TypeInv /\ VisitOK /\ ReportOK

LEMMA Places ==
    ASSUME TypeInv
    PROVE  /\ visit \in Nat \ {0} /\ visit <= Len(Visits) /\ Len(Visits) \in Nat
           /\ region \in Nat \ {0} /\ region <= Len(Regions) /\ Len(Regions) \in Nat \ {0}
           /\ DOMAIN Visits = 1 .. Len(Visits) /\ DOMAIN Regions = 1 .. Len(Regions)
  BY RunAssumption DEF TypeInv, RunTypeOK

\* Findings stay in a report that grows.
LEMMA CoveredGrows ==
    ASSUME NEW v, NEW F, NEW G, F \subseteq G, CoveredBy(F, v)
    PROVE  CoveredBy(G, v)
<1>1. \A c, at : Has(F, c, at) => Has(G, c, at)
  BY DEF Has
<1>2. \A c, b, at : HasBucket(F, c, b, at) => HasBucket(G, c, b, at)
  BY DEF HasBucket
<1> QED
  BY <1>1, <1>2 DEF CoveredBy

LEMMA ReportGrows ==
    ASSUME NEW v, Answered(v), report \subseteq report'
    PROVE  Answered(v)'
<1>1. CoveredBy(report, v) => CoveredBy(report', v)
  BY CoveredGrows
<1>2. Has(report, "AWS-ORG-001", <<v, 0>>) => Has(report', "AWS-ORG-001", <<v, 0>>)
  BY DEF Has
<1> QED
  BY <1>1, <1>2 DEF Answered

\* Threads that finish controls add their findings.
LEMMA SkipReported ==
    ASSUME SkipInv, batch \subseteq batch', UNCHANGED <<phase, visit, region, report, queued>>,
           \A c \in todo[Main] \ todo'[Main] : Has(batch', c, At(Main)),
           \A b \in Bucket : \A c \in todo[b] \ todo'[b] : HasBucket(batch', c, b, At(b))
    PROVE  VisitOK' /\ ReportOK'
<1>1. \A c, at : Has(batch, c, at) => Has(batch', c, at)
  BY DEF Has
<1>2. \A c, b, at : HasBucket(batch, c, b, at) => HasBucket(batch', c, b, at)
  BY DEF HasBucket
<1>3. /\ phase = "regions" => At(Main) = <<visit, region>>
      /\ phase = "block" => At(Main) = <<visit, 0>>
      /\ phase = "buckets" => \A b \in Bucket : At(b) = <<visit, 0>>
  BY DEF At
<1>4. phase = "regions" =>
        \A c \in Chosen(ServiceControls), r \in 1 .. region :
            (r = region /\ c \in todo'[Main]) \/ Has(batch', c, <<visit, r>>)
  BY <1>1, <1>3 DEF SkipInv, VisitOK
<1>5. phase \in {"block", "buckets"} =>
        \A c \in Chosen(ServiceControls), r \in DOMAIN Regions : Has(batch', c, <<visit, r>>)
  BY <1>1 DEF SkipInv, VisitOK
<1>6. phase \in {"block", "buckets"} =>
        \A c \in Chosen({"AWS-S3-001"}) :
            (phase = "block" /\ c \in todo'[Main]) \/ Has(batch', c, <<visit, 0>>)
  BY <1>1, <1>3 DEF SkipInv, VisitOK
<1>7. phase = "buckets" =>
        \A b \in Bucket, c \in Chosen(BucketControls) : Owner[b] = Visits[visit] =>
            b \in queued \/ c \in todo'[b] \/ HasBucket(batch', c, b, <<visit, 0>>)
  BY <1>2, <1>3 DEF SkipInv, VisitOK
<1>8. VisitOK'
  BY <1>4, <1>5, <1>6, <1>7 DEF SkipInv, VisitOK
<1>9. ReportOK'
  BY DEF SkipInv, ReportOK, Answered
<1> QED
  BY <1>8, <1>9

LEMMA SkipOne ==
    ASSUME SkipInv, NEW k \in Thread, NEW c \in todo[k], NEW STATE f, Report(k, c, f),
           f.control = c, f.at = At(k), k # Main => f.resource = k,
           UNCHANGED <<phase, visit, region, report, queued>>
    PROVE  VisitOK' /\ ReportOK'
<1>1. f \in batch' /\ batch \subseteq batch'
  BY DEF Report
<1>2. \A j \in Thread : j # k => todo'[j] = todo[j]
  BY DEF Report, SkipInv, TypeInv, RunTypeOK
<1>3. todo'[k] = todo[k] \ {c}
  BY DEF Report, SkipInv, TypeInv, RunTypeOK
<1>4. \A d \in todo[Main] \ todo'[Main] : Has(batch', d, At(Main))
  BY <1>1, <1>2, <1>3 DEF Has, Thread
<1>5. \A b \in Bucket : \A d \in todo[b] \ todo'[b] : HasBucket(batch', d, b, At(b))
  BY <1>1, <1>2, <1>3, RunAssumption DEF HasBucket, Thread
<1> QED
  BY <1>1, <1>4, <1>5, SkipReported

\* A visit ends with its findings in the report, or with an error in it.
LEMMA SkipNextVisit ==
    ASSUME SkipInv, phase # "failed", NextVisit, report \subseteq report',
           NEW w, w = visit, Answered(w)'
    PROVE  VisitOK' /\ ReportOK'
<1>1. w \in Nat /\ w <= Len(Visits) /\ Len(Visits) \in Nat
  BY Places DEF SkipInv
<1>2. \A v \in 1 .. w - 1 : Answered(v)'
  <2> SUFFICES ASSUME NEW v \in 1 .. w - 1 PROVE Answered(v)'
    OBVIOUS
  <2>1. Answered(v)
    BY DEF SkipInv, ReportOK
  <2> QED
    BY <2>1, ReportGrows
<1>3. CASE visit < Len(Visits)
  <2>1. visit' = w + 1 /\ phase' = "open" /\ region' = 1
    BY <1>3 DEF NextVisit
  <2>2. \A v \in 1 .. w : Answered(v)'
    BY <1>1, <1>2
  <2>3. \A v \in 1 .. visit' - 1 : Answered(v)'
    BY <1>1, <2>1, <2>2
  <2> QED
    BY <2>1, <2>3 DEF VisitOK, ReportOK
<1>4. CASE ~(visit < Len(Visits))
  <2>1. visit' = w /\ phase' = "report" /\ region' = 1 /\ w = Len(Visits)
    BY <1>1, <1>4 DEF NextVisit
  <2>2. Answered(visit)'
    BY <2>1 DEF Answered
  <2> QED
    BY <1>2, <2>1, <2>2 DEF VisitOK, ReportOK
<1> QED
  BY <1>3, <1>4

LEMMA SkipAbandon ==
    ASSUME SkipInv, Abandon, phase # "failed"
    PROVE  VisitOK' /\ ReportOK'
<1>1. CASE phase' = "failed"
  BY <1>1 DEF VisitOK, ReportOK
<1>2. CASE OrgRole /\ NextVisit
           /\ report' = report \cup {Finding("AWS-ORG-001", Visits[visit], "error", <<visit, 0>>)}
  <2>1. PICK w : w = visit
    OBVIOUS
  <2> DEFINE e == Finding("AWS-ORG-001", Visits[visit], "error", <<visit, 0>>)
  <2>2. Has(report', "AWS-ORG-001", <<w, 0>>)
    <3>1. e \in report' /\ e.control = "AWS-ORG-001" /\ e.at = <<w, 0>>
      BY <1>2, <2>1 DEF Finding
    <3> HIDE DEF e
    <3> QED
      BY <3>1 DEF Has
  <2>3. Answered(w)'
    BY <1>2, <2>2 DEF Answered
  <2> QED
    BY <1>2, <2>1, <2>3, SkipNextVisit
<1> QED
  BY <1>1, <1>2 DEF Abandon

LEMMA FindingSays ==
    ASSUME NEW k, NEW c, NEW status
    PROVE  LET f == FindingOf(k, c, status) IN
           f.control = c /\ f.at = At(k) /\ (k # Main /\ c \in BucketControls => f.resource = k)
  BY DEF FindingOf, Finding, Resource, PlaceOf

LEMMA ObservationSays ==
    ASSUME NEW k, NEW c, NEW value
    PROVE  LET f == Observation(k, c, value) IN
           f.control = c /\ f.at = At(k) /\ (k # Main /\ c \in BucketControls => f.resource = k)
  BY DEF Observation, FindingOf, Finding, Resource, PlaceOf

LEMMA ChangeSays ==
    ASSUME NEW k, NEW c, NEW value
    PROVE  LET f == Change(k, c, value) IN
           f.control = c /\ f.at = At(k) /\ (k # Main /\ c \in BucketControls => f.resource = k)
  BY DEF Change, FindingOf, Finding, Resource, PlaceOf

LEMMA SkipThread ==
    ASSUME SkipInv, NEW k \in Thread, ThreadStep(k)
    PROVE  VisitOK' /\ ReportOK'
<1>1. PICK c \in Control : Inspect(k, c) \/ ReadSetting(k, c) \/ PutSetting(k, c) \/ PutFails(k, c)
  BY DEF ThreadStep
<1>2. c \in todo[k] /\ phase # "failed" /\ (k # Main => c \in BucketControls)
  BY <1>1, WorkPhase DEF Inspect, ReadSetting, PutSetting, PutFails, IsNext, SkipInv, TypeInv, ThreadsOK, Thread
<1>3. CASE Abandon
  BY <1>2, <1>3, SkipAbandon
<1>4. CASE ~Abandon
  <2>1. UNCHANGED <<phase, visit, region, report, queued>>
    BY <1>1, <1>4 DEF Inspect, ReadSetting, PutSetting, PutFails
  <2>2. \/ UNCHANGED <<todo, batch>>
        \/ \E status : Report(k, c, FindingOf(k, c, status))
        \/ \E value : Report(k, c, Observation(k, c, value))
        \/ \E value : Report(k, c, Change(k, c, value))
    BY <1>1, <1>4 DEF Inspect, ReadSetting, PutSetting, PutFails
  <2>3. ASSUME NEW STATE f, Report(k, c, f), f.control = c, f.at = At(k),
               k # Main /\ c \in BucketControls => f.resource = k
        PROVE  VisitOK' /\ ReportOK'
    BY <1>2, <2>1, <2>3, SkipOne
  <2>4. CASE UNCHANGED <<todo, batch>>
    BY <2>1, <2>4, SkipReported
  <2>5. ASSUME NEW status, Report(k, c, FindingOf(k, c, status)) PROVE VisitOK' /\ ReportOK'
    <3> DEFINE f == FindingOf(k, c, status)
    <3>1. Report(k, c, f) /\ f.control = c /\ f.at = At(k)
          /\ (k # Main /\ c \in BucketControls => f.resource = k)
      BY <2>5, FindingSays
    <3> HIDE DEF f
    <3> QED
      BY <2>3, <3>1
  <2>6. ASSUME NEW value, Report(k, c, Observation(k, c, value)) PROVE VisitOK' /\ ReportOK'
    <3> DEFINE f == Observation(k, c, value)
    <3>1. Report(k, c, f) /\ f.control = c /\ f.at = At(k)
          /\ (k # Main /\ c \in BucketControls => f.resource = k)
      BY <2>6, ObservationSays
    <3> HIDE DEF f
    <3> QED
      BY <2>3, <3>1
  <2>7. ASSUME NEW value, Report(k, c, Change(k, c, value)) PROVE VisitOK' /\ ReportOK'
    <3> DEFINE f == Change(k, c, value)
    <3>1. Report(k, c, f) /\ f.control = c /\ f.at = At(k)
          /\ (k # Main /\ c \in BucketControls => f.resource = k)
      BY <2>7, ChangeSays
    <3> HIDE DEF f
    <3> QED
      BY <2>3, <3>1
  <2> QED
    BY <2>2, <2>4, <2>5, <2>6, <2>7
<1> QED
  BY <1>3, <1>4

LEMMA SkipPool ==
    ASSUME SkipInv, NEW b \in Bucket, StartBucket(b) \/ FinishBucket(b)
    PROVE  VisitOK' /\ ReportOK'
<1>1. phase = "buckets" /\ UNCHANGED <<phase, visit, region, report>>
  BY DEF StartBucket, FinishBucket, SkipInv, TypeInv, ThreadsOK
<1>2. ReportOK'
  BY <1>1 DEF SkipInv, ReportOK, Answered
<1>3. batch \subseteq batch' /\ \A d \in Bucket : d \in queued => d \in queued' \/ d = b
  BY DEF StartBucket, FinishBucket
<1>4. \A c, at : Has(batch, c, at) => Has(batch', c, at)
  BY <1>3 DEF Has
<1>5. \A c, d, at : HasBucket(batch, c, d, at) => HasBucket(batch', c, d, at)
  BY <1>3 DEF HasBucket
<1>6. \A d \in Bucket : d # b => todo'[d] = todo[d] /\ (d \in queued => d \in queued')
  BY DEF StartBucket, FinishBucket, SkipInv, TypeInv, RunTypeOK, Thread
<1>7. ASSUME NEW c \in Chosen(BucketControls), Owner[b] = Visits[visit]
      PROVE  b \in queued' \/ c \in todo'[b] \/ HasBucket(batch', c, b, <<visit, 0>>)
  <2>1. CASE FinishBucket(b)
    BY <1>1, <1>7, <2>1 DEF FinishBucket, SkipInv, VisitOK
  <2>2. CASE StartBucket(b) /\ b \notin Excluded
    BY <1>7, <2>2 DEF StartBucket, SkipInv, TypeInv, RunTypeOK, Thread
  <2>3. CASE StartBucket(b) /\ b \in Excluded
    <3>1. FindingOf(b, c, "skip") \in batch'
      BY <1>7, <2>3 DEF StartBucket
    <3>2. b # Main /\ c \in BucketControls /\ At(b) = <<visit, 0>>
      BY <1>1, <1>7, RunAssumption DEF Chosen, At
    <3>3. /\ FindingOf(b, c, "skip").control = c /\ FindingOf(b, c, "skip").resource = b
          /\ FindingOf(b, c, "skip").at = <<visit, 0>>
      BY <3>2, FindingSays
    <3> QED
      BY <3>1, <3>3 DEF HasBucket
  <2> QED
    BY <2>1, <2>2, <2>3
<1>8. \A d \in Bucket, c \in Chosen(BucketControls) : Owner[d] = Visits[visit] =>
          d \in queued' \/ c \in todo'[d] \/ HasBucket(batch', c, d, <<visit, 0>>)
  BY <1>1, <1>5, <1>6, <1>7 DEF SkipInv, VisitOK
<1>9. /\ \A c \in Chosen(ServiceControls), r \in DOMAIN Regions : Has(batch', c, <<visit, r>>)
      /\ \A c \in Chosen({"AWS-S3-001"}) : Has(batch', c, <<visit, 0>>)
  BY <1>1, <1>4 DEF SkipInv, VisitOK
<1>10. VisitOK'
  BY <1>1, <1>8, <1>9 DEF VisitOK
<1> QED
  BY <1>2, <1>10

LEMMA SkipFinish ==
    ASSUME SkipInv, FinishAccount
    PROVE  VisitOK' /\ ReportOK'
<1>1. PICK w : w = visit
  OBVIOUS
<1>2. phase = "buckets" /\ queued = {} /\ report' = report \cup batch /\ NextVisit
      /\ \A b \in Bucket : todo[b] = {}
  BY DEF FinishAccount, SkipInv, TypeInv, ThreadsOK
<1>3. \A c \in Chosen(ServiceControls), r \in DOMAIN Regions : Has(batch, c, <<w, r>>)
  BY <1>1, <1>2 DEF SkipInv, VisitOK
<1>4. \A c \in Chosen({"AWS-S3-001"}) : Has(batch, c, <<w, 0>>)
  BY <1>1, <1>2 DEF SkipInv, VisitOK
<1>5. \A b \in Bucket, c \in Chosen(BucketControls) :
        Owner[b] = Visits[w] => HasBucket(batch, c, b, <<w, 0>>)
  BY <1>1, <1>2 DEF SkipInv, VisitOK
<1>6. CoveredBy(batch, w)
  BY <1>3, <1>4, <1>5 DEF CoveredBy
<1>7. Answered(w)'
  BY <1>2, <1>6, CoveredGrows DEF Answered
<1> QED
  BY <1>1, <1>2, <1>7, SkipNextVisit

LEMMA SkipMain ==
    ASSUME SkipInv,
           \/ DiscoverAccounts \/ OpenAccount \/ AccountUnreachable
           \/ NextRegion \/ ListBuckets \/ ListBucketsFails
           \/ FinishAccount \/ WriteReport \/ WriteManifest
    PROVE  VisitOK' /\ ReportOK'
<1>1. ASSUME AccountUnreachable \/ ListBucketsFails PROVE VisitOK' /\ ReportOK'
  BY <1>1, SkipAbandon DEF AccountUnreachable, ListBucketsFails
<1>2. ASSUME UNCHANGED <<visit, report>>, phase # "failed",
             phase' \in {"open", "regions", "block", "buckets", "failed"} \/
                (phase \in {"report", "manifest"} /\ phase' \in {"manifest", "done"})
      PROVE  ReportOK'
  BY <1>2 DEF SkipInv, ReportOK, Answered
<1>3. ASSUME DiscoverAccounts PROVE VisitOK' /\ ReportOK'
  <2>1. VisitOK'
    BY <1>3 DEF DiscoverAccounts, SkipInv, VisitOK
  <2>2. \A v \in 1 .. visit - 1 : Answered(v)'
    <3> SUFFICES ASSUME NEW v \in 1 .. visit - 1 PROVE Answered(v)'
      OBVIOUS
    <3>1. Answered(v) /\ report \subseteq report'
      BY <1>3 DEF DiscoverAccounts, SkipInv, ReportOK
    <3> QED
      BY <3>1, ReportGrows
  <2>3. visit' = visit /\ phase' \in {"open", "failed"}
    BY <1>3 DEF DiscoverAccounts
  <2> QED
    BY <2>1, <2>2, <2>3 DEF ReportOK
<1>4. ASSUME OpenAccount PROVE VisitOK' /\ ReportOK'
  <2>1. phase' = "regions" /\ UNCHANGED <<visit, region, report>> /\ region = 1 /\ phase # "failed"
        /\ Chosen(ServiceControls) \subseteq todo'[Main]
    BY <1>4 DEF OpenAccount, SkipInv, VisitOK, TypeInv, RunTypeOK, Thread
  <2>2. VisitOK'
    BY <2>1 DEF VisitOK
  <2> QED
    BY <1>2, <2>1, <2>2
<1>5. ASSUME NextRegion PROVE VisitOK' /\ ReportOK'
  <2>1. phase = "regions" /\ todo[Main] = {} /\ UNCHANGED <<visit, report, batch>>
    BY <1>5 DEF NextRegion
  <2>2. \A c \in Chosen(ServiceControls), r \in 1 .. region : Has(batch, c, <<visit, r>>)
    BY <2>1 DEF SkipInv, VisitOK
  <2>3. CASE region < Len(Regions) /\ region' = region + 1 /\ phase' = phase
             /\ todo' = [todo EXCEPT ![Main] = Chosen(ServiceControls)]
    <3>1. todo'[Main] = Chosen(ServiceControls)
      BY <2>3 DEF SkipInv, TypeInv, RunTypeOK, Thread
    <3>2. \A r \in 1 .. region' : r = region' \/ r \in 1 .. region
      BY <2>3, Places DEF SkipInv
    <3>3. \A c \in Chosen(ServiceControls), r \in 1 .. region' :
              (r = region' /\ c \in todo'[Main]) \/ Has(batch', c, <<visit', r>>)
      BY <2>1, <2>2, <3>1, <3>2
    <3>4. phase' = "regions"
      BY <2>1, <2>3
    <3>5. VisitOK'
      BY <3>3, <3>4 DEF VisitOK, Has
    <3> QED
      BY <1>2, <2>1, <3>4, <3>5
  <2>4. CASE region = Len(Regions) /\ phase' = (IF S3Selected THEN "block" ELSE "buckets")
             /\ todo' = [todo EXCEPT ![Main] = IF S3Selected THEN Chosen({"AWS-S3-001"}) ELSE {}]
    <3>1. \A c \in Chosen(ServiceControls), r \in DOMAIN Regions : Has(batch', c, <<visit', r>>)
      BY <2>1, <2>2, <2>4, Places DEF SkipInv
    <3>2. CASE S3Selected
      <4>1. phase' = "block" /\ todo'[Main] = Chosen({"AWS-S3-001"})
        BY <2>4, <3>2 DEF SkipInv, TypeInv, RunTypeOK, Thread
      <4>2. VisitOK'
        BY <3>1, <4>1 DEF VisitOK, Has
      <4> QED
        BY <1>2, <2>1, <4>1, <4>2
    <3>3. CASE ~S3Selected
      <4>1. Chosen({"AWS-S3-001"}) = {} /\ Chosen(BucketControls) = {}
        BY <3>3 DEF S3Selected, Chosen, S3Controls
      <4>2. phase' = "buckets"
        BY <2>4, <3>3
      <4>3. VisitOK'
        BY <3>1, <4>1, <4>2 DEF VisitOK, Has
      <4> QED
        BY <1>2, <2>1, <4>2, <4>3
    <3> QED
      BY <3>2, <3>3
  <2> QED
    BY <1>5, <2>3, <2>4 DEF NextRegion
<1>6. ASSUME ListBuckets PROVE VisitOK' /\ ReportOK'
  <2>1. phase = "block" /\ phase' = "buckets" /\ todo[Main] = {} /\ UNCHANGED <<visit, report, batch>>
        /\ queued' = {b \in Bucket : Owner[b] = Visits[visit]}
    BY <1>6 DEF ListBuckets
  <2>2. VisitOK'
    BY <2>1 DEF SkipInv, VisitOK, Has
  <2> QED
    BY <1>2, <2>1, <2>2
<1>7. ASSUME WriteReport \/ WriteManifest PROVE VisitOK' /\ ReportOK'
  <2>1. phase \in {"report", "manifest"} /\ phase' \in {"manifest", "done", "failed"}
        /\ UNCHANGED <<visit, report>>
    BY <1>7 DEF WriteReport, WriteManifest
  <2>2. VisitOK'
    BY <2>1 DEF VisitOK
  <2> QED
    BY <1>2, <2>1, <2>2
<1> QED
  BY <1>1, <1>3, <1>4, <1>5, <1>6, <1>7, SkipFinish

LEMMA SkipStep == SkipInv /\ [RunNext]_runVars => SkipInv'
<1> SUFFICES ASSUME SkipInv, [RunNext]_runVars PROVE SkipInv'
  OBVIOUS
<1>1. TypeInv'
  BY TypeStep DEF SkipInv
<1>2. ASSUME Crash PROVE VisitOK' /\ ReportOK'
  BY <1>2 DEF Crash, VisitOK, ReportOK
<1>3. ASSUME (Drift /\ UNCHANGED runOnly) \/ UNCHANGED runVars PROVE VisitOK' /\ ReportOK'
  <2>1. UNCHANGED <<phase, visit, region, report, queued, todo, batch>>
    BY <1>3 DEF runOnly, runVars
  <2> QED
    BY <2>1, SkipReported
<1>4. VisitOK' /\ ReportOK'
  BY <1>2, <1>3, SkipThread, SkipPool, SkipMain DEF RunNext, MainStep, WorkerStep, Thread
<1> QED
  BY <1>1, <1>4 DEF SkipInv

\* A run that gets to its report has a finding of every selected control in every
\* account, region and bucket, or the error of an account that was given up.
THEOREM NothingIsSkipped == RunSpec => []NothingSkipped
<1>1. RunInit => SkipInv
  <2> SUFFICES ASSUME RunInit PROVE SkipInv
    OBVIOUS
  <2>1. visit = 1 /\ region = 1 /\ phase \in {"org", "open"} /\ TypeInv
    BY InitTyped DEF RunInit
  <2> QED
    BY <2>1 DEF SkipInv, VisitOK, ReportOK
<1>2. SkipInv => NothingSkipped
  <2> SUFFICES ASSUME SkipInv, phase \in {"report", "manifest", "done"}, NEW v \in DOMAIN Visits
               PROVE  Answered(v)
    BY DEF NothingSkipped, Answered, Covered, CoveredBy, Has, HasBucket
  <2>1. v \in 1 .. visit - 1 \/ v = visit
    BY Places DEF SkipInv, ReportOK
  <2> QED
    BY <2>1 DEF SkipInv, ReportOK
<1> QED
  BY <1>1, <1>2, SkipStep, PTL DEF RunSpec
-----------------------------------------------------------------------------
(* Who writes. *)

\* A thread writes what it has read, and keeps what it has read only in order to write.
LEMMA ThreadWrites ==
    ASSUME TypeInv, NEW k \in Thread, ThreadStep(k), mode # "apply"
    PROVE  UNCHANGED puts
<1>1. PICK c \in Control : Inspect(k, c) \/ ReadSetting(k, c) \/ PutSetting(k, c) \/ PutFails(k, c)
  BY DEF ThreadStep
<1>2. CASE Inspect(k, c) \/ ReadSetting(k, c)
  BY <1>2 DEF Inspect, ReadSetting
<1>3. CASE PutSetting(k, c) \/ PutFails(k, c)
  <2>1. IsNext(k, c) /\ seen[k] # NoValue
    BY <1>3 DEF PutSetting, PutFails
  <2> QED
    BY <2>1, AboutToWrite DEF WillPut
<1> QED
  BY <1>1, <1>2, <1>3

\* No step changes the mode, and only apply writes.
LEMMA OnlyApplyPuts ==
    ASSUME TypeInv, [RunNext]_runVars
    PROVE  mode' = mode /\ (mode # "apply" => UNCHANGED puts)
<1>1. ASSUME NEW k \in Thread, ThreadStep(k)
      PROVE  mode' = mode /\ (mode # "apply" => UNCHANGED puts)
  BY <1>1, ThreadWrites DEF ThreadStep, Inspect, ReadSetting, PutSetting, PutFails, Abandon
<1>2. ASSUME \/ DiscoverAccounts \/ OpenAccount \/ AccountUnreachable
             \/ NextRegion \/ ListBuckets \/ ListBucketsFails
             \/ FinishAccount \/ WriteReport \/ WriteManifest
      PROVE  UNCHANGED <<mode, puts>>
  BY <1>2 DEF DiscoverAccounts, OpenAccount, AccountUnreachable, NextRegion, ListBuckets,
              ListBucketsFails, FinishAccount, WriteReport, WriteManifest, Abandon
<1>3. ASSUME NEW b \in Bucket, StartBucket(b) \/ FinishBucket(b) PROVE UNCHANGED <<mode, puts>>
  BY <1>3 DEF StartBucket, FinishBucket
<1>4. CASE Crash
  BY <1>4 DEF Crash
<1>5. CASE Drift /\ UNCHANGED runOnly
  BY <1>5 DEF runOnly
<1> QED
  BY <1>1, <1>2, <1>3, <1>4, <1>5 DEF RunNext, MainStep, WorkerStep, Thread, runVars

\* Audit and plan call no mutation API (README.md, "Plan manifests contain the proposed
\* before/after values and do not call mutation APIs"), whatever controls, accounts and
\* regions are selected.
THEOREM OnlyApplyWrites == RunSpec => [][mode # "apply" => UNCHANGED puts]_runVars
<1>1. TypeInv /\ [RunNext]_runVars => [mode # "apply" => UNCHANGED puts]_runVars
  BY OnlyApplyPuts
<1> QED
  BY <1>1, InitTyped, TypeStep, PTL DEF RunSpec
=============================================================================
