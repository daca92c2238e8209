-------------------------- MODULE AwsRemediationProofs --------------------------
(***************************************************************************)
(* Theorems about AwsRemediation: a run and the rollbacks of its file, for *)
(* every list of accounts and regions, every pool, and any number of       *)
(* attempts, failures and changes by others.                               *)
(***************************************************************************)
EXTENDS AwsRemediation, AwsRunProofs, AwsRollbackProofs

-----------------------------------------------------------------------------
(* The order of the writes of a run. *)

\* The order of places in the list of findings.
Earlier(a, b) == a[1] < b[1] \/ (a[1] = b[1] /\ a[2] < b[2])

\* A setting that was not written is as it was, and one that was is as apply leaves it.
CloudAsWritten ==
    \A t \in Target \ drifted :
        IF \E p \in puts : p.target = t THEN cloud[t] = Desired(t[1])
        ELSE cloud[t] = original[t]

\* A write that replaced a setting that is not compliant, and that nobody else changed,
\* replaced what was there before the run, and no other write of that setting came before.
FirstWrite ==
    \A p \in puts : p.target \notin drifted /\ ~Compliant(p.old) =>
        /\ p.old = original[p.target]
        /\ \A q \in puts : p # q /\ p.target = q.target => Earlier(p.at, q.at)

\* What a run wrote was read as a value of the setting, one that is not compliant.
ReadNonCompliant ==
    \A p \in puts : p.before \in Settings(p.target[1]) /\ ~Compliant(p.before)

\* What a thread is going to write comes after what was written.
WritesToCome ==
    \A k \in Thread : \A c \in todo[k] \cap Remediable : \A q \in puts :
        q.target = TargetOf(k, c) => Earlier(q.at, At(k))

\* Where the writes of the visit can be, by the phase of the visit.
WritesBefore ==
    /\ phase = "org" => puts = {}
    /\ phase = "regions" => "AWS-S3-001" \notin todo[Main]
    /\ phase = "block" => todo[Main] \subseteq {"AWS-S3-001"}
    /\ \A q \in puts :
          /\ q.at[1] <= visit
          /\ phase = "open" => q.at[1] < visit
          /\ phase = "regions" => q.at[1] < visit \/ (q.target[1] \in RegionRemediable /\ q.at[2] <= region)
          /\ phase = "block" => q.at[1] < visit \/ q.target[1] \notin BucketRemediable
          /\ \A b \in queued : q.at[1] < visit \/ q.target[1] \notin BucketRemediable \/ q.target[3] # b

OrderOK == CloudAsWritten /\ FirstWrite /\ ReadNonCompliant /\ WritesToCome /\ WritesBefore

\* No finding of a run has the identifier of what was created.
NoIds == \A f \in batch \cup report : ~f.id

OrderInv == ManifestInv /\ OrderOK /\ NoIds

-----------------------------------------------------------------------------

LEMMA DesiredCompliant == \A c \in Remediable : Compliant(Desired(c))
  BY DEF Remediable, RegionRemediable, BucketRemediable, Desired, Compliant

LEMMA PutParts ==
    ASSUME TypeInv, NEW p \in puts
    PROVE  /\ p.target \in Target /\ p.old \in Value /\ p.before \in Value
           /\ p.at[1] \in Nat /\ p.at[2] \in Nat
  BY DEF TypeInv, RunTypeOK, PutSet

LEMMA Counters ==
    ASSUME TypeInv
    PROVE  visit \in Nat /\ region \in Nat /\ Len(Visits) \in Nat /\ Len(Regions) \in Nat
  BY RunAssumption DEF TypeInv, RunTypeOK

\* Steps that write nothing.
LEMMA QuietWrites ==
    ASSUME OrderOK, UNCHANGED <<cloud, drifted, puts, original>>
    PROVE  CloudAsWritten' /\ FirstWrite' /\ ReadNonCompliant'
  BY DEF OrderOK, CloudAsWritten, FirstWrite, ReadNonCompliant

LEMMA SamePlace ==
    ASSUME OrderInv, UNCHANGED <<puts, visit, region, phase, queued>>,
           \A k \in Thread : todo'[k] \subseteq todo[k]
    PROVE  WritesToCome' /\ WritesBefore'
<1>1. \A k \in Thread : At(k)' = At(k)
  BY DEF At
<1>2. \A k \in Thread, c \in Remediable : TargetOf(k, c)' = TargetOf(k, c)
  BY DEF TargetOf, AccountOf, PlaceOf
<1>3. WritesToCome'
  BY <1>1, <1>2 DEF OrderInv, OrderOK, WritesToCome
<1>4. WritesBefore'
  BY DEF OrderInv, OrderOK, WritesBefore, Thread
<1> QED
  BY <1>3, <1>4

\* A write, of which p is the record.
LEMMA PutWrites ==
    ASSUME OrderInv, NEW k \in Thread, NEW c \in Control, IsNext(k, c), seen[k] # NoValue,
           NEW acked \in BOOLEAN, Put(k, c, acked), UNCHANGED <<drifted, original>>
    PROVE  CloudAsWritten' /\ FirstWrite' /\ ReadNonCompliant'
<1> DEFINE t == TargetOf(k, c)
           p == [target |-> t, old |-> cloud[t], before |-> seen[k], acked |-> acked, at |-> At(k)]
<1>1. c \in todo[k] /\ c \in Remediable /\ ~Compliant(seen[k]) /\ seen[k] \in Settings(c)
  BY AboutToWrite DEF OrderInv, ManifestInv, WillPut
<1>2. t \in Target /\ t[1] = c
  BY <1>1, TargetTyped DEF OrderInv, ManifestInv, TargetOf
<1>3. puts' = puts \cup {p} /\ cloud' = [cloud EXCEPT ![t] = Desired(c)]
  BY DEF Put
<1>4. p.target = t /\ p.old = cloud[t] /\ p.before = seen[k] /\ p.at = At(k)
  OBVIOUS
<1>5. \A u \in Target : cloud'[u] = IF u = t THEN Desired(c) ELSE cloud[u]
  BY <1>3 DEF OrderInv, ManifestInv, TypeInv, RunTypeOK, CloudTypeOK, CloudOK
<1>6. CloudAsWritten'
  <2> SUFFICES ASSUME NEW u \in Target \ drifted
               PROVE  IF \E q \in puts' : q.target = u THEN cloud'[u] = Desired(u[1])
                      ELSE cloud'[u] = original'[u]
    BY DEF CloudAsWritten
  <2>1. CASE u = t
    BY <1>2, <1>3, <1>4, <1>5, <2>1
  <2>2. CASE u # t
    <3>1. (\E q \in puts' : q.target = u) <=> (\E q \in puts : q.target = u)
      BY <1>3, <1>4, <2>2
    <3> QED
      BY <1>5, <2>2, <3>1 DEF OrderInv, OrderOK, CloudAsWritten
  <2> QED
    BY <2>1, <2>2
<1>7. FirstWrite'
  <2> SUFFICES ASSUME NEW q \in puts', q.target \notin drifted, ~Compliant(q.old)
               PROVE  /\ q.old = original[q.target]
                      /\ \A r \in puts' : q # r /\ q.target = r.target => Earlier(q.at, r.at)
    BY DEF FirstWrite
  <2>1. CASE q \in puts
    <3>1. /\ q.old = original[q.target]
          /\ \A r \in puts : q # r /\ q.target = r.target => Earlier(q.at, r.at)
      BY <2>1 DEF OrderInv, OrderOK, FirstWrite
    <3>2. q.target = t => Earlier(q.at, p.at)
      BY <1>1, <1>4, <2>1 DEF OrderInv, OrderOK, WritesToCome
    <3> QED
      BY <1>3, <1>4, <3>1, <3>2
  <2>2. CASE q = p
    <3>1. \A r \in puts : r.target # t
      <4> SUFFICES ASSUME NEW r \in puts, r.target = t PROVE FALSE
        OBVIOUS
      <4>1. cloud[t] = Desired(c)
        BY <1>2, <1>4, <2>2 DEF OrderInv, OrderOK, CloudAsWritten
      <4> QED
        BY <1>1, <1>4, <2>2, <4>1, DesiredCompliant
    <3>2. cloud[t] = original[t]
      BY <1>2, <1>4, <2>2, <3>1 DEF OrderInv, OrderOK, CloudAsWritten
    <3> QED
      BY <1>3, <1>4, <2>2, <3>1, <3>2
  <2> QED
    BY <1>3, <2>1, <2>2
<1>8. ReadNonCompliant'
  BY <1>1, <1>2, <1>3, <1>4 DEF OrderInv, OrderOK, ReadNonCompliant
<1> QED
  BY <1>6, <1>7, <1>8

\* After it the thread has other settings to write, and the others have theirs.
LEMMA PutToCome ==
    ASSUME OrderInv, NEW k \in Thread, NEW c \in Control, IsNext(k, c), seen[k] # NoValue,
           NEW acked \in BOOLEAN, Put(k, c, acked),
           todo' = [todo EXCEPT ![k] = @ \ {c}],
           UNCHANGED <<visit, region, phase, queued>>
    PROVE  WritesToCome' /\ WritesBefore'
<1> DEFINE t == TargetOf(k, c)
           p == [target |-> t, old |-> cloud[t], before |-> seen[k], acked |-> acked, at |-> At(k)]
<1>0. TypeInv
  BY DEF OrderInv, ManifestInv
<1>1. c \in todo[k] /\ c \in Remediable
  BY <1>0, AboutToWrite
<1>2. t[1] = c /\ t[3] = PlaceOf(k, c)
  BY DEF TargetOf
<1>3. puts' = puts \cup {p} /\ p.target = t /\ p.at = At(k)
  BY DEF Put
<1> HIDE DEF p
<1>4. \A j \in Thread : todo'[j] = IF j = k THEN todo[j] \ {c} ELSE todo[j]
  BY <1>0 DEF TypeInv, RunTypeOK
<1>5. \A j \in Thread : At(j)' = At(j)
  BY DEF At
<1>6. \A j \in Thread, d \in Remediable : TargetOf(j, d)' = TargetOf(j, d)
  BY DEF TargetOf, AccountOf, PlaceOf
<1>7. WritesToCome'
  <2> SUFFICES ASSUME NEW j \in Thread, NEW d \in todo'[j] \cap Remediable, NEW q \in puts',
                      q.target = TargetOf(j, d)'
               PROVE  Earlier(q.at, At(j)')
    BY DEF WritesToCome
  <2>1. d \in todo[j] /\ q.target = TargetOf(j, d)
    BY <1>4, <1>6
  <2>2. CASE q \in puts
    BY <1>5, <2>1, <2>2 DEF OrderInv, OrderOK, WritesToCome
  <2>3. CASE q = p
    <3>1. TargetOf(j, d) = TargetOf(k, c)
      BY <1>3, <2>1, <2>3
    <3>2. j = k
      BY <1>0, <1>1, <2>1, <3>1, TargetsDiffer
    <3>3. d # c
      BY <1>4, <3>2
    <3> QED
      BY <3>1, <3>3 DEF TargetOf
  <2> QED
    BY <1>3, <2>2, <2>3
<1>8. /\ phase # "org"
      /\ At(k)[1] = visit /\ phase # "regions" => At(k)[2] = 0
      /\ phase = "regions" => At(k)[1] = visit /\ At(k)[2] = region
  <2>1. c \notin OrgControls
    BY <1>1 DEF Remediable, RegionRemediable, BucketRemediable, OrgControls
  <2>2. phase # "org"
    <3>1. k \in Bucket => phase = "buckets"
      BY <1>0, <1>1 DEF TypeInv, ThreadsOK
    <3> QED
      BY <1>0, <1>1, <2>1, <3>1 DEF TypeInv, ThreadsOK, Thread
  <2> QED
    BY <2>2 DEF At
<1>9. At(k)[1] = visit
  BY <1>8 DEF At
<1>10. /\ phase = "regions" => c \in RegionRemediable
       /\ phase = "block" => c \notin BucketRemediable
       /\ \A b \in queued : c \in BucketRemediable => t[3] # b
  <2>1. CASE k = Main
    <3>1. c \notin BucketControls
      BY <1>0, <1>1, <2>1 DEF TypeInv, ThreadsOK
    <3>2. c \notin BucketRemediable
      BY <3>1 DEF BucketRemediable, BucketControls
    <3>3. phase = "regions" => c # "AWS-S3-001"
      BY <1>1, <2>1 DEF OrderInv, OrderOK, WritesBefore
    <3> QED
      BY <1>1, <3>2, <3>3 DEF Remediable
  <2>2. CASE k # Main
    <3>1. k \in Bucket /\ k \in running
      BY <1>0, <1>1, <2>2 DEF TypeInv, ThreadsOK, Thread
    <3>2. phase = "buckets" /\ k \notin queued
      BY <1>0, <3>1 DEF TypeInv, ThreadsOK
    <3>3. t[3] = k
      BY <1>2, <2>2 DEF PlaceOf
    <3> QED
      BY <3>2, <3>3
  <2> QED
    BY <2>1, <2>2
<1>11. WritesBefore'
  <2>1. \A q \in puts' :
          /\ q.at[1] <= visit
          /\ phase = "open" => q.at[1] < visit
          /\ phase = "regions" => q.at[1] < visit \/ (q.target[1] \in RegionRemediable /\ q.at[2] <= region)
          /\ phase = "block" => q.at[1] < visit \/ q.target[1] \notin BucketRemediable
          /\ \A b \in queued : q.at[1] < visit \/ q.target[1] \notin BucketRemediable \/ q.target[3] # b
    <3>1. ASSUME NEW q \in puts
          PROVE  /\ q.at[1] <= visit
                 /\ phase = "open" => q.at[1] < visit
                 /\ phase = "regions" => q.at[1] < visit \/ (q.target[1] \in RegionRemediable /\ q.at[2] <= region)
                 /\ phase = "block" => q.at[1] < visit \/ q.target[1] \notin BucketRemediable
                 /\ \A b \in queued : q.at[1] < visit \/ q.target[1] \notin BucketRemediable \/ q.target[3] # b
      BY DEF OrderInv, OrderOK, WritesBefore
    <3>2. phase # "open"
      BY <1>0, <1>1, WorkPhase
    <3>3. p.at[1] <= visit /\ (phase = "regions" => p.at[2] <= region)
      BY <1>0, <1>3, <1>8, <1>9, Counters
    <3>4. /\ phase = "regions" => p.target[1] \in RegionRemediable
          /\ phase = "block" => p.target[1] \notin BucketRemediable
          /\ \A b \in queued : p.target[1] \notin BucketRemediable \/ p.target[3] # b
      BY <1>2, <1>3, <1>10
    <3> QED
      BY <1>3, <3>1, <3>2, <3>3, <3>4
  <2>2. /\ phase = "regions" => "AWS-S3-001" \notin todo'[Main]
        /\ phase = "block" => todo'[Main] \subseteq {"AWS-S3-001"}
    BY <1>4 DEF OrderInv, OrderOK, WritesBefore, Thread
  <2> QED
    BY <1>8, <2>1, <2>2 DEF WritesBefore
<1> QED
  BY <1>7, <1>11

\* The end of a visit, or of the run.
LEMMA VisitOver ==
    ASSUME TypeInv, \A q \in puts' : q.at[1] \in Nat /\ q.at[1] <= visit,
           NextVisit \/ (phase' = "failed" /\ visit' = visit),
           \A k \in Thread : todo'[k] = {}, queued' = {}
    PROVE  WritesToCome' /\ WritesBefore'
<1>1. visit \in Nat
  BY Counters
<1>2. WritesToCome'
  BY DEF WritesToCome
<1>3. CASE NextVisit
  <2>1. (visit' = visit + 1 /\ phase' = "open") \/ (visit' = visit /\ phase' = "report")
    BY <1>3 DEF NextVisit
  <2> QED
    BY <1>1, <2>1, <1>2 DEF WritesBefore
<1>4. CASE phase' = "failed" /\ visit' = visit
  BY <1>2, <1>4 DEF WritesBefore
<1> QED
  BY <1>3, <1>4

-----------------------------------------------------------------------------
(* The steps of a run. *)

\* Before a visit, a bucket that is not being worked on has nothing to do.
LEMMA BucketsIdle ==
    ASSUME TypeInv, NEW b \in Bucket, phase # "buckets" \/ b \notin running
    PROVE  todo[b] = {}
  BY DEF TypeInv, ThreadsOK

LEMMA OrderThread ==
    ASSUME OrderInv, NEW k \in Thread, ThreadStep(k), original' = original
    PROVE  OrderOK'
<1>1. PICK c \in Control : Inspect(k, c) \/ ReadSetting(k, c) \/ PutSetting(k, c) \/ PutFails(k, c)
  BY DEF ThreadStep
<1>2. TypeInv
  BY DEF OrderInv, ManifestInv
<1>3. ASSUME NEW f, Report(k, c, f) \/ UNCHANGED todo
      PROVE  \A j \in Thread : todo'[j] \subseteq todo[j]
  BY <1>2, <1>3 DEF Report, TypeInv, RunTypeOK
<1>4. ASSUME Inspect(k, c) \/ ReadSetting(k, c)
      PROVE  OrderOK'
  <2>1. /\ UNCHANGED <<cloud, drifted, puts, visit, region, phase, queued>>
        /\ UNCHANGED todo \/ \E f : Report(k, c, f)
    BY <1>4 DEF Inspect, ReadSetting
  <2> QED
    BY <1>3, <2>1, QuietWrites, SamePlace DEF OrderInv, OrderOK
<1>5. ASSUME PutSetting(k, c)
      PROVE  OrderOK'
  <2>1. /\ IsNext(k, c) /\ seen[k] # NoValue /\ Put(k, c, TRUE)
        /\ todo' = [todo EXCEPT ![k] = @ \ {c}]
        /\ UNCHANGED <<drifted, visit, region, phase, queued>>
    BY <1>5 DEF PutSetting, Report
  <2> QED
    BY <2>1, PutWrites, PutToCome DEF OrderOK
<1>6. ASSUME PutFails(k, c)
      PROVE  OrderOK'
  <2>1. IsNext(k, c) /\ seen[k] # NoValue /\ drifted' = drifted
    BY <1>6 DEF PutFails, Abandon
  <2>2. UNCHANGED <<cloud, puts>> \/ Put(k, c, FALSE)
    BY <1>6 DEF PutFails
  <2>3. CloudAsWritten' /\ FirstWrite' /\ ReadNonCompliant'
    BY <2>1, <2>2, PutWrites, QuietWrites DEF OrderInv, OrderOK
  <2>4. WritesToCome' /\ WritesBefore'
    <3>1. CASE Abandon
      <4>1. visit \in Nat /\ At(k)[1] <= visit /\ At(k)[1] \in Nat
        BY <1>2, Counters DEF At
      <4>2. \A q \in puts : q.at[1] <= visit /\ q.at[1] \in Nat
        BY <1>2, PutParts DEF OrderInv, OrderOK, WritesBefore
      <4>3. \A q \in puts' : q.at[1] \in Nat /\ q.at[1] <= visit
        BY <2>2, <4>1, <4>2 DEF Put
      <4>4. (NextVisit \/ (phase' = "failed" /\ visit' = visit)) /\ \A j \in Thread : todo'[j] = {}
        BY <3>1 DEF Abandon
      <4>5. queued' = {}
        <5>1. c = "AWS-S3-001"
          <6>1. todo[k] # {}
            BY <2>1 DEF IsNext
          <6>2. c # "AWS-S3-001" => UNCHANGED <<visit, phase>>
            BY <1>6 DEF PutFails
          <6>3. phase \notin {"open", "report", "failed"}
            BY <1>2, <6>1, WorkPhase
          <6> QED
            BY <3>1, <6>2, <6>3 DEF Abandon, NextVisit
        <5>2. k = Main
          BY <1>2, <2>1, <5>1 DEF IsNext, TypeInv, ThreadsOK, Thread, BucketControls
        <5>3. queued = {}
          BY <1>2, <2>1, <5>2 DEF IsNext, TypeInv, ThreadsOK
        <5> QED
          BY <3>1, <5>3 DEF Abandon
      <4> QED
        BY <1>2, <4>3, <4>4, <4>5, VisitOver
    <3>2. CASE ~Abandon
      <4>1. /\ todo' = [todo EXCEPT ![k] = @ \ {c}]
            /\ UNCHANGED <<visit, region, phase, queued>>
        BY <1>6, <3>2 DEF PutFails, Report
      <4>2. CASE UNCHANGED <<cloud, puts>>
        <5>1. \A j \in Thread : todo'[j] \subseteq todo[j]
          BY <1>2, <4>1 DEF TypeInv, RunTypeOK
        <5> QED
          BY <4>1, <4>2, <5>1, SamePlace
      <4>3. CASE Put(k, c, FALSE)
        BY <2>1, <4>1, <4>3, PutToCome
      <4> QED
        BY <2>2, <4>2, <4>3
    <3> QED
      BY <3>1, <3>2
  <2> QED
    BY <2>3, <2>4 DEF OrderOK
<1> QED
  BY <1>1, <1>4, <1>5, <1>6

LEMMA OrderOpen ==
    ASSUME OrderInv, DiscoverAccounts \/ OpenAccount
    PROVE  WritesToCome' /\ WritesBefore'
<1>1. TypeInv /\ WritesBefore
  BY DEF OrderInv, ManifestInv, OrderOK
<1>2. CASE DiscoverAccounts
  <2>1. puts = {} /\ puts' = {}
    BY <1>1, <1>2 DEF DiscoverAccounts, WritesBefore
  <2>2. phase' \in {"open", "failed"}
    BY <1>2 DEF DiscoverAccounts
  <2> QED
    BY <2>1, <2>2 DEF WritesToCome, WritesBefore
<1>3. CASE OpenAccount
  <2>1. /\ phase = "open" /\ phase' = "regions" /\ UNCHANGED <<puts, visit, region, queued>>
        /\ todo'[Main] \subseteq ServiceControls \cup OrgControls
        /\ \A b \in Bucket : todo'[b] = todo[b]
    BY <1>1, <1>3, RunAssumption DEF OpenAccount, Chosen, TypeInv, RunTypeOK, Thread
  <2>2. \A q \in puts : q.at[1] < visit
    BY <1>1, <2>1 DEF WritesBefore
  <2>3. \A b \in Bucket : todo'[b] = {}
    BY <1>1, <2>1, BucketsIdle
  <2>4. WritesToCome'
    BY <2>1, <2>2, <2>3 DEF WritesToCome, Earlier, At, Thread
  <2>5. "AWS-S3-001" \notin todo'[Main]
    BY <2>1 DEF ServiceControls, OrgControls
  <2>6. queued = {}
    BY <1>1, <2>1 DEF TypeInv, ThreadsOK
  <2>7. visit \in Nat /\ \A q \in puts : q.at[1] \in Nat
    BY <1>1, Counters, PutParts
  <2> QED
    BY <2>1, <2>2, <2>4, <2>5, <2>6, <2>7 DEF WritesBefore
<1> QED
  BY <1>2, <1>3

LEMMA OrderRegion ==
    ASSUME OrderInv, NextRegion
    PROVE  WritesToCome' /\ WritesBefore'
<1>1. TypeInv /\ WritesBefore
  BY DEF OrderInv, ManifestInv, OrderOK
<1>2. /\ phase = "regions" /\ todo[Main] = {} /\ UNCHANGED <<puts, visit, queued>>
      /\ visit \in Nat /\ region \in Nat
  BY <1>1, Counters DEF NextRegion
<1>3. \A q \in puts : /\ q.at[1] \in Nat /\ q.at[2] \in Nat /\ q.at[1] <= visit
                      /\ q.at[1] < visit \/ (q.target[1] \in RegionRemediable /\ q.at[2] <= region)
  BY <1>1, <1>2, PutParts DEF WritesBefore
<1>4. queued = {} /\ \A b \in Bucket : todo[b] = {}
  BY <1>1, <1>2, BucketsIdle DEF TypeInv, ThreadsOK
<1>5. \A b \in Bucket : todo'[b] = {}
  BY <1>1, <1>4, RunAssumption DEF NextRegion, TypeInv, RunTypeOK, Thread
<1>6. CASE region' = region + 1 /\ todo' = [todo EXCEPT ![Main] = Chosen(ServiceControls)] /\ UNCHANGED phase
  <2>1. todo'[Main] \subseteq ServiceControls
    BY <1>1, <1>6 DEF TypeInv, RunTypeOK, Thread, Chosen
  <2>2. At(Main)' = <<visit, region + 1>>
    BY <1>2, <1>6 DEF At
  <2>3. WritesToCome'
    BY <1>2, <1>3, <1>5, <2>2 DEF WritesToCome, Earlier, Thread
  <2>4. "AWS-S3-001" \notin todo'[Main]
    BY <2>1 DEF ServiceControls
  <2>5. \A q \in puts : q.at[1] < visit \/ (q.target[1] \in RegionRemediable /\ q.at[2] <= region + 1)
    BY <1>2, <1>3
  <2> QED
    BY <1>2, <1>3, <1>4, <1>6, <2>3, <2>4, <2>5 DEF WritesBefore
<1>7. CASE /\ phase' = IF S3Selected THEN "block" ELSE "buckets"
           /\ todo' = [todo EXCEPT ![Main] = IF S3Selected THEN Chosen({"AWS-S3-001"}) ELSE {}]
  <2>1. todo'[Main] \subseteq {"AWS-S3-001"} /\ phase' \in {"block", "buckets"}
    BY <1>1, <1>7 DEF TypeInv, RunTypeOK, Thread, Chosen
  <2>2. At(Main)' = <<visit, 0>>
    BY <1>2, <2>1 DEF At
  <2>3. ASSUME NEW q \in puts, q.target[1] = "AWS-S3-001"
        PROVE  q.at[1] < visit
    BY <1>3, <2>3 DEF RegionRemediable
  <2>4. \A c : TargetOf(Main, c)'[1] = c
    BY DEF TargetOf
  <2>5. WritesToCome'
    BY <1>2, <1>5, <2>1, <2>2, <2>3, <2>4 DEF WritesToCome, Earlier, Thread
  <2>6. RegionRemediable \cap BucketRemediable = {}
    BY DEF RegionRemediable, BucketRemediable
  <2> QED
    BY <1>2, <1>3, <1>4, <2>1, <2>5, <2>6 DEF WritesBefore
<1> QED
  BY <1>6, <1>7 DEF NextRegion

LEMMA OrderBuckets ==
    ASSUME OrderInv, ListBuckets \/ WriteReport \/ WriteManifest
    PROVE  WritesToCome' /\ WritesBefore'
<1>1. TypeInv /\ WritesBefore
  BY DEF OrderInv, ManifestInv, OrderOK
<1>2. \A q \in puts : q.at[1] \in Nat /\ q.at[1] <= visit
  BY <1>1, PutParts DEF WritesBefore
<1>3. UNCHANGED <<puts, visit, todo>> /\ phase \in {"block", "report", "manifest"}
  BY DEF ListBuckets, WriteReport, WriteManifest
<1>4. \A k \in Thread : todo'[k] = {}
  <2>1. todo[Main] = {}
    BY <1>1, <1>3 DEF ListBuckets, WriteReport, WriteManifest, TypeInv, ThreadsOK
  <2> QED
    BY <1>1, <1>3, <2>1, BucketsIdle DEF Thread
<1>5. WritesToCome'
  BY <1>4 DEF WritesToCome
<1>6. CASE ListBuckets
  <2>1. phase = "block" /\ phase' = "buckets"
    BY <1>6 DEF ListBuckets
  <2>2. \A q \in puts : q.at[1] < visit \/ q.target[1] \notin BucketRemediable
    BY <1>1, <2>1 DEF WritesBefore
  <2> QED
    BY <1>2, <1>3, <1>5, <2>1, <2>2 DEF WritesBefore
<1>7. CASE WriteReport \/ WriteManifest
  <2>1. phase' \in {"manifest", "done", "failed"} /\ queued' = queued
    BY <1>7 DEF WriteReport, WriteManifest
  <2>2. queued = {}
    BY <1>1, <1>7 DEF WriteReport, WriteManifest, TypeInv, ThreadsOK
  <2> QED
    BY <1>2, <1>3, <1>5, <2>1, <2>2 DEF WritesBefore
<1> QED
  BY <1>6, <1>7

LEMMA OrderLeave ==
    ASSUME OrderInv, AccountUnreachable \/ ListBucketsFails \/ FinishAccount \/ Crash
    PROVE  WritesToCome' /\ WritesBefore'
<1>1. TypeInv /\ WritesBefore
  BY DEF OrderInv, ManifestInv, OrderOK
<1>2. \A q \in puts' : q.at[1] \in Nat /\ q.at[1] <= visit
  BY <1>1, PutParts DEF WritesBefore, AccountUnreachable, ListBucketsFails, FinishAccount, Crash
<1>3. NextVisit \/ (phase' = "failed" /\ visit' = visit)
  BY DEF AccountUnreachable, ListBucketsFails, FinishAccount, Crash, Abandon
<1>4. \A k \in Thread : todo'[k] = {}
  <2>1. CASE FinishAccount
    <3>1. phase = "buckets" /\ running = {} /\ todo' = todo
      BY <2>1 DEF FinishAccount
    <3>2. todo[Main] = {}
      BY <1>1, <3>1 DEF TypeInv, ThreadsOK
    <3> QED
      BY <1>1, <3>1, <3>2, BucketsIdle DEF Thread
  <2>2. CASE AccountUnreachable \/ ListBucketsFails \/ Crash
    BY <2>2 DEF AccountUnreachable, ListBucketsFails, Crash, Abandon
  <2> QED
    BY <2>1, <2>2
<1>5. queued' = {}
  BY <1>1 DEF AccountUnreachable, ListBucketsFails, FinishAccount, Crash, Abandon, TypeInv, ThreadsOK
<1> QED
  BY <1>1, <1>2, <1>3, <1>4, <1>5, VisitOver

LEMMA OrderPool ==
    ASSUME OrderInv, NEW b \in Bucket, StartBucket(b) \/ FinishBucket(b)
    PROVE  WritesToCome' /\ WritesBefore'
<1>1. TypeInv /\ WritesBefore
  BY DEF OrderInv, ManifestInv, OrderOK
<1>2. UNCHANGED <<puts, visit, region, phase>> /\ queued' \subseteq queued
  BY DEF StartBucket, FinishBucket
<1>3. CASE UNCHANGED todo
  <2>1. \A k \in Thread : At(k)' = At(k)
    BY <1>2 DEF At
  <2>2. \A k \in Thread, c \in Remediable : TargetOf(k, c)' = TargetOf(k, c)
    BY <1>2 DEF TargetOf, AccountOf, PlaceOf
  <2>3. WritesToCome'
    BY <1>2, <1>3, <2>1, <2>2 DEF OrderInv, OrderOK, WritesToCome
  <2> QED
    BY <1>1, <1>2, <1>3, <2>3 DEF WritesBefore
<1>4. CASE StartBucket(b) /\ todo' = [todo EXCEPT ![b] = Chosen(BucketControls)]
  <2>1. b \in queued /\ phase = "buckets" /\ b \in Thread
    BY <1>1, <1>4 DEF StartBucket, TypeInv, ThreadsOK, Thread
  <2>2. \A k \in Thread : At(k)' = At(k)
    BY <1>2 DEF At
  <2>3. \A k \in Thread, c \in Remediable : TargetOf(k, c)' = TargetOf(k, c)
    BY <1>2 DEF TargetOf, AccountOf, PlaceOf
  <2>4. ASSUME NEW c \in todo'[b] \cap Remediable, NEW q \in puts, q.target = TargetOf(b, c)
        PROVE  Earlier(q.at, At(b))
    <3>1. c \in BucketControls
      BY <1>1, <1>4, <2>1, <2>4 DEF TypeInv, RunTypeOK, Chosen
    <3>2. c \in BucketRemediable
      BY <2>4, <3>1 DEF Remediable, RegionRemediable, BucketControls
    <3>3. q.target[1] = c /\ q.target[3] = b
      BY <2>4, RunAssumption DEF TargetOf, PlaceOf
    <3>4. q.at[1] < visit
      BY <1>1, <2>1, <3>2, <3>3 DEF WritesBefore
    <3> QED
      BY <2>1, <3>4 DEF Earlier, At
  <2>5. WritesToCome'
    <3> SUFFICES ASSUME NEW k \in Thread, NEW c \in todo'[k] \cap Remediable, NEW q \in puts',
                        q.target = TargetOf(k, c)'
                 PROVE  Earlier(q.at, At(k)')
      BY DEF WritesToCome
    <3>1. q \in puts /\ q.target = TargetOf(k, c)
      BY <1>2, <2>3
    <3>2. CASE k = b
      BY <2>2, <2>4, <3>1, <3>2
    <3>3. CASE k # b
      <4>1. c \in todo[k]
        BY <1>1, <1>4, <3>3 DEF TypeInv, RunTypeOK
      <4> QED
        BY <2>2, <3>1, <4>1 DEF OrderInv, OrderOK, WritesToCome
    <3> QED
      BY <3>2, <3>3
  <2> QED
    BY <1>1, <1>2, <2>1, <2>5 DEF WritesBefore
<1> QED
  BY <1>3, <1>4 DEF StartBucket, FinishBucket

LEMMA OrderDrift ==
    ASSUME OrderOK, CloudOK, Drift, UNCHANGED <<puts, original>>
    PROVE  CloudAsWritten' /\ FirstWrite' /\ ReadNonCompliant'
<1>1. PICK t \in Contested \ drifted :
        drifted' = drifted \cup {t} /\ \E v : cloud' = [cloud EXCEPT ![t] = v]
  BY DEF Drift
<1>2. \A u \in Target \ drifted' : u \notin drifted /\ cloud'[u] = cloud[u]
  BY <1>1 DEF CloudOK
<1>3. CloudAsWritten'
  BY <1>2 DEF OrderOK, CloudAsWritten
<1>4. FirstWrite' /\ ReadNonCompliant'
  BY <1>1 DEF OrderOK, FirstWrite, ReadNonCompliant
<1> QED
  BY <1>3, <1>4

LEMMA OrderMain ==
    ASSUME OrderInv, original' = original,
           \/ DiscoverAccounts \/ OpenAccount \/ AccountUnreachable
           \/ NextRegion \/ ListBuckets \/ ListBucketsFails
           \/ FinishAccount \/ WriteReport \/ WriteManifest \/ Crash
           \/ \E b \in Bucket : StartBucket(b) \/ FinishBucket(b)
    PROVE  OrderOK'
<1>1. UNCHANGED <<cloud, drifted, puts>>
  BY DEF DiscoverAccounts, OpenAccount, AccountUnreachable, NextRegion, ListBuckets,
         ListBucketsFails, FinishAccount, WriteReport, WriteManifest, Crash, StartBucket,
         FinishBucket, Abandon
<1>2. CloudAsWritten' /\ FirstWrite' /\ ReadNonCompliant'
  BY <1>1, QuietWrites DEF OrderInv
<1>3. WritesToCome' /\ WritesBefore'
  BY OrderOpen, OrderRegion, OrderBuckets, OrderLeave, OrderPool
<1> QED
  BY <1>2, <1>3 DEF OrderOK

LEMMA OrderStep ==
    ASSUME OrderInv, [RunNext]_runVars, original' = original
    PROVE  OrderOK'
<1>1. ASSUME NEW k \in Thread, ThreadStep(k) PROVE OrderOK'
  BY <1>1, OrderThread
<1>2. ASSUME MainStep PROVE OrderOK'
  BY <1>1, <1>2, OrderMain DEF MainStep, Thread
<1>3. ASSUME NEW b \in Bucket, WorkerStep(b) PROVE OrderOK'
  BY <1>1, <1>3, OrderMain DEF WorkerStep, Thread
<1>4. ASSUME Drift, UNCHANGED runOnly PROVE OrderOK'
  <2>1. UNCHANGED <<puts, visit, region, phase, queued, todo>>
    BY <1>4 DEF runOnly
  <2>2. CloudOK
    BY DEF OrderInv, ManifestInv, TypeInv, RunTypeOK, CloudTypeOK
  <2> QED
    BY <1>4, <2>1, <2>2, OrderDrift, SamePlace DEF OrderInv, OrderOK
<1>5. ASSUME UNCHANGED runVars PROVE OrderOK'
  <2>1. UNCHANGED <<cloud, drifted, puts, visit, region, phase, queued, todo>>
    BY <1>5 DEF runVars
  <2> QED
    BY <2>1, QuietWrites, SamePlace DEF OrderInv, OrderOK
<1> QED
  BY <1>2, <1>3, <1>4, <1>5, OrderMain DEF RunNext

-----------------------------------------------------------------------------
(* Identifiers. *)

LEMMA FindingsHaveNoId ==
    /\ \A k, c, s : ~FindingOf(k, c, s).id
    /\ \A k, c, v : ~Observation(k, c, v).id /\ ~Change(k, c, v).id
    /\ \A c, r, s, at : ~Finding(c, r, s, at).id
  BY DEF FindingOf, Observation, Change, Finding

LEMMA NoIdsStep == NoIds /\ [RunNext]_runVars => NoIds'
<1> SUFFICES ASSUME NoIds, [RunNext]_runVars PROVE NoIds'
  OBVIOUS
<1>1. ASSUME NEW f, ~f.id, NEW k, NEW c, Report(k, c, f), report' = report
      PROVE  NoIds'
  BY <1>1 DEF Report, NoIds
<1>2. ASSUME batch' = {}, report' \subseteq report \cup batch
      PROVE  NoIds'
  BY <1>2 DEF NoIds
<1>3. ASSUME Abandon PROVE NoIds'
  BY <1>3, FindingsHaveNoId DEF Abandon, NoIds
<1>4. ASSUME NEW k, ThreadStep(k) PROVE NoIds'
  <2>1. PICK c \in Control : Inspect(k, c) \/ ReadSetting(k, c) \/ PutSetting(k, c) \/ PutFails(k, c)
    BY <1>4 DEF ThreadStep
  <2>2. CASE Inspect(k, c)
    BY <1>1, <2>2, FindingsHaveNoId DEF Inspect
  <2>3. CASE ReadSetting(k, c)
    <3>1. report' = report /\ (UNCHANGED batch \/ \E f : ~f.id /\ Report(k, c, f))
      BY <2>3, FindingsHaveNoId DEF ReadSetting
    <3> QED
      BY <1>1, <3>1 DEF NoIds
  <2>4. CASE PutSetting(k, c)
    BY <1>1, <2>4, FindingsHaveNoId DEF PutSetting
  <2>5. CASE PutFails(k, c)
    BY <1>1, <1>3, <2>5, FindingsHaveNoId DEF PutFails
  <2> QED
    BY <2>1, <2>2, <2>3, <2>4, <2>5
<1>5. ASSUME NEW b \in Bucket, StartBucket(b) PROVE NoIds'
  <2>1. report' = report /\ (UNCHANGED batch
          \/ batch' = batch \cup {FindingOf(b, c, "skip") : c \in Chosen(BucketControls)})
    BY <1>5 DEF StartBucket
  <2> QED
    BY <2>1, FindingsHaveNoId DEF NoIds
<1>6. ASSUME \/ DiscoverAccounts \/ OpenAccount \/ AccountUnreachable
             \/ NextRegion \/ ListBuckets \/ ListBucketsFails
             \/ FinishAccount \/ WriteReport \/ WriteManifest
      PROVE  NoIds'
  <2>1. CASE DiscoverAccounts \/ FinishAccount
    BY <1>2, <2>1 DEF DiscoverAccounts, FinishAccount
  <2>2. CASE AccountUnreachable \/ ListBucketsFails
    BY <1>3, <2>2 DEF AccountUnreachable, ListBucketsFails
  <2>3. CASE OpenAccount \/ NextRegion \/ ListBuckets \/ WriteReport \/ WriteManifest
    BY <2>3 DEF OpenAccount, NextRegion, ListBuckets, WriteReport, WriteManifest, NoIds
  <2> QED
    BY <1>6, <2>1, <2>2, <2>3
<1>7. ASSUME \/ \E b \in Bucket : FinishBucket(b)
             \/ Crash \/ (Drift /\ UNCHANGED runOnly) \/ UNCHANGED runVars
      PROVE  NoIds'
  BY <1>7 DEF FinishBucket, Crash, Drift, runOnly, runVars, NoIds
<1> QED
  BY <1>4, <1>5, <1>6, <1>7 DEF RunNext, MainStep, WorkerStep

-----------------------------------------------------------------------------
(* The rollback of what the run left. *)

\* A manifest of changes that a run without an error wrote lists every write.
EveryWriteListed ==
    manifest.kind = "changes" /\ exit_code(report) # 2 =>
        \A p \in puts : \E f \in manifest.entries : Records(f, p)

\* What the run left, which nothing changes any more: threads without work, the writes,
\* in their order, and a manifest of changes that each record one of them.
RunLeft ==
    /\ queued = {} /\ running = {} /\ \A k \in Thread : todo[k] = {}
    /\ \A p \in puts : /\ p.target \in Target /\ p.before \in Value
                       /\ p.at[1] \in Nat /\ p.at[2] \in Nat
    /\ FirstWrite /\ ReadNonCompliant /\ EveryWriteListed
    /\ manifest.kind = "changes" =>
          \A f \in manifest.entries : ~f.id /\ \E p \in puts : p.acked /\ Records(f, p)

\* While the run goes on nothing is rolled back, and afterwards the run is over.
TurnsOK ==
    /\ DOMAIN cloud = Target
    /\ mode = "apply" \/ puts = {}
    /\ ~Ended => OrderInv /\ rbPhase = "idle"
    /\ Ended => RunLeft
    /\ rbPhase = "idle" => remaining = {} /\ results = {}
    /\ remaining # {} \/ results # {} => Ended /\ manifest.kind = "changes"
    /\ remaining \subseteq manifest.entries
    /\ \A r \in results : r.change \in manifest.entries

TurnsInv == TurnsOK /\ NoCollateral

LEMMA ListedNext == ManifestInv' /\ Ended' => EveryWriteListed'
<1>1. ManifestInv /\ Ended => EveryWriteListed
  BY CompleteManifest DEF EveryWriteListed, CleanExitIsComplete, Ended, ManifestInv, ManifestOK
<1> QED
  BY <1>1, PTL

LEMMA LeftByRun ==
    ASSUME OrderInv', Ended'
    PROVE  RunLeft'
<1>1. TypeInv' /\ ManifestOK' /\ ChangesWerePut' /\ FirstWrite' /\ ReadNonCompliant' /\ NoIds'
  BY DEF OrderInv, ManifestInv, OrderOK
<1>2. queued' = {} /\ running' = {} /\ \A k \in Thread : todo'[k] = {}
  BY <1>1 DEF Ended, TypeInv, ThreadsOK, Thread
<1>3. \A p \in puts' : p.target \in Target /\ p.before \in Value /\ p.at[1] \in Nat /\ p.at[2] \in Nat
  BY <1>1 DEF TypeInv, RunTypeOK, PutSet
<1>4. ASSUME manifest'.kind = "changes", NEW f \in manifest'.entries
      PROVE  ~f.id /\ \E p \in puts' : p.acked /\ Records(f, p)
  <2>1. f \in report' /\ f.changed
    BY <1>1, <1>4 DEF Ended, ManifestOK, change_manifest
  <2>2. \E p \in puts' : p.acked /\ Records(f, p)
    BY <1>1, <2>1 DEF ChangesWerePut, Records
  <2> QED
    BY <1>1, <2>1, <2>2 DEF NoIds
<1>5. EveryWriteListed'
  BY ListedNext DEF OrderInv
<1> QED
  BY <1>1, <1>2, <1>3, <1>4, <1>5 DEF RunLeft

\* A step of the run, or of somebody else while it goes on.
LEMMA RunTurn ==
    ASSUME TurnsInv, ~Ended, RunNext, UNCHANGED rollbackOnly, original' = original
    PROVE  TurnsInv'
<1>1. OrderInv'
  BY ManifestStep, OrderStep, NoIdsStep DEF TurnsInv, TurnsOK, OrderInv
<1>2. Ended' => RunLeft'
  BY <1>1, LeftByRun
<1>3. DOMAIN cloud' = Target
  BY <1>1 DEF OrderInv, ManifestInv, TypeInv, RunTypeOK, CloudTypeOK, CloudOK
<1>4. remaining' = {} /\ results' = {} /\ rbPhase' = "idle"
  BY DEF TurnsInv, TurnsOK, rollbackOnly
<1>5. mode' = "apply" \/ puts' = {}
  BY OnlyApplyPuts DEF TurnsInv, TurnsOK, OrderInv, ManifestInv
<1>6. NoCollateral'
  BY <1>1, <1>5 DEF OrderInv, OrderOK, CloudAsWritten, NoCollateral
<1> QED
  BY <1>1, <1>2, <1>3, <1>4, <1>5, <1>6 DEF TurnsInv, TurnsOK

\* A run that is over takes no more steps.
LEMMA RunIsOver ==
    ASSUME RunLeft, Ended
    PROVE  ~(MainStep \/ (\E b \in Bucket : WorkerStep(b)) \/ Crash)
<1>1. \A k \in Thread : ~ThreadStep(k)
  BY DEF RunLeft, ThreadStep, Inspect, ReadSetting, PutSetting, PutFails, IsNext
<1> QED
  BY <1>1 DEF RunLeft, Ended, MainStep, WorkerStep, Crash, DiscoverAccounts, OpenAccount,
              AccountUnreachable, NextRegion, ListBuckets, ListBucketsFails, FinishAccount,
              WriteReport, WriteManifest, StartBucket, FinishBucket, Thread

LEMMA TargetIsTriple == \A t \in Target : t = <<t[1], t[2], t[3]>>
  BY DEF Target

\* The call for a change acts on what the run wrote, or on the EBS default of its home.
LEMMA CallHitsWrite ==
    ASSUME NEW e, NEW p, p.target \in Target, Records(e, p), ~e.id, Plan(e) = "call"
    PROVE  /\ e.control = p.target[1]
           /\ e.control \in {"AWS-S3-001", "AWS-S3-004", "AWS-S3-005", "AWS-EBS-001"}
           /\ e.control # "AWS-EBS-001" => RollbackTarget(e) = p.target
           /\ e.control = "AWS-EBS-001" =>
                 RollbackTarget(e) = <<"AWS-EBS-001", Home, HomeRegion>> /\ e.before = "off"
<1>1. /\ e.control = p.target[1]
      /\ e.resource = Resource(p.target[1], p.target[2], p.target[3])
  BY DEF Records
<1>2. e.control \in {"AWS-S3-001", "AWS-S3-004", "AWS-S3-005", "AWS-EBS-001"}
  BY DEF Plan
<1>3. ASSUME e.control = "AWS-EBS-001"
      PROVE  RollbackTarget(e) = <<"AWS-EBS-001", Home, HomeRegion>> /\ e.before = "off"
  BY <1>3 DEF Plan, RollbackTarget, BucketControls
<1>4. ASSUME e.control = "AWS-S3-001"
      PROVE  RollbackTarget(e) = p.target
  <2>1. p.target \notin RegionRemediable \X Account \X Region
    BY <1>1, <1>4 DEF RegionRemediable
  <2>2. ASSUME NEW c \in BucketRemediable, NEW b \in Bucket
        PROVE  p.target # <<c, Owner[b], b>>
    <3>1. c # "AWS-S3-001" /\ <<c, Owner[b], b>>[1] = c
      BY DEF BucketRemediable
    <3> QED
      BY <1>1, <1>4, <3>1, Zenon
  <2>3. p.target \in {"AWS-S3-001"} \X Account \X {Global}
    BY <2>1, <2>2 DEF Target
  <2>4. PICK a \in Account : p.target = <<"AWS-S3-001", a, Global>>
    BY <2>3
  <2>5. e.resource = a
    BY <1>1, <1>4, <2>4 DEF Resource, BucketControls
  <2>6. e.control \notin BucketControls
    BY <1>4 DEF BucketControls
  <2>7. RollbackTarget(e) = <<e.control, e.resource, Global>>
    BY <1>4, <2>6 DEF RollbackTarget
  <2> QED
    BY <1>4, <2>4, <2>5, <2>7
<1>5. ASSUME e.control \in {"AWS-S3-004", "AWS-S3-005"}
      PROVE  RollbackTarget(e) = p.target
  <2>1. PICK c \in BucketRemediable, b \in Bucket : p.target = <<c, Owner[b], b>>
    BY <1>1, <1>5 DEF Target, RegionRemediable
  <2>2. e.control \in BucketControls /\ e.control # "AWS-S3-001" /\ e.control = c /\ e.resource = b
    BY <1>1, <1>5, <2>1 DEF BucketControls, Resource
  <2> QED
    BY <2>1, <2>2 DEF RollbackTarget
<1> QED
  BY <1>1, <1>2, <1>3, <1>4, <1>5

\* A step of a rollback that changes no setting.
LEMMA RollbackQuiet ==
    ASSUME TurnsInv, Ended, UNCHANGED <<cloud, drifted, manifest>>, UNCHANGED runOnly,
           original' = original,
           rbPhase' # "idle",
           remaining' \subseteq manifest.entries, \A r \in results' : r.change \in manifest.entries,
           remaining' # {} \/ results' # {} => manifest.kind = "changes"
    PROVE  TurnsInv'
<1>1. Ended' /\ UNCHANGED <<mode, puts>>
  BY DEF Ended, runOnly
<1>2. RunLeft'
  BY DEF TurnsInv, TurnsOK, RunLeft, runOnly, FirstWrite, ReadNonCompliant, EveryWriteListed, Records
<1>3. NoCollateral'
  BY DEF TurnsInv, NoCollateral, MistakenForHome, runOnly
<1> QED
  BY <1>1, <1>2, <1>3 DEF TurnsInv, TurnsOK

\* A call of a rollback.
LEMMA RollbackCall ==
    ASSUME TurnsInv, Ended, NEW e \in remaining, Plan(e) = "call",
           cloud' = [cloud EXCEPT ![RollbackTarget(e)] = Restored(e)],
           UNCHANGED <<drifted, manifest>>, UNCHANGED runOnly, original' = original,
           rbPhase' # "idle",
           remaining' \subseteq manifest.entries, \A r \in results' : r.change \in manifest.entries
    PROVE  TurnsInv'
<1>1. Ended' /\ UNCHANGED <<mode, puts>>
  BY DEF Ended, runOnly
<1>2. RunLeft'
  BY DEF TurnsInv, TurnsOK, RunLeft, runOnly, FirstWrite, ReadNonCompliant, EveryWriteListed, Records
<1>3. DOMAIN cloud' = Target /\ manifest.kind = "changes" /\ e \in manifest.entries /\ RunLeft
  BY DEF TurnsInv, TurnsOK
<1>4. PICK p \in puts : Records(e, p) /\ ~e.id /\ p.target \in Target
  BY <1>3 DEF RunLeft
<1>5. NoCollateral'
  <2> SUFFICES ASSUME NEW u \in Target
               PROVE  \/ u \in drifted
                      \/ \E q \in puts : q.target = u
                      \/ cloud'[u] = original[u]
                      \/ MistakenForHome(u)
    BY <1>1 DEF TurnsInv, TurnsOK, NoCollateral, MistakenForHome
  <2>1. CASE u # RollbackTarget(e)
    <3>1. cloud'[u] = cloud[u]
      BY <2>1 DEF TurnsInv, TurnsOK
    <3> QED
      BY <3>1 DEF TurnsInv, NoCollateral
  <2>2. CASE u = RollbackTarget(e) /\ e.control # "AWS-EBS-001"
    BY <1>4, <2>2, CallHitsWrite
  <2>3. CASE u = RollbackTarget(e) /\ e.control = "AWS-EBS-001"
    <3>1. u = <<"AWS-EBS-001", Home, HomeRegion>> /\ p.target[1] = "AWS-EBS-001"
      BY <1>4, <2>3, CallHitsWrite
    <3>2. p.target = u \/ p.target # u
      OBVIOUS
    <3> QED
      BY <3>1, <3>2 DEF MistakenForHome
  <2> QED
    BY <2>1, <2>2, <2>3
<1> QED
  BY <1>1, <1>2, <1>3, <1>5 DEF TurnsInv, TurnsOK

LEMMA RollbackTurn ==
    ASSUME TurnsInv, Ended, StartRollback \/ RollbackStep \/ CrashRollback,
           UNCHANGED runOnly, original' = original
    PROVE  TurnsInv'
<1>1. CASE StartRollback
  BY <1>1, RollbackQuiet DEF StartRollback
<1>2. CASE CrashRollback
  BY <1>2, RollbackQuiet DEF CrashRollback
<1>3. CASE FinishRollback
  BY <1>3, RollbackQuiet DEF FinishRollback, TurnsInv, TurnsOK
<1>4. ASSUME NEW e \in remaining, NEW status, Answer(e, status)
      PROVE  /\ remaining' \subseteq manifest.entries
             /\ \A r \in results' : r.change \in manifest.entries
  <2>1. \A r \in results' : r \in results \/ r.change = e
    BY <1>4 DEF Answer
  <2> QED
    BY <1>4, <2>1 DEF Answer, TurnsInv, TurnsOK
<1>5. ASSUME NEW e \in remaining, LeaveChange(e) PROVE TurnsInv'
  BY <1>4, <1>5, RollbackQuiet DEF LeaveChange, TurnsInv, TurnsOK
<1>6. ASSUME NEW e \in remaining, RestoreChange(e) \/ RestoreFails(e) PROVE TurnsInv'
  <2>1. /\ Plan(e) = "call" /\ UNCHANGED <<drifted, manifest, rbPhase>> /\ rbPhase = "restoring"
        /\ Answer(e, "pass") \/ Answer(e, "error")
        /\ \/ UNCHANGED cloud
           \/ cloud' = [cloud EXCEPT ![RollbackTarget(e)] = Restored(e)]
    BY <1>6 DEF RestoreChange, RestoreFails
  <2>2. /\ remaining' \subseteq manifest.entries
        /\ \A r \in results' : r.change \in manifest.entries
    BY <1>4, <2>1
  <2>3. manifest.kind = "changes"
    BY DEF TurnsInv, TurnsOK
  <2> QED
    BY <2>1, <2>2, <2>3, RollbackQuiet, RollbackCall
<1> QED
  BY <1>1, <1>2, <1>3, <1>5, <1>6 DEF RollbackStep

\* Somebody else changes a setting after the run.
LEMMA DriftTurn ==
    ASSUME TurnsInv, Ended, Drift, UNCHANGED runOnly, UNCHANGED rollbackOnly, original' = original
    PROVE  TurnsInv'
<1>1. PICK t \in Contested \ drifted :
        drifted' = drifted \cup {t} /\ \E v : cloud' = [cloud EXCEPT ![t] = v]
  BY DEF Drift
<1>2. DOMAIN cloud' = Target /\ \A u \in Target \ drifted' : u \notin drifted /\ cloud'[u] = cloud[u]
  BY <1>1 DEF TurnsInv, TurnsOK
<1>3. Ended' /\ UNCHANGED <<mode, puts, manifest, report, queued, running, todo,
                           rbPhase, remaining, results>>
  BY DEF Drift, Ended, runOnly, rollbackOnly
<1>4. FirstWrite' /\ ReadNonCompliant'
  BY <1>1, <1>3 DEF TurnsInv, TurnsOK, RunLeft, FirstWrite, ReadNonCompliant
<1>5. RunLeft'
  BY <1>3, <1>4 DEF TurnsInv, TurnsOK, RunLeft, EveryWriteListed, Records
<1>6. NoCollateral'
  BY <1>2, <1>3 DEF TurnsInv, NoCollateral, MistakenForHome
<1> QED
  BY <1>2, <1>3, <1>5, <1>6 DEF TurnsInv, TurnsOK

LEMMA TurnsInit == Init => TurnsInv
<1> SUFFICES ASSUME Init PROVE TurnsInv
  OBVIOUS
<1>1. ManifestInv
  BY ManifestInit DEF Init
<1>2. OrderInv
  <2>1. puts = {} /\ batch = {} /\ report = {} /\ original = cloud /\ phase \in {"org", "open"}
    BY DEF Init, RunInit
  <2>2. OrderOK
    BY <2>1 DEF OrderOK, CloudAsWritten, FirstWrite, ReadNonCompliant, WritesToCome, WritesBefore
  <2> QED
    BY <1>1, <2>1, <2>2 DEF OrderInv, NoIds
<1>3. ~Ended /\ rbPhase = "idle" /\ remaining = {} /\ results = {} /\ puts = {} /\ original = cloud
  BY DEF Init, RunInit, Ended
<1>4. DOMAIN cloud = Target
  BY <1>1 DEF ManifestInv, TypeInv, RunTypeOK, CloudTypeOK, CloudOK
<1> QED
  BY <1>2, <1>3, <1>4 DEF TurnsInv, TurnsOK, NoCollateral

LEMMA TurnsStep == TurnsInv /\ [Next]_vars => TurnsInv'
<1> SUFFICES ASSUME TurnsInv, [Next]_vars PROVE TurnsInv'
  OBVIOUS
<1>1. CASE /\ MainStep \/ (\E b \in Bucket : WorkerStep(b)) \/ Crash
           /\ UNCHANGED rollbackOnly /\ UNCHANGED original
  <2>1. ~Ended
    BY <1>1, RunIsOver DEF TurnsInv, TurnsOK
  <2> QED
    BY <1>1, <2>1, RunTurn DEF RunNext
<1>2. CASE /\ Ended /\ (StartRollback \/ RollbackStep \/ CrashRollback)
           /\ UNCHANGED runOnly /\ UNCHANGED original
  BY <1>2, RollbackTurn
<1>3. CASE Drift /\ UNCHANGED runOnly /\ UNCHANGED rollbackOnly /\ UNCHANGED original
  BY <1>3, RunTurn, DriftTurn DEF RunNext
<1>4. CASE UNCHANGED vars
  <2>1. UNCHANGED <<cloud, drifted, manifest>> /\ UNCHANGED runOnly /\ UNCHANGED rollbackOnly
        /\ original' = original
    BY <1>4 DEF vars, runOnly, rollbackOnly
  <2>2. OrderInv => OrderInv'
    <3>1. UNCHANGED runVars
      BY <2>1 DEF runVars, runOnly
    <3> QED
      BY <2>1, <3>1, ManifestStep, OrderStep, NoIdsStep DEF OrderInv
  <2>3. RunLeft => RunLeft'
    BY <2>1 DEF RunLeft, runOnly, FirstWrite, ReadNonCompliant, EveryWriteListed, Records
  <2>4. NoCollateral'
    BY <2>1 DEF TurnsInv, NoCollateral, MistakenForHome, runOnly
  <2>5. (Ended' <=> Ended) /\ UNCHANGED <<mode, puts, rbPhase, remaining, results>>
    BY <2>1 DEF Ended, runOnly, rollbackOnly
  <2> QED
    BY <2>1, <2>2, <2>3, <2>4, <2>5 DEF TurnsInv, TurnsOK
<1> QED
  BY <1>1, <1>2, <1>3, <1>4 DEF Next

\* A run and its rollbacks leave alone what the run did not write, but for the EBS
\* default of the rollback's home when it was turned on elsewhere.
THEOREM NothingElseTouched == Spec => []NoCollateral
<1>1. TurnsInv => NoCollateral
  BY DEF TurnsInv
<1> QED
  BY <1>1, TurnsInit, TurnsStep, PTL DEF Spec

-----------------------------------------------------------------------------
(* What PASS means.  The changes of a setting are rolled back last first,  *)
(* so that the call for the first one has the last word.  A change that    *)
(* recorded what it replaced is that first one: what it read was not       *)
(* compliant, and after a write of the run it would have been.             *)

\* A change that recorded what it replaced, and that, with all the other changes of its
\* resource, was rolled back without an error.
Undone(p) ==
    /\ AtHome(p.target) /\ p.target \notin drifted
    /\ p.old = p.before
    /\ \E r \in ResultsOf(p) : Records(r.change, p)
    /\ \A r \in ResultsOf(p) : r.status = "pass"

RestoredOK ==
    /\ \A r \in results, d \in remaining : ~ListedBefore(r.change, d)
    /\ \A r \in results : r.status = "pass" => Plan(r.change) = "call"
    /\ \A p \in puts : Undone(p) => cloud[p.target] = original[p.target]

RestoredInv == TurnsInv /\ RestoredOK

\* A step that answers no change and leaves alone every setting nobody else changed.
LEMMA RestoredQuiet ==
    ASSUME RestoredInv, UNCHANGED <<puts, original>>, drifted \subseteq drifted',
           results' = {} \/ results' = results,
           results' # {} => remaining' \subseteq remaining,
           \A p \in puts : p.target \notin drifted' => cloud'[p.target] = cloud[p.target]
    PROVE  RestoredOK'
<1>1. ASSUME NEW p \in puts, Undone(p)' PROVE cloud'[p.target] = original[p.target]
  <2>1. results' = results
    BY <1>1 DEF Undone, ResultsOf
  <2>2. Undone(p) /\ p.target \notin drifted'
    BY <1>1, <2>1 DEF Undone, ResultsOf
  <2> QED
    BY <2>2 DEF RestoredInv, RestoredOK
<1> QED
  BY <1>1 DEF RestoredInv, RestoredOK

\* The answer to the change e.
LEMMA RestoredOrder ==
    ASSUME RestoredInv, NEW e \in remaining, IsLast(e), NEW status, Answer(e, status),
           status = "pass" => Plan(e) = "call"
    PROVE  /\ \A r \in results', d \in remaining' : ~ListedBefore(r.change, d)
           /\ \A r \in results' : r.status = "pass" => Plan(r.change) = "call"
<1>1. \A r \in results' : r \in results \/ (r.change = e /\ r.status = status)
  BY DEF Answer
<1>2. remaining' \subseteq remaining
  BY DEF Answer
<1> QED
  BY <1>1, <1>2 DEF IsLast, RestoredInv, RestoredOK

\* An answer that is not PASS takes its resource out of the question.
LEMMA NotUndone ==
    ASSUME NEW e, NEW status, status # "pass", Answer(e, status),
           UNCHANGED <<drifted, original>>, NEW p, Undone(p)'
    PROVE  /\ Undone(p)
           /\ ~(/\ e.control = p.target[1]
                /\ e.resource = Resource(p.target[1], p.target[2], p.target[3]))
<1>1. results' = results \cup {[change |-> e, status |-> status]}
  BY DEF Answer
<1>2. ~(/\ e.control = p.target[1]
        /\ e.resource = Resource(p.target[1], p.target[2], p.target[3]))
  <2> DEFINE r == [change |-> e, status |-> status]
  <2>1. r.change = e /\ r.status = status /\ r \in results'
    BY <1>1
  <2>2. r \notin ResultsOf(p)'
    BY <2>1 DEF Undone
  <2> HIDE DEF r
  <2> QED
    BY <2>1, <2>2 DEF ResultsOf
<1>3. ResultsOf(p)' = ResultsOf(p)
  BY <1>1, <1>2 DEF ResultsOf
<1> QED
  BY <1>2, <1>3 DEF Undone

\* The EBS change that was rolled back found the default off.
LEMMA EbsWasOff ==
    ASSUME RunLeft, manifest.kind = "changes", NEW p \in puts, NEW d \in manifest.entries,
           Records(d, p), Plan(d) = "call", p.target[1] = "AWS-EBS-001"
    PROVE  p.before = "off"
<1>1. p.target \in Target /\ ~d.id
  BY DEF RunLeft
<1>2. d.control = "AWS-EBS-001" /\ d.before = "off"
  BY <1>1, CallHitsWrite
<1> QED
  BY <1>2 DEF Records, RecordedBefore

\* A call that is accepted.
LEMMA RestoredCall ==
    ASSUME RestoredInv, Ended, NEW e \in remaining, IsLast(e), Plan(e) = "call",
           cloud' = [cloud EXCEPT ![RollbackTarget(e)] = Restored(e)],
           NEW status \in {"pass", "error"}, Answer(e, status),
           UNCHANGED <<drifted, manifest, puts, original>>
    PROVE  RestoredOK'
<1>1. /\ DOMAIN cloud = Target /\ manifest.kind = "changes" /\ e \in manifest.entries /\ RunLeft
      /\ \A r \in results : r.change \in manifest.entries
  BY DEF RestoredInv, TurnsInv, TurnsOK
<1>2. PICK q \in puts : Records(e, q) /\ ~e.id /\ q.target \in Target
  BY <1>1 DEF RunLeft
<1>3. results' = results \cup {[change |-> e, status |-> status]}
  BY DEF Answer
<1>4. ASSUME NEW p \in puts, Undone(p)' PROVE cloud'[p.target] = original[p.target]
  <2>1. p.target \in Target /\ p.before = original[p.target] /\ p.old = p.before
    BY <1>1, <1>4 DEF RunLeft, FirstWrite, ReadNonCompliant, Undone
  <2>2. PICK r \in results' : Records(r.change, p) /\ r.status = "pass" /\ r \in ResultsOf(p)'
    BY <1>4 DEF Undone, ResultsOf
  <2>3. r.change \in manifest.entries /\ Plan(r.change) = "call" /\ ~r.change.id
    BY <1>1, <1>3, <2>2 DEF RunLeft, RestoredInv, RestoredOK
  <2>4. CASE RollbackTarget(e) # p.target
    <3>1. cloud'[p.target] = cloud[p.target]
      BY <1>1, <2>1, <2>4
    <3>2. r \in results
      <4>1. r.change # e
        <5>1. ASSUME r.change = e PROVE RollbackTarget(e) = p.target
          <6>1. CASE e.control # "AWS-EBS-001"
            BY <2>1, <2>2, <2>3, <5>1, <6>1, CallHitsWrite
          <6>2. CASE e.control = "AWS-EBS-001"
            <7>1. p.target[1] = "AWS-EBS-001" /\ RollbackTarget(e) = <<"AWS-EBS-001", Home, HomeRegion>>
              BY <2>1, <2>2, <2>3, <5>1, <6>2, CallHitsWrite
            <7>2. p.target[2] = Home /\ p.target[3] = HomeRegion
              BY <1>4, <7>1 DEF Undone, AtHome, RegionRemediable
            <7>3. p.target = <<p.target[1], p.target[2], p.target[3]>>
              BY <2>1, TargetIsTriple
            <7> QED
              BY <7>1, <7>2, <7>3
          <6> QED
            BY <6>1, <6>2
        <5> QED
          BY <2>4, <5>1
      <4> QED
        BY <1>3, <2>2, <4>1
    <3>3. Undone(p)
      <4>1. r \in ResultsOf(p)
        BY <2>2, <3>2 DEF ResultsOf
      <4>2. \A s \in ResultsOf(p) : s \in ResultsOf(p)'
        BY <1>3 DEF ResultsOf
      <4> QED
        BY <1>4, <2>2, <4>1, <4>2 DEF Undone
    <3> QED
      BY <3>1, <3>3 DEF RestoredInv, RestoredOK
  <2>5. CASE RollbackTarget(e) = p.target /\ e.control = "AWS-EBS-001"
    <3>1. p.target[1] = "AWS-EBS-001"
      BY <1>2, <2>5, CallHitsWrite
    <3>2. p.before = "off"
      BY <1>1, <2>2, <2>3, <3>1, EbsWasOff
    <3>3. cloud'[p.target] = "off"
      BY <1>1, <2>1, <2>5 DEF Restored
    <3> QED
      BY <2>1, <3>2, <3>3
  <2>6. CASE RollbackTarget(e) = p.target /\ e.control # "AWS-EBS-001"
    <3>1. q.target = p.target /\ e.control \in {"AWS-S3-001", "AWS-S3-004", "AWS-S3-005"}
      BY <1>2, <2>6, CallHitsWrite
    <3>2. e.before = q.before /\ e.before \in Value
      BY <1>1, <1>2, <3>1 DEF Records, RecordedBefore, RunLeft
    <3>3. cloud'[p.target] = q.before
      <4>1. Restored(e) = e.before
        BY <3>1, <3>2 DEF Restored, Value, NoValue
      <4> QED
        BY <1>1, <2>1, <2>6, <3>2, <4>1
    <3>4. q = p
      <4>1. SUFFICES ASSUME q # p PROVE FALSE
        OBVIOUS
      <4>2. Earlier(p.at, q.at)
        BY <1>1, <1>4, <2>1, <3>1, <4>1 DEF RunLeft, FirstWrite, ReadNonCompliant, Undone
      <4>3. ListedBefore(r.change, e)
        BY <1>2, <2>2, <3>1, <4>2 DEF Records, ListedBefore, Earlier
      <4>4. r.change # e
        BY <1>1, <1>2, <2>2, <4>2 DEF Records, Earlier, RunLeft
      <4> QED
        BY <1>3, <2>2, <4>3, <4>4 DEF RestoredInv, RestoredOK
    <3> QED
      BY <2>1, <3>3, <3>4
  <2> QED
    BY <2>4, <2>5, <2>6
<1> QED
  BY <1>4, RestoredOrder DEF RestoredOK

LEMMA RestoredTurn ==
    ASSUME RestoredInv, Ended, StartRollback \/ RollbackStep \/ CrashRollback,
           UNCHANGED runOnly, original' = original
    PROVE  RestoredOK'
<1>1. UNCHANGED <<puts, original>>
  BY DEF runOnly
<1>2. CASE StartRollback \/ CrashRollback
  BY <1>1, <1>2, RestoredQuiet DEF StartRollback, CrashRollback
<1>3. CASE FinishRollback
  BY <1>1, <1>3, RestoredQuiet DEF FinishRollback
<1>4. ASSUME NEW e \in remaining, NEW status, status # "pass", IsLast(e), Answer(e, status),
             UNCHANGED <<cloud, drifted>>
      PROVE  RestoredOK'
  <2>1. ASSUME NEW p \in puts, Undone(p)' PROVE cloud'[p.target] = original[p.target]
    <3>1. Undone(p)
      BY <1>1, <1>4, <2>1, NotUndone
    <3> QED
      BY <1>4, <3>1 DEF RestoredInv, RestoredOK
  <2> QED
    BY <1>1, <1>4, <2>1, RestoredOrder DEF RestoredOK
<1>5. ASSUME NEW e \in remaining, LeaveChange(e) PROVE RestoredOK'
  <2>1. Plan(e) # "pass"
    BY DEF Plan
  <2> QED
    BY <1>4, <1>5, <2>1 DEF LeaveChange
<1>6. ASSUME NEW e \in remaining, RestoreChange(e) PROVE RestoredOK'
  BY <1>1, <1>6, RestoredCall DEF RestoreChange
<1>7. ASSUME NEW e \in remaining, RestoreFails(e) PROVE RestoredOK'
  <2>1. Answer(e, "error") /\ IsLast(e) /\ Plan(e) = "call" /\ UNCHANGED <<drifted, manifest>>
    BY <1>7 DEF RestoreFails
  <2>2. CASE UNCHANGED cloud
    BY <1>4, <2>1, <2>2
  <2>3. CASE cloud' = [cloud EXCEPT ![RollbackTarget(e)] = Restored(e)]
    BY <1>1, <2>1, <2>3, RestoredCall
  <2> QED
    BY <1>7, <2>2, <2>3 DEF RestoreFails
<1> QED
  BY <1>2, <1>3, <1>5, <1>6, <1>7 DEF RollbackStep

LEMMA RestoredStep == RestoredInv /\ [Next]_vars => RestoredInv'
<1> SUFFICES ASSUME RestoredInv, [Next]_vars PROVE RestoredOK'
  BY TurnsStep DEF RestoredInv
<1>1. CASE /\ MainStep \/ (\E b \in Bucket : WorkerStep(b)) \/ Crash
           /\ UNCHANGED rollbackOnly /\ UNCHANGED original
  <2>1. ~Ended
    BY <1>1, RunIsOver DEF RestoredInv, TurnsInv, TurnsOK
  <2>2. results' = {}
    BY <1>1, <2>1 DEF RestoredInv, TurnsInv, TurnsOK, rollbackOnly
  <2> QED
    BY <2>2 DEF RestoredOK, Undone, ResultsOf
<1>2. CASE /\ Ended /\ (StartRollback \/ RollbackStep \/ CrashRollback)
           /\ UNCHANGED runOnly /\ UNCHANGED original
  BY <1>2, RestoredTurn
<1>3. CASE Drift /\ UNCHANGED runOnly /\ UNCHANGED rollbackOnly /\ UNCHANGED original
  <2>1. PICK t \in Contested \ drifted :
          drifted' = drifted \cup {t} /\ \E v : cloud' = [cloud EXCEPT ![t] = v]
    BY <1>3 DEF Drift
  <2>2. \A p \in puts : p.target \notin drifted' => cloud'[p.target] = cloud[p.target]
    BY <2>1
  <2> QED
    BY <1>3, <2>1, <2>2, RestoredQuiet DEF runOnly, rollbackOnly
<1>4. CASE UNCHANGED vars
  BY <1>4, RestoredQuiet DEF vars
<1> QED
  BY <1>1, <1>2, <1>3, <1>4 DEF Next

LEMMA RestoredInit == Init => RestoredInv
BY TurnsInit DEF Init, RestoredInv, RestoredOK, Undone, ResultsOf

\* "Previous configuration was restored" is true: a setting of the rollback's home whose
\* changes all end in PASS is what it was before the run, if one of them recorded what
\* it replaced.
THEOREM PassIsTrue == Spec => []PassMeansRestored
<1>1. RestoredInv => PassMeansRestored
  BY DEF RestoredInv, RestoredOK, Undone, PassMeansRestored
<1> QED
  BY <1>1, RestoredInit, RestoredStep, PTL DEF Spec

-----------------------------------------------------------------------------
(* What the exit codes promise.  A rollback that exits 0 answered PASS or  *)
(* SKIP to every change, and a run without an error listed every write; so *)
(* a setting within reach was called for, and PASS is true of it.          *)

\* What an answer says of its change; and a rollback at work has a list of changes.
VerdictsOK ==
    /\ rbPhase \in {"restoring", "done"} => Ended /\ manifest.kind = "changes"
    /\ \A r \in results :
          \/ r.status = "error"
          \/ r.status = "pass" /\ RollbackTarget(r.change)[2] = Home
          \/ r.status \in {"skip", "manual"} /\ r.status = Plan(r.change)

CleanInv == RestoredInv /\ AnsweredOK /\ VerdictsOK

LEMMA VerdictOne ==
    ASSUME VerdictsOK, rbPhase = "restoring", Ended', manifest' = manifest, NEW e, NEW status,
           Answer(e, status),
           \/ status = "error"
           \/ status = "pass" /\ RollbackTarget(e)[2] = Home
           \/ status \in {"skip", "manual"} /\ status = Plan(e)
    PROVE  VerdictsOK'
<1>1. \A r \in results' : r \in results \/ (r.change = e /\ r.status = status)
  BY DEF Answer
<1>2. ASSUME NEW r \in results'
      PROVE  \/ r.status = "error"
             \/ r.status = "pass" /\ RollbackTarget(r.change)[2] = Home
             \/ r.status \in {"skip", "manual"} /\ r.status = Plan(r.change)
  <2>1. CASE r \in results
    BY <2>1 DEF VerdictsOK
  <2>2. CASE r.change = e /\ r.status = status
    BY <2>2
  <2> QED
    BY <1>1, <2>1, <2>2
<1> QED
  BY <1>2 DEF VerdictsOK

LEMMA VerdictsTurn ==
    ASSUME VerdictsOK, Ended, StartRollback \/ RollbackStep \/ CrashRollback, UNCHANGED runOnly
    PROVE  VerdictsOK'
<1>1. Ended'
  BY DEF Ended, runOnly
<1>2. CASE StartRollback \/ CrashRollback \/ FinishRollback
  BY <1>1, <1>2 DEF StartRollback, CrashRollback, FinishRollback, VerdictsOK
<1>3. ASSUME NEW e \in remaining, LeaveChange(e) PROVE VerdictsOK'
  <2>1. Plan(e) \in {"call", "skip", "manual"}
    BY DEF Plan
  <2> QED
    BY <1>1, <1>3, <2>1, VerdictOne DEF LeaveChange
<1>4. ASSUME NEW e \in remaining, RestoreChange(e) PROVE VerdictsOK'
  BY <1>1, <1>4, VerdictOne DEF RestoreChange, Accepted
<1>5. ASSUME NEW e \in remaining, RestoreFails(e) PROVE VerdictsOK'
  BY <1>1, <1>5, VerdictOne DEF RestoreFails
<1> QED
  BY <1>2, <1>3, <1>4, <1>5 DEF RollbackStep

LEMMA CleanStep == CleanInv /\ [Next]_vars => CleanInv'
<1> SUFFICES ASSUME CleanInv, [Next]_vars PROVE AnsweredOK' /\ VerdictsOK'
  BY RestoredStep DEF CleanInv
<1>1. CASE /\ MainStep \/ (\E b \in Bucket : WorkerStep(b)) \/ Crash
           /\ UNCHANGED rollbackOnly /\ UNCHANGED original
  <2>1. ~Ended
    BY <1>1, RunIsOver DEF CleanInv, RestoredInv, TurnsInv, TurnsOK
  <2>2. results' = {} /\ rbPhase' = "idle"
    BY <1>1, <2>1 DEF CleanInv, RestoredInv, TurnsInv, TurnsOK, rollbackOnly
  <2> QED
    BY <2>2 DEF AnsweredOK, VerdictsOK
<1>2. CASE /\ Ended /\ (StartRollback \/ RollbackStep \/ CrashRollback)
           /\ UNCHANGED runOnly /\ UNCHANGED original
  BY <1>2, AnsweredStep, VerdictsTurn DEF CleanInv, RollbackNext
<1>3. CASE Drift /\ UNCHANGED runOnly /\ UNCHANGED rollbackOnly /\ UNCHANGED original
  <2>1. UNCHANGED <<manifest, phase, rbPhase, results>>
    BY <1>3 DEF Drift, runOnly, rollbackOnly
  <2>2. VerdictsOK'
    BY <2>1 DEF CleanInv, VerdictsOK, Ended
  <2> QED
    BY <1>3, <2>2, AnsweredStep DEF CleanInv, RollbackNext
<1>4. CASE UNCHANGED vars
  <2>1. UNCHANGED rollbackVars
    BY <1>4 DEF vars, rollbackVars
  <2> QED
    BY <1>4, <2>1, AnsweredStep DEF CleanInv, VerdictsOK, Ended, vars
<1> QED
  BY <1>1, <1>2, <1>3, <1>4 DEF Next

\* The changes of a resource, in a rollback that exits 0, ended in PASS.
LEMMA PassedOrOut ==
    ASSUME CleanInv, rbPhase = "done", RollbackExit = 0, NEW p \in puts,
           NEW r \in ResultsOf(p), p.target[1] # "AWS-IAM-002"
    PROVE  /\ r.status = "pass" /\ RollbackTarget(r.change)[2] = Home
           /\ Plan(r.change) = "call" /\ ~r.change.id
<1>1. r \in results /\ r.change.control = p.target[1] /\ r.status \notin {"error", "manual"}
  BY DEF ResultsOf, RollbackExit
<1>2. RunLeft /\ manifest.kind = "changes" /\ r.change \in manifest.entries
  BY <1>1 DEF CleanInv, RestoredInv, TurnsInv, TurnsOK, VerdictsOK
<1>3. PICK q \in puts : Records(r.change, q) /\ ~r.change.id /\ q.target \in Target
  BY <1>2 DEF RunLeft
<1>4. r.change.control \in Remediable \ {"AWS-IAM-002"} /\ q.target[1] = r.change.control
  <2>1. \A t \in Target : t[1] \in Remediable
    BY DEF Target, Remediable
  <2> QED
    BY <1>1, <1>3, <2>1 DEF Records
<1>5. Plan(r.change) # "skip"
  <2>1. CASE r.change.control = "AWS-EBS-001"
    <3>1. Settings("AWS-EBS-001") = {"off", "on"}
      BY DEF Settings
    <3>2. q.before = "off"
      BY <1>2, <1>4, <2>1, <3>1 DEF RunLeft, ReadNonCompliant, Compliant
    <3>3. r.change.before = "off"
      BY <1>3, <1>4, <2>1, <3>2 DEF Records, RecordedBefore
    <3>4. r.change.after = "on"
      BY <1>3, <1>4, <2>1 DEF Records, Desired
    <3> QED
      BY <2>1, <3>3, <3>4 DEF Plan
  <2>2. CASE r.change.control # "AWS-EBS-001"
    BY <1>4, <2>2 DEF Plan, Remediable, RegionRemediable, BucketRemediable
  <2> QED
    BY <2>1, <2>2
<1>6. r.status = "pass" /\ RollbackTarget(r.change)[2] = Home
  BY <1>1, <1>5 DEF CleanInv, VerdictsOK
<1>7. Plan(r.change) = "call"
  BY <1>1, <1>6 DEF CleanInv, RestoredInv, RestoredOK
<1> QED
  BY <1>3, <1>6, <1>7

LEMMA CleanMeansRestored == CleanInv => CleanRoundTripRestores
<1> SUFFICES ASSUME CleanInv, rbPhase = "done", RollbackExit = 0, exit_code(report) # 2,
                    NEW t \in Target, t \notin drifted, ~MistakenForHome(t),
                    \A p \in puts : p.target = t => ~OutOfReach(t) /\ p.old = p.before
             PROVE  cloud[t] = original[t]
  BY DEF CleanRoundTripRestores
<1>1. CASE \A p \in puts : p.target # t
  BY <1>1 DEF CleanInv, RestoredInv, TurnsInv, NoCollateral
<1>2. ASSUME NEW p \in puts, p.target = t PROVE cloud[t] = original[t]
  <2>1. manifest.kind = "changes" /\ RunLeft
    BY DEF CleanInv, RestoredInv, TurnsInv, TurnsOK, VerdictsOK
  <2>2. PICK f \in manifest.entries : Records(f, p)
    BY <2>1 DEF RunLeft, EveryWriteListed
  <2>3. PICK r \in results : r.change = f
    BY DEF CleanInv, AnsweredOK
  <2>4. r \in ResultsOf(p)
    BY <2>2, <2>3 DEF ResultsOf, Records
  <2>5. t[1] # "AWS-IAM-002" /\ (t[1] = "AWS-EBS-001" => AtHome(t))
    BY <1>2 DEF OutOfReach
  <2>6. \A s \in ResultsOf(p) : s.status = "pass"
    BY <1>2, <2>5, PassedOrOut
  <2>7. AtHome(t)
    <3>1. CASE t[1] = "AWS-EBS-001"
      BY <2>5, <3>1
    <3>2. CASE t[1] # "AWS-EBS-001"
      <4>1. Plan(f) = "call" /\ ~f.id /\ RollbackTarget(f)[2] = Home
        BY <1>2, <2>3, <2>4, <2>5, PassedOrOut
      <4>2. RollbackTarget(f) = t /\ t[1] \in {"AWS-S3-001", "AWS-S3-004", "AWS-S3-005"}
        BY <1>2, <2>2, <3>2, <4>1, CallHitsWrite
      <4> QED
        BY <4>1, <4>2 DEF AtHome, RegionRemediable
    <3> QED
      BY <3>1, <3>2
  <2>8. Undone(p)
    BY <1>2, <2>2, <2>3, <2>4, <2>6, <2>7 DEF Undone
  <2> QED
    BY <1>2, <2>8 DEF CleanInv, RestoredInv, RestoredOK
<1> QED
  BY <1>1, <1>2

LEMMA CleanInit == Init => CleanInv
BY RestoredInit DEF Init, CleanInv, AnsweredOK, VerdictsOK

\* The two exit codes together can be trusted: a run that met no error and a rollback of
\* its manifest that exits 0 leave every setting as it was before the run, but for the
\* exceptions that CleanRoundTripRestores names.
THEOREM CleanRoundTrip == Spec => []CleanRoundTripRestores
BY CleanInit, CleanStep, CleanMeansRestored, PTL DEF Spec

-----------------------------------------------------------------------------
(* The promises of the two halves, kept when one follows the other.  What  *)
(* AwsRollback assumes of the files it is given is true of those that      *)
(* AwsRun leaves.                                                          *)

LEMMA EntriesRecorded == RunLeft => EntriesOK
<1> SUFFICES ASSUME RunLeft, manifest.kind = "changes", NEW e \in manifest.entries
             PROVE  e.before \in Settings(e.control)
  BY DEF EntriesOK
<1>1. PICK p \in puts : Records(e, p)
  BY DEF RunLeft
<1>2. e.control = p.target[1] /\ p.before \in Settings(e.control)
  BY <1>1 DEF Records, RunLeft, ReadNonCompliant
<1>3. e.before = IF e.control = "AWS-VPC-001" THEN "own" ELSE p.before
  BY <1>1, <1>2 DEF Records, RecordedBefore
<1>4. "own" \in Settings("AWS-VPC-001")
  BY DEF Settings
<1> QED
  BY <1>2, <1>3, <1>4

JointInv == CleanInv /\ RunTypeOK /\ RollbackInv

LEMMA JointInit == Init => JointInv
<1>1. Init => RunTypeOK /\ manifest.kind = "absent"
  BY InitTyped DEF Init, RunInit, TypeInv, NoManifest
<1> QED
  BY <1>1, CleanInit, RollbackAssumption
     DEF Init, JointInv, RunTypeOK, RollbackInv, RollbackTypeOK, EntriesOK, RollbackPhases

LEMMA EntriesNext == RunLeft' => EntriesOK'
  BY EntriesRecorded, PTL

\* A step of the run.
LEMMA JointRun ==
    ASSUME JointInv, ~Ended, RunNext, UNCHANGED rollbackOnly, TurnsInv'
    PROVE  RunTypeOK' /\ RollbackInv'
<1>1. ManifestInv'
  BY ManifestStep DEF JointInv, CleanInv, RestoredInv, TurnsInv, TurnsOK, OrderInv
<1>2. RunTypeOK'
  BY <1>1 DEF ManifestInv, TypeInv
<1>3. EntriesOK'
  <2>1. CASE Ended'
    BY <2>1, EntriesNext DEF TurnsInv, TurnsOK
  <2>2. CASE ~Ended'
    BY <1>1, <2>2 DEF ManifestInv, ManifestOK, NoManifest, Ended, EntriesOK
  <2> QED
    BY <2>1, <2>2
<1>4. remaining' = {} /\ results' = {} /\ UNCHANGED <<rbPhase, attempts>>
  BY DEF JointInv, CleanInv, RestoredInv, TurnsInv, TurnsOK, rollbackOnly
<1> QED
  BY <1>2, <1>3, <1>4 DEF JointInv, RollbackInv, RollbackTypeOK, RunTypeOK

LEMMA JointStep == JointInv /\ [Next]_vars => JointInv'
<1> SUFFICES ASSUME JointInv, [Next]_vars PROVE RunTypeOK' /\ RollbackInv'
  BY CleanStep DEF JointInv
<1>1. TurnsInv'
  BY CleanStep DEF JointInv, CleanInv, RestoredInv
<1>2. ASSUME [RollbackNext]_rollbackVars, UNCHANGED runOnly
      PROVE  RunTypeOK' /\ RollbackInv'
  <2>1. RollbackInv'
    BY <1>2, RollbackInvStep DEF JointInv
  <2>2. UNCHANGED <<mode, phase, visit, region, todo, seen, queued, running, batch, report, puts>>
    BY <1>2 DEF runOnly
  <2>3. CloudTypeOK'
    BY <2>1 DEF RollbackInv, RollbackTypeOK
  <2> QED
    BY <2>1, <2>2, <2>3 DEF JointInv, RunTypeOK
<1>3. CASE /\ MainStep \/ (\E b \in Bucket : WorkerStep(b)) \/ Crash
           /\ UNCHANGED rollbackOnly /\ UNCHANGED original
  <2>1. ~Ended
    BY <1>3, RunIsOver DEF JointInv, CleanInv, RestoredInv, TurnsInv, TurnsOK
  <2> QED
    BY <1>1, <1>3, <2>1, JointRun DEF RunNext
<1>4. CASE /\ Ended /\ (StartRollback \/ RollbackStep \/ CrashRollback)
           /\ UNCHANGED runOnly /\ UNCHANGED original
  BY <1>2, <1>4 DEF RollbackNext
<1>5. CASE Drift /\ UNCHANGED runOnly /\ UNCHANGED rollbackOnly /\ UNCHANGED original
  BY <1>2, <1>5 DEF RollbackNext
<1>6. CASE UNCHANGED vars
  BY <1>2, <1>6 DEF vars, runOnly, rollbackVars
<1> QED
  BY <1>3, <1>4, <1>5, <1>6 DEF Next

\* The manifest of an apply run is one that a rollback can be given: with the file that
\* the run leaves, whatever happened to it, both halves keep their types.
THEOREM RemediationTypeCorrect == Spec => [](RunTypeOK /\ RollbackTypeOK)
<1>1. JointInv => RunTypeOK /\ RollbackTypeOK
  BY DEF JointInv, RollbackInv
<1> QED
  BY <1>1, JointInit, JointStep, PTL DEF Spec

\* The file stays true through any number of rollbacks, and every rollback of it answers
\* each change once.
THEOREM RemediationKeepsPromises ==
    Spec => [](CleanExitIsComplete /\ EveryChangeWasPut /\ EveryChangeAnswered)
<1>1. CleanInv => CleanExitIsComplete
  <2>1. CleanInv /\ ~Ended => CleanExitIsComplete
    BY DEF Ended, CleanExitIsComplete
  <2>2. CleanInv /\ Ended => CleanExitIsComplete
    BY DEF CleanInv, RestoredInv, TurnsInv, TurnsOK, RunLeft, EveryWriteListed, CleanExitIsComplete
  <2> QED
    BY <2>1, <2>2
<1>2. CleanInv => EveryChangeWasPut
  <2>1. CleanInv /\ ~Ended => EveryChangeWasPut
    BY SoundManifest DEF CleanInv, RestoredInv, TurnsInv, TurnsOK, OrderInv
  <2>2. CleanInv /\ Ended => EveryChangeWasPut
    BY DEF CleanInv, RestoredInv, TurnsInv, TurnsOK, RunLeft, EveryChangeWasPut
  <2> QED
    BY <2>1, <2>2
<1>3. CleanInv => EveryChangeAnswered
  BY ManualIsSeen DEF CleanInv
<1> QED
  BY <1>1, <1>2, <1>3, CleanInit, CleanStep, PTL DEF Spec
=============================================================================
