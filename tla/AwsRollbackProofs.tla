--------------------------- MODULE AwsRollbackProofs ---------------------------
(***************************************************************************)
(* Theorems about AwsRollback, for every cloud, every manifest file and    *)
(* any number of attempts, whatever calls fail and whoever else changes    *)
(* settings meanwhile.                                                     *)
(***************************************************************************)
EXTENDS AwsRollback, TLAPS

-----------------------------------------------------------------------------
(* Types. *)

LEMMA FindingParts ==
    ASSUME NEW e \in FindingSet
    PROVE  /\ e.before \in Value \cup {NoValue}
           /\ e.control \in Control \cup {"AWS-ORG-001"}
  BY DEF FindingSet

\* What the calls write is a value of the setting.
LEMMA RestoredType ==
    ASSUME NEW e \in FindingSet, Plan(e) = "call",
           e.control \in Remediable => e.before \in Settings(e.control) \cup {NoValue}
    PROVE  /\ Restored(e) \in Settings(e.control) /\ Restored(e) \in Value
           /\ RollbackTarget(e)[1] = e.control
<1>1. e.control \in {"AWS-S3-001", "AWS-S3-004", "AWS-S3-005", "AWS-EBS-001", "AWS-IAM-002", "AWS-VPC-001"}
  BY DEF Plan
<1>2. e.before \in Settings(e.control) \cup {NoValue}
  BY <1>1 DEF Remediable, RegionRemediable, BucketRemediable
<1>3. RollbackTarget(e)[1] = e.control
  BY <1>1 DEF RollbackTarget, BucketControls
<1>4. Restored(e) \in Settings(e.control)
  <2>1. CASE e.control \in {"AWS-S3-001", "AWS-S3-004"}
    <3>1. Settings(e.control) = {"none", "partial", "full"}
      BY <2>1 DEF Settings
    <3> QED
      BY <1>2, <2>1, <3>1 DEF Restored
  <2>2. CASE e.control = "AWS-S3-005"
    <3>1. Settings(e.control) = {"none", "kms", "aes"}
      BY <2>2 DEF Settings
    <3> QED
      BY <1>2, <2>2, <3>1 DEF Restored
  <2>3. CASE e.control \in {"AWS-EBS-001", "AWS-IAM-002", "AWS-VPC-001"}
    BY <2>3 DEF Settings, Restored
  <2> QED
    BY <1>1, <2>1, <2>2, <2>3
<1>5. Settings(e.control) \subseteq Value
  BY <1>1 DEF Settings, Value
<1> QED
  BY <1>3, <1>4, <1>5

EntriesOK ==
    manifest.kind = "changes" =>
        \A e \in manifest.entries :
            e.control \in Remediable => e.before \in Settings(e.control) \cup {NoValue}

RollbackInv ==
    /\ RollbackTypeOK /\ EntriesOK
    /\ remaining \subseteq manifest.entries
    /\ remaining # {} => manifest.kind = "changes"

LEMMA CallType ==
    ASSUME RollbackInv, NEW e \in remaining, Plan(e) = "call",
           cloud' = [cloud EXCEPT ![RollbackTarget(e)] = Restored(e)]
    PROVE  CloudOK'
<1>1. e \in FindingSet /\ cloud \in [Target -> Value] /\ \A t \in Target : cloud[t] \in Settings(t[1])
  BY DEF RollbackInv, RollbackTypeOK, CloudTypeOK, CloudOK
<1>2. /\ Restored(e) \in Settings(e.control) /\ Restored(e) \in Value
      /\ RollbackTarget(e)[1] = e.control
  BY <1>1, RestoredType DEF RollbackInv, EntriesOK
<1>3. cloud' \in [Target -> Value]
  BY <1>1, <1>2
<1>4. \A t \in Target : cloud'[t] = IF t = RollbackTarget(e) THEN Restored(e) ELSE cloud[t]
  BY <1>1
<1>5. \A t \in Target : cloud'[t] \in Settings(t[1])
  BY <1>1, <1>2, <1>4
<1> QED
  BY <1>3, <1>5 DEF CloudOK

LEMMA AnswerType ==
    ASSUME RollbackInv, NEW e \in remaining, NEW status \in Status, Answer(e, status)
    PROVE  /\ results' \subseteq [change : FindingSet, status : Status]
           /\ remaining' \subseteq remaining
  BY DEF Answer, RollbackInv, RollbackTypeOK

LEMMA DriftType ==
    ASSUME CloudTypeOK, Drift
    PROVE  CloudTypeOK'
<1>0. PICK t \in Contested \ drifted :
        \E v \in Settings(t[1]) \ {cloud[t], "Disabled", "tool"} :
            cloud' = [cloud EXCEPT ![t] = v] /\ drifted' = drifted \cup {t}
  BY DEF Drift
<1>1. PICK v \in Settings(t[1]) : cloud' = [cloud EXCEPT ![t] = v] /\ drifted' = drifted \cup {t}
  BY <1>0
<1>2. t \in Target
  BY <1>1, ContestedAssumption
<1>3. t[1] \in Remediable
  BY <1>2 DEF Target, Remediable
<1>4. Settings(t[1]) \subseteq Value
  BY <1>3 DEF Settings, Value, Remediable, RegionRemediable, BucketRemediable
<1>5. cloud' \in [Target -> Value]
  BY <1>1, <1>4 DEF CloudTypeOK, CloudOK
<1>6. \A u \in Target : cloud'[u] \in Settings(u[1])
  BY <1>1 DEF CloudTypeOK, CloudOK
<1> QED
  BY <1>1, <1>2, <1>5, <1>6 DEF Drift, CloudTypeOK, CloudOK

LEMMA RollbackInvInit == RollbackInit => RollbackInv
<1> SUFFICES ASSUME RollbackInit PROVE RollbackInv
  OBVIOUS
<1>1. cloud \in [Target -> Value] /\ \A t \in Target : cloud[t] \in Settings(t[1])
  BY InitialCloudsAssumption DEF RollbackInit
<1>2. manifest \in [kind : ManifestKinds, entries : SUBSET FindingSet] /\ EntriesOK
  BY RollbackAssumption DEF RollbackInit, EntriesOK
<1>3. MaxAttempts \in Nat
  BY RollbackAssumption
<1> QED
  BY <1>1, <1>2, <1>3
     DEF RollbackInit, RollbackInv, RollbackTypeOK, CloudTypeOK, CloudOK, RollbackPhases

LEMMA RollbackInvStep == RollbackInv /\ [RollbackNext]_rollbackVars => RollbackInv'
<1> SUFFICES ASSUME RollbackInv, [RollbackNext]_rollbackVars PROVE RollbackInv'
  OBVIOUS
<1> USE DEF RollbackPhases
<1>1. ASSUME StartRollback PROVE RollbackInv'
  <2>1. manifest.entries \subseteq FindingSet
    BY DEF RollbackInv, RollbackTypeOK, CloudTypeOK
  <2>2. attempts' \in 0 .. MaxAttempts
    BY <1>1, RollbackAssumption DEF StartRollback, RollbackInv, RollbackTypeOK
  <2> QED
    BY <1>1, <2>1, <2>2 DEF StartRollback, RollbackInv, RollbackTypeOK, CloudTypeOK, CloudOK, EntriesOK
<1>2. ASSUME NEW e \in remaining, LeaveChange(e) PROVE RollbackInv'
  <2>1. Plan(e) \in Status
    BY <1>2 DEF LeaveChange, Plan, Status
  <2>2. results' \subseteq [change : FindingSet, status : Status] /\ remaining' \subseteq remaining
    BY <1>2, <2>1, AnswerType DEF LeaveChange
  <2> QED
    BY <1>2, <2>2 DEF LeaveChange, RollbackInv, RollbackTypeOK, CloudTypeOK, CloudOK, EntriesOK
<1>3. ASSUME NEW e \in remaining, RestoreChange(e) \/ RestoreFails(e) PROVE RollbackInv'
  <2>1. Answer(e, "pass") \/ Answer(e, "error")
    BY <1>3 DEF RestoreChange, RestoreFails
  <2>2. results' \subseteq [change : FindingSet, status : Status] /\ remaining' \subseteq remaining
    BY <2>1, AnswerType DEF Status
  <2>3. Plan(e) = "call"
        /\ (cloud' = cloud \/ cloud' = [cloud EXCEPT ![RollbackTarget(e)] = Restored(e)])
    BY <1>3 DEF RestoreChange, RestoreFails
  <2>4. CloudOK'
    <3>1. CASE cloud' = cloud
      BY <3>1 DEF RollbackInv, RollbackTypeOK, CloudTypeOK, CloudOK
    <3> QED
      BY <2>3, <3>1, CallType
  <2>5. UNCHANGED <<drifted, manifest, rbPhase, attempts>>
    BY <1>3 DEF RestoreChange, RestoreFails
  <2> QED
    BY <2>2, <2>4, <2>5 DEF RollbackInv, RollbackTypeOK, CloudTypeOK, EntriesOK
<1>4. ASSUME FinishRollback \/ CrashRollback PROVE RollbackInv'
  BY <1>4 DEF FinishRollback, CrashRollback, RollbackInv, RollbackTypeOK, CloudTypeOK, CloudOK, EntriesOK
<1>5. ASSUME Drift, UNCHANGED rollbackOnly PROVE RollbackInv'
  <2>1. CloudTypeOK' /\ manifest' = manifest
    BY <1>5, DriftType DEF Drift, RollbackInv, RollbackTypeOK
  <2> QED
    BY <1>5, <2>1 DEF rollbackOnly, RollbackInv, RollbackTypeOK, EntriesOK
<1>6. ASSUME UNCHANGED rollbackVars PROVE RollbackInv'
  BY <1>6 DEF rollbackVars, RollbackInv, RollbackTypeOK, CloudTypeOK, CloudOK, EntriesOK
<1> QED
  BY <1>1, <1>2, <1>3, <1>4, <1>5, <1>6 DEF RollbackNext, RollbackStep

LEMMA RollbackInvariant == RollbackSpec => []RollbackInv
  BY RollbackInvInit, RollbackInvStep, PTL DEF RollbackSpec

\* The rollback writes values that the settings have, and answers with a status.
THEOREM RollbackTypeCorrect == RollbackSpec => []RollbackTypeOK
<1>1. RollbackInv => RollbackTypeOK
  BY DEF RollbackInv
<1> QED
  BY <1>1, RollbackInvariant, PTL

-----------------------------------------------------------------------------
(* The answers. *)

\* What is answered and what remains make up the manifest.  Versioning is never written
\* back, so that no answer on it hides the MANUAL one.
AnsweredOK ==
    /\ rbPhase \in {"restoring", "done"} =>
          /\ {r.change : r \in results} \cup remaining = manifest.entries
          /\ \A r \in results : r.change \notin remaining
          /\ \A r, s \in results : r.change = s.change => r = s
    /\ rbPhase = "done" => remaining = {}
    /\ \A r \in results : r.change.control = "AWS-S3-006" => r.status = "manual"

LEMMA AnsweredOne ==
    ASSUME AnsweredOK, NEW e \in remaining, NEW status, rbPhase = "restoring",
           Answer(e, status), UNCHANGED <<manifest, rbPhase>>,
           e.control = "AWS-S3-006" => status = "manual"
    PROVE  AnsweredOK'
<1> DEFINE a == [change |-> e, status |-> status]
<1>1. results' = results \cup {a} /\ remaining' = remaining \ {e} /\ a.change = e /\ a.status = status
  BY DEF Answer
<1> HIDE DEF a
<1>2. {r.change : r \in results'} = {r.change : r \in results} \cup {e}
  BY <1>1
<1>3. /\ {r.change : r \in results} \cup remaining = manifest.entries
      /\ \A r \in results : r.change \notin remaining /\ r.change # e
      /\ \A r, s \in results : r.change = s.change => r = s
  BY DEF AnsweredOK
<1>4. {r.change : r \in results'} \cup remaining' = manifest'.entries
  BY <1>1, <1>2, <1>3
<1>5. \A r \in results' : r.change \notin remaining'
  BY <1>1, <1>3
<1>6. \A r, s \in results' : r.change = s.change => r = s
  BY <1>1, <1>3
<1>7. \A r \in results' : r.change.control = "AWS-S3-006" => r.status = "manual"
  BY <1>1 DEF AnsweredOK
<1> QED
  BY <1>4, <1>5, <1>6, <1>7 DEF AnsweredOK

LEMMA AnsweredStep == AnsweredOK /\ [RollbackNext]_rollbackVars => AnsweredOK'
<1> SUFFICES ASSUME AnsweredOK, [RollbackNext]_rollbackVars PROVE AnsweredOK'
  OBVIOUS
<1>1. ASSUME StartRollback PROVE AnsweredOK'
  BY <1>1 DEF StartRollback, AnsweredOK
<1>2. ASSUME NEW e \in remaining, LeaveChange(e) PROVE AnsweredOK'
  <2>1. e.control = "AWS-S3-006" => Plan(e) = "manual"
    BY DEF Plan
  <2> QED
    BY <1>2, <2>1, AnsweredOne DEF LeaveChange
<1>3. ASSUME NEW e \in remaining, RestoreChange(e) \/ RestoreFails(e) PROVE AnsweredOK'
  <2>1. /\ rbPhase = "restoring" /\ Plan(e) = "call" /\ UNCHANGED <<manifest, rbPhase>>
        /\ Answer(e, "pass") \/ Answer(e, "error")
    BY <1>3 DEF RestoreChange, RestoreFails
  <2>2. e.control # "AWS-S3-006"
    BY <2>1 DEF Plan
  <2> QED
    BY <2>1, <2>2, AnsweredOne
<1>4. ASSUME FinishRollback PROVE AnsweredOK'
  BY <1>4 DEF FinishRollback, AnsweredOK
<1>5. ASSUME CrashRollback PROVE AnsweredOK'
  BY <1>5 DEF CrashRollback, AnsweredOK
<1>6. ASSUME Drift, UNCHANGED rollbackOnly PROVE AnsweredOK'
  BY <1>6 DEF Drift, rollbackOnly, AnsweredOK
<1>7. ASSUME UNCHANGED rollbackVars PROVE AnsweredOK'
  BY <1>7 DEF rollbackVars, AnsweredOK
<1> QED
  BY <1>1, <1>2, <1>3, <1>4, <1>5, <1>6, <1>7 DEF RollbackNext, RollbackStep

LEMMA AnsweredInvariant == RollbackSpec => []AnsweredOK
<1>1. RollbackInit => AnsweredOK
  BY DEF RollbackInit, AnsweredOK
<1> QED
  BY <1>1, AnsweredStep, PTL DEF RollbackSpec

\* A change of versioning is seen in the exit code.
LEMMA ManualIsSeen == AnsweredOK => EveryChangeAnswered
<1>1. ASSUME AnsweredOK, rbPhase = "done", NEW e \in manifest.entries, e.control = "AWS-S3-006"
      PROVE  RollbackExit # 0
  <2>1. PICK r \in results : r.change = e
    BY <1>1 DEF AnsweredOK
  <2>2. r.status = "manual"
    BY <1>1, <2>1 DEF AnsweredOK
  <2> QED
    BY <2>2 DEF RollbackExit
<1> QED
  BY <1>1 DEF AnsweredOK, EveryChangeAnswered

\* A rollback that ends has answered every change once and no other, whatever failed,
\* and its exit code tells of a change that is left to the operator.
THEOREM ChangesAreAnswered == RollbackSpec => []EveryChangeAnswered
  BY ManualIsSeen, AnsweredInvariant, PTL
=============================================================================
