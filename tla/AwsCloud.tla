------------------------------- MODULE AwsCloud -------------------------------
(***************************************************************************)
(* The AWS settings that PagerWesi can change, the controls that read and  *)
(* write them, and the change manifest that an apply run leaves for a      *)
(* later rollback.  AwsRun (audit, plan, apply) and AwsRollback share the  *)
(* variables declared here; AwsRemediation runs one after the other.       *)
(*                                                                         *)
(* A setting is abstracted to the few values the controls tell apart:      *)
(*   public access block   none (not configured), partial, full            *)
(*   default encryption    none, kms (rules of the owner), aes (the tool)  *)
(*   versioning            Disabled (never enabled), Suspended, Enabled    *)
(*   EBS default           off, on                                         *)
(*   access analyzer       absent, own (of the owner), tool                *)
(*   VPC flow logs         missing (for some VPC), own, tool               *)
(***************************************************************************)
EXTENDS Integers, Sequences, FiniteSets

CONSTANTS
    Account,        \* AWS accounts
    Region,         \* AWS regions
    Bucket,         \* S3 buckets, globally named
    Owner,          \* Owner[b]: the account that owns bucket b
    InitialClouds,  \* the settings a run may find
    Contested       \* bound: the settings that somebody else may change, once each

VARIABLES
    cloud,      \* cloud[t]: the value of setting t
    drifted,    \* the settings somebody else changed since the start
    manifest    \* the manifest file on disk

-----------------------------------------------------------------------------
(* Controls, in the order the code runs them. *)

CheckOrder ==
    << "AWS-ORG-CT-001", "AWS-ORG-GD-001", "AWS-ORG-SH-001", "AWS-ORG-CONFIG-001",
       "AWS-IAM-001", "AWS-CT-001", "AWS-CONFIG-001", "AWS-GD-001", "AWS-SH-001",
       "AWS-EC2-001", "AWS-EBS-001", "AWS-RDS-001", "AWS-VPC-001", "AWS-IAM-002",
       "AWS-KMS-001",
       "AWS-S3-001",
       "AWS-S3-002", "AWS-S3-003", "AWS-S3-004", "AWS-S3-005", "AWS-S3-006",
       "AWS-S3-007" >>

Rank == [c \in {CheckOrder[i] : i \in DOMAIN CheckOrder} |->
            CHOOSE i \in DOMAIN CheckOrder : CheckOrder[i] = c]

OrgControls ==
    {"AWS-ORG-CT-001", "AWS-ORG-GD-001", "AWS-ORG-SH-001", "AWS-ORG-CONFIG-001"}

ServiceControls ==
    {"AWS-IAM-001", "AWS-CT-001", "AWS-CONFIG-001", "AWS-GD-001", "AWS-SH-001",
     "AWS-EC2-001", "AWS-EBS-001", "AWS-RDS-001", "AWS-VPC-001", "AWS-IAM-002",
     "AWS-KMS-001"}

BucketControls ==
    {"AWS-S3-002", "AWS-S3-003", "AWS-S3-004", "AWS-S3-005", "AWS-S3-006",
     "AWS-S3-007"}

S3Controls == {"AWS-S3-001"} \cup BucketControls

Control == OrgControls \cup ServiceControls \cup S3Controls

\* The controls that apply mode can bring into compliance.
RegionRemediable == {"AWS-EBS-001", "AWS-VPC-001", "AWS-IAM-002"}
BucketRemediable == {"AWS-S3-004", "AWS-S3-005", "AWS-S3-006"}
Remediable == {"AWS-S3-001"} \cup RegionRemediable \cup BucketRemediable

-----------------------------------------------------------------------------
(* Settings. *)

Global == "global"      \* the place of a setting that belongs to an account

\* A setting is a control applied to a place of an account.
Target ==
    ({"AWS-S3-001"} \X Account \X {Global})
        \cup (RegionRemediable \X Account \X Region)
        \cup {<<c, Owner[b], b>> : c \in BucketRemediable, b \in Bucket}

Settings(c) ==
    CASE c \in {"AWS-S3-001", "AWS-S3-004"} -> {"none", "partial", "full"}
      [] c = "AWS-S3-005"  -> {"none", "kms", "aes"}
      [] c = "AWS-S3-006"  -> {"Disabled", "Suspended", "Enabled"}
      [] c = "AWS-EBS-001" -> {"off", "on"}
      [] c = "AWS-IAM-002" -> {"absent", "own", "tool"}
      [] c = "AWS-VPC-001" -> {"missing", "own", "tool"}

Value ==
    {"none", "partial", "full", "kms", "aes", "Disabled", "Suspended", "Enabled",
     "off", "on", "absent", "missing", "own", "tool"}

Compliant(v) == v \in {"full", "kms", "aes", "Enabled", "on", "own", "tool"}

\* What apply mode writes.
Desired(c) ==
    CASE c \in {"AWS-S3-001", "AWS-S3-004"}  -> "full"
      [] c = "AWS-S3-005"                    -> "aes"
      [] c = "AWS-S3-006"                    -> "Enabled"
      [] c = "AWS-EBS-001"                   -> "on"
      [] c \in {"AWS-IAM-002", "AWS-VPC-001"} -> "tool"

-----------------------------------------------------------------------------
(* Findings and manifests.  A finding names its control and its resource:  *)
(* an account or a bucket, never a region.  "at" is the place of the       *)
(* finding in the list of findings (the visit and the region that added    *)
(* it); the code sorts the list by control and resource with a stable sort *)
(* and never writes "at" down.  "id" says whether "after" carries the      *)
(* identifier of what was created (analyzer_name, flow_log_ids).           *)

Status == {"pass", "fail", "error", "skip", "manual"}

NoValue == "-"

Resource(c, account, place) == IF c \in BucketControls THEN place ELSE account

Finding(c, resource, status, at) ==
    [control |-> c, resource |-> resource, status |-> status, changed |-> FALSE,
     planned |-> FALSE, before |-> NoValue, after |-> NoValue, id |-> FALSE,
     at |-> at]

FindingSet ==
    [control : Control \cup {"AWS-ORG-001"}, resource : Account \cup Bucket,
     status : Status, changed : BOOLEAN, planned : BOOLEAN,
     before : Value \cup {NoValue}, after : Value \cup {NoValue}, id : BOOLEAN,
     at : Nat \X Nat]

exit_code(findings) ==
    IF \E f \in findings : f.status = "error" THEN 2
    ELSE IF \E f \in findings : f.status = "fail" THEN 1 ELSE 0

ManifestKinds == {"absent", "torn", "plans", "changes"}

NoManifest == [kind |-> "absent", entries |-> {}]

change_manifest(findings) ==
    [kind |-> "changes", entries |-> {f \in findings : f.changed}]

plan_manifest(findings) ==
    [kind |-> "plans", entries |-> {f \in findings : f.planned}]

-----------------------------------------------------------------------------
ASSUME OwnerAssumption == Owner \in [Bucket -> Account]

ASSUME PlacesDistinct == Account \cap Bucket = {} /\ Global \notin Region \cup Bucket

ASSUME InitialCloudsAssumption ==
    \A f \in InitialClouds :
        f \in [Target -> Value] /\ \A t \in Target : f[t] \in Settings(t[1])

ASSUME ContestedAssumption == Contested \subseteq Target

CloudOK == /\ cloud \in [Target -> Value]
           /\ \A t \in Target : cloud[t] \in Settings(t[1])

CloudTypeOK ==
    /\ CloudOK
    /\ drifted \subseteq Target
    /\ manifest \in [kind : ManifestKinds, entries : SUBSET FindingSet]

\* Somebody else changes a setting.  A bucket never returns to Disabled, and
\* only the tool creates the tool's own analyzer and flow logs.
Drift ==
    /\ \E t \in Contested \ drifted : \E v \in Settings(t[1]) \ {cloud[t], "Disabled", "tool"} :
          cloud' = [cloud EXCEPT ![t] = v] /\ drifted' = drifted \cup {t}
    /\ UNCHANGED manifest
=============================================================================
