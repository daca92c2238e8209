--------------------------- MODULE MCAwsRemediation ---------------------------
(* Small instances of AwsRemediation. *)
EXTENDS AwsRemediation

OneOwner == [b \in Bucket |-> Base]

Some(c) == CASE c \in {"AWS-S3-001", "AWS-S3-004"} -> "partial"
             [] c = "AWS-S3-005"  -> "kms"
             [] c = "AWS-S3-006"  -> "Suspended"
             [] c = "AWS-EBS-001" -> "off"
             [] c = "AWS-IAM-002" -> "absent"
             [] c = "AWS-VPC-001" -> "missing"

\* Everything as it is before the tool is used.
Before == {[t \in Target |-> Some(t[1])]}

\* ... or with EBS encryption by default on in the first region.
OffOrOnInUs ==
    Before \cup {[t \in Target |-> IF t[1] = "AWS-EBS-001" /\ t[3] = "us" THEN "on" ELSE Some(t[1])]}

Accounts1 == <<"acc1">>
Accounts2 == <<"acc1", "acc2">>
Twice     == <<"acc1", "acc1">>
Regions1  == <<"us">>
Regions2  == <<"us", "eu">>

NoFiles == {}

\* Nobody else changes anything, or only one setting.
Uncontested == {}
ContestedBucket == {<<"AWS-S3-004", Owner["b1"], "b1">>}
=============================================================================
