------------------------------- MODULE MCAwsRun -------------------------------
(* Small instances of AwsRun. *)
EXTENDS AwsRun

OneOwner == [b \in Bucket |-> Base]

\* Settings that are out of compliance everywhere, or the owner's own.
Weak(c) == CASE c \in {"AWS-S3-001", "AWS-S3-004"} -> "partial"
             [] c = "AWS-S3-005"  -> "none"
             [] c = "AWS-S3-006"  -> "Suspended"
             [] c = "AWS-EBS-001" -> "off"
             [] c = "AWS-IAM-002" -> "absent"
             [] c = "AWS-VPC-001" -> "missing"
Strong(c) == CASE c \in {"AWS-S3-001", "AWS-S3-004"} -> "full"
               [] c = "AWS-S3-005"  -> "kms"
               [] c = "AWS-S3-006"  -> "Enabled"
               [] c = "AWS-EBS-001" -> "on"
               [] c \in {"AWS-IAM-002", "AWS-VPC-001"} -> "own"

\* Every selected setting weak or strong, the others strong.
WeakOrStrong ==
    {[t \in Target |-> IF t \in weak THEN Weak(t[1]) ELSE Strong(t[1])] :
        weak \in SUBSET {t \in Target : t[1] \in ControlArg}}

AllWeak == {[t \in Target |-> Weak(t[1])]}

Accounts1 == <<"acc1">>
Accounts2 == <<"acc1", "acc2">>
Twice     == <<"acc1", "acc1">>
Regions1  == <<"us">>
Regions2  == <<"us", "eu">>

\* Buckets b1 and b2 belong to the second account, any other to the first.
PoolOwners == [b \in Bucket |-> IF b \in {"b1", "b2"} THEN "acc2" ELSE "acc1"]

\* Nobody else changes anything, or only one setting.
Uncontested == {}
ContestedBucket == {<<"AWS-S3-004", Owner["b1"], "b1">>}
=============================================================================
