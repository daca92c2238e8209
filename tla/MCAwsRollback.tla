---------------------------- MODULE MCAwsRollback ----------------------------
(* Small instances of AwsRollback: files written by hand or by apply. *)
EXTENDS AwsRollback

OneOwner == [b \in Bucket |-> Home]

Applied(c) == CASE c = "AWS-S3-005" -> "aes"
                [] c = "AWS-S3-006" -> "Enabled"
                [] c = "AWS-EBS-001" -> "on"
                [] c \in {"AWS-IAM-002", "AWS-VPC-001"} -> "tool"
                [] OTHER -> "full"

\* Everything as apply left it.
AfterApply == {[t \in Target |-> Applied(t[1])]}

Listed(c, resource, before, id, visit) ==
    [Finding(c, resource, "pass", <<visit, 0>>) EXCEPT
        !.changed = TRUE, !.before = before, !.after = Desired(c), !.id = id]

\* The changes of the tests of rollback.py, with the identifiers they assume;
\* the versioning of a bucket is left to the operator.
Complete ==
    {Listed("AWS-IAM-002", "acc1", "absent", TRUE, 1),
     Listed("AWS-VPC-001", "acc1", "missing", TRUE, 1),
     Listed("AWS-EBS-001", "acc1", "off", FALSE, 1),
     Listed("AWS-S3-005", "b1", NoValue, FALSE, 1),
     Listed("AWS-S3-006", "b1", "Suspended", FALSE, 1)}

\* What cannot be undone, what does not apply, what is refused, and a
\* setting that was changed twice.
Awkward ==
    {Listed("AWS-VPC-001", "acc1", "own", FALSE, 1),
     Listed("AWS-EBS-001", "acc1", "on", FALSE, 1),
     Listed("AWS-IAM-002", "acc1", "absent", FALSE, 1),
     Listed("AWS-S3-001", "acc2", "partial", FALSE, 1),
     Listed("AWS-S3-004", "b1", "partial", FALSE, 1),
     Listed("AWS-S3-004", "b1", "none", FALSE, 2),
     [Finding("AWS-CT-001", "acc1", "pass", <<1, 1>>) EXCEPT !.changed = TRUE, !.after = "on"]}

Files == {NoManifest, [kind |-> "torn", entries |-> {}], [kind |-> "plans", entries |-> {}],
          [kind |-> "changes", entries |-> Complete],
          [kind |-> "changes", entries |-> Awkward]}

\* What others may change while the tool runs: one setting of one bucket.
ContestedBucket == {<<"AWS-S3-004", Owner["b1"], "b1">>}
=============================================================================
