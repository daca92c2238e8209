-------------------------- MODULE MCConcurrentRunner --------------------------
(* Small instances of ConcurrentRunner. *)
EXTENDS ConcurrentRunner

TwoTasks == <<"aws", "azure">>
ThreeTasks == <<"aws", "azure", "gcp">>
FourTasks == <<"aws", "azure", "gcp", "k8s">>
MinusOne == -1
=============================================================================
