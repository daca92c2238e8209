----------------------------- MODULE MCAllProviders -----------------------------
(* Small instances of AllProviders. *)
EXTENDS AllProviders

ThreeTasks == <<"azure", "gcp", "k8s">>
Scopes == [p \in Provider |-> {"one"}]
Items == [p \in Provider |-> CASE p = "azure" -> {"i1"} [] p = "gcp" -> {"x1"} [] p = "k8s" -> {}]
=============================================================================
