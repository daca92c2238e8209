----------------------------- MODULE MCNetworkScan -----------------------------
(* Two endpoints, and the lists that are rejected or open no pool. *)
EXTENDS NetworkScan

MCRawLists ==
    {<<>>, <<"blank">>, <<"endpoint", "malformed">>, <<"endpoint", "endpoint", "endpoint">>,
     <<"endpoint", "blank", "endpoint">>}

MCWorkerCounts == {0, 3}
=============================================================================
