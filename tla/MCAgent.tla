------------------------------- MODULE MCAgent -------------------------------
(* A small instance of Agent: two providers, of which the first only raises or    *)
(* answers.  The second has a finding on its list of projects, which is in error  *)
(* when they cannot be listed, and one on the keys in them, which is MANUAL with  *)
(* an SDK that cannot list their locations.                                       *)
EXTENDS Agent

KeyOwnerDef == [k \in Key \cup Gap |-> "gcp"]
BehindDef == [g \in Gap |-> {"keys"}]
=============================================================================
