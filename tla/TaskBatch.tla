------------------------------- MODULE TaskBatch -------------------------------
(***************************************************************************)
(* What a call that runs a batch of tasks promises: every task is run      *)
(* exactly once, each with its own outcome, and the call ends - it returns *)
(* the outcomes of all of them, or raises - only when no task is left.     *)
(***************************************************************************)
CONSTANT Task

VARIABLES
    outcome,    \* outcome[t]: "none" until t has run, then "ok" or "error"
    answer      \* how the call ended, and the outcomes it returned

vars == <<outcome, answer>>

Outcomes == {"ok", "error"}

Unknown == [t \in Task |-> "none"]

Pending  == [kind |-> "pending", results |-> Unknown]
Raised   == [kind |-> "raised", results |-> Unknown]
Returned == [kind |-> "returned", results |-> outcome]

Init == outcome = Unknown /\ answer = Pending

Run(t) ==
    /\ answer = Pending /\ outcome[t] = "none"
    /\ \E o \in Outcomes : outcome' = [outcome EXCEPT ![t] = o]
    /\ UNCHANGED answer

AllRun == \A t \in Task : outcome[t] # "none"

End ==
    /\ answer = Pending /\ AllRun
    /\ answer' \in {Returned, Raised}
    /\ UNCHANGED outcome

Next == (\E t \in Task : Run(t)) \/ End

Spec == Init /\ [][Next]_vars
=============================================================================
