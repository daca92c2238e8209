------------------------------- MODULE AllProviders -------------------------------
(***************************************************************************)
(* `pagerwesi all`: main hands the audits of the providers to one call of  *)
(* ConcurrentRunner.run_providers, collects what they found, and exits     *)
(* with the exit code of all the findings together.  The audit of AWS is a *)
(* call that returns or raises (see AwsRun), and so are the jobs of        *)
(* run_regions.                                                            *)
(***************************************************************************)
EXTENDS ConcurrentRunner, ProviderAudit

allVars == <<vars, auditVars>>

ASSUME AllAssumption == Provider \subseteq Task

AllInit == Init /\ AuditInit

\* The jobs that are audits of this model.
Audited(t) == t \in Provider /\ call = "run_providers"

\* The audit function of t takes a step on its worker.
AuditRuns(t) == t \in running /\ Audited(t) /\ AuditStep(t) /\ UNCHANGED vars

\* The audit function of t returns or raises, as it came to.
AuditEnds(t) ==
    /\ FinishJob(t)
    /\ Audited(t) =>
          /\ stage[t] \in {"over", "raised"}
          /\ outcome'[t] = IF stage[t] = "over" THEN "ok" ELSE "error"
    /\ UNCHANGED auditVars

AllNext ==
    \/ (MainStep \/ StartJob \/ Tick) /\ UNCHANGED auditVars
    \/ \E t \in Task : AuditRuns(t) \/ AuditEnds(t)

\* Threads run, time passes, and so does every call of an audit function.
AllSpec ==
    /\ AllInit /\ [][AllNext]_allVars
    /\ WF_allVars(MainStep /\ UNCHANGED auditVars) /\ WF_allVars(StartJob /\ UNCHANGED auditVars)
    /\ WF_allVars(Tick /\ UNCHANGED auditVars)
    /\ \A t \in Task : WF_allVars(AuditRuns(t) \/ AuditEnds(t))

\* The findings main gets of t, as far as they are modelled; RUNNER-001 stands for an
\* audit that raised.
Findings(t) ==
    IF results[t] = "error" THEN {_finding("RUNNER-001", Nothing, Nothing, "error")}
    ELSE IF t \in Provider THEN found[t] ELSE {}

AllExit == exit_code(UNION {Findings(t) : t \in Task})

-----------------------------------------------------------------------------
(* Properties. *)

AllTypeOK == TypeOK /\ AuditTypeOK

\* When the findings of all providers are collected, each scope of each provider that
\* answered is accounted for, and the exit code hides nothing: 0 says that everything
\* was read and complies, 1 that everything was read, but for the one answer that is
\* misread.
ExitTellsAll ==
    pc = "returned" /\ call = "run_providers" =>
        /\ \A p \in Provider : results[p] = "ok" => EveryScopeAnswered(p)
        /\ AllExit # 2 =>
              \A p \in Provider :
                  results[p] = "ok" /\ \A m \in missed[p] : m[2] = "AZURE-LOG-002"
        /\ AllExit = 0 =>
              \A p \in Provider :
                  /\ visible[p] # {} /\ missed[p] = {}
                  /\ \A x \in seen[p] :
                        x.good \/ (x.item \in ExcludedItem /\ x.control \in PerItem)
                               \/ x.control \in WantsOne
=============================================================================
