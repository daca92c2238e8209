------------------------------ MODULE CommandLine ------------------------------
(***************************************************************************)
(* The command line (main.py): one process, from its arguments to its exit *)
(* code.  An audit function is a call that returns findings or raises (it  *)
(* is modelled in AwsRun, AwsRollback and ConcurrentRunner); the agent is  *)
(* modelled in Agent.  Alerts are sent by notify of module Webhooks.       *)
(*                                                                         *)
(* What follows the audit are the steps that were asked for, in the order  *)
(* of Rank, of which steps is what is left.  Exceptions in some are        *)
(* printed only; those of the others escape from main, which ends the      *)
(* interpreter with exit code 1.                                           *)
(***************************************************************************)
EXTENDS Webhooks

CONSTANTS
    Invocations,        \* the arguments a process may be started with
    Supported,          \* CONTROL_IDS of the provider
    CustomControls,     \* the IDs in the file of custom controls, in its order
    Outcomes,           \* sets of findings that an audit function may return
    WaiverFiles         \* sets of waivers that the file of exceptions may hold

VARIABLES
    args,       \* the arguments
    pc,         \* "start", "audit", "steps", "custom", or how the process ended
    steps,      \* steps not yet taken
    findings,   \* the findings that are reported
    called,     \* history: an audit function was called
    audited,    \* what the audit function returned
    left,       \* custom controls not yet run
    results,    \* findings of custom controls
    dropped,    \* history: those of them that were lost when a later control raised
    waivers,    \* the exceptions that were loaded
    files,      \* files[s]: what step s wrote
    exit        \* exit code; -1 while there is none

mainOnly == <<args, pc, steps, findings, called, audited, left, results, dropped, waivers, files, exit>>
mainVars == <<mainOnly, webhookVars>>

Status == {"pass", "fail", "error", "skip", "manual"}
Custom == {CustomControls[i] : i \in DOMAIN CustomControls}
Finding == [id : Supported \cup Custom, status : Status, changed : BOOLEAN, planned : BOOLEAN]
Waiver == [id : Supported \cup Custom, expires : {"never", "later", "past", "date"}]

\* change and plan stand for the two manifests, rollback for --rollback-manifest.
\* azure stands for Azure and GCP, docker for the other single providers but aws.
Options == {"custom", "exceptions", "evidence", "dashboard", "notify", "change", "plan"}
Arguments == [command : {"audit", "agent", "playbook"},
              provider : {"aws", "azure", "docker", "all", "policy"},
              mode : {"audit", "plan", "apply", "rollback"},
              yes : BOOLEAN, rollback : BOOLEAN,
              control : SUBSET (Supported \cup Custom), options : SUBSET Options]

Written == {"report", "evidence", "dashboard", "change", "plan"}
Contents == [state : {"none", "torn", "whole"}, of : SUBSET Finding]
Ends == {"ended", "refused", "raised", "killed", "other"}

ASSUME CommandAssumption ==
    /\ Invocations \subseteq Arguments
    /\ Outcomes \subseteq SUBSET Finding
    /\ WaiverFiles \subseteq SUBSET Waiver
    /\ CustomControls \in Seq(Custom)

-----------------------------------------------------------------------------
(* Guards and helpers. *)

\* Mutation: the acknowledgement is asked for in apply mode of AWS only.
RefusedLax(a) ==
    \/ a.mode = "apply" /\ a.provider = "aws" /\ ~a.yes
    \/ "change" \in a.options /\ a.mode # "apply"
    \/ "plan" \in a.options /\ a.mode # "plan"
    \/ (a.mode = "rollback") # a.rollback
    \/ a.mode = "rollback" /\ a.provider # "aws"
    \/ a.mode = "apply" /\ a.provider = "azure"
    \/ a.mode \in {"apply", "rollback"} /\ a.provider = "all"

\* The guards on the arguments before anything is called.
Refused(a) ==
    \/ a.mode \in {"apply", "rollback"} /\ ~a.yes
    \/ "change" \in a.options /\ a.mode # "apply"
    \/ "plan" \in a.options /\ a.mode # "plan"
    \/ (a.mode = "rollback") # a.rollback
    \/ a.mode = "rollback" /\ a.provider # "aws"
    \/ a.mode = "apply" /\ a.provider = "azure"
    \/ a.mode \in {"apply", "rollback"} /\ a.provider = "all"

\* The order of the steps.
Rank == [custom |-> 1, exceptions |-> 2, report |-> 3, evidence |-> 4, dashboard |-> 5,
         notify |-> 6, change |-> 7, plan |-> 8]
Step == DOMAIN Rank

\* All providers together have a report and a plan manifest, and no other step.
Pipeline(a) ==
    {"report"} \cup (IF a.provider = "all" THEN a.options \cap {"plan"} ELSE a.options)

\* Mutation: a failed control is reported before an error.
exit_code_failed(fs) ==
    IF \E f \in fs : f.status = "fail" THEN 1
    ELSE IF \E f \in fs : f.status = "error" THEN 2 ELSE 0

exit_code(fs) ==
    IF \E f \in fs : f.status = "error" THEN 2
    ELSE IF \E f \in fs : f.status = "fail" THEN 1 ELSE 0

\* A rollback that left something to a person does not exit 0.
ExitCode(fs) ==
    IF args.mode = "rollback" /\ exit_code(fs) = 0 /\ \E f \in fs : f.status = "manual"
    THEN 1 ELSE exit_code(fs)

\* A finding belongs to a waiver by its control (and the pattern of its resource).
_matches(f, w) == f.id = w.id

\* A date that YAML has parsed already has no time zone to ask for, and raises.
Active(ws) == {w \in ws : w.expires # "past"}
Unusable(ws) == \E w \in ws : w.expires = "date"

\* Mutation: the status is compared as it is written, and set as it was compared.
apply_exceptions_lower(fs, ws) ==
    {IF f.status = "fail" /\ \E w \in Active(ws) : _matches(f, w)
     THEN [f EXCEPT !.status = "SKIP"] ELSE f : f \in fs}

\* The status is compared with "FAIL", and that of every finding is in lower case.
apply_exceptions(fs, ws) ==
    {IF f.status = "FAIL" /\ \E w \in Active(ws) : _matches(f, w)
     THEN [f EXCEPT !.status = "SKIP"] ELSE f : f \in fs}

\* What a step writes of the findings.
PartOf(s) ==
    CASE s = "change" -> {f \in findings : f.changed}
      [] s = "plan"   -> {f \in findings : f.planned}
      [] OTHER        -> findings

-----------------------------------------------------------------------------
(* Actions. *)

MainInit ==
    /\ args \in Invocations
    /\ pc = "start" /\ steps = {}
    /\ findings = {} /\ called = FALSE /\ audited = {} /\ waivers = {}
    /\ left = <<>> /\ results = {} /\ dropped = {}
    /\ files = [s \in Written |-> [state |-> "none", of |-> {}]]
    /\ exit = -1
    /\ WebhooksInit /\ ~actionable

End(how, code) == pc' = how /\ exit' = code

\* What the commands that come before all guards return; 1 if they raise.
Codes(a) == IF a.provider = "policy" \/ a.command = "agent" THEN {0, 2} ELSE {0, 1}

OtherCommand ==
    /\ pc = "start"
    /\ args.provider = "policy" \/ args.command # "audit"
    /\ \E code \in Codes(args) : End(IF code = 1 THEN "raised" ELSE "other", code)
    /\ UNCHANGED <<args, steps, findings, called, audited, left, results, dropped,
                   waivers, files, webhookVars>>

Guard ==
    /\ pc = "start"
    /\ args.provider # "policy" /\ args.command = "audit"
    /\ IF Refused(args) THEN End("refused", 2) ELSE pc' = "audit" /\ UNCHANGED exit
    /\ UNCHANGED <<args, steps, findings, called, audited, left, results, dropped,
                   waivers, files, webhookVars>>

\* A rollback does not look at --control; all providers together pass it on unchecked.
Accepted(a) == a.control \subseteq Supported \/ a.mode = "rollback" \/ a.provider = "all"

\* The audit function: only that of AWS changes anything, when it applies or rolls
\* back, and only plan plans.
Audit ==
    /\ pc = "audit" /\ Accepted(args)
    /\ called' = TRUE
    /\ audited' \in Outcomes
    /\ \A f \in audited' : f.changed => args.provider = "aws" /\ args.mode \in {"apply", "rollback"}
    /\ \A f \in audited' : f.planned => args.mode = "plan"
    /\ findings' = audited'
    /\ pc' = "steps" /\ steps' = Pipeline(args)
    /\ UNCHANGED <<args, left, results, dropped, waivers, files, exit, webhookVars>>

\* The policy, the provider or the control is not accepted, or the audit raises:
\* a message and exit code 2, but an exception for all providers together.
AuditRaises ==
    /\ pc = "audit"
    /\ IF args.provider = "all" THEN End("raised", 1) ELSE End("refused", 2)
    /\ called' \in {FALSE, Accepted(args)}
    /\ UNCHANGED <<args, steps, findings, audited, left, results, dropped, waivers,
                   files, webhookVars>>

At(s) == pc = "steps" /\ s \in steps /\ \A r \in steps : Rank[s] <= Rank[r]
Done(s) == steps' = steps \ {s} /\ pc' = "steps"

LoadCustom ==
    /\ At("custom")
    /\ \/ pc' = "custom" /\ left' = CustomControls /\ UNCHANGED steps
       \/ Done("custom") /\ UNCHANGED left        \* the file is refused: printed only
    /\ UNCHANGED <<args, findings, called, audited, results, dropped, waivers, files,
                   exit, webhookVars>>

\* One control: its command ends as expected, otherwise, or cannot be run.
RunCustom ==
    /\ pc = "custom" /\ left # <<>>
    /\ left' = Tail(left)
    /\ \/ /\ args.control # {} /\ Head(left) \notin args.control
          /\ UNCHANGED results
       \/ /\ args.control = {} \/ Head(left) \in args.control
          /\ \E s \in {"pass", "fail", "error"} :
                results' = results \cup {[id |-> Head(left), status |-> s, changed |-> FALSE,
                                          planned |-> s = "fail" /\ args.mode = "plan"]}
    /\ UNCHANGED <<args, pc, steps, findings, called, audited, dropped, waivers, files,
                   exit, webhookVars>>

\* Its severity is no severity: the findings of the controls before it are lost.
CustomRaises ==
    /\ pc = "custom" /\ left # <<>>
    /\ args.control = {} \/ Head(left) \in args.control
    /\ Done("custom") /\ left' = <<>> /\ dropped' = results
    /\ UNCHANGED <<args, findings, called, audited, results, waivers, files, exit,
                   webhookVars>>

CustomDone ==
    /\ pc = "custom" /\ left = <<>>
    /\ Done("custom") /\ findings' = findings \cup results
    /\ UNCHANGED <<args, called, audited, left, results, dropped, waivers, files, exit,
                   webhookVars>>

ApplyExceptions ==
    /\ At("exceptions")
    /\ Done("exceptions")
    /\ \/ UNCHANGED <<findings, waivers>>       \* the file cannot be read
       \/ /\ waivers' \in WaiverFiles
          /\ findings' = IF Unusable(waivers') THEN findings
                         ELSE apply_exceptions(findings, waivers')
    /\ UNCHANGED <<args, called, audited, left, results, dropped, files, exit, webhookVars>>

\* From the report on the findings stay as they are, so what notify will find
\* actionable is known.
Write(s) ==
    /\ At(s) /\ Done(s)
    /\ files' = [files EXCEPT ![s] = [state |-> "whole", of |-> PartOf(s)]]
    /\ actionable' = \E f \in findings : f.status \in {"fail", "error"}
    /\ UNCHANGED <<args, findings, called, audited, left, results, dropped, waivers, exit,
                   config, wpc, todo, failed, answers, waited>>

\* The files, when the writing of s stops half way.
Interrupted(s) == [files EXCEPT ![s] = [state |-> "torn", of |-> {}]]

\* Mutation: an error of the file system is printed only.
WriteRaisesSilently(s) ==
    /\ At(s) /\ Done(s) /\ UNCHANGED exit
    /\ files' \in {files, Interrupted(s)}
    /\ UNCHANGED <<args, findings, called, audited, left, results, dropped, waivers,
                   webhookVars>>

\* The file cannot be opened, or not be written to its end.
WriteRaises(s) ==
    /\ At(s) /\ End("raised", 1)
    /\ files' \in {files, Interrupted(s)}
    /\ UNCHANGED <<args, steps, findings, called, audited, left, results, dropped,
                   waivers, webhookVars>>

\* notify, a step at a time, and its return; every exception is printed only.
Alert ==
    /\ At("notify") /\ wpc # "done"
    /\ WebhooksNext
    /\ UNCHANGED mainOnly

Alerted ==
    /\ At("notify")
    /\ wpc \in {"idle", "done"}                 \* idle: the file cannot be read
    /\ Done("notify")
    /\ UNCHANGED <<args, findings, called, audited, left, results, dropped, waivers,
                   files, exit, webhookVars>>

Return ==
    /\ pc = "steps" /\ steps = {}
    /\ End("ended", IF args.provider = "all" THEN exit_code(findings) ELSE ExitCode(findings))
    /\ UNCHANGED <<args, steps, findings, called, audited, left, results, dropped,
                   waivers, files, webhookVars>>

\* A signal, in whatever it interrupts.
Kill ==
    /\ pc \notin Ends
    /\ pc' = "killed"
    /\ \/ UNCHANGED files
       \/ \E s \in Written : At(s) /\ files' = Interrupted(s)
    /\ UNCHANGED <<args, steps, findings, called, audited, left, results, dropped,
                   waivers, exit, webhookVars>>

MainStep ==
    \/ OtherCommand \/ Guard \/ Audit \/ AuditRaises
    \/ LoadCustom \/ RunCustom \/ CustomRaises \/ CustomDone \/ ApplyExceptions
    \/ \E s \in Written : Write(s) \/ WriteRaises(s)
    \/ Alert \/ Alerted \/ Return

MainNext == MainStep \/ Kill

\* Audit functions, commands (30 seconds) and POSTs (15 seconds) end, by a timeout
\* of their own.
MainSpec == MainInit /\ [][MainNext]_mainVars /\ WF_mainVars(MainStep)

-----------------------------------------------------------------------------
(* Properties. *)

\* The types of the process and of the call of notify in it.
MainTypeOK ==
    /\ WebhooksTypeOK
    /\ args \in Arguments
    /\ pc \in {"start", "audit", "steps", "custom"} \cup Ends
    /\ steps \subseteq Step
    /\ findings \subseteq Finding /\ audited \subseteq Finding
    /\ results \subseteq Finding /\ dropped \subseteq Finding
    /\ called \in BOOLEAN
    /\ left \in Seq(Custom)
    /\ waivers \subseteq Waiver
    /\ files \in [Written -> Contents]
    /\ exit \in -1 .. 2

\* What the process found, but for the findings of custom controls that are lost with
\* one that raises (custom_controls.py:78, main.py:294).
Counted == audited \cup (results \ dropped)

\* A process that returns an exit code of its own wrote every file it was asked
\* for, from the same findings; in particular its change manifest has every change
\* that the audit function reported, whatever became of custom controls, waivers
\* and alerts in between.
RecordsComplete ==
    pc = "ended" =>
        /\ files["report"] = [state |-> "whole", of |-> findings]
        /\ \A s \in args.options \cap {"evidence", "dashboard"} :
              args.provider # "all" => files[s] = files["report"]
        /\ "change" \in args.options =>
              /\ files["change"].state = "whole"
              /\ {f.id : f \in files["change"].of} = {f.id : f \in {g \in audited : g.changed}}
        /\ "plan" \in args.options =>
              /\ files["plan"].state = "whole"
              /\ {f.id : f \in files["plan"].of} = {f.id : f \in {g \in Counted : g.planned}}

\* "Exit codes are 0 for no failed/error findings, 1 for failed controls, and 2 for
\* execution or permission errors" (README.md:132): every error that an audit function
\* returns shows, whatever becomes of the steps after it, and every failure that no
\* active waiver covers.  So do those of custom controls, unless one of them raises;
\* then all of theirs are lost, as a message only, and so is the refusal of a file of
\* custom controls or waivers, of which the exit code does not tell.
ExitIsWorst ==
    pc = "ended" =>
        /\ exit = 2 <=> \E f \in Counted : f.status = "error"
        /\ exit = 0 =>
              /\ \A f \in Counted : f.status = "fail" =>
                    \E w \in Active(waivers) : _matches(f, w)
              /\ args.mode = "rollback" => \A f \in audited : f.status # "manual"

\* An audit function is called in apply or rollback mode with --yes only; in rollback
\* mode of AWS only, and in apply mode of no provider that main refuses it for.  The
\* others are called in apply mode, those included for which README.md:67-71 lists no
\* Apply; but what stands in a change manifest was changed by an acknowledged apply of
\* AWS.
OnlyAcknowledged ==
    /\ called /\ args.mode \in {"apply", "rollback"} => args.yes
    /\ called /\ args.mode = "rollback" => args.provider = "aws"
    /\ called /\ args.mode = "apply" => args.provider \notin {"azure", "all"}
    /\ files["change"].of # {} => args.yes /\ args.mode = "apply" /\ args.provider = "aws"

\* Every process ends, alerts and custom controls included.
MainReturns == pc = "start" ~> pc \in Ends

\* "FAIL findings matching a waiver become SKIP" (exceptions.py).
WaiversApply ==
    pc = "ended" => \A f \in findings : f.status = "fail" =>
        ~\E w \in Active(waivers) : _matches(f, w)
=============================================================================
