----------------------------- MODULE MCCommandLine -----------------------------
(* A small instance of CommandLine. *)
EXTENDS CommandLine

Plain == [command |-> "audit", provider |-> "aws", mode |-> "audit", yes |-> FALSE,
          rollback |-> FALSE, control |-> {}, options |-> {}]

\* Every combination that the guards look at, without further options.
Guarded ==
    {a \in [command : {"audit"}, provider : {"aws", "azure", "docker", "all"},
            mode : {"audit", "plan", "apply", "rollback"}, yes : BOOLEAN, rollback : BOOLEAN,
            control : {{}}, options : SUBSET {"change", "plan"}] : TRUE}

\* The other commands, controls of either kind and of none, and the options in
\* combinations that reach every step with and without the ones before it.
Chosen ==
    {[Plain EXCEPT !.command = "agent"], [Plain EXCEPT !.command = "playbook"],
     [Plain EXCEPT !.provider = "policy"],
     [Plain EXCEPT !.control = {"control"}, !.options = {"custom"}],
     [Plain EXCEPT !.control = {"custom1"}, !.options = {"custom"}],
     [Plain EXCEPT !.mode = "rollback", !.yes = TRUE, !.rollback = TRUE,
                   !.control = {"custom1"}, !.options = {"custom", "exceptions"}],
     [Plain EXCEPT !.provider = "docker", !.options = {"exceptions", "evidence", "notify"}],
     [Plain EXCEPT !.mode = "plan", !.options = {"custom", "exceptions", "dashboard", "plan"}],
     [Plain EXCEPT !.mode = "apply", !.yes = TRUE, !.options = {"notify", "change"}],
     [Plain EXCEPT !.mode = "apply", !.yes = TRUE,
                   !.options = {"custom", "exceptions", "evidence", "dashboard", "change"}],
     [Plain EXCEPT !.provider = "all", !.mode = "plan", !.options = Options \ {"change"}]}

Started == Guarded \cup Chosen

Customs == <<"custom1", "custom2">>

Result(status, changed, planned) ==
    [id |-> "control", status |-> status, changed |-> changed, planned |-> planned]

Returned ==
    {{}, {Result("pass", TRUE, FALSE)}, {Result("fail", FALSE, FALSE)},
     {Result("fail", FALSE, TRUE), Result("error", FALSE, FALSE)},
     {Result("manual", FALSE, FALSE), Result("pass", TRUE, FALSE)}}

\* Active waivers, one that has expired, and one with a date.
Waivers ==
    {{[id |-> "control", expires |-> "never"], [id |-> "custom1", expires |-> "later"]},
     {[id |-> "control", expires |-> "past"]},
     {[id |-> "control", expires |-> "date"]}}
=============================================================================
