------------------------------ MODULE LinuxHarden ------------------------------
(***************************************************************************)
(* The Linux script (linux/harden.sh): audit, plan, apply and --rollback,  *)
(* one process after the other on one host, each of which may be killed.   *)
(* Under set -e every command that fails ends the script.                  *)
(*                                                                         *)
(* The script is a list of commands, of which todo is what is left.  Of    *)
(* sshd_config the model keeps the lines of the two settings, whether the  *)
(* file ends in a Match block (what is appended then belongs to it), and   *)
(* whether sshd accepts the file.  sshd itself is installed.               *)
(***************************************************************************)
EXTENDS Integers, Sequences, Functions

CONSTANTS
    OwnConfigs,     \* the files that operators put in place
    Firewalls,      \* the states a firewall may be found in
    Managers,       \* the package managers a host may have
    MaxTime         \* bound: the clock, in seconds

VARIABLES
    config,     \* /etc/ssh/sshd_config
    dirs,       \* the backup directories, named by the second
    copies,     \* copies[s]: sshd_config in the directory of s
    installed,  \* the firewall tools that are installed
    firewall,   \* firewall[t]: the state of tool t
    manager,    \* the package manager
    now,        \* the clock
    mode,       \* what the process was started for
    todo,       \* the commands it has left
    stamp,      \* the second that names its directory
    failures,   \* whether one of its checks failed
    exit,       \* how the last process ended
    own,        \* history: the file an operator last chose
    collided,   \* history: two processes used one directory
    cut         \* history: the last apply to set up a firewall was stopped at it

host == <<config, dirs, copies, installed, firewall>>
ghosts == <<own, collided, cut>>
linuxVars == <<host, manager, now, mode, todo, stamp, failures, exit, ghosts>>

\* A setting: as wanted, otherwise, in a comment, nowhere, in a Match block only.
Line == {"no", "other", "comment", "absent", "match"}
Config == [kind : {"file", "torn", "none"}, root : Line, empty : Line,
           match : BOOLEAN, ok : BOOLEAN]

\* No file, and what an interrupted copy leaves behind.
NoFile == [kind |-> "none", root |-> "absent", empty |-> "absent", match |-> FALSE, ok |-> FALSE]
Torn == [NoFile EXCEPT !.kind = "torn", !.ok = TRUE]

\* Running; SSH in the stored rules; SSH let in by the rules in force.
Firewall == [active : BOOLEAN, permitted : BOOLEAN, reach : BOOLEAN]
Tool == {"ufw", "firewalld"}
Second == 0 .. MaxTime

ASSUME LinuxAssumption ==
    /\ OwnConfigs \subseteq Config /\ \A c \in OwnConfigs : c.kind # "torn"
    /\ Firewalls \subseteq Firewall
    /\ Managers \subseteq {"apt", "dnf", "none"}
    /\ MaxTime \in Nat

\* The host can be reached before the first run.
ASSUME ReachableAssumption == \A f \in Firewalls : f.active => f.reach

Running == todo # <<>>

\* The tool that the script talks to, and what is left to do to let SSH in.
ActiveTool == IF "ufw" \in installed THEN "ufw" ELSE "firewalld"
Pending == {"permit", "add", "reload"} \cap Range(todo)

-----------------------------------------------------------------------------
(* Checks and commands. *)

\* sshd -T: the effective values.  Empty passwords are off by default.
check_root_login == config.ok /\ config.root = "no"
check_empty_passwords == config.ok /\ config.empty # "other"

\* The state of ufw counts if it is installed, and that of firewalld if not.
check_firewall ==
    \/ "ufw" \in installed /\ firewall["ufw"].active
    \/ "ufw" \notin installed /\ "firewalld" \in installed /\ firewall["firewalld"].active

\* The tool that the package manager adds when it is missing.
Added == CASE manager = "apt" -> {"ufw"} [] manager = "dnf" -> {"firewalld"} [] OTHER -> {}

\* Mutation: the firewall is reloaded before the rule is added.
FirewallCommandsEarly(tools) ==
    CASE "ufw" \in tools       -> <<"deny", "permit", "enable">>
      [] tools = {"firewalld"} -> <<"start", "reload", "add">>
      [] OTHER                 -> <<>>

\* Mutation: the firewall is not reloaded.
FirewallCommandsStored(tools) ==
    CASE "ufw" \in tools       -> <<"deny", "permit", "enable">>
      [] tools = {"firewalld"} -> <<"start", "add">>
      [] OTHER                 -> <<>>

FirewallCommands(tools) ==
    CASE "ufw" \in tools       -> <<"deny", "permit", "enable">>
      [] tools = {"firewalld"} -> <<"start", "add", "reload">>
      [] OTHER                 -> <<>>

\* Mutation: the copy is made after the first edit.
SshCommandsLate == IF config.kind = "none" THEN <<>> ELSE <<"root", "copy", "empty", "test">>

SshCommands == IF config.kind = "none" THEN <<>> ELSE <<"copy", "root", "empty", "test">>

\* What a firewall command does.  systemctl enable --now and --reload put the
\* stored rules in force; ufw allow stores a rule and puts it in force.
After(command, f) ==
    CASE command = "deny"   -> [f EXCEPT !.reach = f.permitted]
      [] command = "permit" -> [f EXCEPT !.permitted = TRUE, !.reach = TRUE]
      [] command = "enable" -> [f EXCEPT !.active = TRUE]
      [] command = "start"  -> IF f.active THEN f
                               ELSE [f EXCEPT !.active = TRUE, !.reach = f.permitted]
      [] command = "add"    -> [f EXCEPT !.permitted = TRUE]
      [] command = "reload" -> [f EXCEPT !.reach = f.permitted]

\* sed on every line with the key, comments included, or an appended line.
Edited(line) ==
    CASE line = "absent" -> IF config.match THEN "match" ELSE "no"
      [] line = "match"  -> "match"
      [] OTHER           -> "no"

-----------------------------------------------------------------------------
(* Actions. *)

LinuxInit ==
    /\ config \in OwnConfigs
    /\ dirs = {} /\ copies = [s \in Second |-> NoFile]
    /\ installed \in SUBSET Tool
    /\ firewall \in [Tool -> Firewalls]
    /\ \A t \in Tool \ installed : ~firewall[t].active
    /\ manager \in Managers
    /\ now = 0
    /\ mode = "audit" /\ todo = <<>> /\ stamp = 0 /\ failures = FALSE /\ exit = "none"
    /\ own = config /\ collided = FALSE /\ cut = FALSE

\* Mutation: any word is taken for a mode.
StartUnchecked(m) ==
    /\ ~Running
    /\ mode' \in {m, "other"} /\ todo' = <<"check">> /\ exit' = "none"
    /\ stamp' = 0 /\ failures' = FALSE
    /\ UNCHANGED <<host, manager, now, ghosts>>

\* Apply and rollback need root.
Start(m) ==
    /\ ~Running
    /\ mode' = m
    /\ \/ todo' = <<"check">> /\ exit' = "none"
       \/ m = "apply" /\ todo' = <<>> /\ exit' = "usage"
    /\ stamp' = 0 /\ failures' = FALSE
    /\ UNCHANGED <<host, manager, now, ghosts>>

\* --rollback runs at once, whatever --mode says.
StartRollback ==
    /\ ~Running
    /\ mode' = "rollback"
    /\ \/ /\ \E s \in dirs :
                /\ stamp' = s
                /\ own' = IF copies[s].kind = "none" THEN own ELSE copies[s]
          /\ todo' = <<"install", "verify">> /\ exit' = "none"
       \/ todo' = <<>> /\ exit' = "usage" /\ stamp' = 0 /\ UNCHANGED own
    /\ failures' = FALSE
    /\ UNCHANGED <<host, manager, now, collided, cut>>

\* The script goes on with the commands in rest, or ends as the checks went; its
\* count of failures ends with it.
GoOn(rest, failed) ==
    /\ todo' = rest /\ failures' = (failed /\ rest # <<>>)
    /\ exit' = IF rest # <<>> THEN exit ELSE IF failed THEN "fail" ELSE "pass"

\* run: in plan mode the command is only printed.
run(change) == IF mode = "plan" THEN UNCHANGED host ELSE change

Check ==
    /\ Running /\ Head(todo) = "check"
    /\ \E updates \in BOOLEAN :
          GoOn(IF mode = "audit" THEN <<>> ELSE <<"mkdir", "packages">>,
               updates \/ ~check_firewall \/ ~check_root_login \/ ~check_empty_passwords)
    /\ UNCHANGED <<host, manager, now, mode, stamp, ghosts>>

\* Mutation: the directory is made in plan mode, too.
MkdirAlways ==
    /\ Running /\ Head(todo) = "mkdir"
    /\ stamp' = now
    /\ dirs' = dirs \cup {now} /\ UNCHANGED <<config, copies, installed, firewall>>
    /\ collided' = (collided \/ (mode = "apply" /\ now \in dirs))
    /\ GoOn(Tail(todo), failures)
    /\ UNCHANGED <<manager, now, mode, own, cut>>

\* install -d does not mind a directory that exists.
Mkdir ==
    /\ Running /\ Head(todo) = "mkdir"
    /\ stamp' = now
    /\ run(dirs' = dirs \cup {now} /\ UNCHANGED <<config, copies, installed, firewall>>)
    /\ collided' = (collided \/ (mode = "apply" /\ now \in dirs))
    /\ GoOn(Tail(todo), failures)
    /\ UNCHANGED <<manager, now, mode, own, cut>>

Packages ==
    /\ Running /\ Head(todo) = "packages"
    /\ run(installed' = installed \cup Added /\ UNCHANGED <<config, dirs, copies, firewall>>)
    /\ GoOn(FirewallCommands(installed') \o SshCommands, failures)
    /\ UNCHANGED <<manager, now, mode, stamp, ghosts>>

ChangeFirewall ==
    /\ Running /\ Head(todo) \in {"deny", "permit", "enable", "start", "add", "reload"}
    /\ run(/\ firewall' = [firewall EXCEPT ![ActiveTool] = After(Head(todo), @)]
           /\ UNCHANGED <<config, dirs, copies, installed>>)
    /\ GoOn(Tail(todo), failures)
    /\ cut' = (cut /\ (mode # "apply" \/ Head(todo) \notin {"permit", "reload"}))
    /\ UNCHANGED <<manager, now, mode, stamp, own, collided>>

CopyConfig ==
    /\ Running /\ Head(todo) = "copy"
    /\ run(copies' = [copies EXCEPT ![stamp] = config] /\ UNCHANGED <<config, dirs, installed, firewall>>)
    /\ GoOn(Tail(todo), failures)
    /\ UNCHANGED <<manager, now, mode, stamp, ghosts>>

EditConfig ==
    /\ Running /\ Head(todo) \in {"root", "empty"}
    /\ run(/\ config' = [config EXCEPT ![Head(todo)] = Edited(@)]
           /\ UNCHANGED <<dirs, copies, installed, firewall>>)
    /\ GoOn(Tail(todo), failures)
    /\ UNCHANGED <<manager, now, mode, stamp, ghosts>>

\* Mutation: the file that was put back is tested again.
TestConfigAgain ==
    /\ Running /\ Head(todo) = "test"
    /\ \/ /\ mode = "plan" \/ config.ok
          /\ GoOn(<<>>, failures)
          /\ UNCHANGED config
       \/ /\ mode = "apply" /\ ~config.ok
          /\ config' = copies[stamp]
          /\ UNCHANGED <<todo, exit, failures>>
    /\ UNCHANGED <<dirs, copies, installed, firewall, manager, now, mode, stamp, ghosts>>

\* sshd -t, in apply mode; the copy is put back if the file is refused.
TestConfig ==
    /\ Running /\ Head(todo) = "test"
    /\ \/ /\ mode = "plan" \/ config.ok
          /\ GoOn(<<>>, failures)
          /\ UNCHANGED config
       \/ /\ mode = "apply" /\ ~config.ok
          /\ config' = copies[stamp]
          /\ todo' = <<>> /\ exit' = "invalid" /\ failures' = FALSE
    /\ UNCHANGED <<dirs, copies, installed, firewall, manager, now, mode, stamp, ghosts>>

\* A directory without a copy is passed over in silence.
InstallCopy ==
    /\ Running /\ Head(todo) = "install"
    /\ config' = IF copies[stamp].kind = "none" THEN config ELSE copies[stamp]
    /\ GoOn(Tail(todo), failures)
    /\ UNCHANGED <<dirs, copies, installed, firewall, manager, now, mode, stamp, ghosts>>

VerifyConfig ==
    /\ Running /\ Head(todo) = "verify"
    /\ todo' = <<>>
    /\ exit' = IF config.ok THEN "pass" ELSE "stopped"
    /\ UNCHANGED <<host, manager, now, mode, stamp, failures, ghosts>>

\* What a command leaves behind that stops half way: a file it was writing is torn.
Interrupted ==
    /\ \/ UNCHANGED <<config, copies>>
       \/ /\ Head(todo) = "copy"
          /\ copies' = [copies EXCEPT ![stamp] = Torn] /\ UNCHANGED config
       \/ /\ \/ Head(todo) = "install" /\ copies[stamp].kind # "none"
             \/ Head(todo) = "test" /\ ~config.ok
          /\ config' = Torn /\ UNCHANGED copies
    /\ UNCHANGED <<dirs, installed, firewall>>

\* A command fails (set -e), or the process is killed.
Stop ==
    /\ Running
    /\ run(Interrupted)
    /\ todo' = <<>> /\ exit' = "stopped"
    /\ cut' = (cut \/ (mode = "apply" /\ Pending # {})) /\ failures' = FALSE
    /\ UNCHANGED <<manager, now, mode, stamp, own, collided>>

\* An operator replaces the file.
OperatorEdits ==
    /\ ~Running
    /\ config' \in OwnConfigs /\ own' = config'
    /\ UNCHANGED <<dirs, copies, installed, firewall, manager, now, mode, todo, stamp, failures,
                   exit, collided, cut>>

Tick ==
    /\ now < MaxTime /\ now' = now + 1
    /\ UNCHANGED <<host, manager, mode, todo, stamp, failures, exit, ghosts>>

Command ==
    \/ Check \/ Mkdir \/ Packages \/ ChangeFirewall \/ CopyConfig \/ EditConfig \/ TestConfig
    \/ InstallCopy \/ VerifyConfig

LinuxNext ==
    \/ \E m \in {"audit", "plan", "apply"} : Start(m)
    \/ StartRollback \/ Command \/ Stop \/ OperatorEdits \/ Tick

\* A process that runs goes on.
LinuxSpec == LinuxInit /\ [][LinuxNext]_linuxVars /\ WF_linuxVars(Command)

-----------------------------------------------------------------------------
(* Properties. *)

LinuxTypeOK ==
    /\ config \in Config /\ own \in Config
    /\ dirs \subseteq Second
    /\ copies \in [Second -> Config]
    /\ installed \subseteq Tool
    /\ firewall \in [Tool -> Firewall]
    /\ manager \in Managers
    /\ now \in Second /\ stamp \in Second
    /\ mode \in {"audit", "plan", "apply", "rollback"}
    /\ exit \in {"none", "pass", "fail", "usage", "invalid", "stopped"}
    /\ failures \in BOOLEAN /\ collided \in BOOLEAN /\ cut \in BOOLEAN

\* The file that an operator last chose, by hand or by a rollback, is never lost:
\* it is in place or in a backup, whatever ran, failed and was killed since, unless
\* two processes of one second shared a directory.
NothingUnrecoverable ==
    collided \/ config = own \/ \E s \in dirs : copies[s] = own

\* A firewall keeps SSH out while an apply is between the commands that turn it on and
\* let SSH in, or after one was stopped there, until another gets past them; so the
\* host is out of reach after no other end, however many processes ran before.
CutOffOnlyIfStopped ==
    \A t \in Tool : firewall[t].active /\ ~firewall[t].reach =>
        cut \/ (mode = "apply" /\ Pending # {})

\* "Updates and validates sshd config" (docs/controls.md:50): an apply that exits 0
\* leaves a host that passes the checks and lets SSH in.  One that exits 1 does as
\* well, though its own checks came before, but that there may be no firewall tool,
\* no sshd_config, or, against that line, a PermitRootLogin that stands in a Match
\* block only: what is appended belongs to the block, and root may log in elsewhere.
AppliedMeansHardened ==
    [][mode = "apply" /\ Running /\ exit' \in {"pass", "fail"} =>
         /\ \/ (check_firewall /\ firewall[ActiveTool].reach)'
            \/ exit' = "fail" /\ installed' = {}
         /\ \/ check_root_login'
            \/ exit' = "fail" /\ (config'.kind = "none" \/ config'.root = "match")
         /\ \/ check_empty_passwords'
            \/ exit' = "fail" /\ config'.kind = "none"]_linuxVars

\* Plan and audit print, and change nothing.
PlanChangesNothing ==
    [][Running /\ mode \in {"audit", "plan"} => UNCHANGED host]_linuxVars

\* Every process ends.
ScriptEnds == Running ~> ~Running
=============================================================================
