-------------------------------- MODULE Agent --------------------------------
(***************************************************************************)
(* Agent mode (agent.py): a daemon that audits its providers in a cycle,   *)
(* keeps the last result in a state file, and alerts on the failures that  *)
(* the file does not list yet.  The process may be killed at any step and  *)
(* started again on the same file; the file may be torn by a write that    *)
(* fails half way, too large, or not be read; a provider may raise, or     *)
(* answer with errors in place of findings; the notification may raise.    *)
(*                                                                         *)
(* A finding is its identity (control and resource).  The identity of the  *)
(* AGENT-PROVIDER-001 finding of a provider is the provider.               *)
(***************************************************************************)
EXTENDS Integers, FiniteSets

CONSTANTS
    Provider,           \* the providers watched
    Key,                \* the identities that the providers report on
    Gap,                \* the identities that they report errors under
    KeyOwner,           \* KeyOwner[k]: the provider that reports on k, or under k
    Behind,             \* Behind[g]: what may go unreported when error g is reported
    Manual,             \* those that become MANUAL findings when they cannot be read
    NotifyConfigured,   \* a notification file was given and loaded
    Interval,           \* seconds of sleep between two cycles
    MaxHistory,         \* MAX_STATE_HISTORY
    MaxFaults           \* bound: crashes, failed writes and failed notifications

VARIABLES
    world,      \* the identities that are out of compliance now
    pc,         \* where run_agent is; "down" when there is no process
    pending,    \* providers still to audit in this cycle
    current,    \* the failing and error findings of this cycle
    unseen,     \* history: the identities that this cycle could not tell of
    previous,   \* those of the state loaded at the start of the cycle
    new,        \* new_fails of the cycle
    left,       \* seconds of sleep left
    shutdown,   \* the flag _shutdown
    file,       \* the state file
    kept,       \* number of files in the history directory
    faults,     \* how many faults have happened
    alerted,    \* history: alerted, and not seen in compliance since
    excused,    \* history: recorded in the file, unannounced because of a fault
    forgotten   \* history: not seen in compliance, and yet not in the file

vars == <<world, pc, pending, current, unseen, previous, new, left, shutdown, file, kept,
          faults, alerted, excused, forgotten>>

ASSUME AgentAssumption ==
    /\ Provider # {} /\ Provider \cap Key = {}
    /\ Provider \cap Gap = {}
    /\ KeyOwner \in [Key \cup Gap -> Provider]
    /\ Behind \in [Gap -> SUBSET (Key \cup Gap)]
    /\ \A g \in Gap : \A k \in Behind[g] : KeyOwner[k] = KeyOwner[g]
    /\ Manual \subseteq Key
    /\ NotifyConfigured \in BOOLEAN
    /\ Interval \in Nat \ {0}
    /\ MaxHistory \in Nat \ {0}
    /\ MaxFaults \in Nat

Ident == Key \cup Gap \cup Provider

Places == {"loop", "audit", "rotate", "prune", "diff", "notify", "sleep",
           "stopped", "down"}

Alive == pc \notin {"stopped", "down"}

-----------------------------------------------------------------------------

\* The file, and one that is missing, torn, or longer than _load_state accepts.
Files == [ok : BOOLEAN, fails : SUBSET Ident]
Unreadable == [ok |-> FALSE, fails |-> {}]

\* No state is returned of such a file, nor of any when the read raises.
_load_state(readable) == IF readable /\ file.ok THEN file.fails ELSE {}

\* Mutation: the previous state is loaded after the current one is saved.
_new_fails_late == current \ _load_state(TRUE)

\* Mutation: nothing is compared.
_new_fails_all == current

\* Identities that fail now and did not in the loaded state.
_new_fails == current \ previous

\* What a provider reports on, or under.
IdentsOf(p) == {k \in Key \cup Gap : KeyOwner[k] = p}

\* Seen in compliance in this cycle; announced, and neither seen in compliance nor
\* failing: the state of this cycle does not list it.
Cleared == Ident \ (current \cup unseen)
Hidden == (alerted \cap unseen) \ current

Init ==
    /\ world \in SUBSET Key
    /\ pc = "loop"
    /\ pending = {} /\ current = {} /\ unseen = {} /\ previous = {} /\ new = {}
    /\ left = 0
    /\ shutdown = FALSE
    /\ file = Unreadable
    /\ kept = 0
    /\ faults = 0
    /\ alerted = {} /\ excused = {} /\ forgotten = {}

Fault == faults < MaxFaults /\ faults' = faults + 1

\* The previous state is loaded; what was announced is forgotten if it cannot be read.
Load ==
    \/ /\ previous' = _load_state(TRUE) /\ UNCHANGED faults
       /\ forgotten' = forgotten \ previous'
    \/ /\ previous' = _load_state(FALSE) /\ Fault
       /\ forgotten' = forgotten \cup alerted

\* Mutation: the loop does not look at the flag.
StartCycleAlways ==
    /\ pc = "loop"
    /\ pc' = "audit"
    /\ Load
    /\ pending' = Provider
    /\ current' = {} /\ unseen' = {}
    /\ UNCHANGED <<world, new, left, shutdown, file, kept, alerted, excused>>

\* while not _shutdown: load the previous state and start a cycle.
StartCycle ==
    /\ pc = "loop" /\ ~shutdown
    /\ pc' = "audit"
    /\ Load
    /\ pending' = Provider
    /\ current' = {} /\ unseen' = {}
    /\ UNCHANGED <<world, new, left, shutdown, file, kept, alerted, excused>>

Stop ==
    /\ pc = "loop" /\ shutdown
    /\ pc' = "stopped"
    /\ UNCHANGED <<world, pending, current, unseen, previous, new, left, shutdown, file, kept,
                   faults, alerted, excused, forgotten>>

\* One provider of _run_providers: it reports what fails now, but for what is behind
\* an error that it reports as well or is left to a person; or it raises, and none of
\* its findings is seen.
_run_provider(p) ==
    /\ pc = "audit" /\ p \in pending
    /\ pending' = pending \ {p}
    /\ \/ \E gaps \in SUBSET (Gap \cap IdentsOf(p)) :
          \E missing \in SUBSET (Manual \cup UNION {Behind[g] : g \in gaps}) :
             /\ missing \subseteq IdentsOf(p)
             /\ current' = current \cup gaps \cup ((world \cap IdentsOf(p)) \ missing)
             /\ unseen' = unseen \cup missing
       \/ /\ current' = current \cup {p}
          /\ unseen' = unseen \cup IdentsOf(p)
    /\ UNCHANGED <<world, pc, previous, new, left, shutdown, file, kept, faults,
                   alerted, excused, forgotten>>

\* _save_state: the file is rewritten in place.  One that holds too much will not
\* be accepted in the next cycle.
_save_state ==
    /\ pc = "audit" /\ pending = {}
    /\ \/ /\ file' = [ok |-> TRUE, fails |-> current]
          /\ forgotten' = (forgotten \ Cleared) \cup Hidden
       \/ /\ file' = Unreadable
          /\ forgotten' = (forgotten \ Cleared) \cup Hidden \cup current
    /\ pc' = "rotate"
    /\ excused' = excused \cap file'.fails
    /\ alerted' = alerted \ Cleared
    /\ UNCHANGED <<world, pending, current, unseen, previous, new, left, shutdown, kept, faults>>

\* The write raises OSError, before or after it truncated the file.  It is only
\* logged; a file that was not truncated still lists what has been fixed, and
\* not what is new.
SaveFails ==
    /\ pc = "audit" /\ pending = {} /\ Fault
    /\ \/ /\ UNCHANGED file
          /\ excused' = excused \cup (file.fails \ current)
       \/ /\ file' = Unreadable
          /\ excused' = {}
    /\ pc' = "diff"
    /\ alerted' = alerted \ Cleared
    /\ forgotten' = forgotten \cup ((alerted \cup current) \ file'.fails)
    /\ UNCHANGED <<world, pending, current, unseen, previous, new, left, shutdown, kept>>

\* _rotate_history: a copy under the time of day (two in a second share a name).
WriteHistory ==
    /\ pc = "rotate"
    /\ kept' \in {kept, kept + 1} \ {0}
    /\ pc' = "prune"
    /\ UNCHANGED <<world, pending, current, unseen, previous, new, left, shutdown, file,
                   faults, alerted, excused, forgotten>>

\* ... and then the oldest copies are removed, as long as there are too many.
PruneHistory ==
    /\ pc = "prune"
    /\ kept' = IF kept > MaxHistory THEN MaxHistory ELSE kept
    /\ pc' = "diff"
    /\ UNCHANGED <<world, pending, current, unseen, previous, new, left, shutdown, file,
                   faults, alerted, excused, forgotten>>

RotateFails ==
    /\ pc \in {"rotate", "prune"} /\ Fault
    /\ pc' = "diff"
    /\ UNCHANGED <<world, pending, current, unseen, previous, new, left, shutdown, file,
                   kept, alerted, excused, forgotten>>

\* Mutation: nothing is compared with an empty state.
DiffKnownOnly ==
    /\ pc = "diff"
    /\ new' = IF previous = {} THEN {} ELSE _new_fails
    /\ \/ new' # {} /\ NotifyConfigured /\ pc' = "notify" /\ UNCHANGED left
       \/ (new' = {} \/ ~NotifyConfigured) /\ pc' = "sleep" /\ left' = Interval
    /\ UNCHANGED <<world, pending, current, unseen, previous, shutdown, file, kept, faults, alerted,
                   excused, forgotten>>

Diff ==
    /\ pc = "diff"
    /\ new' = _new_fails
    /\ \/ /\ new' # {} /\ NotifyConfigured
          /\ pc' = "notify"
          /\ UNCHANGED <<left, excused>>
       \/ /\ new' = {} \/ ~NotifyConfigured
          /\ pc' = "sleep" /\ left' = Interval
          /\ excused' = excused \cup new'
    /\ UNCHANGED <<world, pending, current, unseen, previous, shutdown, file, kept, faults, alerted,
                   forgotten>>

Notify ==
    /\ pc = "notify"
    /\ alerted' = alerted \cup new
    /\ excused' = excused \ new
    /\ pc' = "sleep" /\ left' = Interval
    /\ UNCHANGED <<world, pending, current, unseen, previous, new, shutdown, file, kept, faults, forgotten>>

\* notify raises, or every channel fails: it is logged, and not tried again.
NotifyFails ==
    /\ pc = "notify" /\ Fault
    /\ excused' = excused \cup new
    /\ pc' = "sleep" /\ left' = Interval
    /\ UNCHANGED <<world, pending, current, unseen, previous, new, shutdown, file, kept, alerted,
                   forgotten>>

\* Mutation: the sleep goes on below zero.
SleepOn ==
    /\ pc = "sleep"
    /\ \/ shutdown /\ pc' = "loop" /\ left' = 0
       \/ ~shutdown /\ left' = left - 1 /\ UNCHANGED pc
    /\ UNCHANGED <<world, pending, current, unseen, previous, new, shutdown, file, kept,
                   faults, alerted, excused, forgotten>>

\* One round of the sleep: a second, or the end of the cycle.
Sleep ==
    /\ pc = "sleep"
    /\ \/ /\ shutdown \/ left = 0
          /\ pc' = "loop" /\ left' = 0
       \/ /\ ~shutdown /\ left > 0
          /\ left' = left - 1
          /\ UNCHANGED pc
    /\ UNCHANGED <<world, pending, current, unseen, previous, new, shutdown, file, kept,
                   faults, alerted, excused, forgotten>>

\* SIGINT or SIGTERM: the handler only sets the flag.
_handle_signal ==
    /\ Alive /\ ~shutdown
    /\ shutdown' = TRUE
    /\ UNCHANGED <<world, pc, pending, current, unseen, previous, new, left, file, kept,
                   faults, alerted, excused, forgotten>>

\* The process is killed.  During the write of the state file the file may be
\* left truncated; after it and before the alert, the alert is lost.
Crash ==
    /\ Alive /\ Fault
    /\ pc' = "down"
    /\ file' \in {file} \cup (IF pc = "audit" /\ pending = {} THEN {Unreadable} ELSE {})
    /\ excused' = IF ~file'.ok THEN {}
                  ELSE IF pc \in {"rotate", "prune", "diff", "notify"}
                       THEN excused \cup (file.fails \cap _new_fails)
                       ELSE excused
    /\ forgotten' = IF file'.ok THEN forgotten ELSE forgotten \cup alerted
    /\ UNCHANGED <<world, pending, current, unseen, previous, new, left, shutdown, kept, alerted>>

\* A supervisor or an operator starts the agent again.
Restart ==
    /\ ~Alive
    /\ pc' = "loop"
    /\ shutdown' = FALSE
    /\ pending' = {} /\ current' = {} /\ unseen' = {} /\ previous' = {} /\ new' = {} /\ left' = 0
    /\ UNCHANGED <<world, file, kept, faults, alerted, excused, forgotten>>

\* Somebody breaks or repairs a resource.
WorldChanges ==
    /\ \E k \in Key : world' = IF k \in world THEN world \ {k} ELSE world \cup {k}
    /\ UNCHANGED <<pc, pending, current, unseen, previous, new, left, shutdown, file, kept,
                   faults, alerted, excused, forgotten>>

AgentStep ==
    \/ StartCycle \/ Stop
    \/ \E p \in Provider : _run_provider(p)
    \/ _save_state \/ SaveFails
    \/ WriteHistory \/ PruneHistory \/ RotateFails
    \/ Diff \/ Notify \/ NotifyFails \/ Sleep

Next == AgentStep \/ _handle_signal \/ Crash \/ Restart \/ WorldChanges

\* The process runs while it is alive (provider calls return or raise).
Spec == Init /\ [][Next]_vars /\ WF_vars(AgentStep)

-----------------------------------------------------------------------------
(* Properties. *)

TypeOK ==
    /\ world \subseteq Key
    /\ pc \in Places
    /\ pending \subseteq Provider
    /\ current \subseteq Ident /\ unseen \subseteq Ident /\ previous \subseteq Ident /\ new \subseteq Ident
    /\ left \in 0 .. Interval
    /\ shutdown \in BOOLEAN
    /\ file \in Files
    /\ kept \in Nat
    /\ faults \in 0 .. MaxFaults
    /\ alerted \subseteq Ident /\ excused \subseteq Ident /\ forgotten \subseteq Ident

\* An identity in the state file is never alerted on again, so it must have been
\* alerted on: every failure the file lists was announced, or is about to be in
\* this cycle, or was lost to a fault that happened while it was listed.
RecordedMeansAnnounced ==
    \A i \in file.fails :
        \/ i \in alerted \cup excused
        \/ pc \in {"rotate", "prune", "diff"} /\ i \in _new_fails
        \/ pc = "notify" /\ i \in new

\* A failure that was announced and has not been seen in compliance since is not
\* announced again ("new failures that weren't in the previous state"), unless the
\* previous state lacks it: an error or a MANUAL finding stood in its place, the file
\* was torn, too large or not read, or a fault kept it from being written.
AnnouncedOnce == [][Notify => new \cap alerted \subseteq forgotten]_vars

\* The errors of this cycle that hide k.
Hiding(k) == {i \in current : i = KeyOwner[k] \/ (i \in Gap /\ k \in Behind[i])}

\* What a person knows of k: it was announced, or an error that hides it now was, or
\* else a fault kept that from happening.
Told(k) ==
    \/ k \in alerted \cup excused
    \/ k \in unseen /\ Hiding(k) \cap (alerted \cup excused) # {}

\* A failure that stays is announced, or the error that hides it is, however often the
\* provider raises or answers in part; unless the agent is stopped, or its finding has
\* become one that is left to a person, of which the agent says nothing.
FailureIsAnnounced ==
    \A k \in Key :
        k \in world ~> \/ k \notin world
                       \/ Told(k)
                       \/ k \in unseen \cap Manual /\ Hiding(k) = {}
                       \/ ~Alive

\* SIGTERM ends the agent, whatever it is doing.
GracefulShutdown == shutdown ~> ~Alive
=============================================================================
