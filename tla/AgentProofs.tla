----------------------------- MODULE AgentProofs -----------------------------
(***************************************************************************)
(* Every failure in the state file was announced: a proof for any set of   *)
(* providers and identities, any interval, history and number of faults.   *)
(*                                                                         *)
(* The file silences a failure in the next cycle.  The invariant follows   *)
(* it through the cycle: the loaded state is listed by the file; after a   *)
(* save the file lists what the cycle saw, so that comparing with the      *)
(* loaded state finds every identity the file gained; a failed save leaves *)
(* identities behind that are marked as excused.                           *)
(***************************************************************************)
EXTENDS Agent, TLAPS

LEMMA UnreadableIsFile == Unreadable \in Files
  BY DEF Unreadable, Files

LEMMA TypeInit == Init => TypeOK
<1> SUFFICES ASSUME Init PROVE TypeOK
  OBVIOUS
<1>1. 0 \in 0 .. Interval /\ 0 \in 0 .. MaxFaults
  BY AgentAssumption
<1>2. world \subseteq Key /\ file \in Files
  BY UnreadableIsFile DEF Init
<1> QED
  BY <1>1, <1>2 DEF Init, TypeOK, Places

LEMMA FaultCounted == TypeOK /\ Fault => faults' \in 0 .. MaxFaults
  BY AgentAssumption DEF TypeOK, Fault

LEMMA TypeStep == TypeOK /\ [Next]_vars => TypeOK'
<1> SUFFICES ASSUME TypeOK, [Next]_vars PROVE TypeOK'
  OBVIOUS
<1> USE AgentAssumption DEF TypeOK, Places, Ident
<1>1. CASE StartCycle
  <2>1. previous' \subseteq Ident /\ forgotten' \subseteq Ident /\ faults' \in 0 .. MaxFaults
    BY <1>1, FaultCounted DEF StartCycle, Load, _load_state, Files
  <2> QED
    BY <1>1, <2>1 DEF StartCycle
<1>2. CASE Stop
  BY <1>2 DEF Stop
<1>3. ASSUME NEW p \in Provider, _run_provider(p) PROVE TypeOK'
  <2>1. IdentsOf(p) \subseteq Ident
    BY DEF IdentsOf
  <2>2. current' \subseteq Ident /\ unseen' \subseteq Ident
    BY <1>3, <2>1 DEF _run_provider
  <2> QED
    BY <1>3, <2>2 DEF _run_provider
<1>4. CASE _save_state
  <2>0. file' = [ok |-> TRUE, fails |-> current] \/ file' = Unreadable
    BY <1>4 DEF _save_state
  <2>1. [ok |-> TRUE, fails |-> current] \in Files
    BY DEF Files
  <2>3. file' \in Files
    BY <2>0, <2>1, UnreadableIsFile
  <2>2. forgotten' \subseteq Ident
    BY <1>4 DEF _save_state, Hidden
  <2> QED
    BY <1>4, <2>2, <2>3 DEF _save_state
<1>5. CASE SaveFails
  <2>1. file' \in Files /\ excused' \subseteq Ident /\ forgotten' \subseteq Ident
    BY <1>5, UnreadableIsFile DEF SaveFails, Files
  <2>2. faults' \in 0 .. MaxFaults
    BY <1>5, FaultCounted DEF SaveFails
  <2> QED
    BY <1>5, <2>1, <2>2 DEF SaveFails
<1>6. CASE WriteHistory
  BY <1>6 DEF WriteHistory
<1>7. CASE PruneHistory
  BY <1>7 DEF PruneHistory
<1>8. CASE RotateFails
  BY <1>8, FaultCounted DEF RotateFails
<1>9. CASE Diff
  BY <1>9 DEF Diff, _new_fails
<1>10. CASE Notify
  BY <1>10 DEF Notify
<1>11. CASE NotifyFails
  BY <1>11, FaultCounted DEF NotifyFails
<1>12. CASE Sleep
  BY <1>12 DEF Sleep
<1>13. CASE _handle_signal
  BY <1>13 DEF _handle_signal
<1>14. CASE Crash
  <2>1. file' \in Files
    BY <1>14, UnreadableIsFile DEF Crash
  <2>2. excused' \subseteq Ident /\ forgotten' \subseteq Ident
    BY <1>14 DEF Crash, Files
  <2>3. faults' \in 0 .. MaxFaults
    BY <1>14, FaultCounted DEF Crash
  <2> QED
    BY <1>14, <2>1, <2>2, <2>3 DEF Crash
<1>15. CASE Restart
  <2>1. left' \in 0 .. Interval
    BY <1>15 DEF Restart
  <2> QED
    BY <1>15, <2>1 DEF Restart
<1>16. CASE WorldChanges
  BY <1>16 DEF WorldChanges
<1>17. CASE UNCHANGED vars
  BY <1>17 DEF vars
<1> QED
  BY <1>1, <1>2, <1>3, <1>4, <1>5, <1>6, <1>7, <1>8, <1>9, <1>10, <1>11, <1>12,
     <1>13, <1>14, <1>15, <1>16, <1>17 DEF Next, AgentStep

\* The variables of the agent keep their types in every run.
THEOREM AgentTypeCorrect == Spec => []TypeOK
<1>1. Init => TypeOK
  BY TypeInit
<1>2. TypeOK /\ [Next]_vars => TypeOK'
  BY TypeStep
<1> QED
  BY <1>1, <1>2, PTL DEF Spec

-----------------------------------------------------------------------------

\* A file that cannot be read silences nothing.
NoStateNoFails == ~file.ok => file.fails = {}

\* Outside the steps between the save and the alert, what the file lists is settled.
Settled ==
    pc \in {"loop", "audit", "sleep", "stopped", "down"} => file.fails \subseteq alerted \cup excused

\* While the providers run, the loaded state is the file's, or nothing.
LoadedIsFile == pc = "audit" => previous \subseteq file.fails

\* Between the save and the alert, what the file lists was seen in this cycle,
\* and the comparison finds whatever is not settled.
SavedIsSeen ==
    pc \in {"rotate", "prune", "diff"} =>
        /\ file.fails \subseteq current \cup excused
        /\ file.fails \subseteq alerted \cup excused \cup _new_fails

\* What is not settled when the alert is sent is in the alert.
AlertCoversFile ==
    pc = "notify" => /\ new = _new_fails
                     /\ file.fails \subseteq alerted \cup excused \cup new

AlertInv ==
    TypeOK /\ NoStateNoFails /\ Settled /\ LoadedIsFile /\ SavedIsSeen /\ AlertCoversFile

LEMMA AlertInit == Init => AlertInv
<1> SUFFICES ASSUME Init PROVE AlertInv
  OBVIOUS
<1>1. TypeOK
  BY TypeInit
<1>2. file.fails = {} /\ pc = "loop"
  BY DEF Init, Unreadable
<1> QED
  BY <1>1, <1>2 DEF AlertInv, NoStateNoFails, Settled, LoadedIsFile, SavedIsSeen,
                    AlertCoversFile

\* What was not seen failing is cleared; what the file lists then is not.
LEMMA ClearedUnseen ==
  ASSUME NEW i \in Cleared
  PROVE  i \notin current
  BY DEF Cleared

LEMMA AlertStep == AlertInv /\ [Next]_vars => AlertInv'
<1> SUFFICES ASSUME AlertInv, [Next]_vars PROVE AlertInv'
  OBVIOUS
<1>0. TypeOK'
  BY TypeStep DEF AlertInv
<1> USE <1>0 DEF AlertInv, NoStateNoFails, Settled, LoadedIsFile, SavedIsSeen,
                 AlertCoversFile
<1>1. CASE StartCycle
  BY <1>1 DEF StartCycle, Load, _load_state
<1>2. CASE Stop
  BY <1>2 DEF Stop
<1>3. ASSUME NEW p \in Provider, _run_provider(p) PROVE AlertInv'
  BY <1>3 DEF _run_provider
<1>4. CASE _save_state
  <2>1. \A i \in current : i \in alerted => i \in alerted'
    BY <1>4, ClearedUnseen DEF _save_state
  <2>2. CASE file' = [ok |-> TRUE, fails |-> current]
    BY <1>4, <2>1, <2>2 DEF _save_state, _new_fails
  <2>3. CASE file' = Unreadable
    BY <1>4, <2>3 DEF _save_state, Unreadable
  <2> QED
    BY <1>4, <2>2, <2>3 DEF _save_state
<1>5. CASE SaveFails
  <2>1. CASE UNCHANGED file /\ excused' = excused \cup (file.fails \ current)
    <3>1. \A i \in current : i \in alerted => i \in alerted'
      BY <1>5, ClearedUnseen DEF SaveFails
    <3> QED
      BY <1>5, <2>1, <3>1 DEF SaveFails, _new_fails
  <2>2. CASE file' = Unreadable /\ excused' = {}
    BY <1>5, <2>2 DEF SaveFails, Unreadable
  <2> QED
    BY <1>5, <2>1, <2>2 DEF SaveFails
<1>6. CASE WriteHistory \/ PruneHistory \/ RotateFails
  BY <1>6 DEF WriteHistory, PruneHistory, RotateFails, _new_fails
<1>7. CASE Diff
  <2>1. CASE pc' = "notify" /\ UNCHANGED <<left, excused>>
    BY <1>7, <2>1 DEF Diff, _new_fails
  <2>2. CASE pc' = "sleep" /\ excused' = excused \cup new'
    BY <1>7, <2>2 DEF Diff, _new_fails
  <2> QED
    BY <1>7, <2>1, <2>2 DEF Diff
<1>8. CASE Notify
  BY <1>8 DEF Notify
<1>9. CASE NotifyFails
  BY <1>9 DEF NotifyFails
<1>10. CASE Sleep
  BY <1>10 DEF Sleep
<1>11. CASE _handle_signal
  BY <1>11 DEF _handle_signal, _new_fails
<1>12. CASE Crash
  <2>1. CASE ~file'.ok
    <3>1. file'.fails = {}
      BY <1>12, <2>1 DEF Crash, Unreadable
    <3> QED
      BY <1>12, <3>1 DEF Crash
  <2>2. CASE file'.ok
    <3>1. file' = file /\ pc' = "down"
      BY <1>12, <2>2 DEF Crash, Unreadable
    <3>2. file.fails \subseteq alerted \cup excused'
      BY <1>12, <2>2 DEF Crash, Alive, TypeOK, Places
    <3> QED
      BY <1>12, <3>1, <3>2 DEF Crash
  <2> QED
    BY <2>1, <2>2
<1>13. CASE Restart
  BY <1>13 DEF Restart, Alive
<1>14. CASE WorldChanges
  BY <1>14 DEF WorldChanges, _new_fails
<1>15. CASE UNCHANGED vars
  BY <1>15 DEF vars, _new_fails
<1> QED
  BY <1>1, <1>2, <1>3, <1>4, <1>5, <1>6, <1>7, <1>8, <1>9, <1>10, <1>11, <1>12,
     <1>13, <1>14, <1>15 DEF Next, AgentStep

LEMMA AlertImplies == AlertInv => RecordedMeansAnnounced
  BY DEF AlertInv, RecordedMeansAnnounced, TypeOK, Places, Settled, SavedIsSeen,
         AlertCoversFile

\* The state file silences no failure that was not announced, except those
\* that a crash, a failed write or a failed notification made it keep.
THEOREM StateFileIsHonest == Spec => []RecordedMeansAnnounced
<1>1. Init => AlertInv
  BY AlertInit
<1>2. AlertInv /\ [Next]_vars => AlertInv'
  BY AlertStep
<1>3. AlertInv => RecordedMeansAnnounced
  BY AlertImplies
<1> QED
  BY <1>1, <1>2, <1>3, PTL DEF Spec

-----------------------------------------------------------------------------
\* What was announced is in the file, or known to be dropped from it.
AlertedIsKept == alerted \subseteq file.fails \cup forgotten

\* So is what was seen in this cycle, once the save was tried.
SeenIsKept ==
    pc \in {"rotate", "prune", "diff", "notify"} => current \subseteq file.fails \cup forgotten

\* ... and what the loaded state did not list was not announced.
NewIsNew ==
    /\ pc \in {"audit", "rotate", "prune", "diff"} => alerted \subseteq previous \cup forgotten
    /\ pc = "notify" => new \cap alerted \subseteq forgotten /\ new \subseteq current

OnceInv ==
    TypeOK /\ NoStateNoFails /\ AlertedIsKept /\ SeenIsKept /\ NewIsNew

LEMMA OnceInit == Init => OnceInv
<1> SUFFICES ASSUME Init PROVE OnceInv
  OBVIOUS
<1>1. TypeOK
  BY TypeInit
<1>2. file.fails = {} /\ pc = "loop" /\ alerted = {}
  BY DEF Init, Unreadable
<1> QED
  BY <1>1, <1>2 DEF OnceInv, NoStateNoFails, AlertedIsKept, SeenIsKept, NewIsNew

\* An announced failure that a completed cycle does not show was seen in
\* compliance, or is hidden by its provider.
LEMMA UnseenIsClearedOrHidden ==
  ASSUME TypeOK, NEW i \in alerted, i \notin current
  PROVE  i \in Cleared \/ i \in Hidden
  BY AgentAssumption DEF TypeOK, Cleared, Hidden

LEMMA OnceSave == OnceInv /\ _save_state => OnceInv'
<1> SUFFICES ASSUME OnceInv, _save_state PROVE OnceInv'
  OBVIOUS
<1> USE DEF OnceInv
<1>0. TypeOK'
  BY TypeStep DEF Next, AgentStep
<1>1. /\ pc = "audit" /\ pc' = "rotate"
      /\ alerted' = alerted \ Cleared /\ previous' = previous /\ current' = current
      /\ (forgotten \ Cleared) \cup Hidden \subseteq forgotten'
  BY DEF _save_state
<1>2. \/ file'.ok /\ file'.fails = current
      \/ ~file'.ok /\ file'.fails = {} /\ current \subseteq forgotten'
  BY DEF _save_state, Unreadable
<1>3. AlertedIsKept'
  BY <1>1, <1>2, UnseenIsClearedOrHidden DEF AlertedIsKept
<1>4. SeenIsKept'
  BY <1>1, <1>2 DEF SeenIsKept
<1>5. NewIsNew'
  BY <1>1 DEF NewIsNew
<1> QED
  BY <1>0, <1>2, <1>3, <1>4, <1>5 DEF NoStateNoFails

LEMMA OnceSaveFails == OnceInv /\ SaveFails => OnceInv'
<1> SUFFICES ASSUME OnceInv, SaveFails PROVE OnceInv'
  OBVIOUS
<1> USE DEF OnceInv
<1>0. TypeOK'
  BY TypeStep DEF Next, AgentStep
<1>1. /\ pc = "audit" /\ pc' = "diff" /\ alerted' = alerted \ Cleared
      /\ forgotten' = forgotten \cup ((alerted \cup current) \ file'.fails)
      /\ previous' = previous /\ current' = current
      /\ file' = file \/ (~file'.ok /\ file'.fails = {})
  BY DEF SaveFails, Unreadable
<1>2. AlertedIsKept' /\ SeenIsKept'
  BY <1>1 DEF AlertedIsKept, SeenIsKept
<1>3. NewIsNew'
  BY <1>1 DEF NewIsNew
<1> QED
  BY <1>0, <1>1, <1>2, <1>3 DEF NoStateNoFails

LEMMA OnceStep == OnceInv /\ [Next]_vars => OnceInv'
<1> SUFFICES ASSUME OnceInv, [Next]_vars PROVE OnceInv'
  OBVIOUS
<1>0. TypeOK'
  BY TypeStep DEF OnceInv
<1> USE <1>0 DEF OnceInv, NoStateNoFails, AlertedIsKept, SeenIsKept, NewIsNew
<1>1. CASE StartCycle
  <2>1. alerted' \subseteq previous' \cup forgotten' /\ alerted' \subseteq file'.fails \cup forgotten'
    BY <1>1 DEF StartCycle, Load, _load_state
  <2> QED
    BY <1>1, <2>1 DEF StartCycle
<1>2. CASE Stop
  BY <1>2 DEF Stop
<1>3. ASSUME NEW p \in Provider, _run_provider(p) PROVE OnceInv'
  BY <1>3 DEF _run_provider
<1>4. CASE _save_state
  BY <1>4, OnceSave
<1>5. CASE SaveFails
  BY <1>5, OnceSaveFails
<1>6. CASE WriteHistory \/ PruneHistory \/ RotateFails
  BY <1>6 DEF WriteHistory, PruneHistory, RotateFails
<1>7. CASE Diff
  BY <1>7 DEF Diff, _new_fails
<1>8. CASE Notify
  BY <1>8 DEF Notify
<1>9. CASE NotifyFails
  BY <1>9 DEF NotifyFails
<1>10. CASE Sleep
  BY <1>10 DEF Sleep
<1>11. CASE _handle_signal
  BY <1>11 DEF _handle_signal
<1>12. CASE Crash
  <2>1. CASE ~file'.ok
    <3>1. file'.fails = {}
      BY <1>12, <2>1 DEF Crash, Unreadable
    <3> QED
      BY <1>12, <2>1, <3>1 DEF Crash
  <2>2. CASE file'.ok
    <3>1. file' = file
      BY <1>12, <2>2 DEF Crash, Unreadable
    <3> QED
      BY <1>12, <2>2, <3>1 DEF Crash
  <2> QED
    BY <2>1, <2>2
<1>13. CASE Restart
  BY <1>13 DEF Restart
<1>14. CASE WorldChanges
  BY <1>14 DEF WorldChanges
<1>15. CASE UNCHANGED vars
  BY <1>15 DEF vars
<1> QED
  BY <1>1, <1>2, <1>3, <1>4, <1>5, <1>6, <1>7, <1>8, <1>9, <1>10, <1>11, <1>12,
     <1>13, <1>14, <1>15 DEF Next, AgentStep

\* Nobody is told twice of a failure that was not seen in compliance in between,
\* unless the loaded state lacks it: because its provider raised or answered with an
\* error or a MANUAL finding in its place, because the file was torn, too large or not
\* read, or because a fault kept it from being written.
THEOREM AlertsAreNew == Spec => AnnouncedOnce
<1>1. Init => OnceInv
  BY OnceInit
<1>2. OnceInv /\ [Next]_vars => OnceInv'
  BY OnceStep
<1>3. OnceInv /\ [Next]_vars => [Notify => new \cap alerted \subseteq forgotten]_vars
  BY DEF OnceInv, NewIsNew, Notify
<1> QED
  BY <1>1, <1>2, <1>3, PTL DEF Spec, AnnouncedOnce

=============================================================================
