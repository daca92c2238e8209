------------------------------ MODULE NetworkScan ------------------------------
(***************************************************************************)
(* One audit of `pagerwesi network` (network_scanner.py): two checks of    *)
(* every endpoint, submitted in order to a pool of threads that share the  *)
(* rate limiter.  A check is one call of acquire, so the checks are the    *)
(* callers of RateLimiter; check 2i - 1 is the TLS version of endpoint i,  *)
(* check 2i its certificate.                                               *)
(*                                                                         *)
(* The pool is concurrent.futures.ThreadPoolExecutor, which starts jobs in *)
(* the order of submission and rejects a size below one.                   *)
(***************************************************************************)
EXTENDS RateLimiter, Sequences, FiniteSets

CONSTANTS
    RawLists,       \* values of --endpoints; <<>> stands for none at all
    MaxEndpoints,   \* MAX_ENDPOINT_COUNT
    WorkerCounts,   \* values of --workers
    MaxPool,        \* the limit of 16 threads
    SlowUntil       \* bound: a thread may be slow until then, and is prompt after

VARIABLES
    raw,            \* args.endpoints
    workers,        \* args.workers
    place,          \* where run_audit is
    endpoints,      \* how many endpoints validate_endpoints returned
    submitted,      \* how many checks are submitted
    started,        \* how many of them a thread has taken
    connectedAt,    \* connectedAt[c]: when c opened its connection, -1 if not yet
    answer,         \* answer[c]: the finding the check c returned, or that it raised
    findings        \* findings[c]: the finding reported for c

auditVars == <<raw, workers, endpoints>>
poolVars == <<submitted, started, answer>>
scanVars == <<vars, auditVars, poolVars, place, connectedAt, findings>>

\* What an entry of the list may be: host:port, something else, white space.
Entries == {"endpoint", "malformed", "blank"}

ASSUME ScanAssumption ==
    /\ RawLists \subseteq Seq(Entries)
    /\ MaxEndpoints \in Nat
    /\ WorkerCounts \subseteq Int
    /\ MaxPool \in Nat \ {0}
    /\ Caller = 1 .. 2 * MaxEndpoints
    /\ SlowUntil \in Nat

Stops == {"returned", "rejected", "raised"}
AuditPlaces == {"audit", "submit", "collect", "leave"} \cup Stops

\* "seen" stands for PASS and for FAIL: the check says what it saw.
Verdicts == {"seen", "error"}

Greatest(m, n) == IF m < n THEN n ELSE m

Checks == 2 * endpoints

\* max_workers: bounded above only.
PoolFor(n) == Least(workers, Least(n, MaxPool))
PoolSize == PoolFor(endpoints)

\* The checks that a thread is on.
Busy == {c \in Caller : c <= started /\ answer[c] = "none"}

-----------------------------------------------------------------------------

ScanInit ==
    /\ Init
    /\ raw \in RawLists
    /\ workers \in WorkerCounts
    /\ place = "audit"
    /\ endpoints = 0
    /\ submitted = 0
    /\ started = 0
    /\ connectedAt = [c \in Caller |-> -1]
    /\ answer = [c \in Caller |-> "none"]
    /\ findings = [c \in Caller |-> "none"]

\* The places of the entries that validate_endpoints looks at.
Parts == {i \in DOMAIN raw : raw[i] # "blank"}

\* validate_endpoints, and validate_endpoint for each of the parts.
Valid == Cardinality(Parts) <= MaxEndpoints /\ \A i \in Parts : raw[i] = "endpoint"

\* run_audit: one ERROR finding for a list that is missing or not valid.
Reject ==
    /\ place = "audit"
    /\ raw = <<>> \/ ~Valid
    /\ place' = "rejected"
    /\ UNCHANGED <<vars, auditVars, poolVars, connectedAt, findings>>

\* scan_endpoints opens the pool, which raises if it is to have no thread: for
\* workers below one, and for a list of blanks, which is valid and empty.
OpenPool ==
    /\ place = "audit"
    /\ raw # <<>> /\ Valid
    /\ endpoints' = Cardinality(Parts)
    /\ place' = IF PoolFor(Cardinality(Parts)) < 1 THEN "raised" ELSE "submit"
    /\ UNCHANGED <<vars, raw, workers, poolVars, connectedAt, findings>>

\* Mutation: one check too many.
SubmitOneMore ==
    /\ place = "submit"
    /\ submitted' = submitted + 1
    /\ place' = IF submitted = Checks THEN "collect" ELSE place
    /\ UNCHANGED <<vars, auditVars, started, answer, connectedAt, findings>>

\* The two calls of executor.submit for an endpoint, one at a time.
Submit ==
    /\ place = "submit"
    /\ submitted' = submitted + 1
    /\ place' = IF submitted + 1 = Checks THEN "collect" ELSE place
    /\ UNCHANGED <<vars, auditVars, started, answer, connectedAt, findings>>

\* A thread takes the next check and calls acquire(timeout=30).
StartCheck(c) ==
    /\ c = started + 1 /\ c <= submitted
    /\ Cardinality(Busy) < PoolSize
    /\ Call(c)
    /\ started' = c
    /\ UNCHANGED <<auditVars, place, submitted, answer, connectedAt, findings>>

\* A step of a thread inside acquire.
Wait(c) ==
    /\ Acquire(c)
    /\ UNCHANGED <<auditVars, poolVars, place, connectedAt, findings>>

\* Mutation: the answer of acquire is not looked at.
ConnectAnyway(c) ==
    /\ c \in Busy /\ pc[c] \in {"granted", "denied"} /\ connectedAt[c] = -1
    /\ connectedAt' = [connectedAt EXCEPT ![c] = now]
    /\ UNCHANGED <<vars, auditVars, poolVars, place, findings>>

\* socket.create_connection, with the token.
Connect(c) ==
    /\ c \in Busy /\ pc[c] = "granted" /\ connectedAt[c] = -1
    /\ connectedAt' = [connectedAt EXCEPT ![c] = now]
    /\ UNCHANGED <<vars, auditVars, poolVars, place, findings>>

\* The handshake and what it shows; a time-out or any other exception is an
\* ERROR finding.
Conclude(c) ==
    /\ c \in Busy /\ connectedAt[c] # -1
    /\ \E verdict \in Verdicts : answer' = [answer EXCEPT ![c] = verdict]
    /\ UNCHANGED <<vars, auditVars, submitted, started, place, connectedAt, findings>>

\* "Rate limiter timeout: too many concurrent scans".
Denied(c) ==
    /\ c \in Busy /\ pc[c] = "denied"
    /\ answer' = [answer EXCEPT ![c] = "error"]
    /\ UNCHANGED <<vars, auditVars, submitted, started, place, connectedAt, findings>>

\* acquire is called outside the try of the check: the future gets what it raised.
Raise(c) ==
    /\ c \in Busy /\ pc[c] = "crashed"
    /\ answer' = [answer EXCEPT ![c] = "raised"]
    /\ UNCHANGED <<vars, auditVars, submitted, started, place, connectedAt, findings>>

\* Mutation: a future that raised is waited for again.
CollectAnswers(c) ==
    /\ place = "collect" /\ answer[c] \in Verdicts /\ findings[c] = "none"
    /\ findings' = [findings EXCEPT ![c] = answer[c]]
    /\ UNCHANGED <<vars, auditVars, poolVars, place, connectedAt>>

\* as_completed yields a future, in any order.  What it raised becomes the
\* "Endpoint scan error" of network:unknown, under NET-TLS-001 for either check.
Collect(c) ==
    /\ place = "collect" /\ answer[c] # "none" /\ findings[c] = "none"
    /\ findings' = [findings EXCEPT ![c] = IF answer[c] = "raised" THEN "unknown" ELSE answer[c]]
    /\ UNCHANGED <<vars, auditVars, poolVars, place, connectedAt>>

\* Mutation: the first check that raised ends the loop.
StopAtError ==
    /\ place = "collect"
    /\ \/ \A c \in 1 .. Checks : findings[c] # "none"
       \/ \E c \in Caller : findings[c] = "unknown"
    /\ place' = "leave"
    /\ UNCHANGED <<vars, auditVars, poolVars, connectedAt, findings>>

\* as_completed, which has no deadline, is exhausted.
StopCollecting ==
    /\ place = "collect" /\ \A c \in 1 .. Checks : findings[c] # "none"
    /\ place' = "leave"
    /\ UNCHANGED <<vars, auditVars, poolVars, connectedAt, findings>>

\* The end of the with-block waits for the threads.
ReturnFindings ==
    /\ place = "leave" /\ Busy = {}
    /\ place' = "returned"
    /\ UNCHANGED <<vars, auditVars, poolVars, connectedAt, findings>>

Main ==
    \/ Reject \/ OpenPool \/ Submit
    \/ (\E c \in Caller : Collect(c)) \/ StopCollecting \/ ReturnFindings

Check(c) == StartCheck(c) \/ Wait(c) \/ Connect(c) \/ Conclude(c) \/ Denied(c) \/ Raise(c)

\* Every thread sleeps, and so does the pool.
AllAsleep ==
    /\ place = "collect"
    /\ started = submitted \/ Cardinality(Busy) >= PoolSize
    /\ \A c \in Busy : pc[c] = "asleep" /\ now < wake[c]
    /\ \A c \in Caller : answer[c] # "none" => findings[c] # "none"

Pass ==
    /\ place \notin Stops
    /\ now < SlowUntil \/ AllAsleep
    /\ Tick
    /\ UNCHANGED <<auditVars, poolVars, place, connectedAt, findings>>

ScanNext == Main \/ Pass \/ \E c \in Caller : Check(c)

\* Threads run and time passes; a connection ends by its own time-out.
ScanSpec ==
    /\ ScanInit /\ [][ScanNext]_scanVars
    /\ WF_scanVars(Main) /\ WF_scanVars(Pass)
    /\ \A c \in Caller : WF_scanVars(Check(c))

-----------------------------------------------------------------------------
(* Properties. *)

\* The types of the scan and of the limiter below it.
ScanTypeOK ==
    /\ TypeOK
    /\ raw \in RawLists /\ workers \in WorkerCounts
    /\ place \in AuditPlaces
    /\ endpoints \in 0 .. MaxEndpoints
    /\ submitted \in 0 .. Checks /\ started \in 0 .. submitted
    /\ connectedAt \in [Caller -> -1 .. now]
    /\ answer \in [Caller -> Verdicts \cup {"none", "raised"}]
    /\ findings \in [Caller -> Verdicts \cup {"none", "unknown"}]

\* "Rate limit network scans": a thread may lose the processor between its
\* token and its connection, so that the connections of a window are bounded by
\* the tokens of the window and one more for every thread of the pool
\* (_check_tls_version and _check_cert_validity).
ConnectionBound ==
    \A s \in 0 .. now :
        Period * Cardinality({c \in Caller : connectedAt[c] >= s})
            <= Capacity + (now - s) + Period * Greatest(0, PoolSize)

\* scan_endpoints accounts for every check.  A check that connected is reported
\* as what it saw, one that was denied a token as an error, and one that raised
\* as an error of network:unknown.  Without findings run_audit ends only where
\* the pool cannot be opened.
EveryCheckAnswered ==
    /\ place = "returned" =>
          \A c \in 1 .. Checks :
             \/ connectedAt[c] # -1 /\ findings[c] = answer[c] /\ findings[c] \in Verdicts
             \/ pc[c] = "denied" /\ findings[c] = "error" /\ connectedAt[c] = -1
             \/ pc[c] = "crashed" /\ findings[c] = "unknown" /\ connectedAt[c] = -1
    /\ place = "raised" => workers < 1 \/ \A i \in DOMAIN raw : raw[i] = "blank"

\* Every audit of the network ends: no check waits for a token beyond its
\* timeout, and no future is lost.
ScanEnds == <>(place \in Stops)
=============================================================================
