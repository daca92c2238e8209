------------------------------- MODULE Webhooks -------------------------------
(***************************************************************************)
(* Alerts (webhooks.py): one call of notify.  The channels are tried one   *)
(* after the other; a channel is a POST under retry_with_backoff           *)
(* (rate_limiter.py).  The network may refuse the POST, the endpoint may   *)
(* answer with an error, and an answer may get lost after the endpoint     *)
(* took the alert, in which case a retry delivers it twice.                *)
(*                                                                         *)
(* An exception is what _is_retriable looks at: its type, the status code  *)
(* it carries, and the words "timeout" and "throttl" in its text.          *)
(***************************************************************************)
EXTENDS Integers, Sequences, FiniteSets

CONSTANTS
    MaxRetries,     \* max_retries of _post_json
    BaseDelay,      \* base_delay of _post_json, in seconds
    BackoffFactor,  \* DEFAULT_BACKOFF_FACTOR
    MaxDelay        \* DEFAULT_MAX_DELAY, in seconds

VARIABLES
    config,     \* the channels with an entry in the configuration
    actionable, \* whether any finding is fail or error
    wpc,        \* where notify is: "idle", "send", "backoff" or "done"
    todo,       \* channels not yet answered
    failed,     \* channels in the list errors
    answers,    \* answers[c]: what became of the POSTs to c, one after the other
    waited      \* seconds slept in this call

webhookVars == <<config, actionable, wpc, todo, failed, answers, waited>>

ASSUME WebhooksAssumption ==
    /\ MaxRetries \in Nat
    /\ {BaseDelay, BackoffFactor, MaxDelay} \subseteq Nat

\* In the order of notify.
Order == <<"slack", "teams", "pagerduty">>
Channel == {"slack", "teams", "pagerduty"}

-----------------------------------------------------------------------------
(* Answers, exceptions and retries. *)

\* What can become of a POST.  The text of HTTP 504 is "Gateway Timeout"; that
\* of a socket that waited too long is "timed out".  "http 504" stands for 408 too,
\* "http 503" for 500 and 502, "refused" for all other errors of the connection.
\* "garbled" is an answer that is not HTTP, "unresolved" a ValueError of
\* _resolve_and_validate_url.
Failure == {"http 504", "http 503", "http 429", "http 400", "timed out", "refused",
            "garbled", "unresolved"}
Answer == Failure \cup {"ok"}

\* What the release notes call retriable: throttling, timeouts, 5xx.
Transient == {"http 504", "http 503", "http 429", "timed out"}

\* The exception of the transport.  The HTTP errors are raised by _post_json
\* itself, as OSErrors without a status code.
Transport(a) ==
    [type |-> CASE a = "timed out"  -> "TimeoutError"
                [] a = "refused"    -> "ConnectionRefusedError"
                [] a = "garbled"    -> "BadStatusLine"
                [] a = "unresolved" -> "ValueError"
                [] OTHER            -> "OSError",
     status |-> "",
     words  |-> IF a = "http 504" THEN {"timeout"} ELSE {}]

\* Every OSError, TimeoutError included, is wrapped in a plain OSError with the
\* same text; the others leave _post_json as they are.
Raised(a) ==
    LET e == Transport(a) IN
    IF e.type \in {"OSError", "TimeoutError", "ConnectionRefusedError"}
    THEN [e EXCEPT !.type = "OSError"] ELSE e

\* Mutation: every exception is retried.
_is_retriable_any(e) == TRUE

\* No webhook exception has the response of a cloud API, so codes are left out.
_is_retriable(e) ==
    \/ e.status \in {"429", "500", "502", "503", "504"}
    \/ e.type \in {"ThrottlingException", "TooManyRequestsException", "ServiceUnavailable",
                   "ConnectionError", "TimeoutError", "ReadTimeoutError", "ConnectTimeoutError"}
    \/ e.words # {}

\* BackoffFactor to the power of n.
Growth[n \in Nat] == IF n = 0 THEN 1 ELSE BackoffFactor * Growth[n - 1]

\* Seconds of sleep after attempt n, counted from 0.
Delay(n) ==
    LET d == BaseDelay * Growth[n] IN IF d < MaxDelay THEN d ELSE MaxDelay

\* The channel notify is at.
Current == Order[CHOOSE i \in DOMAIN Order :
                    /\ Order[i] \in todo
                    /\ \A j \in 1 .. i - 1 : Order[j] \notin todo]

-----------------------------------------------------------------------------

WebhooksInit ==
    /\ config \in SUBSET Channel
    /\ actionable \in BOOLEAN
    /\ wpc = "idle"
    /\ todo = {} /\ failed = {}
    /\ answers = [c \in Channel |-> <<>>]
    /\ waited = 0

\* Nothing is sent when nothing fails; a configuration that is no mapping has no
\* channel.
Notify ==
    /\ wpc = "idle"
    /\ \/ /\ actionable /\ config # {}
          /\ wpc' = "send"
          /\ todo' = config
       \/ /\ ~actionable \/ config = {}
          /\ wpc' = "done"
          /\ UNCHANGED todo
    /\ UNCHANGED <<config, actionable, failed, answers, waited>>

\* notify is through with a channel, and goes on to the next one.
Leave(c) ==
    /\ todo' = todo \ {c}
    /\ wpc' = IF todo = {c} THEN "done" ELSE "send"

\* Mutation: the first channel that fails ends the call.
GiveUpOnAll(c) ==
    /\ todo' = {} /\ wpc' = "done"
    /\ failed' = failed \cup {c}

\* The exception ends up in errors, and the other channels are tried.
GiveUp(c) ==
    /\ Leave(c)
    /\ failed' = failed \cup {c}

\* Before the first POST: validate_webhook_url, or the check of the routing key.
Reject ==
    /\ wpc = "send" /\ answers[Current] = <<>>
    /\ GiveUp(Current)
    /\ UNCHANGED <<config, actionable, answers, waited>>

\* A POST to c is answered by a.
Posted(c, a) == answers' = [answers EXCEPT ![c] = Append(@, a)]

PostOK ==
    /\ wpc = "send"
    /\ Posted(Current, "ok")
    /\ Leave(Current)
    /\ UNCHANGED <<config, actionable, failed, waited>>

\* The attempt was the last one, or its exception is not retried.
PostFails(a) ==
    /\ wpc = "send"
    /\ Posted(Current, a)
    /\ \/ Len(answers[Current]) >= MaxRetries
       \/ ~_is_retriable(Raised(a))
    /\ GiveUp(Current)
    /\ UNCHANGED <<config, actionable, waited>>

\* Mutation: one retry too many.
PostAgainOnceMore(a) ==
    /\ wpc = "send"
    /\ Posted(Current, a)
    /\ Len(answers[Current]) <= MaxRetries
    /\ _is_retriable(Raised(a))
    /\ wpc' = "backoff"
    /\ UNCHANGED <<config, actionable, todo, failed, waited>>

PostAgain(a) ==
    /\ wpc = "send"
    /\ Posted(Current, a)
    /\ Len(answers[Current]) < MaxRetries
    /\ _is_retriable(Raised(a))
    /\ wpc' = "backoff"
    /\ UNCHANGED <<config, actionable, todo, failed, waited>>

\* Mutation: the sleep does not end.
BackoffForEver ==
    /\ wpc = "backoff"
    /\ waited < MaxDelay /\ waited' = waited + 1
    /\ UNCHANGED <<config, actionable, wpc, todo, failed, answers>>

Backoff ==
    /\ wpc = "backoff"
    /\ waited' = waited + Delay(Len(answers[Current]) - 1)
    /\ wpc' = "send"
    /\ UNCHANGED <<config, actionable, todo, failed, answers>>

WebhooksNext ==
    \/ Notify \/ Reject \/ PostOK
    \/ \E a \in Failure : PostFails(a) \/ PostAgain(a)
    \/ Backoff

\* A POST has a timeout of its own, so every step is taken in the end.
WebhooksSpec == WebhooksInit /\ [][WebhooksNext]_webhookVars /\ WF_webhookVars(WebhooksNext)

-----------------------------------------------------------------------------
(* Properties. *)

WebhooksTypeOK ==
    /\ config \subseteq Channel /\ actionable \in BOOLEAN
    /\ wpc \in {"idle", "send", "backoff", "done"}
    /\ todo \subseteq config /\ failed \subseteq config \ todo
    /\ wpc \in {"send", "backoff"} <=> todo # {}
    /\ answers \in [Channel -> Seq(Answer)]

Delivered(c) == answers[c] # <<>> /\ answers[c][Len(answers[c])] = "ok"

\* When notify returns, every configured channel was delivered to or is reported
\* as failed, never both, whatever became of the channels before it; no other
\* channel was sent anything.
EveryChannelAnswered ==
    wpc = "done" => \A c \in Channel :
        IF actionable /\ c \in config
        THEN (Delivered(c) <=> c \notin failed)
        ELSE answers[c] = <<>>

\* An alert is posted again only when the answer before says that the trouble may
\* pass: one that was delivered, or refused for good, is never repeated.
RepeatHasCause ==
    \A c \in Channel : \A i \in 1 .. Len(answers[c]) - 1 :
        answers[c][i] \in Transient

\* What n retries of one channel cost its caller, in seconds of sleep.
DelaysBefore[n \in Nat] == IF n = 0 THEN 0 ELSE DelaysBefore[n - 1] + Delay(n - 1)

\* The agent and the command line wait for notify: its sleeps are bounded by the
\* retries of its channels, each of which starts again at the base delay.
WaitIsBounded == waited \in 0 .. Cardinality(config) * DelaysBefore[MaxRetries]

\* rate_limiter.py retries throttling, timeouts and 5xx (release notes of 0.10.0):
\* a channel is not given up on such an answer before its last attempt.
TransientIsRetried ==
    \A c \in failed : answers[c] # <<>> =>
        \/ Len(answers[c]) = MaxRetries + 1
        \/ answers[c][Len(answers[c])] \notin Transient
=============================================================================
