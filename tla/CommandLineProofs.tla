--------------------------- MODULE CommandLineProofs ---------------------------
(***************************************************************************)
(* Theorems about Webhooks, for every number of retries, and about the     *)
(* process of CommandLine that calls it, for all arguments, audits, custom *)
(* controls and waivers.                                                   *)
(***************************************************************************)
EXTENDS CommandLine, TLAPS, FiniteSetTheorems, WellFoundedInduction

-----------------------------------------------------------------------------
(* A call of notify. *)

\* Before notify starts, and when it has nothing to send, no channel was touched.
Untouched == failed = {} /\ answers = [c \in Channel |-> <<>>]

\* A channel that is still to be answered has only had answers that are retried.
StillOpen == \A c \in todo : \A i \in 1 .. Len(answers[c]) : answers[c][i] \in Transient

\* A channel that notify is through with was delivered to or failed.
Closed ==
    \A c \in Channel :
        IF c \in config
        THEN wpc \in {"send", "backoff", "done"} /\ actionable /\ c \notin todo
                => (Delivered(c) <=> c \notin failed)
        ELSE answers[c] = <<>>

Running ==
    /\ wpc = "idle" \/ ~actionable => Untouched /\ todo = {}
    /\ wpc \in {"send", "backoff"} => actionable

WebhooksInv == WebhooksTypeOK /\ StillOpen /\ Closed /\ Running /\ RepeatHasCause

-----------------------------------------------------------------------------

LEMMA CurrentIsTodo ==
    ASSUME todo \subseteq Channel, todo # {}
    PROVE  Current \in todo
<1> DEFINE First(i) == /\ Order[i] \in todo
                       /\ \A j \in 1 .. i - 1 : Order[j] \notin todo
<1>1. DOMAIN Order = 1 .. 3 /\ Order[1] = "slack" /\ Order[2] = "teams" /\ Order[3] = "pagerduty"
  BY DEF Order
<1>2. \E i \in 1 .. 3 : First(i)
  <2>1. CASE "slack" \in todo
    <3>1. First(1)
      BY <1>1, <2>1
    <3> QED
      BY <3>1
  <2>2. CASE "slack" \notin todo /\ "teams" \in todo
    <3>1. 1 .. 2 - 1 = {1}
      OBVIOUS
    <3>2. First(2)
      BY <1>1, <2>2, <3>1
    <3> QED
      BY <3>2
  <2>3. CASE "slack" \notin todo /\ "teams" \notin todo
    <3>1. 1 .. 3 - 1 = {1, 2}
      OBVIOUS
    <3>2. "pagerduty" \in todo
      BY <2>3 DEF Channel
    <3>3. First(3)
      BY <1>1, <2>3, <3>1, <3>2
    <3> QED
      BY <3>3
  <2> QED
    BY <2>1, <2>2, <2>3
<1>3. First(CHOOSE i \in 1 .. 3 : First(i))
  <2> HIDE DEF First
  <2> QED
    BY <1>2
<1> QED
  BY <1>1, <1>3 DEF Current

\* Only the answers of a gateway that gave up waiting are retried.
LEMMA RetriedIsTransient ==
    ASSUME NEW a \in Failure, _is_retriable(Raised(a))
    PROVE  a \in Transient
<1>1. CASE a \in {"http 504", "http 503", "http 429", "timed out"}
  BY <1>1 DEF Transient
<1>2. CASE a \notin {"http 504", "http 503", "http 429", "timed out"}
  <2>1. Transport(a).words = {} /\ Transport(a).status = ""
    BY <1>2 DEF Transport
  <2>2. Transport(a).type \in {"OSError", "ConnectionRefusedError", "BadStatusLine", "ValueError"}
    BY <1>2 DEF Transport, Failure
  <2>3. Raised(a).words = {} /\ Raised(a).status = ""
    BY <2>1 DEF Raised, Transport
  <2>4. Raised(a).type \in {"OSError", "BadStatusLine", "ValueError"}
    BY <2>2 DEF Raised, Transport
  <2> QED
    BY <2>3, <2>4 DEF _is_retriable
<1> QED
  BY <1>1, <1>2

LEMMA InitInv == WebhooksInit => WebhooksInv
<1> SUFFICES ASSUME WebhooksInit PROVE WebhooksInv
  OBVIOUS
<1>1. answers \in [Channel -> Seq(Answer)] /\ \A c \in Channel : answers[c] = <<>>
  BY DEF WebhooksInit
<1> QED
  BY <1>1 DEF WebhooksInit, WebhooksInv, WebhooksTypeOK, StillOpen, Closed, Running,
              Untouched, RepeatHasCause

-----------------------------------------------------------------------------
(* What an answer appended to a channel changes. *)

LEMMA Appended ==
    ASSUME WebhooksTypeOK, NEW c \in Channel, NEW a \in Answer, Posted(c, a)
    PROVE  /\ answers' \in [Channel -> Seq(Answer)]
           /\ Len(answers'[c]) = Len(answers[c]) + 1
           /\ answers'[c][Len(answers[c]) + 1] = a
           /\ answers'[c] # <<>>
           /\ Delivered(c)' <=> a = "ok"
           /\ \A i \in 1 .. Len(answers[c]) : answers'[c][i] = answers[c][i]
           /\ \A d \in Channel \ {c} : answers'[d] = answers[d] /\ (Delivered(d)' <=> Delivered(d))
<1>1. answers[c] \in Seq(Answer) /\ Len(answers[c]) \in Nat
  BY DEF WebhooksTypeOK
<1>2. answers'[c] = Append(answers[c], a) /\ \A d \in Channel \ {c} : answers'[d] = answers[d]
  BY DEF Posted, WebhooksTypeOK
<1>3. answers'[c] \in Seq(Answer) /\ Len(answers'[c]) = Len(answers[c]) + 1
  BY <1>1, <1>2
<1>4. /\ answers'[c][Len(answers[c]) + 1] = a
      /\ \A i \in 1 .. Len(answers[c]) : answers'[c][i] = answers[c][i]
  BY <1>1, <1>2
<1>5. answers' \in [Channel -> Seq(Answer)]
  BY <1>1 DEF Posted, WebhooksTypeOK
<1>6. answers'[c] # <<>>
  BY <1>1, <1>3
<1>7. Delivered(c)' <=> a = "ok"
  BY <1>3, <1>4, <1>6 DEF Delivered
<1>8. \A d \in Channel \ {c} : Delivered(d)' <=> Delivered(d)
  BY <1>2 DEF Delivered
<1> QED
  BY <1>2, <1>3, <1>4, <1>5, <1>6, <1>7, <1>8

\* A channel whose answers so far are all retried and that gets one more answer.
LEMMA RepeatKept ==
    ASSUME WebhooksInv, NEW c \in todo, NEW a \in Answer, Posted(c, a)
    PROVE  RepeatHasCause'
<1> USE DEF WebhooksInv
<1>1. c \in Channel
  BY DEF WebhooksTypeOK
<1>2. ASSUME NEW d \in Channel, NEW i \in 1 .. Len(answers'[d]) - 1
      PROVE  answers'[d][i] \in Transient
  <2>1. CASE d = c
    <3>1. i \in 1 .. Len(answers[c])
      BY <1>1, <1>2, <2>1, Appended DEF WebhooksTypeOK
    <3> QED
      BY <1>1, <2>1, <3>1, Appended DEF StillOpen
  <2>2. CASE d # c
    BY <1>1, <2>2, Appended DEF RepeatHasCause
  <2> QED
    BY <2>1, <2>2
<1> QED
  BY <1>2 DEF RepeatHasCause

-----------------------------------------------------------------------------
(* The steps. *)

\* A step after which notify is through with channel c.
LEMMA LeaveInv ==
    ASSUME WebhooksInv, NEW c \in todo, wpc = "send", Leave(c),
           UNCHANGED <<config, actionable>>,
           answers' \in [Channel -> Seq(Answer)],
           \A d \in Channel \ {c} : answers'[d] = answers[d],
           failed' \in {failed, failed \cup {c}},
           Delivered(c)' <=> c \notin failed',
           RepeatHasCause'
    PROVE  WebhooksInv'
<1> USE DEF WebhooksInv
<1>1. c \in config /\ c \in Channel /\ c \notin failed /\ actionable
  BY DEF WebhooksTypeOK, Running
<1>2. todo' = todo \ {c} /\ wpc' \in {"send", "done"} /\ (wpc' = "send" <=> todo' # {})
  BY DEF Leave
<1>3. WebhooksTypeOK'
  BY <1>1, <1>2 DEF WebhooksTypeOK
<1>4. StillOpen'
  BY <1>2 DEF StillOpen, WebhooksTypeOK
<1>5. Closed'
  <2> SUFFICES ASSUME NEW d \in Channel
               PROVE  IF d \in config'
                      THEN wpc' \in {"send", "backoff", "done"} /\ actionable' /\ d \notin todo'
                              => (Delivered(d)' <=> d \notin failed')
                      ELSE answers'[d] = <<>>
    BY DEF Closed
  <2>1. CASE d = c
    BY <1>1, <2>1
  <2>2. CASE d # c
    <3>1. (d \in failed') = (d \in failed) /\ Delivered(d)' = Delivered(d)
      BY <2>2 DEF Delivered
    <3>2. d \in todo' <=> d \in todo
      BY <1>2, <2>2
    <3> QED
      BY <1>1, <2>2, <3>1, <3>2 DEF Closed
  <2> QED
    BY <2>1, <2>2
<1>6. Running'
  BY <1>1, <1>2 DEF Running
<1> QED
  BY <1>3, <1>4, <1>5, <1>6

LEMMA NotifyInv ==
    ASSUME WebhooksInv, Notify
    PROVE  WebhooksInv'
<1> USE DEF WebhooksInv
<1>1. Untouched /\ todo = {}
  BY DEF Notify, Running
<1>2. UNCHANGED <<config, actionable, failed, answers>>
  BY DEF Notify
<1>3. \A c \in Channel : answers'[c] = <<>>
  BY <1>1, <1>2 DEF Untouched
<1>4. CASE actionable /\ config # {} /\ wpc' = "send" /\ todo' = config
  <2>1. WebhooksTypeOK'
    BY <1>1, <1>2, <1>4 DEF WebhooksTypeOK, Untouched
  <2>2. StillOpen'
    BY <1>3, <1>4 DEF StillOpen, WebhooksTypeOK
  <2>3. Closed'
    BY <1>2, <1>3, <1>4 DEF Closed
  <2>4. Running'
    BY <1>2, <1>4 DEF Running
  <2>5. RepeatHasCause'
    BY <1>2 DEF RepeatHasCause
  <2> QED
    BY <2>1, <2>2, <2>3, <2>4, <2>5
<1>5. CASE (~actionable \/ config = {}) /\ wpc' = "done" /\ UNCHANGED todo
  <2>1. WebhooksTypeOK'
    BY <1>1, <1>2, <1>5 DEF WebhooksTypeOK
  <2>2. StillOpen'
    BY <1>1, <1>5 DEF StillOpen
  <2>3. Closed'
    BY <1>2, <1>3, <1>5 DEF Closed
  <2>4. Running'
    BY <1>1, <1>2, <1>5 DEF Running, Untouched
  <2>5. RepeatHasCause'
    BY <1>2 DEF RepeatHasCause
  <2> QED
    BY <2>1, <2>2, <2>3, <2>4, <2>5
<1> QED
  BY <1>4, <1>5 DEF Notify

LEMMA RejectInv ==
    ASSUME WebhooksInv, Reject
    PROVE  WebhooksInv'
<1>1. wpc = "send" /\ Current \in todo
  BY CurrentIsTodo DEF WebhooksInv, WebhooksTypeOK, Reject
<1>2. PICK c \in todo : c = Current
  BY <1>1
<1>3. UNCHANGED <<config, actionable, answers>> /\ Leave(c) /\ failed' = failed \cup {c}
  BY <1>2 DEF Reject, GiveUp
<1>4. answers[c] = <<>>
  BY <1>2 DEF Reject
<1>5. Delivered(c)' <=> c \notin failed'
  BY <1>3, <1>4 DEF Delivered
<1>6. RepeatHasCause'
  BY <1>3 DEF RepeatHasCause, WebhooksInv
<1> QED
  BY <1>1, <1>3, <1>5, <1>6, LeaveInv DEF WebhooksInv, WebhooksTypeOK

LEMMA PostOKInv ==
    ASSUME WebhooksInv, PostOK
    PROVE  WebhooksInv'
<1>1. wpc = "send" /\ Current \in todo
  BY CurrentIsTodo DEF WebhooksInv, WebhooksTypeOK, PostOK
<1>2. PICK c \in todo : c = Current
  BY <1>1
<1>3. Posted(c, "ok") /\ Leave(c) /\ UNCHANGED <<config, actionable, failed>>
  BY <1>2 DEF PostOK
<1>4. c \in Channel /\ c \notin failed /\ "ok" \in Answer
  BY DEF WebhooksInv, WebhooksTypeOK, Answer
<1>5. Delivered(c)' <=> c \notin failed'
  BY <1>3, <1>4, Appended DEF WebhooksInv
<1> QED
  BY <1>1, <1>3, <1>4, <1>5, Appended, RepeatKept, LeaveInv DEF WebhooksInv

LEMMA PostFailsInv ==
    ASSUME WebhooksInv, NEW a \in Failure, PostFails(a)
    PROVE  WebhooksInv'
<1>1. wpc = "send" /\ Current \in todo
  BY CurrentIsTodo DEF WebhooksInv, WebhooksTypeOK, PostFails
<1>2. PICK c \in todo : c = Current
  BY <1>1
<1>3. Posted(c, a) /\ Leave(c) /\ UNCHANGED <<config, actionable>> /\ failed' = failed \cup {c}
  BY <1>2 DEF PostFails, GiveUp
<1>4. c \in Channel /\ a \in Answer /\ a # "ok"
  BY DEF WebhooksInv, WebhooksTypeOK, Answer, Failure
<1>5. Delivered(c)' <=> c \notin failed'
  BY <1>3, <1>4, Appended DEF WebhooksInv
<1> QED
  BY <1>1, <1>3, <1>4, <1>5, Appended, RepeatKept, LeaveInv DEF WebhooksInv

LEMMA PostAgainInv ==
    ASSUME WebhooksInv, NEW a \in Failure, PostAgain(a)
    PROVE  WebhooksInv'
<1> USE DEF WebhooksInv
<1>1. wpc = "send" /\ Current \in todo
  BY CurrentIsTodo DEF WebhooksTypeOK, PostAgain
<1>2. PICK c \in todo : c = Current
  BY <1>1
<1>3. Posted(c, a) /\ wpc' = "backoff" /\ UNCHANGED <<config, actionable, todo, failed>>
  BY <1>2 DEF PostAgain
<1>4. c \in Channel /\ a \in Answer /\ a \in Transient
  BY RetriedIsTransient DEF WebhooksTypeOK, Answer, PostAgain
<1>5. WebhooksTypeOK'
  BY <1>1, <1>3, <1>4, Appended DEF WebhooksTypeOK
<1>6. StillOpen'
  <2> SUFFICES ASSUME NEW d \in todo', NEW i \in 1 .. Len(answers'[d])
               PROVE  answers'[d][i] \in Transient
    BY DEF StillOpen
  <2>1. d \in todo /\ d \in Channel /\ Len(answers[d]) \in Nat
    BY <1>3 DEF WebhooksTypeOK
  <2>2. CASE d = c /\ i = Len(answers[c]) + 1
    BY <1>3, <1>4, <2>2, Appended
  <2>3. CASE d = c /\ i # Len(answers[c]) + 1
    <3>1. i \in 1 .. Len(answers[c])
      BY <1>3, <1>4, <2>1, <2>3, Appended
    <3> QED
      BY <1>3, <1>4, <2>3, <3>1, Appended DEF StillOpen
  <2>4. CASE d # c
    BY <1>3, <1>4, <2>1, <2>4, Appended DEF StillOpen
  <2> QED
    BY <2>2, <2>3, <2>4
<1>7. Closed'
  <2> SUFFICES ASSUME NEW d \in Channel
               PROVE  IF d \in config'
                      THEN wpc' \in {"send", "backoff", "done"} /\ actionable' /\ d \notin todo'
                              => (Delivered(d)' <=> d \notin failed')
                      ELSE answers'[d] = <<>>
    BY DEF Closed
  <2>1. CASE d = c
    BY <1>3, <2>1 DEF WebhooksTypeOK
  <2>2. CASE d # c
    <3>1. answers'[d] = answers[d] /\ (Delivered(d)' <=> Delivered(d))
      BY <1>3, <1>4, <2>2, Appended
    <3>2. IF d \in config THEN d \notin todo => (Delivered(d) <=> d \notin failed)
          ELSE answers[d] = <<>>
      BY <1>1 DEF Closed, Running
    <3> QED
      BY <1>3, <3>1, <3>2
  <2> QED
    BY <2>1, <2>2
<1>8. Running'
  BY <1>1, <1>3 DEF Running
<1>9. RepeatHasCause'
  BY <1>3, <1>4, RepeatKept
<1> QED
  BY <1>5, <1>6, <1>7, <1>8, <1>9

\* The sleep, and a step that changes nothing.
LEMMA QuietInv ==
    ASSUME WebhooksInv, UNCHANGED <<config, actionable, todo, failed, answers>>,
           wpc' = wpc \/ (wpc = "backoff" /\ wpc' = "send")
    PROVE  WebhooksInv'
<1> USE DEF WebhooksInv
<1>1. WebhooksTypeOK'
  BY DEF WebhooksTypeOK
<1>2. StillOpen'
  BY DEF StillOpen
<1>3. Closed'
  <2> SUFFICES ASSUME NEW d \in Channel
               PROVE  IF d \in config'
                      THEN wpc' \in {"send", "backoff", "done"} /\ actionable' /\ d \notin todo'
                              => (Delivered(d)' <=> d \notin failed')
                      ELSE answers'[d] = <<>>
    BY DEF Closed
  <2>1. Delivered(d)' <=> Delivered(d)
    BY DEF Delivered
  <2>2. IF d \in config
        THEN wpc \in {"send", "backoff", "done"} /\ actionable /\ d \notin todo
                => (Delivered(d) <=> d \notin failed)
        ELSE answers[d] = <<>>
    BY DEF Closed
  <2> QED
    BY <2>1, <2>2
<1>4. Running'
  BY DEF Running, Untouched
<1>5. RepeatHasCause'
  BY DEF RepeatHasCause
<1> QED
  BY <1>1, <1>2, <1>3, <1>4, <1>5

LEMMA NextInv == WebhooksInv /\ [WebhooksNext]_webhookVars => WebhooksInv'
<1> SUFFICES ASSUME WebhooksInv, [WebhooksNext]_webhookVars PROVE WebhooksInv'
  OBVIOUS
<1>1. CASE Notify
  BY <1>1, NotifyInv
<1>2. CASE Reject
  BY <1>2, RejectInv
<1>3. CASE PostOK
  BY <1>3, PostOKInv
<1>4. CASE \E a \in Failure : PostFails(a) \/ PostAgain(a)
  BY <1>4, PostFailsInv, PostAgainInv
<1>5. CASE Backoff
  BY <1>5, QuietInv DEF Backoff
<1>6. CASE UNCHANGED webhookVars
  BY <1>6, QuietInv DEF webhookVars
<1> QED
  BY <1>1, <1>2, <1>3, <1>4, <1>5, <1>6 DEF WebhooksNext

LEMMA InvAnswers == WebhooksInv => EveryChannelAnswered
<1> SUFFICES ASSUME WebhooksInv, wpc = "done", NEW c \in Channel
             PROVE  IF actionable /\ c \in config
                    THEN (Delivered(c) <=> c \notin failed)
                    ELSE answers[c] = <<>>
  BY DEF EveryChannelAnswered
<1>1. CASE actionable
  BY <1>1 DEF WebhooksInv, WebhooksTypeOK, Closed
<1>2. CASE ~actionable
  BY <1>2 DEF WebhooksInv, Running, Untouched
<1> QED
  BY <1>1, <1>2

-----------------------------------------------------------------------------
(* The theorems about a call of notify. *)

\* The variables of a call of notify keep their types.
THEOREM WebhooksTypeCorrect == WebhooksSpec => []WebhooksTypeOK
<1>1. WebhooksInv => WebhooksTypeOK
  BY DEF WebhooksInv
<1> QED
  BY <1>1, InitInv, NextInv, PTL DEF WebhooksSpec

\* Every configured channel is delivered to or reported as failed, whatever the
\* number of retries and whatever becomes of the other channels.
THEOREM ChannelsAreIndependent == WebhooksSpec => []EveryChannelAnswered
  BY InitInv, NextInv, InvAnswers, PTL DEF WebhooksSpec

\* An alert is posted again only after an answer that may pass.
THEOREM RepeatsAreRetries == WebhooksSpec => []RepeatHasCause
<1>1. WebhooksInv => RepeatHasCause
  BY DEF WebhooksInv
<1> QED
  BY <1>1, InitInv, NextInv, PTL DEF WebhooksSpec

-----------------------------------------------------------------------------
(* Induction and recursion over the natural numbers, from a least element. *)

\* A set of natural numbers has a least element: induction, as far as the provers reach.
LEMMA LeastElement ==
    ASSUME NEW T, T \subseteq Nat, T # {}
    PROVE  \E m \in T : \A k \in T : m <= k
<1> DEFINE R == {p \in Nat \X Nat : p[1] < p[2]}
<1>1. ~ \E f \in [Nat -> Nat] : \A n \in Nat : <<f[n + 1], f[n]>> \in R
  BY NatLessThanWellFounded, Zenon DEF IsWellFoundedOn, OpToRel
<1>2. IsWellFoundedOn(R, Nat)
  BY <1>1, Zenon DEF IsWellFoundedOn
<1>3. PICK m \in T : \A k \in T : <<k, m>> \notin R
  <2> HIDE DEF R
  <2> QED
    BY <1>2, WFMin
<1>4. ASSUME NEW k \in T PROVE m <= k
  <2>1. k \in Nat /\ m \in Nat /\ ~ (k < m)
    BY <1>3
  <2> QED
    BY <2>1
<1> QED
  BY <1>4

\* A function is defined by its value at 0 and by a step from each number to the next.
Recursive(f, S, a, step) ==
    /\ f \in [Nat -> S]
    /\ f[0] = a
    /\ \A n \in Nat : f[n + 1] = step[<<n, f[n]>>]

LEMMA Recursion ==
    ASSUME NEW S, NEW a \in S, NEW step \in [Nat \X S -> S]
    PROVE  \E f : Recursive(f, S, a, step)
<1> DEFINE Approx(n, h) == /\ h \in [0 .. n -> S]
                           /\ h[0] = a
                           /\ \A i \in 0 .. n : i + 1 \in 0 .. n => h[i + 1] = step[<<i, h[i]>>]
<1>1. ASSUME NEW m \in Nat, NEW n \in Nat, NEW g, NEW h, Approx(m, g), Approx(n, h)
      PROVE  \A i \in 0 .. m : i \in 0 .. n => g[i] = h[i]
  <2> DEFINE T == {i \in 0 .. m : i \in 0 .. n /\ g[i] # h[i]}
  <2> SUFFICES ASSUME T # {} PROVE FALSE
    OBVIOUS
  <2>1. PICK i \in T : \A k \in T : i <= k
    <3>1. T \subseteq Nat
      OBVIOUS
    <3> QED
      BY <3>1, LeastElement
  <2>2. i # 0
    BY <1>1, <2>1
  <2>3. i - 1 \in 0 .. m /\ i - 1 \in 0 .. n /\ (i - 1) + 1 = i /\ i - 1 \notin T
    BY <2>1, <2>2
  <2>4. g[i - 1] = h[i - 1]
    BY <2>3
  <2>5. g[i] = step[<<i - 1, g[i - 1]>>] /\ h[i] = step[<<i - 1, h[i - 1]>>]
    BY <1>1, <2>1, <2>3
  <2> QED
    BY <2>1, <2>4, <2>5
<1>2. ASSUME NEW n \in Nat
      PROVE  \E h : Approx(n, h)
  <2> DEFINE T == {k \in Nat : ~ \E h : Approx(k, h)}
  <2> SUFFICES ASSUME T # {} PROVE FALSE
    OBVIOUS
  <2>1. PICK k \in T : \A j \in T : k <= j
    <3>1. T \subseteq Nat
      OBVIOUS
    <3> HIDE DEF T
    <3> QED
      BY <3>1, LeastElement
  <2>2. k \in Nat /\ ~ \E h : Approx(k, h)
    BY <2>1
  <2>3. Approx(0, [i \in 0 .. 0 |-> a])
    OBVIOUS
  <2>4. k # 0
    BY <2>2, <2>3
  <2>5. PICK h : Approx(k - 1, h)
    BY <2>1, <2>4
  <2>6. k - 1 \in 0 .. k - 1 /\ h[k - 1] \in S
    BY <2>2, <2>4, <2>5
  <2>7. step[<<k - 1, h[k - 1]>>] \in S
    BY <2>2, <2>4, <2>6
  <2> DEFINE g == [i \in 0 .. k |-> IF i = k THEN step[<<k - 1, h[k - 1]>>] ELSE h[i]]
  <2>8. g \in [0 .. k -> S]
    <3>1. \A i \in 0 .. k : i # k => h[i] \in S
      BY <2>2, <2>5
    <3> QED
      BY <2>7, <3>1
  <2>9. g[0] = a
    BY <2>2, <2>4, <2>5
  <2>10. ASSUME NEW i \in 0 .. k, i + 1 \in 0 .. k
         PROVE  g[i + 1] = step[<<i, g[i]>>]
    <3>1. CASE i + 1 = k
      BY <2>2, <2>10, <3>1
    <3>2. CASE i + 1 # k
      BY <2>2, <2>5, <2>10, <3>2
    <3> QED
      BY <3>1, <3>2
  <2> QED
    BY <2>2, <2>8, <2>9, <2>10
<1> DEFINE H(n) == CHOOSE h : Approx(n, h)
           f == [n \in Nat |-> H(n)[n]]
<1>3. ASSUME NEW n \in Nat PROVE Approx(n, H(n))
  <2> HIDE DEF Approx
  <2> QED
    BY <1>2
<1> HIDE DEF H
<1>4. f \in [Nat -> S]
  BY <1>3
<1>5. f[0] = a
  BY <1>3
<1>6. ASSUME NEW n \in Nat
      PROVE  f[n + 1] = step[<<n, f[n]>>]
  <2>1. H(n + 1)[n] = H(n)[n]
    <3> HIDE DEF Approx
    <3>1. Approx(n + 1, H(n + 1)) /\ Approx(n, H(n)) /\ n \in 0 .. n + 1 /\ n \in 0 .. n
      BY <1>3
    <3> QED
      BY <1>1, <3>1
  <2>2. H(n + 1)[n + 1] = step[<<n, H(n + 1)[n]>>]
    BY <1>3
  <2> QED
    BY <2>1, <2>2
<1> QED
  BY <1>4, <1>5, <1>6 DEF Recursive

-----------------------------------------------------------------------------
(* How long notify sleeps. *)

LEMMA GrowthDef ==
    \A n \in Nat : /\ Growth[n] = IF n = 0 THEN 1 ELSE BackoffFactor * Growth[n - 1]
                   /\ Growth[n] \in Nat
<1> USE WebhooksAssumption
<1> DEFINE Recurs(f) == f = [n \in Nat |-> IF n = 0 THEN 1 ELSE BackoffFactor * f[n - 1]]
           step == [p \in Nat \X Nat |-> BackoffFactor * p[2]]
<1>1. step \in [Nat \X Nat -> Nat]
  OBVIOUS
<1>2. PICK f : Recursive(f, Nat, 1, step)
  <2> HIDE DEF step
  <2> QED
    BY <1>1, Recursion
<1>3. ASSUME NEW n \in Nat
      PROVE  f[n] = IF n = 0 THEN 1 ELSE BackoffFactor * f[n - 1]
  <2>1. CASE n # 0
    <3>1. n - 1 \in Nat /\ (n - 1) + 1 = n /\ f[n - 1] \in Nat
      BY <1>2, <2>1 DEF Recursive
    <3>2. f[n] = step[<<n - 1, f[n - 1]>>]
      BY <1>2, <3>1 DEF Recursive
    <3> QED
      BY <2>1, <3>1, <3>2
  <2> QED
    BY <1>2, <2>1 DEF Recursive
<1>4. Recurs(f)
  BY <1>2, <1>3 DEF Recursive
<1>5. Recurs(Growth)
  <2>1. Growth = CHOOSE g : Recurs(g)
    BY DEF Growth
  <2> HIDE DEF Recurs
  <2> QED
    BY <1>4, <2>1
<1>6. \A n \in Nat : Growth[n] = IF n = 0 THEN 1 ELSE BackoffFactor * Growth[n - 1]
  <2> DEFINE G == Growth
  <2>1. G = [n \in Nat |-> IF n = 0 THEN 1 ELSE BackoffFactor * G[n - 1]]
    BY <1>5
  <2> HIDE DEF G
  <2>2. \A n \in Nat : G[n] = IF n = 0 THEN 1 ELSE BackoffFactor * G[n - 1]
    BY <2>1
  <2> QED
    BY <2>2 DEF G
<1> DEFINE T == {n \in Nat : Growth[n] \notin Nat}
<1>7. T = {}
  <2> SUFFICES ASSUME T # {} PROVE FALSE
    OBVIOUS
  <2>1. PICK n \in T : \A k \in T : n <= k
    <3>1. T \subseteq Nat
      OBVIOUS
    <3> HIDE DEF T
    <3> QED
      BY <3>1, LeastElement
  <2>2. n # 0
    BY <1>6, <2>1
  <2>3. n - 1 \in Nat /\ n - 1 \notin T
    BY <2>1, <2>2
  <2>4. Growth[n - 1] \in Nat
    BY <2>3
  <2>5. BackoffFactor * Growth[n - 1] \in Nat
    BY <2>4
  <2> QED
    BY <1>6, <2>1, <2>2, <2>5
<1> QED
  BY <1>6, <1>7

LEMMA DelayIsNat == \A n \in Nat : Delay(n) \in Nat
<1> SUFFICES ASSUME NEW n \in Nat PROVE Delay(n) \in Nat
  OBVIOUS
<1>1. BaseDelay * Growth[n] \in Nat
  BY GrowthDef, WebhooksAssumption
<1> QED
  BY <1>1, WebhooksAssumption DEF Delay

LEMMA DelaysDef ==
    /\ DelaysBefore \in [Nat -> Nat]
    /\ DelaysBefore[0] = 0
    /\ \A n \in Nat : DelaysBefore[n + 1] = DelaysBefore[n] + Delay(n)
<1> DEFINE Recurs(f) == f = [n \in Nat |-> IF n = 0 THEN 0 ELSE f[n - 1] + Delay(n - 1)]
           step == [p \in Nat \X Nat |-> p[2] + Delay(p[1])]
<1>1. step \in [Nat \X Nat -> Nat]
  BY DelayIsNat
<1>2. PICK f : Recursive(f, Nat, 0, step)
  <2> HIDE DEF step
  <2> QED
    BY <1>1, Recursion
<1>3. ASSUME NEW n \in Nat
      PROVE  f[n] = IF n = 0 THEN 0 ELSE f[n - 1] + Delay(n - 1)
  <2>1. CASE n # 0
    <3>1. n - 1 \in Nat /\ (n - 1) + 1 = n /\ f[n - 1] \in Nat
      BY <1>2, <2>1 DEF Recursive
    <3>2. f[n] = step[<<n - 1, f[n - 1]>>]
      BY <1>2, <3>1 DEF Recursive
    <3> QED
      BY <2>1, <3>1, <3>2
  <2> QED
    BY <1>2, <2>1 DEF Recursive
<1>4. Recurs(f)
  BY <1>2, <1>3 DEF Recursive
<1>5. Recurs(DelaysBefore)
  <2>1. DelaysBefore = CHOOSE g : Recurs(g)
    BY DEF DelaysBefore
  <2> HIDE DEF Recurs
  <2> QED
    BY <1>4, <2>1
<1> DEFINE D == DelaysBefore
<1>6. D = [n \in Nat |-> IF n = 0 THEN 0 ELSE D[n - 1] + Delay(n - 1)]
  BY <1>5
<1> HIDE DEF D
<1>7. D[0] = 0 /\ \A n \in Nat : D[n + 1] = D[n] + Delay(n)
  BY <1>6
<1> DEFINE T == {n \in Nat : D[n] \notin Nat}
<1>8. T = {}
  <2> SUFFICES ASSUME T # {} PROVE FALSE
    OBVIOUS
  <2>1. PICK n \in T : \A k \in T : n <= k
    <3>1. T \subseteq Nat
      OBVIOUS
    <3> HIDE DEF T
    <3> QED
      BY <3>1, LeastElement
  <2>2. n # 0
    BY <1>7, <2>1
  <2>3. n - 1 \in Nat /\ n - 1 \notin T /\ (n - 1) + 1 = n
    BY <2>1, <2>2
  <2>4. D[n] = D[n - 1] + Delay(n - 1) /\ D[n - 1] \in Nat
    BY <1>7, <2>3
  <2> QED
    BY <2>1, <2>3, <2>4, DelayIsNat
<1>9. D \in [Nat -> Nat]
  BY <1>6, <1>8
<1> QED
  BY <1>7, <1>9 DEF D

\* More retries cost no less.
LEMMA DelaysGrow ==
    ASSUME NEW m \in Nat, NEW n \in Nat, m <= n
    PROVE  DelaysBefore[m] <= DelaysBefore[n]
<1> DEFINE T == {k \in Nat : m <= k /\ ~(DelaysBefore[m] <= DelaysBefore[k])}
<1> SUFFICES ASSUME T # {} PROVE FALSE
  OBVIOUS
<1>1. PICK k \in T : \A j \in T : k <= j
  <2>1. T \subseteq Nat
    OBVIOUS
  <2> HIDE DEF T
  <2> QED
    BY <2>1, LeastElement
<1>2. k # m
  BY <1>1, DelaysDef
<1>3. k - 1 \in Nat /\ m <= k - 1 /\ k - 1 \notin T /\ (k - 1) + 1 = k
  BY <1>1, <1>2
<1>4. DelaysBefore[k] = DelaysBefore[k - 1] + Delay(k - 1)
  BY <1>3, DelaysDef
<1>5. DelaysBefore[m] <= DelaysBefore[k - 1]
  BY <1>3
<1> QED
  BY <1>1, <1>3, <1>4, <1>5, DelaysDef, DelayIsNat

\* The sleeps that came before what notify is at.
Slept == IF wpc = "backoff" THEN Len(answers[Current]) - 1 ELSE Len(answers[Current])

\* A channel is posted to once more than is slept for it, one channel after the other;
\* those that notify is through with cost at most all of their retries each.
WaitInv ==
    /\ waited \in Nat
    /\ wpc = "idle" => waited = 0
    /\ \A c \in todo : Len(answers[c]) <= MaxRetries /\ (c # Current => answers[c] = <<>>)
    /\ wpc = "backoff" => answers[Current] # <<>>
    /\ waited <= IF todo = {} THEN Cardinality(config) * DelaysBefore[MaxRetries]
                 ELSE Cardinality(config \ todo) * DelaysBefore[MaxRetries] + DelaysBefore[Slept]

LEMMA ConfigIsFinite ==
    ASSUME WebhooksTypeOK
    PROVE  IsFiniteSet(config)
<1>1. IsFiniteSet(Channel)
  <2>1. IsFiniteSet({}) /\ Channel = (({} \cup {"slack"}) \cup {"teams"}) \cup {"pagerduty"}
    BY FS_EmptySet DEF Channel
  <2>2. IsFiniteSet({} \cup {"slack"})
    BY <2>1, FS_AddElement
  <2>3. IsFiniteSet(({} \cup {"slack"}) \cup {"teams"})
    BY <2>2, FS_AddElement
  <2> QED
    BY <2>1, <2>3, FS_AddElement
<1> QED
  BY <1>1, FS_Subset DEF WebhooksTypeOK

LEMMA SameChannel ==
    ASSUME todo' = todo
    PROVE  Current' = Current
  BY DEF Current

LEMMA NextChannel == (todo \subseteq Channel /\ todo # {} => Current \in todo)'
<1>1. todo \subseteq Channel /\ todo # {} => Current \in todo
  BY CurrentIsTodo
<1> QED
  BY <1>1, PTL

\* notify goes on from channel c.
LEMMA LeaveWait ==
    ASSUME WebhooksInv, WaitInv, NEW c \in todo, c = Current, wpc = "send", Leave(c),
           UNCHANGED <<config, waited>>,
           \A d \in Channel \ {c} : answers'[d] = answers[d]
    PROVE  WaitInv'
<1> DEFINE D == DelaysBefore[MaxRetries]
           k == Cardinality(config \ todo)
<1>1. /\ todo \subseteq config /\ config \subseteq Channel
      /\ todo' = todo \ {c} /\ wpc' \in {"send", "done"} /\ (todo' # {} => wpc' = "send")
  BY DEF WebhooksInv, WebhooksTypeOK, Leave
<1>2. \A d \in todo' : answers'[d] = <<>>
  BY <1>1 DEF WaitInv
<1>3. Len(answers[c]) \in Nat /\ Len(answers[c]) <= MaxRetries
  BY <1>1 DEF WaitInv, WebhooksInv, WebhooksTypeOK
<1>4. waited <= k * D + DelaysBefore[Len(answers[c])]
  BY DEF WaitInv, Slept
<1>5. D \in Nat /\ DelaysBefore[Len(answers[c])] <= D /\ DelaysBefore[Len(answers[c])] \in Nat
  BY <1>3, DelaysGrow, DelaysDef, WebhooksAssumption
<1>6. k \in Nat /\ Cardinality(config' \ todo') = k + 1
  <2>1. IsFiniteSet(config \ todo)
    BY ConfigIsFinite, FS_Subset DEF WebhooksInv
  <2>2. config' \ todo' = (config \ todo) \cup {c} /\ c \notin config \ todo
    BY <1>1
  <2> QED
    BY <2>1, <2>2, FS_AddElement, FS_CardinalityType
<1>7. waited' <= Cardinality(config' \ todo') * D
  <2> HIDE DEF D, k
  <2>1. (k + 1) * D = k * D + D
    BY <1>5, <1>6
  <2>2. waited \in Nat /\ waited' = waited /\ k * D \in Nat
    BY <1>5, <1>6 DEF WaitInv
  <2>3. Cardinality(config' \ todo') * D = k * D + D
    BY <1>6, <2>1
  <2> QED
    BY <1>4, <1>5, <2>2, <2>3
<1>8. CASE todo' = {}
  <2>1. config' \ todo' = config'
    BY <1>8
  <2> QED
    BY <1>1, <1>7, <1>8, <2>1 DEF WaitInv
<1>9. CASE todo' # {}
  <2>1. Current' \in todo'
    <3>1. todo' \subseteq Channel
      BY <1>1
    <3> QED
      BY <1>9, <3>1, NextChannel
  <2>2. Slept' = 0
    BY <1>1, <1>2, <1>9, <2>1 DEF Slept
  <2>3. DelaysBefore[Slept'] = 0
    BY <2>2, DelaysDef
  <2>4. \A d \in todo' : Len(answers'[d]) <= MaxRetries
    BY <1>2, WebhooksAssumption
  <2>5. Cardinality(config' \ todo') * D \in Nat
    BY <1>5, <1>6
  <2>6. waited' <= Cardinality(config' \ todo') * D + DelaysBefore[Slept']
    BY <1>7, <2>3, <2>5
  <2> QED
    BY <1>1, <1>2, <1>9, <2>4, <2>6 DEF WaitInv
<1> QED
  BY <1>8, <1>9

LEMMA NotifyWait ==
    ASSUME WebhooksInv, WaitInv, Notify
    PROVE  WaitInv'
<1>1. /\ waited = 0 /\ waited' = 0 /\ todo = {} /\ wpc' \in {"send", "done"}
      /\ \A c \in Channel : answers'[c] = <<>>
  BY DEF Notify, WaitInv, WebhooksInv, Running, Untouched
<1>2. todo' \subseteq Channel /\ config' \subseteq Channel
  BY <1>1 DEF Notify, WebhooksInv, WebhooksTypeOK
<1>3. IsFiniteSet(config')
  BY ConfigIsFinite DEF WebhooksInv, Notify
<1>4. ASSUME NEW S \in SUBSET config'
      PROVE  Cardinality(S) * DelaysBefore[MaxRetries] \in Nat
  <2>1. Cardinality(S) \in Nat
    BY <1>3, FS_Subset, FS_CardinalityType
  <2> QED
    BY <2>1, DelaysDef, WebhooksAssumption
<1>5. todo' # {} => Slept' = 0
  <2>1. todo' # {} => Current' \in todo'
    BY <1>2, NextChannel
  <2> QED
    BY <1>1, <1>2, <2>1 DEF Slept
<1>6. waited' <= IF todo' = {} THEN Cardinality(config') * DelaysBefore[MaxRetries]
                 ELSE Cardinality(config' \ todo') * DelaysBefore[MaxRetries] + DelaysBefore[Slept']
  <2>1. Cardinality(config') * DelaysBefore[MaxRetries] \in Nat
    BY <1>4
  <2>2. Cardinality(config' \ todo') * DelaysBefore[MaxRetries] \in Nat
    BY <1>4
  <2>3. todo' # {} => DelaysBefore[Slept'] = 0
    BY <1>5, DelaysDef
  <2> QED
    BY <1>1, <2>1, <2>2, <2>3
<1> QED
  BY <1>1, <1>2, <1>6, WebhooksAssumption DEF WaitInv

LEMMA AgainWait ==
    ASSUME WebhooksInv, WaitInv, NEW a \in Failure, PostAgain(a)
    PROVE  WaitInv'
<1>1. PICK c \in todo : c = Current
  BY CurrentIsTodo DEF WebhooksInv, WebhooksTypeOK, PostAgain
<1>2. /\ wpc = "send" /\ wpc' = "backoff" /\ UNCHANGED <<config, todo, waited>>
      /\ Posted(c, a) /\ Len(answers[c]) < MaxRetries
  BY <1>1 DEF PostAgain
<1>3. c \in Channel /\ a \in Answer /\ todo \subseteq Channel /\ Len(answers[c]) \in Nat
  BY DEF WebhooksInv, WebhooksTypeOK, Answer
<1>4. /\ Len(answers'[c]) = Len(answers[c]) + 1 /\ answers'[c] # <<>>
      /\ \A d \in Channel \ {c} : answers'[d] = answers[d]
  BY <1>2, <1>3, Appended DEF WebhooksInv
<1>5. Current' = c
  BY <1>1, <1>2, SameChannel
<1>6. Slept' = Slept
  BY <1>1, <1>2, <1>3, <1>4, <1>5 DEF Slept
<1>7. \A d \in todo' : Len(answers'[d]) <= MaxRetries /\ (d # Current' => answers'[d] = <<>>)
  BY <1>1, <1>2, <1>3, <1>4, <1>5, WebhooksAssumption DEF WaitInv
<1> QED
  BY <1>2, <1>4, <1>5, <1>6, <1>7 DEF WaitInv

LEMMA BackoffWait ==
    ASSUME WebhooksInv, WaitInv, Backoff
    PROVE  WaitInv'
<1>1. PICK c \in todo : c = Current
  BY CurrentIsTodo DEF WebhooksInv, WebhooksTypeOK, Backoff
<1>2. /\ wpc = "backoff" /\ wpc' = "send" /\ UNCHANGED <<config, todo, answers>>
      /\ waited' = waited + Delay(Len(answers[c]) - 1)
  BY <1>1 DEF Backoff
<1>3. Current' = c
  BY <1>1, <1>2, SameChannel
<1>4. answers[c] \in Seq(Answer) /\ answers[c] # <<>>
  BY <1>1, <1>2 DEF WaitInv, WebhooksInv, WebhooksTypeOK
<1>5. PICK n \in Nat : Len(answers[c]) = n + 1
  <2>1. Len(answers[c]) \in Nat /\ Len(answers[c]) # 0
    BY <1>4
  <2>2. Len(answers[c]) - 1 \in Nat /\ Len(answers[c]) = (Len(answers[c]) - 1) + 1
    BY <2>1
  <2> QED
    BY <2>2
<1>6. Slept = n /\ Slept' = n + 1 /\ (n + 1) - 1 = n
  BY <1>1, <1>2, <1>3, <1>5 DEF Slept
<1>7. waited' = waited + Delay(n) /\ DelaysBefore[n + 1] = DelaysBefore[n] + Delay(n)
  BY <1>2, <1>5, <1>6, DelaysDef
<1>8. Delay(n) \in Nat /\ DelaysBefore[n] \in Nat /\ waited \in Nat
  BY DelayIsNat, DelaysDef DEF WaitInv
<1>9. waited <= Cardinality(config \ todo) * DelaysBefore[MaxRetries] + DelaysBefore[n]
  BY <1>1, <1>6 DEF WaitInv
<1>10. Cardinality(config \ todo) * DelaysBefore[MaxRetries] \in Nat
  <2>1. Cardinality(config \ todo) \in Nat
    BY ConfigIsFinite, FS_Subset, FS_CardinalityType DEF WebhooksInv
  <2> QED
    BY <2>1, DelaysDef, WebhooksAssumption
<1>11. waited' <= Cardinality(config' \ todo') * DelaysBefore[MaxRetries] + DelaysBefore[Slept']
  BY <1>2, <1>6, <1>7, <1>8, <1>9, <1>10
<1> QED
  BY <1>1, <1>2, <1>3, <1>7, <1>8, <1>11 DEF WaitInv

LEMMA NextWait ==
    ASSUME WebhooksInv, WaitInv, [WebhooksNext]_webhookVars
    PROVE  WaitInv'
<1>1. CASE Notify
  BY <1>1, NotifyWait
<1>2. CASE Reject \/ PostOK \/ (\E a \in Failure : PostFails(a))
  <2>1. PICK c \in todo : c = Current
    BY <1>2, CurrentIsTodo DEF WebhooksInv, WebhooksTypeOK, Reject, PostOK, PostFails
  <2>2. wpc = "send" /\ Leave(c) /\ UNCHANGED <<config, waited>>
    BY <1>2, <2>1 DEF Reject, PostOK, PostFails, GiveUp
  <2>3. \A d \in Channel \ {c} : answers'[d] = answers[d]
    BY <1>2, <2>1 DEF Reject, PostOK, PostFails, Posted, WebhooksInv, WebhooksTypeOK
  <2> QED
    BY <2>1, <2>2, <2>3, LeaveWait
<1>3. CASE \E a \in Failure : PostAgain(a)
  BY <1>3, AgainWait
<1>4. CASE Backoff
  BY <1>4, BackoffWait
<1>5. CASE UNCHANGED webhookVars
  <2>1. Slept' = Slept /\ Current' = Current
    BY <1>5, SameChannel DEF Slept, webhookVars
  <2> QED
    BY <1>5, <2>1 DEF WaitInv, webhookVars
<1> QED
  BY <1>1, <1>2, <1>3, <1>4, <1>5 DEF WebhooksNext

LEMMA InitWait == WebhooksInit => WaitInv
<1> SUFFICES ASSUME WebhooksInit PROVE WaitInv
  OBVIOUS
<1>1. IsFiniteSet(config)
  BY InitInv, ConfigIsFinite DEF WebhooksInv
<1>2. Cardinality(config) * DelaysBefore[MaxRetries] \in Nat
  <2>1. Cardinality(config) \in Nat
    BY <1>1, FS_CardinalityType
  <2> QED
    BY <2>1, DelaysDef, WebhooksAssumption
<1>3. waited = 0 /\ wpc = "idle" /\ todo = {}
  BY DEF WebhooksInit
<1> QED
  BY <1>2, <1>3 DEF WaitInv

LEMMA WaitBounded == WebhooksInv /\ WaitInv => WaitIsBounded
<1> SUFFICES ASSUME WebhooksInv, WaitInv PROVE WaitIsBounded
  OBVIOUS
<1> DEFINE D == DelaysBefore[MaxRetries]
<1>1. D \in Nat
  BY DelaysDef, WebhooksAssumption
<1>2. IsFiniteSet(config) /\ Cardinality(config) \in Nat
  BY ConfigIsFinite, FS_CardinalityType DEF WebhooksInv
<1>3. CASE todo = {}
  <2>1. waited \in Nat /\ waited <= Cardinality(config) * D
    BY <1>3 DEF WaitInv
  <2> QED
    BY <1>1, <1>2, <2>1 DEF WaitIsBounded
<1>4. CASE todo # {}
  <2>1. Current \in todo /\ todo \subseteq config
    BY <1>4, CurrentIsTodo DEF WebhooksInv, WebhooksTypeOK
  <2>2. Slept \in Nat /\ Slept <= MaxRetries
    <3>1. answers[Current] \in Seq(Answer) /\ Len(answers[Current]) <= MaxRetries
      BY <2>1 DEF WaitInv, WebhooksInv, WebhooksTypeOK
    <3>2. wpc = "backoff" => Len(answers[Current]) # 0
      BY <3>1 DEF WaitInv
    <3> QED
      BY <3>1, <3>2, WebhooksAssumption DEF Slept
  <2>3. DelaysBefore[Slept] <= D /\ DelaysBefore[Slept] \in Nat
    BY <2>2, DelaysGrow, DelaysDef, WebhooksAssumption
  <2>4. Cardinality(config \ todo) \in Nat /\ Cardinality(config \ todo) + 1 <= Cardinality(config)
    <3>1. IsFiniteSet(config \ todo) /\ Cardinality(config \ todo) \in Nat
      BY <1>2, FS_Subset, FS_CardinalityType
    <3>2. /\ IsFiniteSet((config \ todo) \cup {Current})
          /\ Cardinality((config \ todo) \cup {Current}) = Cardinality(config \ todo) + 1
      BY <2>1, <3>1, FS_AddElement
    <3>3. (config \ todo) \cup {Current} \in SUBSET config
      BY <2>1
    <3> QED
      BY <1>2, <3>1, <3>2, <3>3, FS_Subset
  <2>5. waited \in Nat /\ waited <= Cardinality(config \ todo) * D + DelaysBefore[Slept]
    BY <1>4 DEF WaitInv
  <2> DEFINE k == Cardinality(config \ todo)
             n == Cardinality(config)
  <2> HIDE DEF D, k, n
  <2>6. \E j \in Nat : n = (k + 1) + j
    <3>1. n - (k + 1) \in Nat /\ n = (k + 1) + (n - (k + 1))
      BY <1>2, <2>4 DEF k, n
    <3> QED
      BY <3>1
  <2>7. PICK j \in Nat : n = (k + 1) + j
    BY <2>6
  <2>8. n * D = (k * D + D) + j * D /\ j * D \in Nat /\ k * D \in Nat
    <3>1. k \in Nat
      BY <2>4 DEF k
    <3> QED
      BY <1>1, <2>7, <3>1
  <2>9. waited <= k * D + DelaysBefore[Slept]
    BY <2>5 DEF k
  <2>10. waited \in Nat /\ waited <= n * D
    BY <1>1, <2>3, <2>5, <2>8, <2>9
  <2> QED
    BY <1>1, <2>10 DEF WaitIsBounded, D, n
<1> QED
  BY <1>3, <1>4

\* The caller of notify sleeps for no longer than all retries of all channels take,
\* whatever the number of retries, the delays and the answers.
THEOREM WaitsAreBounded == WebhooksSpec => []WaitIsBounded
<1>1. WebhooksInv /\ WaitInv /\ [WebhooksNext]_webhookVars => WaitInv'
  BY NextWait
<1> QED
  BY <1>1, InitInv, NextInv, InitWait, WaitBounded, PTL DEF WebhooksSpec

-----------------------------------------------------------------------------
(* The process. *)

\* Past the guards, with findings that are still reported.
Reporting == pc \in {"steps", "custom", "ended"}

\* No audit function is called before the guards have been passed; only that of AWS
\* changes anything, when it applies or rolls back.
PassedGuards ==
    /\ args \in Arguments
    /\ pc = "start" => ~called /\ audited = {}
    /\ pc = "audit" => ~called /\ audited = {} /\ ~Refused(args)
    /\ called \/ Reporting \/ audited # {} => ~Refused(args)
    /\ \A f \in audited :
          f.changed => args.provider = "aws" /\ args.mode \in {"apply", "rollback"}

\* No status is "FAIL", and custom controls change nothing.
Statuses ==
    /\ \A f \in audited : f.status \in Status
    /\ \A f \in results : f.status \in Status /\ ~f.changed

\* What is reported is what was found: while custom controls run, without theirs, and
\* without those that are lost when one of them raises.
Collected ==
    /\ pc \in {"start", "audit"} => results = {} /\ dropped = {}
    /\ pc = "custom" => "custom" \in steps /\ findings = audited /\ dropped = {}
    /\ pc \in {"steps", "ended"} => findings = Counted
    /\ pc = "steps" /\ "custom" \in steps => results = {} /\ dropped = {}

\* The steps are taken in their order,
InOrder ==
    Reporting => /\ steps \subseteq Pipeline(args)
                 /\ \A s \in Pipeline(args) \ steps : \A r \in steps : Rank[s] < Rank[r]

\* so that a file is written from findings that do not change any more.
WrittenOK ==
    /\ DOMAIN files = Written
    /\ Reporting => \A s \in (Pipeline(args) \cap Written) \ steps :
                        files[s] = [state |-> "whole", of |-> PartOf(s)]

\* Whatever becomes of the process, a change manifest that holds anything is that of
\* an acknowledged apply of AWS.
ChangeOK ==
    files["change"].of # {} => args.yes /\ args.mode = "apply" /\ args.provider = "aws"

ExitOK ==
    pc = "ended" =>
        /\ steps = {}
        /\ exit = IF args.provider = "all" THEN exit_code(findings) ELSE ExitCode(findings)

ReportInv ==
    PassedGuards /\ Statuses /\ Collected /\ InOrder /\ WrittenOK /\ ChangeOK /\ ExitOK

-----------------------------------------------------------------------------

LEMMA Ranks ==
    /\ Step = {"custom", "exceptions", "report", "evidence", "dashboard", "notify", "change", "plan"}
    /\ \A s \in Step : Rank[s] \in Nat
    /\ \A s \in Written : Rank["custom"] < Rank[s] /\ Rank["exceptions"] < Rank[s]
    /\ \A r, s \in Step : Rank[r] = Rank[s] => r = s
  BY DEF Step, Rank, Written

LEMMA PipelineOK == args \in Arguments => Pipeline(args) \subseteq Step
  BY Ranks DEF Arguments, Options, Pipeline

LEMMA SameArguments ==
    ASSUME args' = args
    PROVE  /\ Refused(args)' = Refused(args)
           /\ Pipeline(args)' = Pipeline(args)
  BY DEF Refused, Pipeline

\* A comparison with a status that no finding has waives nothing.
LEMMA NothingWaived ==
    ASSUME NEW fs, NEW ws, \A f \in fs : f.status \in Status
    PROVE  apply_exceptions(fs, ws) = fs
<1>1. \A f \in fs : f.status # "FAIL"
  BY DEF Status
<1> QED
  BY <1>1 DEF apply_exceptions

\* A process that ends otherwise than by returning its exit code has nothing to keep.
LEMMA OtherwiseEnded ==
    ASSUME ReportInv, pc' \in Ends \ {"ended"}, UNCHANGED <<args, audited, results>>,
           called' = called \/ ~Refused(args),
           UNCHANGED files \/ \E s \in Written : files' = Interrupted(s)
    PROVE  ReportInv'
<1>1. DOMAIN files = Written /\ "change" \in Written
  BY DEF ReportInv, WrittenOK, Written
<1>2. DOMAIN files' = Written /\ files'["change"].of \in {files["change"].of, {}}
  <2>1. CASE UNCHANGED files
    BY <1>1, <2>1
  <2>2. ASSUME NEW s \in Written, files' = Interrupted(s)
        PROVE  DOMAIN files' = Written /\ files'["change"].of \in {files["change"].of, {}}
    BY <1>1, <2>2 DEF Interrupted
  <2> QED
    BY <2>1, <2>2
<1>3. ChangeOK'
  BY <1>2 DEF ReportInv, ChangeOK
<1> QED
  BY <1>2, <1>3, SameArguments
     DEF ReportInv, PassedGuards, Statuses, Collected, InOrder, WrittenOK, ExitOK, Reporting, Ends

\* A step other than those that change the findings or write a file.
LEMMA StepTaken ==
    ASSUME ReportInv, NEW s \in Step \ Written, s # "custom", At(s), Done(s),
           UNCHANGED <<args, called, audited, results, dropped, findings, files>>
    PROVE  ReportInv'
<1> USE DEF ReportInv
<1>1. PassedGuards' /\ Statuses' /\ Collected' /\ ChangeOK' /\ ExitOK'
  BY SameArguments
     DEF At, Done, PassedGuards, Statuses, Collected, Counted, ChangeOK, ExitOK, Reporting
<1>2. InOrder'
  BY SameArguments, Ranks, PipelineOK DEF At, Done, PassedGuards, InOrder, Reporting
<1>3. WrittenOK'
  BY SameArguments DEF At, Done, WrittenOK, PartOf, Reporting
<1> QED
  BY <1>1, <1>2, <1>3

\* Before custom controls and waivers have been seen to, no file is written.
LEMMA NothingWritten ==
    ASSUME ReportInv, Reporting, "custom" \in steps \/ "exceptions" \in steps
    PROVE  Pipeline(args) \cap Written \subseteq steps
<1>1. PICK r \in {"custom", "exceptions"} : r \in steps
  OBVIOUS
<1>2. ASSUME NEW s \in Pipeline(args) \cap Written, s \notin steps
      PROVE  FALSE
  <2>1. Rank[s] < Rank[r] /\ Rank[r] < Rank[s]
    BY <1>1, <1>2, Ranks DEF ReportInv, InOrder
  <2>2. Rank[s] \in Nat /\ Rank[r] \in Nat
    BY <1>1, <1>2, Ranks, PipelineOK DEF ReportInv, PassedGuards
  <2> QED
    BY <2>1, <2>2
<1> QED
  BY <1>2

-----------------------------------------------------------------------------

LEMMA InitReport == MainInit => ReportInv
<1> SUFFICES ASSUME MainInit PROVE ReportInv
  OBVIOUS
<1> QED
  BY CommandAssumption
     DEF MainInit, ReportInv, PassedGuards, Statuses, Collected, InOrder, WrittenOK, ChangeOK,
         ExitOK, Reporting, Written

LEMMA GuardReport ==
    ASSUME ReportInv, Guard
    PROVE  ReportInv'
<1>1. CASE Refused(args)
  <2>1. pc' = "refused"
    BY <1>1 DEF Guard, End
  <2> QED
    BY <2>1, OtherwiseEnded DEF Guard, Ends
<1>2. CASE ~Refused(args)
  <2>1. /\ pc = "start" /\ pc' = "audit"
        /\ UNCHANGED <<args, called, audited, results, dropped, files>>
    BY <1>2 DEF Guard
  <2> QED
    BY <1>2, <2>1, SameArguments
       DEF ReportInv, PassedGuards, Statuses, Collected, InOrder, WrittenOK, ChangeOK, ExitOK,
           Reporting
<1> QED
  BY <1>1, <1>2

LEMMA AuditReport ==
    ASSUME ReportInv, Audit
    PROVE  ReportInv'
<1> USE DEF ReportInv
<1>1. /\ pc = "audit" /\ pc' = "steps" /\ steps' = Pipeline(args)
      /\ UNCHANGED <<args, results, dropped, files>> /\ findings' = audited'
      /\ audited' \in Outcomes
      /\ \A f \in audited' :
            f.changed => args.provider = "aws" /\ args.mode \in {"apply", "rollback"}
  BY DEF Audit
<1>2. \A f \in audited' : f.status \in Status
  BY <1>1, CommandAssumption DEF Finding
<1>3. results = {} /\ dropped = {} /\ ~Refused(args)
  BY <1>1 DEF PassedGuards, Collected
<1>4. PassedGuards' /\ Statuses' /\ Collected'
  BY <1>1, <1>2, <1>3, SameArguments DEF PassedGuards, Statuses, Collected, Counted
<1>5. InOrder' /\ WrittenOK' /\ ChangeOK' /\ ExitOK'
  BY <1>1, SameArguments DEF InOrder, WrittenOK, ChangeOK, ExitOK
<1> QED
  BY <1>4, <1>5

LEMMA LoadReport ==
    ASSUME ReportInv, LoadCustom
    PROVE  ReportInv'
<1> USE DEF ReportInv
<1>1. /\ pc = "steps" /\ "custom" \in steps
      /\ UNCHANGED <<args, called, audited, results, dropped, findings, files>>
  BY DEF LoadCustom, At
<1>2. results = {} /\ dropped = {} /\ findings = audited
  BY <1>1 DEF Collected, Counted
<1>3. CASE pc' = "custom" /\ UNCHANGED steps
  BY <1>1, <1>2, <1>3, SameArguments
     DEF PassedGuards, Statuses, Collected, InOrder, WrittenOK, ChangeOK, ExitOK, Reporting, PartOf
<1>4. CASE At("custom") /\ Done("custom")
  <2>1. PassedGuards' /\ Statuses' /\ Collected' /\ ChangeOK' /\ ExitOK'
    BY <1>1, <1>2, <1>4, SameArguments
       DEF Done, PassedGuards, Statuses, Collected, Counted, ChangeOK, ExitOK, Reporting
  <2>2. InOrder'
    BY <1>1, <1>4, SameArguments, Ranks, PipelineOK DEF At, Done, PassedGuards, InOrder, Reporting
  <2>3. WrittenOK'
    BY <1>1, <1>4, SameArguments DEF Done, WrittenOK, PartOf, Reporting, Written
  <2> QED
    BY <2>1, <2>2, <2>3
<1> QED
  BY <1>3, <1>4 DEF LoadCustom

LEMMA RunReport ==
    ASSUME ReportInv, RunCustom
    PROVE  ReportInv'
<1> USE DEF ReportInv
<1>1. /\ pc = "custom"
      /\ UNCHANGED <<args, pc, steps, findings, called, audited, dropped, files>>
  BY DEF RunCustom
<1>2. \A f \in results' : f.status \in Status /\ ~f.changed
  <2>1. CASE UNCHANGED results
    BY <2>1 DEF Statuses
  <2>2. CASE \E s \in {"pass", "fail", "error"} :
               results' = results \cup {[id |-> Head(left), status |-> s, changed |-> FALSE,
                                         planned |-> s = "fail" /\ args.mode = "plan"]}
    BY <2>2 DEF Statuses, Status
  <2> QED
    BY <2>1, <2>2 DEF RunCustom
<1> QED
  BY <1>1, <1>2, SameArguments
     DEF PassedGuards, Statuses, Collected, InOrder, WrittenOK, ChangeOK, ExitOK, Reporting, PartOf

\* The custom controls are over, with findings or without.
LEMMA CustomOver ==
    ASSUME ReportInv, pc = "custom", Done("custom"),
           UNCHANGED <<args, called, audited, results, files>>,
           \/ UNCHANGED findings /\ dropped' = results
           \/ findings' = findings \cup results /\ UNCHANGED dropped
    PROVE  ReportInv'
<1> USE DEF ReportInv
<1>1. "custom" \in steps /\ findings = audited /\ findings' = Counted'
  BY DEF Collected, Counted
<1>2. PassedGuards' /\ Statuses' /\ Collected' /\ ChangeOK' /\ ExitOK'
  BY <1>1, SameArguments
     DEF Done, PassedGuards, Statuses, Collected, ChangeOK, ExitOK, Reporting
<1>3. Pipeline(args) \cap Written \subseteq steps /\ "custom" \notin Written
  BY <1>1, NothingWritten DEF Reporting, Written
<1>4. WrittenOK'
  BY <1>3, SameArguments DEF Done, WrittenOK, Reporting
<1>5. \A r \in steps \ {"custom"} : Rank["custom"] < Rank[r]
  <2>1. \A r \in Step \ {"custom"} : Rank["custom"] < Rank[r]
    BY DEF Step, Rank
  <2> QED
    BY <2>1, PipelineOK DEF PassedGuards, InOrder, Reporting
<1>6. InOrder'
  BY <1>5, SameArguments DEF Done, InOrder, Reporting
<1> QED
  BY <1>2, <1>4, <1>6

LEMMA ExceptionsReport ==
    ASSUME ReportInv, ApplyExceptions
    PROVE  ReportInv'
<1>1. pc = "steps" /\ UNCHANGED <<args, called, audited, results, dropped, files>>
  BY DEF ApplyExceptions, At
<1>2. \A f \in findings : f.status \in Status
  BY <1>1 DEF ReportInv, Statuses, Collected, Counted
<1>3. UNCHANGED findings
  BY <1>2, NothingWaived DEF ApplyExceptions
<1>4. "exceptions" \in Step \ Written /\ "exceptions" # "custom"
  BY Ranks DEF Written
<1> QED
  BY <1>1, <1>3, <1>4, StepTaken DEF ApplyExceptions

LEMMA WriteReport ==
    ASSUME ReportInv, NEW s \in Written, Write(s)
    PROVE  ReportInv'
<1> USE DEF ReportInv
<1>1. /\ pc = "steps" /\ pc' = "steps" /\ steps' = steps \ {s} /\ s \in steps
      /\ \A r \in steps : Rank[s] <= Rank[r]
      /\ UNCHANGED <<args, called, audited, results, dropped, findings>>
      /\ files' = [files EXCEPT ![s] = [state |-> "whole", of |-> PartOf(s)]]
  BY DEF Write, At, Done
<1>2. PassedGuards' /\ Statuses' /\ Collected' /\ ExitOK'
  BY <1>1, SameArguments DEF PassedGuards, Statuses, Collected, Counted, ExitOK, Reporting
<1>3. InOrder'
  <2>1. steps \subseteq Step
    BY <1>1, PipelineOK DEF PassedGuards, InOrder, Reporting
  <2>2. \A r \in steps' : Rank[s] < Rank[r]
    BY <1>1, <2>1, Ranks
  <2> QED
    BY <1>1, <2>2, SameArguments DEF InOrder, Reporting
<1>4. \A r : PartOf(r)' = PartOf(r)
  BY <1>1 DEF PartOf
<1>5. WrittenOK'
  BY <1>1, <1>4, SameArguments DEF WrittenOK, Reporting
<1>6. ChangeOK'
  <2>1. CASE s # "change"
    BY <1>1, <2>1 DEF ChangeOK, WrittenOK
  <2>2. CASE s = "change"
    <3>1. files'["change"].of = {f \in findings : f.changed}
      BY <1>1, <2>2 DEF WrittenOK, PartOf
    <3>2. "change" \in args.options /\ ~Refused(args)
      BY <1>1, <2>2 DEF PassedGuards, InOrder, Reporting, Pipeline
    <3>3. args.mode = "apply" /\ args.yes
      BY <3>2 DEF Refused, PassedGuards, Arguments
    <3>4. \A f \in findings : f.changed => args.provider = "aws"
      BY <1>1 DEF PassedGuards, Statuses, Collected, Counted
    <3> QED
      BY <1>1, <3>1, <3>3, <3>4 DEF ChangeOK
  <2> QED
    BY <2>1, <2>2
<1> QED
  BY <1>2, <1>3, <1>5, <1>6

LEMMA ReturnReport ==
    ASSUME ReportInv, Return
    PROVE  ReportInv'
<1> USE DEF ReportInv
<1>1. /\ pc = "steps" /\ steps = {} /\ pc' = "ended"
      /\ exit' = IF args.provider = "all" THEN exit_code(findings) ELSE ExitCode(findings)
      /\ UNCHANGED <<args, steps, called, audited, results, dropped, findings, files>>
  BY DEF Return, End
<1>2. exit_code(findings)' = exit_code(findings) /\ ExitCode(findings)' = ExitCode(findings)
  BY <1>1 DEF exit_code, ExitCode
<1>3. PassedGuards' /\ Statuses' /\ Collected' /\ ChangeOK' /\ ExitOK'
  BY <1>1, <1>2, SameArguments
     DEF PassedGuards, Statuses, Collected, Counted, ChangeOK, ExitOK, Reporting
<1>4. InOrder' /\ WrittenOK'
  BY <1>1, SameArguments DEF InOrder, WrittenOK, PartOf, Reporting
<1> QED
  BY <1>3, <1>4

-----------------------------------------------------------------------------

LEMMA StepReport ==
    ASSUME ReportInv, [MainNext]_mainVars
    PROVE  ReportInv'
<1>1. CASE OtherCommand
  <2>1. pc' \in Ends \ {"ended"}
    BY <1>1 DEF OtherCommand, End, Ends
  <2> QED
    BY <1>1, <2>1, OtherwiseEnded DEF OtherCommand
<1>2. CASE AuditRaises
  <2>1. pc' \in Ends \ {"ended"}
    BY <1>2 DEF AuditRaises, End, Ends
  <2>2. ~Refused(args)
    BY <1>2 DEF AuditRaises, ReportInv, PassedGuards
  <2> QED
    BY <1>2, <2>1, <2>2, OtherwiseEnded DEF AuditRaises
<1>3. CASE Guard \/ Audit \/ LoadCustom \/ RunCustom \/ ApplyExceptions \/ Return
  BY <1>3, GuardReport, AuditReport, LoadReport, RunReport, ExceptionsReport, ReturnReport
<1>4. CASE CustomRaises
  BY <1>4, CustomOver DEF CustomRaises
<1>5. CASE CustomDone
  BY <1>5, CustomOver DEF CustomDone
<1>6. CASE \E s \in Written : Write(s)
  BY <1>6, WriteReport
<1>7. CASE \E s \in Written : WriteRaises(s)
  <2>1. PICK s \in Written : WriteRaises(s)
    BY <1>7
  <2> QED
    BY <2>1, OtherwiseEnded DEF WriteRaises, End, Ends
<1>8. CASE Alert \/ UNCHANGED mainVars
  <2>1. UNCHANGED mainOnly
    BY <1>8 DEF Alert, mainVars
  <2> QED
    BY <2>1, SameArguments
       DEF mainOnly, ReportInv, PassedGuards, Statuses, Collected, Counted, InOrder, WrittenOK,
           ChangeOK, ExitOK, Reporting, PartOf, exit_code, ExitCode
<1>9. CASE Alerted
  <2>1. "notify" \in Step \ Written /\ "notify" # "custom"
    BY Ranks DEF Written
  <2> QED
    BY <1>9, <2>1, StepTaken DEF Alerted
<1>10. CASE Kill
  <2>1. UNCHANGED files \/ \E s \in Written : files' = Interrupted(s)
    BY <1>10 DEF Kill
  <2>2. pc' \in Ends \ {"ended"} /\ UNCHANGED <<args, called, audited, results>>
    BY <1>10 DEF Kill, Ends
  <2> QED
    BY <2>1, <2>2, OtherwiseEnded
<1> QED
  BY <1>1, <1>2, <1>3, <1>4, <1>5, <1>6, <1>7, <1>8, <1>9, <1>10 DEF MainNext, MainStep

LEMMA ReportInvariant == MainSpec => []ReportInv
  BY InitReport, StepReport, PTL DEF MainSpec

\* Whatever the arguments, no audit function is called in apply or rollback mode
\* without an acknowledgement, in rollback mode but for AWS, or in apply mode for
\* Azure or all providers together, also when it raises; and a change manifest, even
\* of a process that failed or was killed later, lists what an acknowledged apply of
\* AWS changed, or nothing.
THEOREM ChangesAreAcknowledged == MainSpec => []OnlyAcknowledged
<1>1. ReportInv => OnlyAcknowledged
  BY DEF ReportInv, PassedGuards, ChangeOK, OnlyAcknowledged, Refused
<1> QED
  BY <1>1, ReportInvariant, PTL

\* Every error of the audit function shows in the exit code that main returns, and so
\* does every failure, whatever the waivers; those of custom controls do as well, for
\* any number of them, unless a later one raises.
THEOREM ExitTellsTheWorst == MainSpec => []ExitIsWorst
<1>1. ReportInv => ExitIsWorst
  <2> SUFFICES ASSUME ReportInv, pc = "ended"
               PROVE  /\ exit = 2 <=> \E f \in Counted : f.status = "error"
                      /\ exit = 0 =>
                            /\ \A f \in Counted : f.status # "fail"
                            /\ args.mode = "rollback" => \A f \in audited : f.status # "manual"
    BY DEF ExitIsWorst
  <2>1. findings = Counted /\ audited \subseteq findings
    BY DEF ReportInv, Collected, Counted
  <2>2. exit = IF args.provider = "all" THEN exit_code(findings) ELSE ExitCode(findings)
    BY DEF ReportInv, ExitOK
  <2>3. args.mode = "rollback" => args.provider = "aws"
    BY DEF ReportInv, PassedGuards, Reporting, Refused
  <2> QED
    BY <2>1, <2>2, <2>3 DEF exit_code, ExitCode
<1> QED
  BY <1>1, ReportInvariant, PTL

\* A process that returns an exit code wrote every file it was asked for, from the
\* findings of its audit and of its custom controls, but for those that are lost when
\* one of them raises.
THEOREM ReportsAreComplete == MainSpec => []RecordsComplete
<1>1. ReportInv => RecordsComplete
  <2> SUFFICES ASSUME ReportInv, pc = "ended"
               PROVE  RecordsComplete
    BY DEF RecordsComplete
  <2>1. \A s \in Pipeline(args) \cap Written : files[s] = [state |-> "whole", of |-> PartOf(s)]
    BY DEF ReportInv, WrittenOK, ExitOK, Reporting
  <2>2. findings = Counted
    BY DEF ReportInv, Collected
  <2>3. files["report"] = [state |-> "whole", of |-> findings]
    BY <2>1 DEF Pipeline, Written, PartOf
  <2>4. \A s \in args.options \cap {"evidence", "dashboard"} :
           args.provider # "all" => files[s] = files["report"]
    BY <2>1, <2>3 DEF Pipeline, Written, PartOf
  <2>5. ASSUME "change" \in args.options
        PROVE  /\ files["change"].state = "whole"
               /\ {f.id : f \in files["change"].of} = {f.id : f \in {g \in audited : g.changed}}
    <3>1. args.mode = "apply" /\ args.provider # "all"
      BY <2>5 DEF ReportInv, PassedGuards, Reporting, Refused
    <3>2. files["change"] = [state |-> "whole", of |-> {f \in findings : f.changed}]
      BY <2>1, <2>5, <3>1 DEF Pipeline, Written, PartOf
    <3>3. {f \in findings : f.changed} = {g \in audited : g.changed}
      BY <2>2 DEF ReportInv, Statuses, Counted
    <3> QED
      BY <3>2, <3>3
  <2>6. ASSUME "plan" \in args.options
        PROVE  /\ files["plan"].state = "whole"
               /\ {f.id : f \in files["plan"].of}
                     = {f.id : f \in {g \in Counted : g.planned}}
    <3>1. files["plan"] = [state |-> "whole", of |-> {f \in findings : f.planned}]
      BY <2>1, <2>6 DEF Pipeline, Written, PartOf
    <3> QED
      BY <2>2, <3>1
  <2> QED
    BY <2>3, <2>4, <2>5, <2>6 DEF RecordsComplete
<1> QED
  BY <1>1, ReportInvariant, PTL
-----------------------------------------------------------------------------
(* The call of notify in the process, and the types of both. *)

\* Notify is not called before the report is written, from findings that do not
\* change any more: what it takes for actionable stays so until it returns.
AlertInv ==
    /\ WebhooksInv
    /\ pc \in {"start", "audit"} => wpc = "idle"
    /\ Reporting => IF "report" \in steps THEN wpc = "idle"
                    ELSE actionable = (\E f \in findings : f.status \in {"fail", "error"})

LEMMA ReportIsAsked == "report" \in Pipeline(args) \cap Written
  BY DEF Pipeline, Written

\* What is actionable changes before notify is called only.
LEMMA IdleInv ==
    ASSUME WebhooksInv, wpc = "idle", actionable' \in BOOLEAN,
           UNCHANGED <<config, wpc, todo, failed, answers>>
    PROVE  WebhooksInv'
<1> USE DEF WebhooksInv
<1>1. Untouched /\ todo = {}
  BY DEF Running
<1>2. \A c \in Channel : answers'[c] = <<>>
  BY <1>1 DEF Untouched
<1>3. WebhooksTypeOK' /\ StillOpen' /\ RepeatHasCause'
  BY <1>1 DEF WebhooksTypeOK, StillOpen, RepeatHasCause
<1>4. Closed'
  BY <1>2 DEF Closed
<1>5. Running'
  BY <1>1 DEF Running, Untouched
<1> QED
  BY <1>3, <1>4, <1>5

LEMMA SameAlert ==
    ASSUME AlertInv, UNCHANGED webhookVars
    PROVE  WebhooksInv'
  BY QuietInv DEF AlertInv, webhookVars

\* A step before the report is written.
LEMMA BeforeReport ==
    ASSUME ReportInv, AlertInv, Reporting, "custom" \in steps \/ "exceptions" \in steps,
           UNCHANGED webhookVars, pc' \in {"steps", "custom"},
           steps' \in {steps, steps \ {"custom"}, steps \ {"exceptions"}}
    PROVE  AlertInv'
<1>1. "report" \in steps
  BY NothingWritten, ReportIsAsked
<1>2. "report" \in steps' /\ wpc' = "idle"
  BY <1>1 DEF AlertInv, webhookVars
<1> QED
  BY <1>2, SameAlert DEF AlertInv, Reporting

LEMMA WriteAlert ==
    ASSUME ReportInv, AlertInv, NEW s \in Written, Write(s)
    PROVE  AlertInv'
<1>1. /\ pc = "steps" /\ pc' = "steps" /\ steps' = steps \ {s}
      /\ actionable' = (\E f \in findings : f.status \in {"fail", "error"})
      /\ UNCHANGED <<findings, config, wpc, todo, failed, answers, waited>>
  BY DEF Write, At, Done
<1>2. actionable' = (\E f \in findings' : f.status \in {"fail", "error"})
  BY <1>1
<1>3. CASE "report" \in steps
  <2>1. wpc = "idle"
    BY <1>1, <1>3 DEF AlertInv, Reporting
  <2>2. actionable' \in BOOLEAN
    BY <1>1
  <2>3. WebhooksInv'
    BY <1>1, <2>1, <2>2, IdleInv DEF AlertInv
  <2> QED
    BY <1>1, <1>2, <2>1, <2>3 DEF AlertInv
<1>4. CASE "report" \notin steps
  <2>1. actionable' = actionable
    BY <1>1, <1>4 DEF AlertInv, Reporting
  <2>2. WebhooksInv'
    BY <1>1, <2>1, SameAlert DEF webhookVars
  <2> QED
    BY <1>1, <1>2, <1>4, <2>2 DEF AlertInv
<1> QED
  BY <1>3, <1>4

LEMMA AlertAlert ==
    ASSUME ReportInv, AlertInv, Alert
    PROVE  AlertInv'
<1>1. /\ pc = "steps" /\ "notify" \in steps /\ \A r \in steps : Rank["notify"] <= Rank[r]
      /\ WebhooksNext /\ UNCHANGED <<pc, steps, findings>>
  BY DEF Alert, At, mainOnly
<1>2. "report" \notin steps
  <2>1. ~(Rank["notify"] <= Rank["report"])
    BY DEF Rank
  <2> QED
    BY <1>1, <2>1
<1>3. UNCHANGED actionable
  BY <1>1 DEF WebhooksNext, Notify, Reject, PostOK, PostFails, PostAgain, Backoff
<1>4. WebhooksInv'
  BY <1>1, NextInv DEF AlertInv
<1> QED
  BY <1>1, <1>2, <1>3, <1>4 DEF AlertInv, Reporting

LEMMA StepAlert ==
    ASSUME ReportInv, AlertInv, [MainNext]_mainVars
    PROVE  AlertInv'
<1>1. ASSUME pc' \in Ends \ {"ended"}, UNCHANGED webhookVars
      PROVE  AlertInv'
  BY <1>1, SameAlert DEF AlertInv, Reporting, Ends
<1>2. CASE OtherCommand \/ AuditRaises \/ (\E s \in Written : WriteRaises(s)) \/ Kill
  BY <1>1, <1>2 DEF OtherCommand, AuditRaises, WriteRaises, Kill, End, Ends
<1>3. CASE Guard
  <2>1. CASE Refused(args)
    BY <1>1, <1>3, <2>1 DEF Guard, End, Ends
  <2>2. CASE ~Refused(args)
    <3>1. pc = "start" /\ pc' = "audit" /\ UNCHANGED webhookVars
      BY <1>3, <2>2 DEF Guard
    <3> QED
      BY <3>1, SameAlert DEF AlertInv, Reporting, webhookVars
  <2> QED
    BY <2>1, <2>2
<1>4. CASE Audit
  <2>1. pc = "audit" /\ pc' = "steps" /\ "report" \in steps' /\ UNCHANGED webhookVars
    BY <1>4, ReportIsAsked DEF Audit
  <2> QED
    BY <2>1, SameAlert DEF AlertInv, webhookVars
<1>5. CASE LoadCustom
  BY <1>5, BeforeReport DEF LoadCustom, At, Done, Reporting
<1>6. CASE RunCustom \/ CustomRaises \/ CustomDone
  <2>1. pc = "custom" /\ "custom" \in steps /\ UNCHANGED webhookVars
    BY <1>6 DEF RunCustom, CustomRaises, CustomDone, ReportInv, Collected
  <2> QED
    BY <1>6, <2>1, BeforeReport DEF RunCustom, CustomRaises, CustomDone, Done, Reporting
<1>7. CASE ApplyExceptions
  BY <1>7, BeforeReport DEF ApplyExceptions, At, Done, Reporting
<1>8. CASE \E s \in Written : Write(s)
  BY <1>8, WriteAlert
<1>9. CASE Alert
  BY <1>9, AlertAlert
<1>10. CASE Alerted \/ Return \/ UNCHANGED mainVars
  <2>1. /\ UNCHANGED webhookVars /\ UNCHANGED findings
        /\ pc' \in {pc, "steps", "ended"} /\ (pc' # pc => pc = "steps")
        /\ "report" \in steps <=> "report" \in steps'
    BY <1>10 DEF Alerted, Return, At, Done, End, mainVars, mainOnly
  <2> QED
    BY <2>1, SameAlert DEF AlertInv, Reporting, webhookVars
<1> QED
  BY <1>2, <1>3, <1>4, <1>5, <1>6, <1>7, <1>8, <1>9, <1>10 DEF MainNext, MainStep

LEMMA InitAlert == MainInit => AlertInv
  BY InitInv DEF MainInit, WebhooksInit, AlertInv, Reporting

LEMMA AlertInvariant == MainSpec => []AlertInv
<1>1. ReportInv /\ AlertInv /\ [MainNext]_mainVars => AlertInv'
  BY StepAlert
<1> QED
  BY <1>1, InitAlert, ReportInvariant, PTL DEF MainSpec

\* The types of the process alone.
ProcessOK ==
    /\ args \in Arguments
    /\ pc \in {"start", "audit", "steps", "custom"} \cup Ends
    /\ steps \subseteq Step
    /\ findings \subseteq Finding /\ audited \subseteq Finding
    /\ results \subseteq Finding /\ dropped \subseteq Finding
    /\ called \in BOOLEAN
    /\ left \in Seq(Custom)
    /\ waivers \subseteq Waiver
    /\ files \in [Written -> Contents]
    /\ exit \in -1 .. 2

LEMMA InitProcess == MainInit => ProcessOK
<1> SUFFICES ASSUME MainInit PROVE ProcessOK
  OBVIOUS
<1>1. args \in Arguments
  BY CommandAssumption DEF MainInit
<1>2. left \in Seq(Custom) /\ files \in [Written -> Contents]
  BY DEF MainInit, Contents
<1>3. called \in BOOLEAN
  BY DEF MainInit
<1>4. exit = -1 /\ pc = "start"
  BY DEF MainInit
<1>5. steps = {} /\ findings = {} /\ audited = {} /\ results = {} /\ dropped = {} /\ waivers = {}
  BY DEF MainInit
<1> QED
  BY <1>1, <1>2, <1>3, <1>4, <1>5 DEF ProcessOK

LEMMA EndOK ==
    ASSUME NEW how \in Ends, NEW code \in 0 .. 2, End(how, code)
    PROVE  pc' \in Ends /\ exit' \in -1 .. 2
  BY DEF End

LEMMA ExitCodeOK == exit_code(findings) \in 0 .. 2 /\ ExitCode(findings) \in 0 .. 2
  BY DEF exit_code, ExitCode

LEMMA InterruptedOK ==
    ASSUME ProcessOK, NEW s \in Written
    PROVE  Interrupted(s) \in [Written -> Contents]
  BY DEF ProcessOK, Interrupted, Contents

LEMMA StepProcess ==
    ASSUME ReportInv, ProcessOK, [MainNext]_mainVars
    PROVE  ProcessOK'
<1> USE DEF ProcessOK
<1>1. CASE OtherCommand
  <2>1. PICK code \in {0, 1, 2} : End(IF code = 1 THEN "raised" ELSE "other", code)
    BY <1>1 DEF OtherCommand, Codes
  <2>2. (IF code = 1 THEN "raised" ELSE "other") \in Ends
    BY DEF Ends
  <2> QED
    BY <1>1, <2>1, <2>2, EndOK DEF OtherCommand
<1>2. CASE Guard
  BY <1>2 DEF Guard, End, Ends
<1>3. CASE Audit
  BY <1>3, PipelineOK, CommandAssumption DEF Audit
<1>4. CASE AuditRaises
  <2>1. called' \in BOOLEAN
    BY <1>4, Zenon DEF AuditRaises, Accepted
  <2>2. pc' \in Ends /\ exit' \in -1 .. 2
    BY <1>4 DEF AuditRaises, End, Ends
  <2> QED
    BY <1>4, <2>1, <2>2 DEF AuditRaises
<1>5. CASE LoadCustom
  BY <1>5, CommandAssumption DEF LoadCustom, Done
<1>6. CASE RunCustom
  <2>1. Head(left) \in Custom /\ Tail(left) \in Seq(Custom)
    BY <1>6 DEF RunCustom
  <2>2. results' \subseteq Finding
    <3>1. CASE UNCHANGED results
      BY <3>1
    <3>2. CASE \E s \in {"pass", "fail", "error"} :
                  results' = results \cup {[id |-> Head(left), status |-> s, changed |-> FALSE,
                                            planned |-> s = "fail" /\ args.mode = "plan"]}
      <4>1. PICK s \in {"pass", "fail", "error"} :
                  results' = results \cup {[id |-> Head(left), status |-> s, changed |-> FALSE,
                                            planned |-> s = "fail" /\ args.mode = "plan"]}
        BY <3>2
      <4>2. [id |-> Head(left), status |-> s, changed |-> FALSE,
             planned |-> s = "fail" /\ args.mode = "plan"] \in Finding
        BY <2>1 DEF Finding, Status
      <4> QED
        BY <4>1, <4>2
    <3> QED
      BY <1>6, <3>1, <3>2 DEF RunCustom
  <2> QED
    BY <1>6, <2>1, <2>2 DEF RunCustom
<1>7. CASE CustomRaises
  BY <1>7 DEF CustomRaises, Done
<1>8. CASE CustomDone
  BY <1>8 DEF CustomDone, Done
<1>9. CASE ApplyExceptions
  <2>1. \A f \in findings : f.status \in Status
    BY DEF Finding
  <2>2. UNCHANGED findings
    BY <1>9, <2>1, NothingWaived DEF ApplyExceptions
  <2> QED
    BY <1>9, <2>2, CommandAssumption DEF ApplyExceptions, Done
<1>10. CASE \E s \in Written : Write(s)
  <2>1. PICK s \in Written : Write(s)
    BY <1>10
  <2>2. [state |-> "whole", of |-> PartOf(s)] \in Contents
    BY DEF PartOf, Contents
  <2>3. files' \in [Written -> Contents]
    BY <2>1, <2>2 DEF Write
  <2> QED
    BY <2>1, <2>3 DEF Write, Done
<1>11. CASE \E s \in Written : WriteRaises(s)
  <2>1. PICK s \in Written : WriteRaises(s)
    BY <1>11
  <2> QED
    BY <2>1, InterruptedOK DEF WriteRaises, End, Ends
<1>12. CASE Alert \/ UNCHANGED mainVars
  BY <1>12 DEF Alert, mainVars, mainOnly
<1>13. CASE Alerted
  BY <1>13 DEF Alerted, Done
<1>14. CASE Return
  BY <1>14, ExitCodeOK DEF Return, End, Ends
<1>15. CASE Kill
  BY <1>15, InterruptedOK DEF Kill, Ends
<1> QED
  BY <1>1, <1>2, <1>3, <1>4, <1>5, <1>6, <1>7, <1>8, <1>9, <1>10, <1>11, <1>12, <1>13, <1>14,
     <1>15 DEF MainNext, MainStep

\* The variables of a process and of its call of notify keep their types, for any
\* arguments, audits, custom controls and waivers.
THEOREM MainTypeCorrect == MainSpec => []MainTypeOK
<1>1. ReportInv /\ ProcessOK /\ [MainNext]_mainVars => ProcessOK'
  BY StepProcess
<1>2. AlertInv /\ ProcessOK => MainTypeOK
  BY DEF AlertInv, ProcessOK, WebhooksInv, MainTypeOK
<1> QED
  BY <1>1, <1>2, InitProcess, ReportInvariant, AlertInvariant, PTL DEF MainSpec

\* In a process of the command line too, whatever it wrote before, every configured
\* channel is delivered to or reported as failed, and repeats have a cause.
THEOREM AlertsAreAnswered == MainSpec => [](EveryChannelAnswered /\ RepeatHasCause)
<1>1. AlertInv => EveryChannelAnswered /\ RepeatHasCause
  BY InvAnswers DEF AlertInv, WebhooksInv
<1> QED
  BY <1>1, AlertInvariant, PTL

-----------------------------------------------------------------------------
(* The process runs notify as Webhooks specifies it. *)

\* Before notify starts, what it will find actionable becomes known.
FindingsKnown ==
    /\ wpc = "idle" /\ actionable' \in BOOLEAN
    /\ UNCHANGED <<config, wpc, todo, failed, answers, waited>>

LEMMA StepNotify ==
    ASSUME ReportInv, AlertInv, [MainNext]_mainVars
    PROVE  [WebhooksNext \/ FindingsKnown]_webhookVars
<1>1. CASE \E s \in Written : Write(s)
  <2>1. PICK s \in Written : Write(s)
    BY <1>1
  <2>2. /\ pc = "steps"
        /\ actionable' = (\E f \in findings : f.status \in {"fail", "error"})
        /\ UNCHANGED <<config, wpc, todo, failed, answers, waited>>
    BY <2>1 DEF Write, At
  <2>3. wpc = "idle" \/ actionable' = actionable
    BY <2>2 DEF AlertInv, Reporting
  <2>4. actionable' \in BOOLEAN
    BY <2>2
  <2> QED
    BY <2>2, <2>3, <2>4 DEF FindingsKnown, webhookVars
<1>2. CASE Alert
  BY <1>2 DEF Alert
<1>3. CASE UNCHANGED webhookVars
  BY <1>3
<1>4. OtherCommand \/ Guard \/ Audit \/ AuditRaises => UNCHANGED webhookVars
  BY DEF OtherCommand, Guard, Audit, AuditRaises
<1>5. LoadCustom \/ RunCustom \/ CustomRaises \/ CustomDone \/ ApplyExceptions
         => UNCHANGED webhookVars
  BY DEF LoadCustom, RunCustom, CustomRaises, CustomDone, ApplyExceptions
<1>6. (\E s \in Written : WriteRaises(s)) \/ Alerted \/ Return \/ Kill \/ UNCHANGED mainVars
         => UNCHANGED webhookVars
  BY DEF WriteRaises, Alerted, Return, Kill, mainVars
<1> QED
  BY <1>1, <1>2, <1>3, <1>4, <1>5, <1>6 DEF MainNext, MainStep

\* Whatever a process does before, between and after, its alerts go as a call of
\* notify alone would: what it reports is known before the call, and no step of the
\* process interferes with it.
THEOREM NotifyAsSpecified ==
    MainSpec => WebhooksInit /\ [][WebhooksNext \/ FindingsKnown]_webhookVars
<1>1. MainInit => WebhooksInit
  BY DEF MainInit
<1>2. ReportInv /\ AlertInv /\ [MainNext]_mainVars => [WebhooksNext \/ FindingsKnown]_webhookVars
  BY StepNotify
<1> QED
  BY <1>1, <1>2, ReportInvariant, AlertInvariant, PTL DEF MainSpec

\* So the command line waits for its alerts no longer than their retries take.
THEOREM ProcessWaitIsBounded == MainSpec => []WaitIsBounded
<1>1. MainInit => WaitInv
  BY InitWait DEF MainInit
<1>2. ASSUME WebhooksInv, WaitInv, [WebhooksNext \/ FindingsKnown]_webhookVars
      PROVE  WaitInv'
  <2>1. CASE [WebhooksNext]_webhookVars
    BY <1>2, <2>1, NextWait
  <2>2. CASE FindingsKnown
    <3>1. Slept' = Slept /\ Current' = Current
      BY <2>2, SameChannel DEF Slept, FindingsKnown
    <3> QED
      BY <1>2, <2>2, <3>1 DEF WaitInv, FindingsKnown
  <2> QED
    BY <1>2, <2>1, <2>2
<1>3. AlertInv => WebhooksInv
  BY DEF AlertInv
<1> QED
  BY <1>1, <1>2, <1>3, NotifyAsSpecified, AlertInvariant, WaitBounded, PTL DEF MainSpec
=============================================================================
