----------------------------- MODULE RateLimiter -----------------------------
(***************************************************************************)
(* The token bucket of rate_limiter.py, shared by the threads of a network *)
(* scan.  The lock makes the look at the bucket one step; between a look,  *)
(* the test of the deadline and the computation of the sleep the thread    *)
(* may lose the processor for any time.                                    *)
(*                                                                         *)
(* Time is counted in ticks.  A tick earns one unit of credit, a token     *)
(* costs Period units: the rate is 1/Period tokens per tick, and the       *)
(* amounts of the code are those of the model divided by Period.           *)
(***************************************************************************)
EXTENDS Integers

CONSTANTS
    Caller,         \* the threads
    Period,         \* ticks that earn a token: 1 / calls_per_second
    Burst,          \* capacity in tokens
    Timeouts,       \* the timeouts that callers pass, in ticks
    MaxTime         \* bound: the clock

VARIABLES
    now,        \* time.monotonic()
    credit,     \* _tokens, in units of credit
    last,       \* _last_refill
    pc,         \* where each thread is; idle outside acquire
    deadline,   \* deadline[c]: of the call that c is in
    wake,       \* wake[c]: when the sleep of c is over
    used,       \* history: credit handed out in tokens so far
    log         \* history: log[s] is "used" when the clock left s - 1

vars == <<now, credit, last, pc, deadline, wake, used, log>>

ASSUME LimiterAssumption ==
    /\ Period \in Nat \ {0}
    /\ Burst \in Nat \ {0}
    /\ Timeouts \subseteq Nat
    /\ MaxTime \in Nat

Capacity == Burst * Period

Least(m, n) == IF m < n THEN m ELSE n

Places == {"idle", "look", "test", "sleep", "asleep", "granted", "denied", "crashed"}

Init ==
    /\ now = 0
    /\ credit = Capacity
    /\ last = 0
    /\ pc = [c \in Caller |-> "idle"]
    /\ deadline = [c \in Caller |-> 0]
    /\ wake = [c \in Caller |-> 0]
    /\ used = 0
    /\ log = [s \in {0} |-> 0]

\* acquire(timeout).  The clock must be able to pass the deadline.
Call(c) ==
    /\ pc[c] \in {"idle", "granted", "denied"}
    /\ \E timeout \in Timeouts :
          /\ now + timeout < MaxTime
          /\ deadline' = [deadline EXCEPT ![c] = now + timeout]
    /\ pc' = [pc EXCEPT ![c] = "look"]
    /\ UNCHANGED <<now, credit, last, wake, used, log>>

\* The bucket after _refill.
Refilled == Least(Capacity, credit + (now - last))

\* Mutation: a look that takes a token does not note the time of the refill.
LookStale(c) ==
    /\ pc[c] = "look"
    /\ \/ /\ Refilled >= Period
          /\ credit' = Refilled - Period
          /\ used' = used + Period
          /\ pc' = [pc EXCEPT ![c] = "granted"]
          /\ UNCHANGED last
       \/ /\ Refilled < Period
          /\ credit' = Refilled /\ last' = now
          /\ pc' = [pc EXCEPT ![c] = "test"]
          /\ UNCHANGED used
    /\ UNCHANGED <<now, deadline, wake, log>>

\* Mutation: a look that finds no token drops what it refilled.
LookLossy(c) ==
    /\ pc[c] = "look"
    /\ last' = now
    /\ \/ /\ Refilled >= Period
          /\ credit' = Refilled - Period
          /\ used' = used + Period
          /\ pc' = [pc EXCEPT ![c] = "granted"]
       \/ /\ Refilled < Period
          /\ pc' = [pc EXCEPT ![c] = "test"]
          /\ UNCHANGED <<credit, used>>
    /\ UNCHANGED <<now, deadline, wake, log>>

\* with self._lock: refill, and take a token if there is one.
Look(c) ==
    /\ pc[c] = "look"
    /\ last' = now
    /\ \/ /\ Refilled >= Period
          /\ credit' = Refilled - Period
          /\ used' = used + Period
          /\ pc' = [pc EXCEPT ![c] = "granted"]
       \/ /\ Refilled < Period
          /\ credit' = Refilled
          /\ pc' = [pc EXCEPT ![c] = "test"]
          /\ UNCHANGED used
    /\ UNCHANGED <<now, deadline, wake, log>>

\* if time.monotonic() >= deadline: return False.
Test(c) ==
    /\ pc[c] = "test"
    /\ pc' = [pc EXCEPT ![c] = IF now >= deadline[c] THEN "denied" ELSE "sleep"]
    /\ UNCHANGED <<now, credit, last, deadline, wake, used, log>>

\* time.sleep(min(1 / rate, deadline - time.monotonic())): the clock is read
\* again, and time.sleep raises ValueError for a negative number.
Sleep(c) ==
    /\ pc[c] = "sleep"
    /\ \/ /\ now > deadline[c]
          /\ pc' = [pc EXCEPT ![c] = "crashed"]
          /\ UNCHANGED wake
       \/ /\ now <= deadline[c]
          /\ pc' = [pc EXCEPT ![c] = "asleep"]
          /\ wake' = [wake EXCEPT ![c] = now + Least(Period, deadline[c] - now)]
    /\ UNCHANGED <<now, credit, last, deadline, used, log>>

\* The sleep is over; the thread may run later than that.
Wake(c) ==
    /\ pc[c] = "asleep" /\ now >= wake[c]
    /\ pc' = [pc EXCEPT ![c] = "look"]
    /\ UNCHANGED <<now, credit, last, deadline, wake, used, log>>

Tick ==
    /\ now < MaxTime
    /\ now' = now + 1
    /\ log' = [s \in 0 .. now + 1 |-> IF s \in 0 .. now THEN log[s] ELSE used]
    /\ UNCHANGED <<credit, last, pc, deadline, wake, used>>

Acquire(c) == Look(c) \/ Test(c) \/ Sleep(c) \/ Wake(c)

Next == Tick \/ \E c \in Caller : Call(c) \/ Acquire(c)

Spec == Init /\ [][Next]_vars

-----------------------------------------------------------------------------
(* Properties. *)

TypeOK ==
    /\ now \in Nat
    /\ credit \in 0 .. Capacity
    /\ last \in 0 .. now
    /\ pc \in [Caller -> Places]
    /\ deadline \in [Caller -> Nat]
    /\ wake \in [Caller -> Nat]
    /\ used \in Nat
    /\ log \in [0 .. now -> Nat]

\* In every window of time the tokens handed out are at most the burst and
\* those that the window earned, whatever the threads do ("limits calls to a
\* maximum rate").  The window reaches from s to now; log[s] is what was handed
\* out before s.
WindowBound == \A s \in 0 .. now : used - log[s] <= Capacity + (now - s)

\* What is earned is not lost: since any moment s, the tokens handed out and
\* those in the bucket are at least what was earned, up to a full bucket.  A
\* thread that finds no token was beaten to it by others.
NothingLost == \A s \in 0 .. last : used - log[s] + credit >= Least(Capacity, last - s)

\* Together: what a window hands out is what it earned, neither more nor less, up to
\* the size of the bucket and what is in it (acquire and _refill).
BucketIsExact == WindowBound /\ NothingLost
=============================================================================
