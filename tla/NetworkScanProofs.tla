--------------------------- MODULE NetworkScanProofs ---------------------------
(***************************************************************************)
(* The bounds of the token bucket, for any number of threads, any rate,    *)
(* burst and timeouts; then those of the scan that runs over it, for any   *)
(* list of endpoints and any pool.                                         *)
(*                                                                         *)
(* The bucket is brought up to date only when somebody looks at it, so     *)
(* "credit" is the content at the time "last", not now.  The inductive     *)
(* invariant therefore accounts for a window up to "last", and says that   *)
(* nothing was handed out since.                                           *)
(***************************************************************************)
EXTENDS NetworkScan, FiniteSetTheorems, TLAPS


-----------------------------------------------------------------------------
(* The limiter. *)

\* The history does not run ahead, and nothing is handed out after "last".
LogOK == \A s \in 0 .. now : log[s] <= used /\ (s > last => log[s] = used)

\* What left the bucket in a window that ends at "last", and what is in it, is
\* at most a full bucket and what the window earned.
Accounted == \A s \in 0 .. last : used - log[s] + credit <= Capacity + (last - s)

BucketInv == TypeOK /\ LogOK /\ Accounted

LEMMA CapacityNat == Capacity \in Nat
  BY LimiterAssumption DEF Capacity

LEMMA RefilledBounds ==
  ASSUME TypeOK
  PROVE  /\ Refilled \in 0 .. Capacity
         /\ Refilled = Capacity \/ Refilled = credit + (now - last)
         /\ Refilled <= credit + (now - last)
  BY CapacityNat DEF TypeOK, Refilled, Least

LEMMA TypeInit == Init => TypeOK
  BY CapacityNat DEF Init, TypeOK, Places

LEMMA TypeStep == TypeOK /\ [Next]_vars => TypeOK'
<1> SUFFICES ASSUME TypeOK, [Next]_vars PROVE TypeOK'
  OBVIOUS
<1> USE LimiterAssumption, CapacityNat
<1>1. CASE UNCHANGED vars
  BY <1>1 DEF vars, TypeOK
<1>2. CASE Tick
  <2>1. now' = now + 1 /\ now' \in Nat
    BY <1>2 DEF Tick, TypeOK
  <2>2. log' \in [0 .. now' -> Nat]
    BY <1>2 DEF Tick, TypeOK
  <2>3. last \in 0 .. now'
    BY <2>1 DEF TypeOK
  <2> QED
    BY <1>2, <2>1, <2>2, <2>3 DEF Tick, TypeOK
<1>3. ASSUME NEW c \in Caller, Call(c) PROVE TypeOK'
  <2>1. deadline' \in [Caller -> Nat]
    BY <1>3 DEF Call, TypeOK
  <2>2. pc' \in [Caller -> Places]
    BY <1>3 DEF Call, TypeOK, Places
  <2> QED
    BY <1>3, <2>1, <2>2 DEF Call, TypeOK
<1>4. ASSUME NEW c \in Caller, Look(c) PROVE TypeOK'
  <2>1. pc' \in [Caller -> Places]
    BY <1>4 DEF Look, TypeOK, Places
  <2>2. credit' \in 0 .. Capacity
    <3>1. Refilled \in 0 .. Capacity
      BY RefilledBounds
    <3>2. CASE Refilled >= Period /\ credit' = Refilled - Period
      BY <3>1, <3>2
    <3>3. CASE credit' = Refilled
      BY <3>1, <3>3
    <3> QED
      BY <1>4, <3>2, <3>3 DEF Look
  <2>3. used' \in Nat /\ last' \in 0 .. now'
    BY <1>4 DEF Look, TypeOK
  <2> QED
    BY <1>4, <2>1, <2>2, <2>3 DEF Look, TypeOK
<1>5. ASSUME NEW c \in Caller, Test(c) PROVE TypeOK'
  <2>1. pc' \in [Caller -> Places]
    BY <1>5 DEF Test, TypeOK, Places
  <2> QED
    BY <1>5, <2>1 DEF Test, TypeOK
<1>6. ASSUME NEW c \in Caller, Sleep(c) PROVE TypeOK'
  <2>1. pc' \in [Caller -> Places]
    BY <1>6 DEF Sleep, TypeOK, Places
  <2>2. wake' \in [Caller -> Nat]
    <3>1. deadline[c] \in Nat /\ now \in Nat /\ Period \in Nat
      BY DEF TypeOK
    <3>2. now <= deadline[c] => now + Least(Period, deadline[c] - now) \in Nat
      BY <3>1 DEF Least
    <3> QED
      BY <1>6, <3>1, <3>2 DEF Sleep, TypeOK
  <2> QED
    BY <1>6, <2>1, <2>2 DEF Sleep, TypeOK
<1>7. ASSUME NEW c \in Caller, Wake(c) PROVE TypeOK'
  <2>1. pc' \in [Caller -> Places]
    BY <1>7 DEF Wake, TypeOK, Places
  <2> QED
    BY <1>7, <2>1 DEF Wake, TypeOK
<1> QED
  BY <1>1, <1>2, <1>3, <1>4, <1>5, <1>6, <1>7 DEF Next, Acquire

\* The variables keep their types (the token bucket never goes negative and
\* never holds more than its burst), whatever the threads do.
THEOREM LimiterTypeCorrect == Spec => []TypeOK
<1>1. Init => TypeOK
  BY TypeInit
<1>2. TypeOK /\ [Next]_vars => TypeOK'
  BY TypeStep
<1> QED
  BY <1>1, <1>2, PTL DEF Spec

-----------------------------------------------------------------------------
(* The upper bound. *)

LEMMA BucketInit == Init => BucketInv
<1> SUFFICES ASSUME Init PROVE BucketInv
  OBVIOUS
<1>1. TypeOK
  BY TypeInit
<1>2. LogOK /\ Accounted
  BY CapacityNat DEF Init, LogOK, Accounted
<1> QED
  BY <1>1, <1>2 DEF BucketInv

\* Only Look and Tick touch the bucket, the clock and the history.
LEMMA OtherSteps ==
  ASSUME NEW c \in Caller, Call(c) \/ Test(c) \/ Sleep(c) \/ Wake(c)
  PROVE  UNCHANGED <<now, credit, last, used, log>>
  BY DEF Call, Test, Sleep, Wake

\* A look brings the bucket up to date, and may move a token from it to a thread.
LEMMA LookMoves ==
  ASSUME BucketInv, NEW c \in Caller, Look(c), NEW s \in 0 .. now
  PROVE  used' - log[s] + credit' = used - log[s] + Refilled
<1>1. used \in Int /\ log[s] \in Int
  BY DEF BucketInv, TypeOK
<1>2. Refilled \in Int
  BY RefilledBounds, CapacityNat DEF BucketInv
<1>3. CASE used' = used + Period /\ credit' = Refilled - Period
  BY <1>1, <1>2, <1>3, LimiterAssumption
<1>4. CASE used' = used /\ credit' = Refilled
  BY <1>1, <1>2, <1>4
<1> QED
  BY <1>3, <1>4 DEF Look

LEMMA LookStep ==
  ASSUME BucketInv, NEW c \in Caller, Look(c)
  PROVE  LogOK' /\ Accounted'
<1> USE LimiterAssumption, CapacityNat
<1>1. /\ now' = now /\ log' = log /\ last' = now
      /\ used' >= used /\ used' \in Nat /\ credit' \in Int
  <2>1. Refilled \in 0 .. Capacity
    BY RefilledBounds DEF BucketInv
  <2> QED
    BY <2>1 DEF Look, BucketInv, TypeOK
<1>2. LogOK'
  BY <1>1 DEF LogOK, BucketInv, TypeOK
<1>3. ASSUME NEW s \in 0 .. now
      PROVE  used' - log[s] + credit' <= Capacity + (now - s)
  <2>1. /\ Refilled \in 0 .. Capacity /\ Refilled <= credit + (now - last)
    BY RefilledBounds DEF BucketInv
  <2>2. used' - log[s] + credit' = used - log[s] + Refilled
    BY LookMoves
  <2>3. CASE s <= last
    <3>1. used - log[s] + credit <= Capacity + (last - s)
      BY <2>3 DEF BucketInv, Accounted, TypeOK
    <3> QED
      BY <2>1, <2>2, <3>1 DEF BucketInv, TypeOK
  <2>4. CASE s > last
    <3>1. log[s] = used
      BY <2>4 DEF BucketInv, LogOK
    <3> QED
      BY <2>1, <2>2, <3>1 DEF BucketInv, TypeOK
  <2> QED
    BY <2>3, <2>4 DEF BucketInv, TypeOK
<1>4. Accounted'
  BY <1>1, <1>3 DEF Accounted
<1> QED
  BY <1>2, <1>4

LEMMA TickStep ==
  ASSUME BucketInv, Tick
  PROVE  LogOK' /\ Accounted'
<1>1. /\ now' = now + 1 /\ UNCHANGED <<credit, last, used>>
      /\ \A s \in 0 .. now : log'[s] = log[s]
      /\ log'[now + 1] = used
  BY DEF Tick, BucketInv, TypeOK
<1>2. LogOK'
  <2> SUFFICES ASSUME NEW s \in 0 .. now + 1
               PROVE  log'[s] <= used /\ (s > last => log'[s] = used)
    BY <1>1 DEF LogOK
  <2>1. CASE s = now + 1
    BY <1>1, <2>1 DEF BucketInv, TypeOK
  <2>2. CASE s \in 0 .. now
    BY <1>1, <2>2 DEF BucketInv, LogOK
  <2> QED
    BY <2>1, <2>2 DEF BucketInv, TypeOK
<1>3. Accounted'
  BY <1>1 DEF BucketInv, Accounted, TypeOK
<1> QED
  BY <1>2, <1>3

LEMMA BucketStep == BucketInv /\ [Next]_vars => BucketInv'
<1> SUFFICES ASSUME BucketInv, [Next]_vars PROVE BucketInv'
  OBVIOUS
<1>1. TypeOK'
  BY TypeStep DEF BucketInv
<1>2. CASE UNCHANGED <<now, credit, last, used, log>>
  BY <1>1, <1>2 DEF BucketInv, LogOK, Accounted, Capacity
<1>3. ASSUME NEW c \in Caller, Look(c) PROVE BucketInv'
  BY <1>1, <1>3, LookStep DEF BucketInv
<1>4. CASE Tick
  BY <1>1, <1>4, TickStep DEF BucketInv
<1> QED
  BY <1>2, <1>3, <1>4, OtherSteps DEF Next, Acquire, vars

LEMMA BucketWindow == BucketInv => WindowBound
<1> SUFFICES ASSUME BucketInv, NEW s \in 0 .. now
             PROVE  used - log[s] <= Capacity + (now - s)
  BY DEF WindowBound
<1> USE CapacityNat
<1>1. CASE s <= last
  BY <1>1 DEF BucketInv, Accounted, TypeOK
<1>2. CASE s > last
  BY <1>2 DEF BucketInv, LogOK, TypeOK
<1> QED
  BY <1>1, <1>2 DEF BucketInv, TypeOK

\* The limiter keeps its promise: in no window of time does it hand out more
\* than the burst and what the window earned.
THEOREM RateIsLimited == Spec => []WindowBound
<1>1. Init => BucketInv
  BY BucketInit
<1>2. BucketInv /\ [Next]_vars => BucketInv'
  BY BucketStep
<1>3. BucketInv => WindowBound
  BY BucketWindow
<1> QED
  BY <1>1, <1>2, <1>3, PTL DEF Spec

-----------------------------------------------------------------------------
(* The lower bound. *)

LEMMA NothingLostStep == BucketInv /\ NothingLost /\ [Next]_vars => NothingLost'
<1> SUFFICES ASSUME BucketInv, NothingLost, [Next]_vars PROVE NothingLost'
  OBVIOUS
<1> USE LimiterAssumption, CapacityNat
<1>1. CASE UNCHANGED <<now, credit, last, used, log>>
  BY <1>1 DEF NothingLost, Capacity, Least
<1>2. ASSUME NEW c \in Caller, Look(c) PROVE NothingLost'
  <2>1. /\ Refilled \in 0 .. Capacity
        /\ Refilled = Capacity \/ Refilled = credit + (now - last)
    BY RefilledBounds DEF BucketInv
  <2>2. /\ log' = log /\ last' = now 
    BY <1>2, <2>1 DEF Look, BucketInv, TypeOK
  <2>3. ASSUME NEW s \in 0 .. now
        PROVE  used - log[s] + Refilled >= Least(Capacity, now - s)
    <3>1. log[s] <= used /\ log[s] \in Nat /\ used \in Nat
      BY DEF BucketInv, LogOK, TypeOK
    <3>2. CASE s <= last
      <4>1. used - log[s] + credit >= Least(Capacity, last - s)
        BY <3>2 DEF NothingLost, BucketInv, TypeOK
      <4> QED
        BY <2>1, <3>1, <3>2, <4>1 DEF BucketInv, TypeOK, Least
    <3>3. CASE s > last
      BY <2>1, <3>1, <3>3 DEF BucketInv, TypeOK, Least
    <3> QED
      BY <3>2, <3>3 DEF BucketInv, TypeOK
  <2>4. ASSUME NEW s \in 0 .. now
        PROVE  used' - log'[s] + credit' >= Least(Capacity, now - s)
    <3>1. used' - log[s] + credit' = used - log[s] + Refilled
      BY <1>2, LookMoves
    <3> QED
      BY <2>2, <2>3, <3>1
  <2> QED
    BY <2>2, <2>4 DEF NothingLost, Capacity, Least
<1>3. CASE Tick
  <2>1. /\ UNCHANGED <<credit, last, used>>
        /\ \A s \in 0 .. last : log'[s] = log[s]
    BY <1>3 DEF Tick, BucketInv, TypeOK
  <2> QED
    BY <2>1 DEF NothingLost, Capacity, Least
<1> QED
  BY <1>1, <1>2, <1>3, OtherSteps DEF Next, Acquire, vars

\* The limiter is no stricter than its rate: what is earned is handed out or
\* still there, up to a full bucket.
THEOREM RateIsAvailable == Spec => []NothingLost
<1>1. Init => BucketInv /\ NothingLost
  <2>1. Init => BucketInv
    BY BucketInit
  <2>2. Init => NothingLost
    BY CapacityNat DEF Init, NothingLost, Least
  <2> QED
    BY <2>1, <2>2
<1>2. BucketInv /\ NothingLost /\ [Next]_vars => (BucketInv /\ NothingLost)'
  <2>1. BucketInv /\ [Next]_vars => BucketInv'
    BY BucketStep
  <2>2. BucketInv /\ NothingLost /\ [Next]_vars => NothingLost'
    BY NothingLostStep
  <2> QED
    BY <2>1, <2>2
<1> QED
  BY <1>1, <1>2, PTL DEF Spec

-----------------------------------------------------------------------------
(* The scan. *)

\* Every step of the scan is one of the limiter, or none.
LEMMA ScanStepIsLimiterStep == [ScanNext]_scanVars => [Next]_vars
<1> USE DEF scanVars
<1>1. Pass => Next
  BY DEF Pass, Next
<1>2. ASSUME NEW c \in Caller, Check(c) PROVE [Next]_vars
  BY <1>2 DEF Check, StartCheck, Wait, Connect, Conclude, Denied, Raise, Next, vars
<1>3. Main => UNCHANGED vars
  BY DEF Main, Reject, OpenPool, Submit, Collect, StopCollecting, ReturnFindings
<1> QED
  BY <1>1, <1>2, <1>3 DEF ScanNext

\* Whatever the pool, the threads and the connections do, the limiter is used as
\* RateLimiter specifies it: its state changes in its own steps only.
THEOREM ScanUsesTheLimiter == ScanSpec => Spec
<1>1. ScanInit => Init
  BY DEF ScanInit
<1> QED
  BY <1>1, ScanStepIsLimiterStep, PTL DEF ScanSpec, Spec

\* So the scan keeps to the limiter's rate, and is not held up beyond it.
THEOREM ScanIsLimited == ScanSpec => []BucketIsExact
<1>1. WindowBound /\ NothingLost => BucketIsExact
  BY DEF BucketIsExact
<1> QED
  BY <1>1, ScanUsesTheLimiter, RateIsLimited, RateIsAvailable, PTL

\* Checks are submitted and started in order, and only those that are started
\* have called acquire.
InOrder ==
    /\ place = "audit" => endpoints = 0
    /\ place = "submit" => submitted < Checks
    /\ \A c \in Caller :
          c > started => pc[c] = "idle" /\ answer[c] = "none" /\ connectedAt[c] = -1

LEMMA PartsFinite ==
  ASSUME raw \in RawLists
  PROVE  IsFiniteSet(Parts) /\ Cardinality(Parts) \in Nat
<1>1. DOMAIN raw = 1 .. Len(raw) /\ Len(raw) \in Nat
  BY ScanAssumption
<1>2. IsFiniteSet(1 .. Len(raw))
  BY <1>1, FS_Interval
<1>3. Parts \subseteq 1 .. Len(raw)
  BY <1>1 DEF Parts
<1>4. IsFiniteSet(Parts)
  BY <1>2, <1>3, FS_Subset
<1> QED
  BY <1>4, FS_CardinalityType

LEMMA CallersFinite == IsFiniteSet(Caller) /\ Caller \subseteq Nat \ {0}
  BY ScanAssumption, FS_Interval

LEMMA ScanTypeInit == ScanInit => ScanTypeOK /\ InOrder
<1> SUFFICES ASSUME ScanInit PROVE ScanTypeOK /\ InOrder
  OBVIOUS
<1>1. TypeOK
  BY TypeInit DEF ScanInit
<1>2. connectedAt \in [Caller -> -1 .. now]
  BY DEF ScanInit, Init
<1> QED
  BY <1>1, <1>2, ScanAssumption DEF ScanInit, Init, ScanTypeOK, InOrder, AuditPlaces, Checks

LEMMA ScanTypeStep == ScanTypeOK /\ InOrder /\ [ScanNext]_scanVars => ScanTypeOK' /\ InOrder'
<1> SUFFICES ASSUME ScanTypeOK, InOrder, [ScanNext]_scanVars PROVE ScanTypeOK' /\ InOrder'
  OBVIOUS
<1> USE ScanAssumption, CallersFinite DEF AuditPlaces, Stops, Verdicts, auditVars, poolVars
<1>0. TypeOK'
  BY TypeStep, ScanStepIsLimiterStep DEF ScanTypeOK
<1>1. CASE UNCHANGED scanVars
  BY <1>0, <1>1 DEF scanVars, vars, ScanTypeOK, InOrder, Checks
<1>2. CASE Reject
  BY <1>0, <1>2 DEF Reject, vars, ScanTypeOK, InOrder, Checks
<1>3. CASE OpenPool
  <2>1. Cardinality(Parts) \in 0 .. MaxEndpoints
    BY <1>3, PartsFinite DEF OpenPool, Valid, ScanTypeOK
  <2>2. submitted = 0 /\ started = 0
    BY <1>3 DEF OpenPool, InOrder, Checks, ScanTypeOK
  <2>3. place' = "submit" => endpoints' >= 1
    BY <1>3, <2>1 DEF OpenPool, PoolFor, Least, ScanTypeOK
  <2> QED
    BY <1>0, <1>3, <2>1, <2>2, <2>3 DEF OpenPool, vars, ScanTypeOK, InOrder, Checks
<1>4. CASE Submit
  BY <1>0, <1>4 DEF Submit, vars, ScanTypeOK, InOrder, Checks
<1>5. ASSUME NEW c \in Caller, Collect(c) PROVE ScanTypeOK' /\ InOrder'
  <2>1. findings' \in [Caller -> Verdicts \cup {"none", "unknown"}]
    BY <1>5 DEF Collect, ScanTypeOK
  <2> QED
    BY <1>0, <1>5, <2>1 DEF Collect, vars, ScanTypeOK, InOrder, Checks
<1>6. CASE StopCollecting \/ ReturnFindings
  BY <1>0, <1>6 DEF StopCollecting, ReturnFindings, vars, ScanTypeOK, InOrder, Checks
<1>7. CASE Pass
  <2>1. now' = now + 1 /\ now \in Nat /\ pc' = pc
    BY <1>7 DEF Pass, Tick, ScanTypeOK, TypeOK
  <2>2. connectedAt' \in [Caller -> -1 .. now']
    BY <1>7, <2>1 DEF Pass, ScanTypeOK
  <2> QED
    BY <1>0, <1>7, <2>1, <2>2 DEF Pass, ScanTypeOK, InOrder, Checks
<1>8. ASSUME NEW c \in Caller, StartCheck(c) PROVE ScanTypeOK' /\ InOrder'
  <2>1. now' = now
    BY <1>8 DEF StartCheck, Call
  <2>2. \A d \in Caller : d # c => pc'[d] = pc[d]
    BY <1>8 DEF StartCheck, Call, ScanTypeOK, TypeOK
  <2> QED
    BY <1>0, <1>8, <2>1, <2>2 DEF StartCheck, ScanTypeOK, InOrder, Checks
<1>9. ASSUME NEW c \in Caller, Wait(c) PROVE ScanTypeOK' /\ InOrder'
  <2>1. now' = now /\ pc[c] # "idle"
    BY <1>9 DEF Wait, Acquire, Look, Test, Sleep, Wake
  <2>2. \A d \in Caller : d # c => pc'[d] = pc[d]
    BY <1>9 DEF Wait, Acquire, Look, Test, Sleep, Wake, ScanTypeOK, TypeOK
  <2> QED
    BY <1>0, <1>9, <2>1, <2>2 DEF Wait, ScanTypeOK, InOrder, Checks
<1>10. ASSUME NEW c \in Caller, Connect(c) PROVE ScanTypeOK' /\ InOrder'
  <2>1. connectedAt' \in [Caller -> -1 .. now]
    BY <1>10 DEF Connect, ScanTypeOK, TypeOK
  <2> QED
    BY <1>0, <1>10, <2>1 DEF Connect, Busy, vars, ScanTypeOK, InOrder, Checks
<1>11. ASSUME NEW c \in Caller, Conclude(c) \/ Denied(c) \/ Raise(c) PROVE ScanTypeOK' /\ InOrder'
  <2>1. answer' \in [Caller -> Verdicts \cup {"none", "raised"}]
    BY <1>11 DEF Conclude, Denied, Raise, ScanTypeOK
  <2>2. \A d \in Caller : d > started => answer'[d] = answer[d]
    BY <1>11 DEF Conclude, Denied, Raise, Busy, ScanTypeOK
  <2>3. UNCHANGED <<vars, auditVars, submitted, started, place, connectedAt, findings>>
    BY <1>11 DEF Conclude, Denied, Raise
  <2> QED
    BY <1>0, <2>1, <2>2, <2>3 DEF vars, ScanTypeOK, InOrder, Checks
<1> QED
  BY <1>1, <1>2, <1>3, <1>4, <1>5, <1>6, <1>7, <1>8, <1>9, <1>10, <1>11
     DEF ScanNext, Main, Check

\* The scan keeps its types: threads start at most the checks that were
\* submitted, and no more are submitted than there are.
THEOREM ScanTypeCorrect == ScanSpec => []ScanTypeOK
<1>1. ScanInit => ScanTypeOK /\ InOrder
  BY ScanTypeInit
<1>2. ScanTypeOK /\ InOrder /\ [ScanNext]_scanVars => (ScanTypeOK /\ InOrder)'
  BY ScanTypeStep
<1> QED
  BY <1>1, <1>2, PTL DEF ScanSpec

-----------------------------------------------------------------------------
(* What becomes of a check. *)

\* What the answer of a check says of its course.
Course(c) ==
    /\ connectedAt[c] # -1 => pc[c] = "granted"
    /\ answer[c] = "seen" => connectedAt[c] # -1
    /\ answer[c] = "error" => connectedAt[c] # -1 \/ pc[c] = "denied"
    /\ answer[c] = "raised" => pc[c] = "crashed"
    /\ pc[c] = "granted" /\ connectedAt[c] = -1 => answer[c] = "none"

\* What the finding of a check says of its answer.
Told(c) ==
    findings[c] # "none" =>
        /\ answer[c] # "none"
        /\ findings[c] = IF answer[c] = "raised" THEN "unknown" ELSE answer[c]

Courses == \A c \in Caller : Course(c) /\ Told(c)

\* run_audit ends with the findings of all checks, or for a reason.
Ends ==
    /\ place \in {"leave", "returned"} => \A c \in 1 .. Checks : findings[c] # "none"
    /\ place = "raised" => workers < 1 \/ \A i \in DOMAIN raw : raw[i] = "blank"

CheckInv == ScanTypeOK /\ InOrder /\ Courses /\ Ends

LEMMA CheckInit == ScanInit => CheckInv
<1> SUFFICES ASSUME ScanInit PROVE CheckInv
  OBVIOUS
<1>1. Courses /\ Ends
  BY DEF ScanInit, Init, Courses, Course, Told, Ends
<1> QED
  BY <1>1, ScanTypeInit DEF CheckInv

\* A step of acquire is taken before the check connects or answers.
LEMMA AcquireCourse ==
  ASSUME ScanTypeOK, Courses, NEW c \in Caller, Wait(c)
  PROVE  Courses'
<1>1. UNCHANGED <<connectedAt, answer, findings>>
  BY DEF Wait, poolVars
<1>2. pc[c] \in {"look", "test", "sleep", "asleep"} /\ pc' \in [Caller -> Places]
      /\ pc'[c] \in Places
  BY TypeStep, ScanTypeOK DEF Wait, Acquire, Look, Test, Sleep, Wake, Next, ScanTypeOK, TypeOK, Places
<1>3. \A d \in Caller : d # c => pc'[d] = pc[d]
  BY DEF Wait, Acquire, Look, Test, Sleep, Wake, ScanTypeOK, TypeOK
<1>4. connectedAt[c] = -1 /\ answer[c] = "none"
  BY <1>2 DEF Courses, Course, ScanTypeOK, Verdicts
<1> QED
  BY <1>1, <1>3, <1>4 DEF Courses, Course, Told

LEMMA CoursesStep ==
  ASSUME CheckInv, [ScanNext]_scanVars
  PROVE  Courses'
<1> USE DEF CheckInv, auditVars, poolVars
<1>1. CASE UNCHANGED <<pc, connectedAt, answer, findings>>
  BY <1>1 DEF Courses, Course, Told
<1>2. ASSUME NEW c \in Caller, Collect(c) PROVE Courses'
  BY <1>2 DEF Collect, vars, ScanTypeOK, Courses, Course, Told
<1>3. CASE Reject \/ OpenPool \/ Submit \/ StopCollecting \/ ReturnFindings \/ Pass
  BY <1>1, <1>3 DEF Reject, OpenPool, Submit, StopCollecting, ReturnFindings, Pass, Tick, vars
<1>4. ASSUME NEW c \in Caller, StartCheck(c) PROVE Courses'
  <2>1. c > started
    BY <1>4, CallersFinite DEF StartCheck, ScanTypeOK
  <2>2. pc[c] = "idle" /\ answer[c] = "none" /\ connectedAt[c] = -1
    BY <2>1 DEF InOrder
  <2>3. pc' = [pc EXCEPT ![c] = "look"] /\ UNCHANGED <<connectedAt, answer, findings>>
    BY <1>4 DEF StartCheck, Call
  <2> QED
    BY <2>2, <2>3 DEF ScanTypeOK, TypeOK, Courses, Course, Told
<1>5. ASSUME NEW c \in Caller, Wait(c) PROVE Courses'
  BY <1>5, AcquireCourse
<1>6. ASSUME NEW c \in Caller, Connect(c) PROVE Courses'
  BY <1>6 DEF Connect, Busy, vars, ScanTypeOK, Courses, Course, Told
<1>7. ASSUME NEW c \in Caller, Conclude(c) PROVE Courses'
  <2>1. connectedAt[c] # -1 /\ answer[c] = "none" /\ findings[c] = "none"
    BY <1>7 DEF Conclude, Busy, Courses, Told
  <2>2. PICK verdict \in Verdicts : answer' = [answer EXCEPT ![c] = verdict]
    BY <1>7 DEF Conclude
  <2>3. UNCHANGED <<pc, connectedAt, findings>>
    BY <1>7 DEF Conclude, vars
  <2> QED
    BY <2>1, <2>2, <2>3 DEF ScanTypeOK, Verdicts, Courses, Course, Told
<1>8. ASSUME NEW c \in Caller, Denied(c) PROVE Courses'
  BY <1>8 DEF Denied, Busy, vars, ScanTypeOK, Courses, Course, Told
<1>9. ASSUME NEW c \in Caller, Raise(c) PROVE Courses'
  BY <1>9 DEF Raise, Busy, vars, ScanTypeOK, Courses, Course, Told
<1> QED
  BY <1>1, <1>2, <1>3, <1>4, <1>5, <1>6, <1>7, <1>8, <1>9
     DEF ScanNext, Main, Check, scanVars, vars

\* The pool cannot be opened for want of workers, or of endpoints.
LEMMA OpenPoolRaises ==
  ASSUME CheckInv, OpenPool, place' = "raised"
  PROVE  workers < 1 \/ \A i \in DOMAIN raw : raw[i] = "blank"
<1>1. IsFiniteSet(Parts) /\ Cardinality(Parts) \in Nat
  BY PartsFinite DEF CheckInv, ScanTypeOK
<1>2. PoolFor(Cardinality(Parts)) < 1
  BY DEF OpenPool
<1>3. workers < 1 \/ Cardinality(Parts) = 0
  BY <1>1, <1>2, ScanAssumption DEF PoolFor, Least, CheckInv, ScanTypeOK
<1>4. Cardinality(Parts) = 0 => Parts = {}
  BY <1>1, FS_EmptySet
<1> QED
  BY <1>3, <1>4 DEF Parts

LEMMA EndsStep ==
  ASSUME CheckInv, [ScanNext]_scanVars
  PROVE  Ends'
<1> USE DEF CheckInv, auditVars, poolVars
<1>1. CASE UNCHANGED <<place, endpoints, findings, workers, raw>>
  BY <1>1 DEF Ends, Checks
<1>2. CASE Reject \/ Submit
  BY <1>2 DEF Reject, Submit, Ends
<1>3. CASE OpenPool
  BY <1>3, OpenPoolRaises DEF OpenPool, Ends
<1>4. ASSUME NEW c \in Caller, Collect(c) PROVE Ends'
  BY <1>4 DEF Collect, Ends
<1>5. CASE StopCollecting \/ ReturnFindings
  BY <1>5 DEF StopCollecting, ReturnFindings, Ends, Checks
<1>6. CASE Pass \/ \E c \in Caller : Check(c)
  BY <1>1, <1>6 DEF Pass, Check, StartCheck, Wait, Connect, Conclude, Denied, Raise
<1> QED
  BY <1>1, <1>2, <1>3, <1>4, <1>5, <1>6 DEF ScanNext, Main, scanVars

LEMMA CheckInvAnswers == CheckInv => EveryCheckAnswered
<1> SUFFICES ASSUME CheckInv PROVE EveryCheckAnswered
  OBVIOUS
<1>1. ASSUME place = "returned", NEW c \in 1 .. Checks
      PROVE  \/ connectedAt[c] # -1 /\ findings[c] = answer[c] /\ findings[c] \in Verdicts
             \/ pc[c] = "denied" /\ findings[c] = "error" /\ connectedAt[c] = -1
             \/ pc[c] = "crashed" /\ findings[c] = "unknown" /\ connectedAt[c] = -1
  <2>1. c \in Caller
    BY ScanAssumption DEF CheckInv, ScanTypeOK, Checks
  <2>2. findings[c] # "none"
    BY <1>1 DEF CheckInv, Ends
  <2>3. Course(c) /\ Told(c) /\ answer[c] \in Verdicts \cup {"none", "raised"}
    BY <2>1 DEF CheckInv, Courses, ScanTypeOK
  <2> QED
    BY <2>2, <2>3 DEF Course, Told, Verdicts
<1> QED
  BY <1>1 DEF EveryCheckAnswered, CheckInv, Ends

LEMMA CheckInvStep == CheckInv /\ [ScanNext]_scanVars => CheckInv'
  BY ScanTypeStep, CoursesStep, EndsStep DEF CheckInv

\* No check is lost or told wrongly, for any pool, list and rate: what is
\* reported of a check is what it saw, that it was denied a token, or that the
\* limiter raised.
THEOREM ChecksAreAnswered == ScanSpec => []EveryCheckAnswered
<1>1. ScanInit => CheckInv
  BY CheckInit
<1>2. CheckInv /\ [ScanNext]_scanVars => CheckInv'
  BY CheckInvStep
<1>3. CheckInv => EveryCheckAnswered
  BY CheckInvAnswers
<1> QED
  BY <1>1, <1>2, <1>3, PTL DEF ScanSpec

-----------------------------------------------------------------------------
(* The rate of the connections. *)

Threads == Greatest(0, PoolSize)

Granted == {c \in Caller : pc[c] = "granted"}

Connected == {c \in Caller : connectedAt[c] # -1}

ConnectedBefore(s) == {c \in Connected : connectedAt[c] < s}

\* Every token is that of one check; a check that has a token and no connection
\* occupies a thread.  So the tokens that had been handed out at any time are
\* those of the connections made by then, and one for every thread at most.
Tokens ==
    /\ used = Period * Cardinality(Granted)
    /\ Cardinality(Busy) <= Threads
    /\ \A s \in 0 .. now : log[s] <= Period * (Cardinality(ConnectedBefore(s)) + Threads)

RateInv == CheckInv /\ BucketInv /\ Tokens

LEMMA SetsFinite ==
  /\ \A S : S \subseteq Caller => IsFiniteSet(S) /\ Cardinality(S) \in Nat
  /\ \A S, T : S \subseteq T /\ T \subseteq Caller => Cardinality(S) <= Cardinality(T)
<1>1. ASSUME NEW S, S \subseteq Caller PROVE IsFiniteSet(S) /\ Cardinality(S) \in Nat
  BY <1>1, CallersFinite, FS_Subset, FS_CardinalityType
<1>2. ASSUME NEW S, NEW T, S \subseteq T, T \subseteq Caller
      PROVE  Cardinality(S) <= Cardinality(T)
  BY <1>1, <1>2, FS_Subset
<1> QED
  BY <1>1, <1>2

LEMMA ThreadsNat == ScanTypeOK => Threads \in Nat /\ PoolSize \in Int
  BY ScanAssumption DEF ScanTypeOK, Threads, PoolSize, PoolFor, Least, Greatest

LEMMA TimesMonotone ==
  ASSUME NEW p \in Nat, NEW x \in Nat, NEW y \in Nat, x <= y
  PROVE  p * x <= p * y
<1>1. PICK z \in Nat : y = x + z
  <2>1. y - x \in Nat /\ y = x + (y - x)
    OBVIOUS
  <2> QED
    BY <2>1
<1>2. p * y = p * x + p * z
  BY <1>1
<1>3. p * x \in Nat /\ p * z \in Nat
  BY <1>1
<1> QED
  BY <1>2, <1>3

LEMMA ThreadsNatNext ==
  ASSUME RateInv, [ScanNext]_scanVars
  PROVE  Threads' \in Nat
<1>1. ScanTypeOK'
  BY ScanTypeStep DEF RateInv, CheckInv
<1>2. workers' \in Int /\ endpoints' \in Nat
  BY <1>1, ScanAssumption DEF ScanTypeOK
<1> QED
  BY <1>2, ScanAssumption DEF Threads, PoolSize, PoolFor, Least, Greatest

LEMMA RateInit == ScanInit => RateInv
<1> SUFFICES ASSUME ScanInit PROVE RateInv
  OBVIOUS
<1>1. CheckInv /\ BucketInv
  BY CheckInit, BucketInit DEF ScanInit
<1>2. Threads \in Nat
  BY <1>1, ThreadsNat DEF CheckInv
<1>3. /\ \A c \in Caller : pc[c] = "idle" /\ connectedAt[c] = -1 /\ ~(c <= started)
      /\ Cardinality({}) = 0
  BY CallersFinite, FS_EmptySet DEF ScanInit, Init
<1>6. Granted = {} /\ Busy = {} /\ ConnectedBefore(0) = {}
  BY <1>3 DEF Granted, Busy, Connected, ConnectedBefore
<1>4. used = 0 /\ now = 0 /\ log[0] = 0
  BY DEF ScanInit, Init
<1>5. Tokens
  BY <1>2, <1>3, <1>4, <1>6, LimiterAssumption DEF Tokens
<1> QED
  BY <1>1, <1>5 DEF RateInv

\* A look at the bucket hands out a token exactly when its check gets one.
LEMMA GrantedStep ==
  ASSUME RateInv, [ScanNext]_scanVars
  PROVE  used' = Period * Cardinality(Granted')
<1> USE LimiterAssumption DEF RateInv, CheckInv, Tokens
<1>1. CASE UNCHANGED used /\ Granted' = Granted
  BY <1>1
<1>2. ASSUME NEW c \in Caller, StartCheck(c) PROVE UNCHANGED used /\ Granted' = Granted
  <2>1. pc[c] = "idle"
    BY <1>2, CallersFinite DEF StartCheck, InOrder, ScanTypeOK
  <2>2. pc' = [pc EXCEPT ![c] = "look"] /\ UNCHANGED used
    BY <1>2 DEF StartCheck, Call
  <2> QED
    BY <2>1, <2>2 DEF Granted, ScanTypeOK, TypeOK
<1>3. ASSUME NEW c \in Caller, Test(c) \/ Sleep(c) \/ Wake(c)
      PROVE  UNCHANGED used /\ Granted' = Granted
  BY <1>3 DEF Test, Sleep, Wake, Granted, ScanTypeOK, TypeOK
<1>4. ASSUME NEW c \in Caller, Look(c) PROVE used' = Period * Cardinality(Granted')
  <2>1. pc[c] = "look" /\ c \notin Granted
    BY <1>4 DEF Look, Granted
  <2>2. CASE used' = used + Period /\ pc' = [pc EXCEPT ![c] = "granted"]
    <3>1. Granted' = Granted \cup {c}
      BY <2>2 DEF Granted, ScanTypeOK, TypeOK
    <3>2. IsFiniteSet(Granted) /\ Cardinality(Granted) \in Nat
      BY SetsFinite DEF Granted
    <3>3. Cardinality(Granted') = Cardinality(Granted) + 1
      BY <2>1, <3>1, <3>2, FS_AddElement
    <3> QED
      BY <2>2, <3>2, <3>3
  <2>3. CASE used' = used /\ pc' = [pc EXCEPT ![c] = "test"]
    BY <1>1, <2>1, <2>3 DEF Granted, ScanTypeOK, TypeOK
  <2> QED
    BY <1>4, <2>2, <2>3 DEF Look
<1>5. CASE UNCHANGED <<used, pc>>
  BY <1>1, <1>5 DEF Granted
<1>6. ASSUME NEW c \in Caller, Connect(c) \/ Conclude(c) \/ Denied(c) \/ Raise(c)
      PROVE  UNCHANGED <<used, pc>>
  BY <1>6 DEF Connect, Conclude, Denied, Raise, vars
<1>7. Main \/ Pass \/ UNCHANGED scanVars => UNCHANGED <<used, pc>>
  BY DEF Main, Pass, Tick, Reject, OpenPool, Submit, Collect, StopCollecting, ReturnFindings,
         scanVars, vars
<1> QED
  BY <1>1, <1>2, <1>3, <1>4, <1>5, <1>6, <1>7 DEF ScanNext, Check, Wait, Acquire

\* The pool grows once, before anything is submitted.
LEMMA ThreadsStep ==
  ASSUME RateInv, [ScanNext]_scanVars
  PROVE  Threads <= Threads'
<1> USE DEF RateInv, CheckInv
<1>1. CASE UNCHANGED <<workers, endpoints>>
  BY <1>1, ThreadsNat DEF Threads, PoolSize, PoolFor
<1>2. CASE OpenPool
  <2>1. endpoints = 0
    BY <1>2 DEF OpenPool, InOrder
  <2>2. Threads = 0
    BY <2>1, ScanAssumption DEF Threads, PoolSize, PoolFor, Least, Greatest, ScanTypeOK
  <2>3. Threads' \in Nat
    BY ThreadsNatNext
  <2> QED
    BY <2>2, <2>3
<1>3. ~OpenPool => UNCHANGED <<workers, endpoints>>
  BY DEF ScanNext, Main, Pass, Check, StartCheck, Wait, Reject, Submit, Collect, StopCollecting,
         ReturnFindings, Connect, Conclude, Denied, Raise, scanVars, auditVars
<1> QED
  BY <1>1, <1>2, <1>3

LEMMA BusyStep ==
  ASSUME RateInv, [ScanNext]_scanVars
  PROVE  Cardinality(Busy') <= Threads'
<1> USE DEF RateInv, CheckInv, Tokens, auditVars, poolVars
<1>0. Threads \in Nat /\ Threads' \in Nat /\ Threads <= Threads'
  BY ThreadsNat, ThreadsStep, ThreadsNatNext
<1>1. CASE Busy' \subseteq Busy
  <2>1. Busy \subseteq Caller
    BY DEF Busy
  <2>2. /\ Cardinality(Busy') <= Cardinality(Busy)
        /\ Cardinality(Busy) \in Nat /\ Cardinality(Busy') \in Nat
    BY <1>1, <2>1, SetsFinite
  <2> QED
    BY <1>0, <2>2
<1>2. ASSUME NEW c \in Caller, StartCheck(c) PROVE Cardinality(Busy') <= Threads'
  <2>1. Busy' \subseteq Busy \cup {c}
    <3>1. started' = c /\ c = started + 1 /\ answer' = answer /\ started \in Int
      BY <1>2 DEF StartCheck, ScanTypeOK, Checks
    <3>2. \A d \in Caller : d <= c => d <= started \/ d = c
      BY <3>1, CallersFinite
    <3> QED
      BY <3>1, <3>2 DEF Busy
  <2>2. Busy \subseteq Caller /\ Busy \cup {c} \subseteq Caller
    BY DEF Busy
  <2>3. IsFiniteSet(Busy) /\ Cardinality(Busy) \in Nat /\ Cardinality(Busy \cup {c}) \in Nat
    BY <2>2, SetsFinite
  <2>4. Cardinality(Busy \cup {c}) <= Cardinality(Busy) + 1
    <3>1. Cardinality(Busy \cup {c}) \in {Cardinality(Busy), Cardinality(Busy) + 1}
      BY <2>3, FS_AddElement
    <3> QED
      BY <2>3, <3>1
  <2>5. Cardinality(Busy') <= Cardinality(Busy \cup {c}) /\ Cardinality(Busy') \in Nat
    BY <2>1, <2>2, SetsFinite
  <2>6. Cardinality(Busy) < PoolSize /\ PoolSize \in Int /\ Threads >= PoolSize
    BY <1>2, ThreadsNat DEF StartCheck, Threads, Greatest
  <2> QED
    BY <1>0, <2>3, <2>4, <2>5, <2>6
<1>3. ASSUME NEW c \in Caller, Conclude(c) \/ Denied(c) \/ Raise(c)
      PROVE  Busy' \subseteq Busy
  <2>1. \A d \in Caller : d # c => answer'[d] = answer[d]
    BY <1>3 DEF Conclude, Denied, Raise, ScanTypeOK
  <2>2. started' = started /\ c \in Busy
    BY <1>3 DEF Conclude, Denied, Raise
  <2> QED
    BY <2>1, <2>2 DEF Busy
<1>4. UNCHANGED <<started, answer>> => Busy' \subseteq Busy
  BY DEF Busy
<1>5. ASSUME NEW c \in Caller, Wait(c) \/ Connect(c) PROVE UNCHANGED <<started, answer>>
  BY <1>5 DEF Wait, Connect
<1>6. Main \/ Pass \/ UNCHANGED scanVars => UNCHANGED <<started, answer>>
  BY DEF Main, Pass, Reject, OpenPool, Submit, Collect, StopCollecting, ReturnFindings, scanVars
<1> QED
  BY <1>1, <1>2, <1>3, <1>4, <1>5, <1>6 DEF ScanNext, Check

\* At any moment the tokens without a connection are those of busy threads.
LEMMA TokensNow ==
  ASSUME RateInv
  PROVE  used <= Period * (Cardinality(Connected) + Threads)
<1> USE DEF RateInv, CheckInv, Tokens
<1>1. Granted \subseteq Connected \cup Busy
  <2> SUFFICES ASSUME NEW c \in Caller, pc[c] = "granted", connectedAt[c] = -1
               PROVE  c \in Busy
    BY DEF Granted, Connected
  <2>1. answer[c] = "none"
    BY DEF Courses, Course
  <2>2. c <= started
    BY CallersFinite DEF InOrder, ScanTypeOK, Checks
  <2> QED
    BY <2>1, <2>2 DEF Busy
<1>2. /\ Connected \subseteq Caller /\ Busy \subseteq Caller /\ Granted \subseteq Caller
      /\ Connected \cup Busy \subseteq Caller /\ Connected \cap Busy \subseteq Caller
  BY DEF Connected, Busy, Granted
<1>3. Cardinality(Granted) <= Cardinality(Connected \cup Busy)
  BY <1>1, <1>2, SetsFinite
<1>4. IsFiniteSet(Connected) /\ IsFiniteSet(Busy)
  BY <1>2, SetsFinite
<1>5. Cardinality(Connected \cup Busy)
         = Cardinality(Connected) + Cardinality(Busy) - Cardinality(Connected \cap Busy)
  BY <1>4, FS_Union
<1>6. /\ Cardinality(Granted) \in Nat /\ Cardinality(Connected) \in Nat
      /\ Cardinality(Busy) \in Nat /\ Cardinality(Connected \cap Busy) \in Nat
  BY <1>2, SetsFinite
<1>7. Threads \in Nat
  BY ThreadsNat
<1>8. Cardinality(Granted) <= Cardinality(Connected) + Threads
  BY <1>3, <1>5, <1>6, <1>7
<1> QED
  BY <1>6, <1>7, <1>8, LimiterAssumption

\* The connections before s, once s is past, stay what they are.
LEMMA HistoryStep ==
  ASSUME RateInv, [ScanNext]_scanVars
  PROVE  (\A s \in 0 .. now : log[s] <= Period * (Cardinality(ConnectedBefore(s)) + Threads))'
<1> USE DEF RateInv, CheckInv
<1>0. /\ Threads \in Nat /\ Threads' \in Nat /\ Threads <= Threads'
      /\ Period \in Nat /\ now \in Nat
  BY ThreadsNat, ThreadsStep, ThreadsNatNext, LimiterAssumption DEF ScanTypeOK, TypeOK
<1>1. \A S : S \subseteq Caller => Cardinality(S) \in Nat
  BY SetsFinite
<1>2. ASSUME now' = now, log' = log,
             \A s \in 0 .. now : ConnectedBefore(s) \subseteq ConnectedBefore(s)'
      PROVE  \A s \in 0 .. now' :
                log'[s] <= Period * (Cardinality(ConnectedBefore(s)') + Threads')
  <2> SUFFICES ASSUME NEW s \in 0 .. now
               PROVE  log[s] <= Period * (Cardinality(ConnectedBefore(s)') + Threads')
    BY <1>2
  <2> DEFINE m == Cardinality(ConnectedBefore(s))
             n == Cardinality(ConnectedBefore(s)')
  <2>1. ConnectedBefore(s) \subseteq Caller /\ ConnectedBefore(s)' \subseteq Caller
    BY DEF ConnectedBefore, Connected
  <2>2. m \in Nat /\ n \in Nat /\ m <= n
    BY <1>2, <2>1, SetsFinite
  <2>3. log[s] <= Period * (m + Threads) /\ log[s] \in Nat
    BY DEF Tokens, ScanTypeOK, TypeOK
  <2>4. Period * (m + Threads) <= Period * (n + Threads')
    <3>1. m + Threads \in Nat /\ n + Threads' \in Nat /\ m + Threads <= n + Threads'
      BY <1>0, <2>2
    <3> HIDE DEF m, n
    <3> QED
      BY <1>0, <3>1, TimesMonotone
  <2>5. Period * (m + Threads) \in Nat /\ Period * (n + Threads') \in Nat
    BY <1>0, <2>2
  <2> QED
    BY <2>3, <2>4, <2>5
<1>3. ASSUME NEW c \in Caller, Connect(c)
      PROVE  \A s \in 0 .. now : ConnectedBefore(s) \subseteq ConnectedBefore(s)'
  BY <1>3 DEF Connect, ConnectedBefore, Connected, ScanTypeOK
<1>4. UNCHANGED connectedAt
         => \A s \in 0 .. now : ConnectedBefore(s) \subseteq ConnectedBefore(s)'
  BY DEF ConnectedBefore, Connected
<1>5. ~Pass => now' = now /\ log' = log
  BY OtherSteps DEF ScanNext, Main, Check, Reject, OpenPool, Submit, Collect, StopCollecting,
     ReturnFindings, StartCheck, Wait, Acquire, Look, Connect, Conclude, Denied, Raise,
     scanVars, vars
<1>6. ~Pass => UNCHANGED connectedAt \/ \E c \in Caller : Connect(c)
  BY DEF ScanNext, Main, Check, Reject, OpenPool, Submit, Collect, StopCollecting,
     ReturnFindings, StartCheck, Wait, Conclude, Denied, Raise, scanVars
<1>7. CASE Pass
  <2>1. /\ now' = now + 1 /\ connectedAt' = connectedAt /\ Threads' = Threads
        /\ \A s \in 0 .. now : log'[s] = log[s]
        /\ log'[now + 1] = used
    BY <1>7, <1>0 DEF Pass, Tick, auditVars, Threads, PoolSize, PoolFor
  <2>2. ASSUME NEW s \in 0 .. now
        PROVE  log'[s] <= Period * (Cardinality(ConnectedBefore(s)') + Threads')
    <3>1. ConnectedBefore(s)' = ConnectedBefore(s)
      BY <2>1 DEF ConnectedBefore, Connected
    <3> QED
      BY <2>1, <3>1 DEF Tokens
  <2>3. ASSUME NEW s \in 0 .. now + 1, s = now + 1
        PROVE  log'[s] <= Period * (Cardinality(ConnectedBefore(s)') + Threads')
    <3>1. ConnectedBefore(s)' = Connected
      BY <1>0, <2>1, <2>3 DEF ConnectedBefore, Connected, ScanTypeOK
    <3> QED
      BY <2>1, <2>3, <3>1, TokensNow
  <2>4. \A s \in 0 .. now + 1 : s \in 0 .. now \/ s = now + 1
    BY <1>0
  <2>5. \A s \in 0 .. now' :
           log'[s] <= Period * (Cardinality(ConnectedBefore(s)') + Threads')
    BY <2>1, <2>2, <2>3, <2>4
  <2> QED
    BY <2>5
<1>8. CASE ~Pass
  BY <1>2, <1>3, <1>4, <1>5, <1>6, <1>8
<1> QED
  BY <1>7, <1>8

LEMMA RateInvStep == RateInv /\ [ScanNext]_scanVars => RateInv'
<1> SUFFICES ASSUME RateInv, [ScanNext]_scanVars PROVE RateInv'
  OBVIOUS
<1>1. CheckInv'
  BY CheckInvStep DEF RateInv
<1>2. BucketInv'
  BY BucketStep, ScanStepIsLimiterStep DEF RateInv
<1>3. Tokens'
  BY GrantedStep, BusyStep, HistoryStep DEF Tokens
<1> QED
  BY <1>1, <1>2, <1>3 DEF RateInv

\* The connections since s are all of them but those before s; the tokens since
\* s are all of them but log[s].
LEMMA RateInvBound == RateInv => ConnectionBound
<1> SUFFICES ASSUME RateInv, NEW s \in 0 .. now
             PROVE  Period * Cardinality({c \in Caller : connectedAt[c] >= s})
                        <= Capacity + (now - s) + Period * Greatest(0, PoolSize)
  BY DEF ConnectionBound
<1> USE DEF RateInv, CheckInv
<1> DEFINE Since == {c \in Caller : connectedAt[c] >= s}
           g == Cardinality(Granted)
           n == Cardinality(Connected)
           b == Cardinality(ConnectedBefore(s))
           d == Cardinality(Since)
<1>1. /\ Since = Connected \ ConnectedBefore(s)
      /\ ConnectedBefore(s) \subseteq Connected
      /\ Connected \subseteq Granted /\ Granted \subseteq Caller
      /\ Since \subseteq Caller /\ Connected \subseteq Caller
      /\ ConnectedBefore(s) \subseteq Caller
  <2>1. connectedAt \in [Caller -> Int] /\ s \in Nat
    BY DEF ScanTypeOK, TypeOK
  <2>2. \A c \in Caller : connectedAt[c] # -1 => pc[c] = "granted"
    BY DEF Courses, Course
  <2>3. \A c \in Caller : connectedAt[c] >= -1
    BY DEF ScanTypeOK, TypeOK
  <2> QED
    BY <2>1, <2>2, <2>3 DEF ConnectedBefore, Connected, Granted
<1>2. g \in Nat /\ n \in Nat /\ b \in Nat /\ d \in Nat /\ n <= g
  BY <1>1, SetsFinite
<1>3. n = b + d
  <2>1. Connected = ConnectedBefore(s) \cup Since /\ ConnectedBefore(s) \cap Since = {}
    BY <1>1
  <2>2. IsFiniteSet(ConnectedBefore(s)) /\ IsFiniteSet(Since)
    BY <1>1, SetsFinite
  <2>3. n = b + d - Cardinality(ConnectedBefore(s) \cap Since)
    BY <2>1, <2>2, FS_Union
  <2> QED
    <3>1. Cardinality(ConnectedBefore(s) \cap Since) = 0
      BY <2>1, FS_EmptySet
    <3> HIDE DEF n, b, d
    <3> QED
      BY <1>2, <2>3, <3>1
<1>4. used = Period * g /\ log[s] <= Period * (b + Threads)
  BY DEF Tokens
<1>5. used - log[s] <= Capacity + (now - s)
  BY BucketWindow DEF WindowBound
<1>6. /\ Threads \in Nat /\ Period \in Nat /\ Capacity \in Nat
      /\ now \in Nat /\ used \in Nat /\ log[s] \in Nat /\ s \in Nat
  BY ThreadsNat, LimiterAssumption, CapacityNat DEF ScanTypeOK, TypeOK
<1>7. Period * d <= Period * g - Period * b
  <2> HIDE DEF g, n, b, d
  <2>1. d <= g - b
    BY <1>2, <1>3
  <2>2. Period * d <= Period * (g - b)
    BY <1>2, <1>6, <2>1
  <2> QED
    BY <1>2, <1>6, <2>2
<1>8. Period * g - Period * b <= Capacity + (now - s) + Period * Threads
  <2> HIDE DEF g, n, b, d
  <2>1. Period * (b + Threads) = Period * b + Period * Threads
    BY <1>2, <1>6
  <2>2. Period * b \in Int /\ Period * g \in Int /\ Period * Threads \in Int
    BY <1>2, <1>6
  <2> QED
    BY <1>4, <1>5, <1>6, <2>1, <2>2
<1>9. /\ Period * d \in Int /\ Period * g - Period * b \in Int
      /\ Capacity + (now - s) + Period * Threads \in Int
  <2> HIDE DEF g, n, b, d
  <2> QED
    BY <1>2, <1>6
<1>10. Period * d <= Capacity + (now - s) + Period * Threads
  BY <1>7, <1>8, <1>9
<1> QED
  BY <1>10 DEF Threads

\* In every window of time the scan opens at most the connections that the
\* burst and the window pay for, and one more for every thread of its pool.
THEOREM ConnectionsAreBounded == ScanSpec => []ConnectionBound
<1>1. ScanInit => RateInv
  BY RateInit
<1>2. RateInv /\ [ScanNext]_scanVars => RateInv'
  BY RateInvStep
<1>3. RateInv => ConnectionBound
  BY RateInvBound
<1> QED
  BY <1>1, <1>2, <1>3, PTL DEF ScanSpec

=============================================================================
