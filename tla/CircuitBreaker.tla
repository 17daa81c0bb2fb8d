--------------------------- MODULE CircuitBreaker ---------------------------
(***************************************************************************)
(* The class CircuitBreaker of resilience/circuit_breaker.py: its fields   *)
(* as a record, its methods as operators from the record before a call to  *)
(* the record after it.  Every method body runs without an await, so under *)
(* asyncio each is one atomic step; the interleavings are those of the     *)
(* modules that call it (BreakerCallers, StepExecutor, ResyncManager).     *)
(*                                                                         *)
(* The code only ever reads the clock as time_fn() - last_failure_time, to *)
(* compare it with recovery_timeout.  That difference is the field         *)
(* "elapsed", saturated at RecoveryTimeout: values past it are not told    *)
(* apart.  The failure rate is compared exactly, as a product of integers; *)
(* the code's float division differs only where the rate equals the        *)
(* threshold (29 of 50 against 58.0).                                      *)
(***************************************************************************)
EXTENDS Integers

CONSTANTS
  FailureThreshold,   \* failure percentage that trips the circuit
  RecoveryTimeout,    \* clock ticks before OPEN may become HALF_OPEN
  MinRequests,        \* observations before the rate is evaluated
  HalfOpenMaxCalls    \* cap of the HALF_OPEN window

\* ResyncSettings admits a threshold of 0 and 0 minimum requests.
ASSUME BreakerAssumption ==
  /\ FailureThreshold \in 0..100
  /\ RecoveryTimeout \in Nat
  /\ MinRequests \in Nat
  /\ HalfOpenMaxCalls \in Nat \ {0}

CircuitState == {"closed", "open", "half_open"}

Breaker == [state: CircuitState,
            failure_count: Nat,
            success_count: Nat,
            total_requests: Nat,
            half_open_calls: Nat,
            elapsed: {t \in Int : t <= RecoveryTimeout}]

NewBreaker == [state |-> "closed",
               failure_count |-> 0,
               success_count |-> 0,
               total_requests |-> 0,
               half_open_calls |-> 0,
               elapsed |-> RecoveryTimeout]

-----------------------------------------------------------------------------
(* record_success *)

\* Mutant: a success closes the circuit whatever state it finds.
RecordSuccess_AnyState(b) ==
  LET counted == [b EXCEPT !.total_requests = @ + 1, !.success_count = @ + 1]
  IN  IF counted.success_count >= HalfOpenMaxCalls
        THEN [counted EXCEPT !.state = "closed", !.failure_count = 0,
                             !.success_count = 0, !.half_open_calls = 0]
        ELSE counted

\* Mutant: closing needs one success more than the cap.
RecordSuccess_OffByOne(b) ==
  LET counted == [b EXCEPT !.total_requests = @ + 1, !.success_count = @ + 1]
  IN  IF b.state # "half_open" THEN counted
      ELSE IF counted.success_count > HalfOpenMaxCalls
        THEN [counted EXCEPT !.state = "closed", !.failure_count = 0,
                             !.success_count = 0, !.half_open_calls = 0]
        ELSE [counted EXCEPT !.half_open_calls = @ + 1]

\* Mutant: closing restarts the observation count but keeps the failures.
RecordSuccess_KeepsFailures(b) ==
  LET counted == [b EXCEPT !.total_requests = @ + 1, !.success_count = @ + 1]
  IN  IF b.state # "half_open" THEN counted
      ELSE IF counted.success_count >= HalfOpenMaxCalls
        THEN [counted EXCEPT !.state = "closed", !.total_requests = 0,
                             !.success_count = 0, !.half_open_calls = 0]
        ELSE [counted EXCEPT !.half_open_calls = @ + 1]

\* half_open_calls counts completed successes of the window; the test that
\* closes the circuit reads success_count, which no transition into OPEN or
\* HALF_OPEN resets.
RecordSuccess(b) ==
  LET counted == [b EXCEPT !.total_requests = @ + 1, !.success_count = @ + 1]
  IN  IF b.state # "half_open" THEN counted
      ELSE IF counted.success_count >= HalfOpenMaxCalls
        THEN [counted EXCEPT !.state = "closed", !.failure_count = 0,
                             !.success_count = 0, !.half_open_calls = 0]
        ELSE [counted EXCEPT !.half_open_calls = @ + 1]

-----------------------------------------------------------------------------
(* _should_trip, record_failure *)

ShouldTrip(b) ==
  /\ b.total_requests >= MinRequests
  /\ b.total_requests # 0
  /\ b.failure_count * 100 >= FailureThreshold * b.total_requests

\* Mutant: the failure that re-opens the circuit takes its probe back out of
\* the window.
RecordFailure_LeavesWindow(b) ==
  LET counted == [b EXCEPT !.total_requests = @ + 1, !.failure_count = @ + 1,
                           !.elapsed = 0]
  IN  IF b.state = "half_open"
        THEN [counted EXCEPT !.state = "open", !.half_open_calls = @ - 1]
      ELSE IF ShouldTrip(counted) THEN [counted EXCEPT !.state = "open"]
      ELSE counted

RecordFailure(b) ==
  LET counted == [b EXCEPT !.total_requests = @ + 1, !.failure_count = @ + 1,
                           !.elapsed = 0]
  IN  IF b.state = "half_open" \/ ShouldTrip(counted)
        THEN [counted EXCEPT !.state = "open"]
        ELSE counted

-----------------------------------------------------------------------------
(* allow_request: whether it returns True, and the fields it leaves *)

Admits(b) ==
  \/ b.state = "closed"
  \/ b.state = "open" /\ b.elapsed >= RecoveryTimeout
  \/ b.state = "half_open" /\ b.half_open_calls < HalfOpenMaxCalls

\* Mutant: the window counts calls as it admits them, so a cancelled probe
\* keeps its place for ever.
AllowRequest_CountsAdmissions(b) ==
  IF b.state = "open" /\ b.elapsed >= RecoveryTimeout
    THEN [b EXCEPT !.state = "half_open", !.half_open_calls = 1]
  ELSE IF b.state = "half_open" /\ b.half_open_calls < HalfOpenMaxCalls
    THEN [b EXCEPT !.half_open_calls = @ + 1]
  ELSE b

\* Mutant: a new window starts the successes over but keeps the calls of the
\* last one.
AllowRequest_KeepsWindow(b) ==
  IF b.state = "open" /\ b.elapsed >= RecoveryTimeout
    THEN [b EXCEPT !.state = "half_open", !.success_count = 0]
    ELSE b

AllowRequest(b) ==
  IF b.state = "open" /\ b.elapsed >= RecoveryTimeout
    THEN [b EXCEPT !.state = "half_open", !.half_open_calls = 0]
    ELSE b

-----------------------------------------------------------------------------
(* The clock.  time_fn defaults to time.time, a wall clock that an         *)
(* adjustment can set back.                                                *)

ClockTicks(b) ==
  [b EXCEPT !.elapsed = IF @ < RecoveryTimeout THEN @ + 1 ELSE @]

ClockSetBack(b, ticks) == [b EXCEPT !.elapsed = @ - ticks]
=============================================================================
