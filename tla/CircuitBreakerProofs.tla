------------------------ MODULE CircuitBreakerProofs ------------------------
(***************************************************************************)
(* Facts about the methods of CircuitBreaker, for every threshold, timeout *)
(* and window size.  The modules that call the breaker cite them.          *)
(***************************************************************************)
EXTENDS CircuitBreaker, TLAPS

\* A window in progress: it has room, and it has not counted more successes
\* than the breaker has.  The second part is what makes the first inductive,
\* because record_success compares success_count, not half_open_calls.
WindowSound(b) ==
  b.state = "half_open" =>
    /\ b.half_open_calls < HalfOpenMaxCalls
    /\ b.half_open_calls <= b.success_count

CountsSound(b) ==
  /\ b.failure_count + b.success_count <= b.total_requests
  /\ b.state # "closed" => b.failure_count > 0

Sound(b) == b \in Breaker /\ WindowSound(b) /\ CountsSound(b)

\* The constructor leaves a sound breaker.
LEMMA NewBreakerSound == Sound(NewBreaker)
  BY BreakerAssumption
  DEF Sound, WindowSound, CountsSound, Breaker, NewBreaker, CircuitState

\* record_success keeps a breaker sound: it closes the circuit no later than
\* the window fills up.
LEMMA RecordSuccessSound ==
  ASSUME NEW b, Sound(b) PROVE Sound(RecordSuccess(b))
<1> DEFINE counted == [b EXCEPT !.total_requests = @ + 1, !.success_count = @ + 1]
<1>1. b \in Breaker /\ WindowSound(b) /\ CountsSound(b)
  BY DEF Sound
<1>2. /\ b.total_requests + 1 \in Nat
      /\ b.success_count + 1 \in Nat
      /\ b.half_open_calls + 1 \in Nat
  BY <1>1 DEF Breaker
<1>3. counted \in Breaker
  BY <1>1, <1>2 DEF Breaker
<1>4. CASE b.state # "half_open"
  BY <1>1, <1>3, <1>4 DEF RecordSuccess, Sound, WindowSound, CountsSound, Breaker
<1>5. CASE b.state = "half_open" /\ counted.success_count >= HalfOpenMaxCalls
  <2> DEFINE closed == [counted EXCEPT !.state = "closed", !.failure_count = 0,
                                       !.success_count = 0, !.half_open_calls = 0]
  <2>1. RecordSuccess(b) = closed
    BY <1>1, <1>5 DEF RecordSuccess
  <2>2. closed \in Breaker
    BY <1>3 DEF Breaker, CircuitState
  <2>3. WindowSound(closed) /\ CountsSound(closed)
    BY <1>1, <1>2, <1>3 DEF WindowSound, CountsSound, Breaker
  <2> QED BY <2>1, <2>2, <2>3 DEF Sound
<1>6. CASE b.state = "half_open" /\ ~(counted.success_count >= HalfOpenMaxCalls)
  <2> DEFINE open == [counted EXCEPT !.half_open_calls = @ + 1]
  <2>1. RecordSuccess(b) = open
    BY <1>1, <1>6 DEF RecordSuccess
  <2>2. open \in Breaker
    BY <1>1, <1>2, <1>3 DEF Breaker
  <2>3. WindowSound(open)
    BY <1>1, <1>2, <1>6, BreakerAssumption DEF WindowSound, Breaker
  <2>4. CountsSound(open)
    BY <1>1, <1>2 DEF CountsSound, Breaker
  <2> QED BY <2>1, <2>2, <2>3, <2>4 DEF Sound
<1> QED BY <1>4, <1>5, <1>6

\* record_failure keeps a breaker sound.
LEMMA RecordFailureSound ==
  ASSUME NEW b, Sound(b) PROVE Sound(RecordFailure(b))
<1> DEFINE counted == [b EXCEPT !.total_requests = @ + 1, !.failure_count = @ + 1,
                                !.elapsed = 0]
<1>1. b \in Breaker /\ WindowSound(b) /\ CountsSound(b)
  BY DEF Sound
<1>2. /\ b.total_requests + 1 \in Nat
      /\ b.failure_count + 1 \in Nat
      /\ 0 \in Int /\ 0 <= RecoveryTimeout
  BY <1>1, BreakerAssumption DEF Breaker
<1>3. counted \in Breaker
  BY <1>1, <1>2 DEF Breaker
<1>4. counted.failure_count > 0 /\ CountsSound(counted)
  BY <1>1, <1>2 DEF CountsSound, Breaker
<1>5. CASE b.state = "half_open" \/ ShouldTrip(counted)
  <2> DEFINE tripped == [counted EXCEPT !.state = "open"]
  <2>1. RecordFailure(b) = tripped
    BY <1>5 DEF RecordFailure
  <2>2. tripped \in Breaker
    BY <1>3 DEF Breaker, CircuitState
  <2>3. WindowSound(tripped) /\ CountsSound(tripped)
    BY <1>3, <1>4 DEF WindowSound, CountsSound, Breaker
  <2> QED BY <2>1, <2>2, <2>3 DEF Sound
<1>6. CASE ~(b.state = "half_open" \/ ShouldTrip(counted))
  <2>1. RecordFailure(b) = counted
    BY <1>6 DEF RecordFailure
  <2>2. WindowSound(counted)
    BY <1>1, <1>6 DEF WindowSound, Breaker
  <2> QED BY <1>3, <1>4, <2>1, <2>2 DEF Sound
<1> QED BY <1>5, <1>6

\* allow_request keeps a breaker sound: a new window starts empty.
LEMMA AllowRequestSound ==
  ASSUME NEW b, Sound(b) PROVE Sound(AllowRequest(b))
<1> DEFINE window == [b EXCEPT !.state = "half_open", !.half_open_calls = 0]
<1>1. b \in Breaker /\ WindowSound(b) /\ CountsSound(b)
  BY DEF Sound
<1>2. CASE b.state = "open" /\ b.elapsed >= RecoveryTimeout
  <2>1. AllowRequest(b) = window
    BY <1>2 DEF AllowRequest
  <2>2. window \in Breaker
    BY <1>1 DEF Breaker, CircuitState
  <2>3. WindowSound(window) /\ CountsSound(window)
    BY <1>1, <1>2, BreakerAssumption DEF WindowSound, CountsSound, Breaker
  <2> QED BY <2>1, <2>2, <2>3 DEF Sound
<1>3. CASE ~(b.state = "open" /\ b.elapsed >= RecoveryTimeout)
  BY <1>3 DEF AllowRequest
<1> QED BY <1>2, <1>3

\* What a recorded outcome may do to the state: a success only ever closes a
\* half-open circuit, a failure only ever opens one and starts the recovery
\* timeout over.
LEMMA RecordSuccessGate ==
  ASSUME NEW b \in Breaker
  PROVE  /\ RecordSuccess(b).elapsed = b.elapsed
         /\ \/ RecordSuccess(b).state = b.state
            \/ b.state = "half_open" /\ RecordSuccess(b).state = "closed"
<1>1. CASE b.state # "half_open"
  BY <1>1 DEF RecordSuccess, Breaker
<1>2. CASE b.state = "half_open" /\ b.success_count + 1 >= HalfOpenMaxCalls
  BY <1>2 DEF RecordSuccess, Breaker
<1>3. CASE b.state = "half_open" /\ ~(b.success_count + 1 >= HalfOpenMaxCalls)
  BY <1>3 DEF RecordSuccess, Breaker
<1> QED BY <1>1, <1>2, <1>3

LEMMA RecordFailureGate ==
  ASSUME NEW b \in Breaker
  PROVE  /\ RecordFailure(b).elapsed = 0
         /\ \/ RecordFailure(b).state = "open"
            \/ RecordFailure(b).state = b.state /\ b.state # "half_open"
<1> DEFINE counted == [b EXCEPT !.total_requests = @ + 1, !.failure_count = @ + 1,
                                !.elapsed = 0]
<1>1. counted.elapsed = 0 /\ counted.state = b.state
  BY DEF Breaker
<1>2. CASE b.state = "half_open" \/ ShouldTrip(counted)
  <2>1. RecordFailure(b) = [counted EXCEPT !.state = "open"]
    BY <1>2 DEF RecordFailure
  <2> QED BY <1>1, <2>1 DEF Breaker
<1>3. CASE ~(b.state = "half_open" \/ ShouldTrip(counted))
  <2>1. RecordFailure(b) = counted
    BY <1>3 DEF RecordFailure
  <2> QED BY <1>1, <1>3, <2>1
<1> QED BY <1>2, <1>3

\* Neither the passing of time nor an adjustment of the clock disturbs it.
LEMMA ClockSound ==
  ASSUME NEW b, Sound(b), NEW ticks \in Nat
  PROVE  Sound(ClockTicks(b)) /\ Sound(ClockSetBack(b, ticks))
<1>1. Sound(ClockTicks(b))
  BY BreakerAssumption
  DEF ClockTicks, Sound, WindowSound, CountsSound, Breaker
<1>2. Sound(ClockSetBack(b, ticks))
  BY BreakerAssumption
  DEF ClockSetBack, Sound, WindowSound, CountsSound, Breaker
<1> QED BY <1>1, <1>2

\* A sound breaker that is not open admits: the only circuit that rejects is
\* an open one whose timeout is still running.
LEMMA RejectsOnlyWhenOpen ==
  ASSUME NEW b, Sound(b), ~Admits(b)
  PROVE  b.state = "open" /\ ~(b.elapsed >= RecoveryTimeout)
  BY DEF Admits, Sound, WindowSound, Breaker, CircuitState
=============================================================================
