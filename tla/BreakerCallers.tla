--------------------------- MODULE BreakerCallers ---------------------------
(***************************************************************************)
(* Concurrent callers of CircuitBreaker.execute sharing one breaker.       *)
(*                                                                         *)
(* execute() is allow_request(), then an await of the work, then one       *)
(* record_*(): the await is where other callers, the clock and             *)
(* cancellation run, so a call is two steps, Admit (or Reject) and one of  *)
(* Succeed, Fail, Cancel.  "except Exception" does not catch               *)
(* CancelledError: a cancelled call records nothing.                       *)
(***************************************************************************)
EXTENDS CircuitBreaker, FiniteSets

CONSTANTS
  Callers,      \* tasks that call execute()
  MaxRequests,  \* bound: calls started before the backend heals
  ClockSkew,    \* largest backward adjustment of the clock, in ticks
  MaxSkews      \* bound: number of backward adjustments

ASSUME CallersAssumption ==
  /\ IsFiniteSet(Callers)
  /\ MaxRequests \in Nat
  /\ ClockSkew \in Nat
  /\ MaxSkews \in Nat

VARIABLES
  breaker,  \* the CircuitBreaker's fields
  calls,    \* what each caller's latest call has come to
  healthy,  \* has the protected work stopped failing for good?
  skews     \* backward clock adjustments so far

vars == <<breaker, calls, healthy, skews>>

\* A call in flight is "running", or "probing" when the circuit was not
\* closed at its admission.
InFlightPhase == {"running", "probing"}
Phase == InFlightPhase \union {"idle", "ok", "failed", "cancelled", "rejected"}

InFlight == {c \in Callers : calls[c] \in InFlightPhase}

TypeOK ==
  /\ breaker \in Breaker
  /\ calls \in [Callers -> Phase]
  /\ healthy \in BOOLEAN
  /\ skews \in 0..MaxSkews

Init ==
  /\ breaker = NewBreaker
  /\ calls = [c \in Callers |-> "idle"]
  /\ healthy = FALSE
  /\ skews = 0

\* The bound: before the backend heals, MaxRequests calls; after it, calls
\* keep coming until the circuit has closed and nothing more can change.
MayCall(c) ==
  /\ calls[c] \notin InFlightPhase
  /\ IF healthy THEN breaker.state # "closed"
     ELSE breaker.total_requests + Cardinality(InFlight) < MaxRequests

\* execute() up to its await.
Admit(c) ==
  /\ MayCall(c)
  /\ Admits(breaker)
  /\ breaker' = AllowRequest(breaker)
  /\ calls' = [calls EXCEPT ![c] = IF breaker.state = "closed"
                                     THEN "running" ELSE "probing"]
  /\ UNCHANGED <<healthy, skews>>

\* execute() raising CircuitBreakerOpenError.
Reject(c) ==
  /\ MayCall(c)
  /\ ~Admits(breaker)
  /\ breaker' = AllowRequest(breaker)
  /\ calls' = [calls EXCEPT ![c] = "rejected"]
  /\ UNCHANGED <<healthy, skews>>

Succeed(c) ==
  /\ c \in InFlight
  /\ breaker' = RecordSuccess(breaker)
  /\ calls' = [calls EXCEPT ![c] = "ok"]
  /\ UNCHANGED <<healthy, skews>>

Fail(c) ==
  /\ c \in InFlight
  /\ ~healthy
  /\ breaker' = RecordFailure(breaker)
  /\ calls' = [calls EXCEPT ![c] = "failed"]
  /\ UNCHANGED <<healthy, skews>>

\* The caller's task is cancelled while it awaits the work.
Cancel(c) ==
  /\ c \in InFlight
  /\ calls' = [calls EXCEPT ![c] = "cancelled"]
  /\ UNCHANGED <<breaker, healthy, skews>>

Tick ==
  /\ breaker' = ClockTicks(breaker)
  /\ UNCHANGED <<calls, healthy, skews>>

SetClockBack ==
  /\ skews < MaxSkews
  /\ \E ticks \in 1..ClockSkew : breaker' = ClockSetBack(breaker, ticks)
  /\ skews' = skews + 1
  /\ UNCHANGED <<calls, healthy>>

\* The environment: the protected work stops failing.
Heal ==
  /\ ~healthy
  /\ healthy' = TRUE
  /\ UNCHANGED <<breaker, calls, skews>>

Next ==
  \/ \E c \in Callers :
       Admit(c) \/ Reject(c) \/ Succeed(c) \/ Fail(c) \/ Cancel(c)
  \/ Tick
  \/ SetClockBack
  \/ Heal

\* The only fairness the breaker itself needs: its clock advances.
Spec == Init /\ [][Next]_vars /\ WF_vars(Tick)

-----------------------------------------------------------------------------
(* Safety *)

\* A HALF_OPEN circuit always has room for another probe.  allow_request has
\* no way out of a full window (only a recorded outcome leaves HALF_OPEN), so
\* a window that filled up without closing would reject for ever.
HalfOpenHasRoom ==
  breaker.state = "half_open" => breaker.half_open_calls < HalfOpenMaxCalls

\* The outcomes since the circuit last closed never outnumber the requests
\* observed, so the failure rate (_should_trip, get_state_metrics) stays a
\* percentage; and a circuit that is not closed has a failure to show for it.
OutcomesAccountedFor ==
  /\ breaker.failure_count + breaker.success_count <= breaker.total_requests
  /\ breaker.state # "closed" => breaker.failure_count > 0

\* The breaker keeps the promise of BreakerPromise: no call starts while the
\* circuit is open and its timeout has not elapsed; whatever comes back while
\* it is open leaves it open, and an outcome recorded late can only restart
\* the timeout; a half-open circuit is re-opened by every failure and closed
\* by successes alone.  Whose successes those are it does not promise:
\* record_success does not know its caller, and in a half-open circuit it counts
\* that of a call admitted before the opening like that of a probe.
Promise == INSTANCE BreakerPromise WITH
  NoRest <- RecoveryTimeout = 0,
  gate <- breaker.state,
  rested <- breaker.elapsed >= RecoveryTimeout,
  running <- InFlight

KeepsPromise == Promise!Spec

-----------------------------------------------------------------------------
(* Liveness *)

\* The breaker never ends up rejecting for ever: again and again it would
\* admit a call, whatever calls failed late or were cancelled, with no
\* assumption but the passing of time.
NeverWedged == []<>Admits(breaker)

\* Once the protected work has stopped failing, and if calls keep coming (WF
\* on Admit) and are not all cancelled (SF on Succeed), the circuit closes
\* and stays closed.
CallsKeepComing ==
  \A c \in Callers : WF_vars(Admit(c)) /\ SF_vars(Succeed(c))

RecoversWhenHealthy ==
  CallsKeepComing => (healthy ~> [](breaker.state = "closed"))

-----------------------------------------------------------------------------
(* What the documentation says and the code does not do. *)

\* "In HALF_OPEN, successive successes close the circuit once
\* half_open_max_calls is reached": closing takes that many successes in the
\* half-open window, the one being recorded included.
ClosesOnCapOfProbes ==
  [][breaker.state = "half_open" /\ breaker'.state = "closed"
       => breaker.half_open_calls + 1 >= HalfOpenMaxCalls]_vars

\* "HALF_OPEN admits up to half_open_max_calls probe requests".
ProbesBounded ==
  Cardinality({c \in Callers : calls[c] = "probing"}) <= HalfOpenMaxCalls
=============================================================================
