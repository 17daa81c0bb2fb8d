---------------------------- MODULE RuntimeProofs ----------------------------
(***************************************************************************)
(* The safety of three components of the running server: the breaker and   *)
(* its callers, hot reload, and the lifespan of the adapter's components.  *)
(* They share no variable, and each has its specification, its inductive   *)
(* invariant and its theorems.                                             *)
(*                                                                         *)
(*   BreakerCallers  for any callers, thresholds and bounds: the types,    *)
(*                   the two invariants of the runs, and the refinement of *)
(*                   BreakerPromise.                                       *)
(*   HotReload       for any number of edits, loops and direct calls: the  *)
(*                   types and the three invariants of the run.            *)
(*   Lifespan        for any components, of any kinds, in any order: the   *)
(*                   types, the order of the teardown, that it reaches     *)
(*                   whatever was started, and that its error surfaces.    *)
(***************************************************************************)
EXTENDS BreakerCallers, HotReload, Lifespan, CircuitBreakerProofs, FoldLemmas

-----------------------------------------------------------------------------
(* BreakerCallers: the inductive invariant *)

\* The inductive invariant: the runs' HalfOpenHasRoom needs the comparison
\* of half_open_calls with success_count that Sound adds to it.
CallersInv == TypeOK /\ Sound(breaker)

LEMMA InitCallersInv == Init => CallersInv
<1> SUFFICES ASSUME Init PROVE CallersInv
  OBVIOUS
<1>1. Sound(breaker)
  BY NewBreakerSound DEF Init
<1>2. calls \in [Callers -> Phase]
  BY DEF Init, Phase
<1>3. skews \in 0..MaxSkews
  BY CallersAssumption DEF Init
<1> QED BY <1>1, <1>2, <1>3 DEF Init, CallersInv, TypeOK, Sound

\* Every action leaves the breaker to one of its methods, and changes at most
\* one caller's phase.
LEMMA NextCallersInv == CallersInv /\ [Next]_vars => CallersInv'
<1> SUFFICES ASSUME CallersInv, [Next]_vars PROVE CallersInv'
  OBVIOUS
<1> USE DEF CallersInv
<1>1. ASSUME NEW c \in Callers, Admit(c) PROVE CallersInv'
  <2>1. Sound(breaker')
    BY <1>1, AllowRequestSound DEF Admit
  <2>2. calls' \in [Callers -> Phase]
    BY <1>1 DEF Admit, TypeOK, Phase, InFlightPhase
  <2> QED BY <1>1, <2>1, <2>2 DEF Admit, TypeOK, Sound
<1>2. ASSUME NEW c \in Callers, Reject(c) PROVE CallersInv'
  <2>1. Sound(breaker')
    BY <1>2, AllowRequestSound DEF Reject
  <2>2. calls' \in [Callers -> Phase]
    BY <1>2 DEF Reject, TypeOK, Phase
  <2> QED BY <1>2, <2>1, <2>2 DEF Reject, TypeOK, Sound
<1>3. ASSUME NEW c \in Callers, Succeed(c) PROVE CallersInv'
  <2>1. Sound(breaker')
    BY <1>3, RecordSuccessSound DEF Succeed
  <2>2. calls' \in [Callers -> Phase]
    BY <1>3 DEF Succeed, TypeOK, Phase
  <2> QED BY <1>3, <2>1, <2>2 DEF Succeed, TypeOK, Sound
<1>4. ASSUME NEW c \in Callers, Fail(c) PROVE CallersInv'
  <2>1. Sound(breaker')
    BY <1>4, RecordFailureSound DEF Fail
  <2>2. calls' \in [Callers -> Phase]
    BY <1>4 DEF Fail, TypeOK, Phase
  <2> QED BY <1>4, <2>1, <2>2 DEF Fail, TypeOK, Sound
<1>5. ASSUME NEW c \in Callers, Cancel(c) PROVE CallersInv'
  BY <1>5 DEF Cancel, TypeOK, Phase
<1>6. CASE Tick
  <2>1. Sound(breaker')
    BY <1>6, ClockSound DEF Tick
  <2> QED BY <1>6, <2>1 DEF Tick, TypeOK, Sound
<1>7. CASE SetClockBack
  <2>1. Sound(breaker')
    BY <1>7, ClockSound DEF SetClockBack
  <2>2. skews' \in 0..MaxSkews
    BY <1>7, CallersAssumption DEF SetClockBack, TypeOK
  <2> QED BY <1>7, <2>1, <2>2 DEF SetClockBack, TypeOK, Sound
<1>8. CASE Heal
  BY <1>8 DEF Heal, TypeOK
<1>9. CASE UNCHANGED vars
  BY <1>9 DEF vars, TypeOK
<1> QED
  BY <1>1, <1>2, <1>3, <1>4, <1>5, <1>6, <1>7, <1>8, <1>9 DEF Next

LEMMA SpecCallersInv == Spec => []CallersInv
  BY InitCallersInv, NextCallersInv, PTL DEF Spec

\* The fields of the breaker, the phases of the calls and the clock keep
\* their types.
THEOREM BreakerTyped == Spec => []TypeOK
<1>1. CallersInv => TypeOK
  BY DEF CallersInv
<1> QED BY <1>1, SpecCallersInv, PTL

\* A HALF_OPEN window always has room for a probe, however many callers are
\* in flight and whatever becomes of their calls.
THEOREM WindowNeverFull == Spec => []HalfOpenHasRoom
<1>1. CallersInv => HalfOpenHasRoom
  BY DEF CallersInv, Sound, WindowSound, HalfOpenHasRoom
<1> QED BY <1>1, SpecCallersInv, PTL

\* The failure rate stays a percentage, and only failures keep a circuit
\* from being closed.
THEOREM CountsBalance == Spec => []OutcomesAccountedFor
<1>1. CallersInv => OutcomesAccountedFor
  BY DEF CallersInv, Sound, CountsSound, OutcomesAccountedFor
<1> QED BY <1>1, SpecCallersInv, PTL

-----------------------------------------------------------------------------
(* BreakerCallers: the refinement of BreakerPromise *)

\* The initial states map to initial states.
LEMMA PromiseInit == Init => Promise!Init
  BY BreakerAssumption
  DEF Init, Promise!Init, NewBreaker, InFlight, InFlightPhase

\* The end of a call removes exactly its caller from those in flight.
LEMMA InFlightEnds ==
  ASSUME calls \in [Callers -> Phase], NEW c \in InFlight,
         NEW outcome \in Phase \ InFlightPhase,
         calls' = [calls EXCEPT ![c] = outcome]
  PROVE  InFlight' = InFlight \ {c}
  BY DEF InFlight

\* Every step maps to a step of the promise or to a stutter.
LEMMA PromiseNext == CallersInv /\ [Next]_vars => [Promise!Next]_(Promise!vars)
<1> SUFFICES ASSUME CallersInv, [Next]_vars PROVE [Promise!Next]_(Promise!vars)
  OBVIOUS
<1>0. breaker \in Breaker /\ calls \in [Callers -> Phase]
  BY DEF CallersInv, TypeOK
<1>1. ASSUME NEW c \in Callers, Admit(c) PROVE Promise!Start(c)
  <2>1. c \notin InFlight
    BY <1>1 DEF Admit, MayCall, InFlight
  <2>2. InFlight' = InFlight \union {c}
    BY <1>0, <1>1 DEF Admit, InFlight, InFlightPhase
  <2>3. breaker.state = "open" => breaker.elapsed >= RecoveryTimeout
    BY <1>1 DEF Admit, Admits
  <2>4. /\ breaker'.state = IF breaker.state = "open" THEN "half_open" ELSE breaker.state
        /\ breaker'.elapsed = breaker.elapsed
    BY <1>0, <1>1, <2>3 DEF Admit, AllowRequest, Breaker
  <2> QED BY <2>1, <2>2, <2>3, <2>4 DEF Promise!Start
<1>2. ASSUME NEW c \in Callers, Reject(c) PROVE UNCHANGED Promise!vars
  <2>1. breaker' = breaker
    BY <1>2 DEF Reject, Admits, AllowRequest
  <2>2. InFlight' = InFlight
    BY <1>0, <1>2 DEF Reject, MayCall, InFlight, InFlightPhase
  <2> QED BY <2>1, <2>2 DEF Promise!vars
<1>3. ASSUME NEW c \in Callers, Succeed(c) PROVE Promise!Succeed(c)
  <2>1. c \in InFlight /\ InFlight' = InFlight \ {c}
    BY <1>0, <1>3, InFlightEnds DEF Succeed, Phase, InFlightPhase
  <2>2. /\ breaker'.elapsed = breaker.elapsed
        /\ \/ breaker'.state = breaker.state
           \/ breaker.state = "half_open" /\ breaker'.state = "closed"
    BY <1>0, <1>3, RecordSuccessGate DEF Succeed
  <2> QED BY <1>0, <2>1, <2>2
          DEF Promise!Succeed, Breaker, CircuitState
<1>4. ASSUME NEW c \in Callers, Fail(c) PROVE Promise!Fail(c)
  <2>1. c \in InFlight /\ InFlight' = InFlight \ {c}
    BY <1>0, <1>4, InFlightEnds DEF Fail, Phase, InFlightPhase
  <2>2. /\ breaker'.elapsed = 0
        /\ \/ breaker'.state = "open"
           \/ breaker'.state = breaker.state /\ breaker.state # "half_open"
    BY <1>0, <1>4, RecordFailureGate DEF Fail
  <2>3. 0 >= RecoveryTimeout <=> RecoveryTimeout = 0
    BY BreakerAssumption
  <2>4. breaker'.state \in IF breaker.state = "closed" THEN {"closed", "open"}
                          ELSE {"open"}
    BY <1>0, <2>2 DEF Breaker, CircuitState
  <2>5. (breaker'.elapsed >= RecoveryTimeout) = (RecoveryTimeout = 0)
    BY <2>2, <2>3
  <2> QED BY <2>1, <2>4, <2>5 DEF Promise!Fail
<1>5. ASSUME NEW c \in Callers, Cancel(c) PROVE Promise!Abandon(c)
  <2>1. c \in InFlight /\ InFlight' = InFlight \ {c}
    BY <1>0, <1>5, InFlightEnds DEF Cancel, Phase, InFlightPhase
  <2>2. breaker' = breaker
    BY <1>5 DEF Cancel
  <2> QED BY <2>1, <2>2 DEF Promise!Abandon
<1>6. CASE Tick
  <2>1. breaker'.state = breaker.state
    BY <1>0, <1>6 DEF Tick, ClockTicks, Breaker
  <2> QED BY <1>6, <2>1 DEF Tick, Promise!Next, Promise!Clock, InFlight
<1>7. CASE SetClockBack
  <2>1. breaker'.state = breaker.state
    BY <1>0, <1>7 DEF SetClockBack, ClockSetBack, Breaker
  <2> QED BY <1>7, <2>1 DEF SetClockBack, Promise!Next, Promise!Clock, InFlight
<1>8. CASE Heal \/ UNCHANGED vars
  BY <1>8 DEF Heal, vars, Promise!vars, InFlight
<1> QED
  BY <1>1, <1>2, <1>3, <1>4, <1>5, <1>6, <1>7, <1>8 DEF Next, Promise!Next

\* The breaker keeps its promise: no admission before the timeout has
\* elapsed, no way from open to closed but through half open, and no outcome
\* but a success closes it.
THEOREM BreakerKeepsPromise == Spec => KeepsPromise
  BY PromiseInit, PromiseNext, SpecCallersInv, PTL
  DEF Spec, KeepsPromise, Promise!Spec

-----------------------------------------------------------------------------
(* HotReload: the inductive invariant and the runners *)

\* The bound of the runners is the sum of two bounds of sets, so the type of
\* phase takes their cardinalities to be inductive.
RunnersBounded ==
  /\ Cardinality(Loops) <= MaxLoops
  /\ Cardinality(direct) <= MaxDirect

ReloadInv ==
  /\ ReloadTypeOK /\ RunnersBounded
  /\ SingleLoop /\ StopMeansStopped

\* What a runner more does to a sequence over the runners.
LEMMA AppendFunction ==
  ASSUME NEW S, NEW n \in Nat, NEW f \in [1..n -> S], NEW e \in S
  PROVE  /\ Len(Append(f, e)) = n + 1
         /\ Append(f, e) \in [1..n + 1 -> S]
         /\ \A i \in 1..n : Append(f, e)[i] = f[i]
         /\ Append(f, e)[n + 1] = e
<1>1. f \in Seq(S) /\ Len(f) = n
  OBVIOUS
<1>2. /\ Append(f, e) \in Seq(S) /\ Len(Append(f, e)) = n + 1
      /\ \A i \in 1..n : Append(f, e)[i] = f[i]
      /\ Append(f, e)[n + 1] = e
  BY <1>1, AppendProperties
<1> QED BY <1>2, LenProperties

\* The runners are numbered without a gap, the loops and the direct calls
\* between them.
LEMMA RunnersCounted ==
  ASSUME ReloadTypeOK
  PROVE  /\ Runners = 1..Len(phase) /\ Len(phase) \in Nat
         /\ phase \in [1..Len(phase) -> Phases]
         /\ IsFiniteSet(Loops) /\ IsFiniteSet(direct)
         /\ Cardinality(Loops) \in Nat /\ Cardinality(direct) \in Nat
         /\ Cardinality(Loops) + Cardinality(direct) = Len(phase)
<1>1. PICK n \in 0..MaxRunners : phase \in [1..n -> Phases]
  BY DEF ReloadTypeOK
<1>2. n \in Nat /\ Len(phase) = n /\ Runners = 1..n
  BY <1>1, HotReloadAssumption DEF MaxRunners, Runners
<1>3. IsFiniteSet(Runners) /\ Cardinality(Runners) = n
  BY <1>2, FS_Interval
<1>4. direct \subseteq Runners
  BY DEF ReloadTypeOK
<1>5. IsFiniteSet(direct) /\ IsFiniteSet(Loops)
  BY <1>3, <1>4, FS_Subset DEF Loops
<1>6. Cardinality(Loops) = Cardinality(Runners) - Cardinality(Runners \cap direct)
  BY <1>3, FS_Difference DEF Loops
<1>7. Runners \cap direct = direct
  BY <1>4
<1>8. Cardinality(Loops) \in Nat /\ Cardinality(direct) \in Nat
  BY <1>5, FS_CardinalityType
<1>9. Cardinality(Loops) = n - Cardinality(direct)
  BY <1>3, <1>6, <1>7
<1>10. Cardinality(Loops) + Cardinality(direct) = n
  BY <1>2, <1>8, <1>9
<1> QED BY <1>1, <1>2, <1>5, <1>8, <1>10

LEMMA InitReloadInv == ReloadInit => ReloadInv
<1> SUFFICES ASSUME ReloadInit PROVE ReloadInv
  OBVIOUS
<1>1. phase = <<>> /\ read = <<>> /\ Runners = {} /\ Loops = {}
  BY DEF ReloadInit, Runners, Loops
<1>2. FirstConfig \in Config /\ NewAdapter(FirstConfig) \in Adapter
  BY DEF FirstConfig, Config, NewAdapter, Adapter
<1>3. phase \in [1..0 -> Phases] /\ 0 \in 0..MaxRunners /\ 0 \in 0..MaxEdits
  BY <1>1, HotReloadAssumption DEF MaxRunners
<1>4. ReloadTypeOK
  BY <1>1, <1>2, <1>3 DEF ReloadTypeOK, ReloadInit
<1>5. RunnersBounded
  BY <1>1, FS_EmptySet, HotReloadAssumption DEF RunnersBounded, ReloadInit
<1>6. SingleLoop /\ StopMeansStopped
  BY <1>1 DEF SingleLoop, StopMeansStopped
<1> QED BY <1>4, <1>5, <1>6 DEF ReloadInv

-----------------------------------------------------------------------------
(* HotReload: the steps of the coordinator *)

\* A runner more, a loop or a direct call: phase and read grow by one.
LEMMA CreateGrows ==
  ASSUME ReloadInv, NEW first \in Phases, Create(first)
  PROVE  /\ Len(phase') = Len(phase) + 1
         /\ phase' \in [1..Len(phase) + 1 -> Phases] /\ Runners' = 1..Len(phase) + 1
         /\ read' \in [Runners' -> Config]
         /\ \A i \in Runners : phase'[i] = phase[i]
         /\ phase'[Len(phase) + 1] = first
<1>1. /\ Runners = 1..Len(phase) /\ Len(phase) \in Nat
      /\ phase \in [1..Len(phase) -> Phases]
  BY RunnersCounted DEF ReloadInv
<1>2. FirstConfig \in Config /\ read \in [1..Len(phase) -> Config]
  BY <1>1 DEF ReloadInv, ReloadTypeOK, FirstConfig, Config
<1>3. /\ phase' \in [1..Len(phase) + 1 -> Phases] /\ Len(phase') = Len(phase) + 1
      /\ \A i \in 1..Len(phase) : phase'[i] = phase[i]
      /\ phase'[Len(phase) + 1] = first
  <2>1. phase' = Append(phase, first)
    BY DEF Create
  <2>2. /\ Len(phase') = Len(phase) + 1 /\ phase'[Len(phase) + 1] = first
        /\ \A i \in 1..Len(phase) : phase'[i] = phase[i]
    BY <1>1, <2>1, SMT
  <2>3. phase' \in [1..Len(phase) + 1 -> Phases]
    <3>1. phase \in Seq(Phases)
      BY <1>1
    <3>2. phase' \in Seq(Phases)
      BY <2>1, <3>1, AppendProperties
    <3> QED BY <2>2, <3>2, LenProperties
  <2> QED BY <2>2, <2>3
<1>4. read' \in [1..Len(phase) + 1 -> Config]
  BY <1>1, <1>2, AppendFunction DEF Create
<1> QED BY <1>1, <1>3, <1>4 DEF Runners

LEMMA StartReloadInv == ASSUME ReloadInv, Start PROVE ReloadInv'
<1> DEFINE new == Len(phase) + 1
<1>1. /\ Runners = 1..Len(phase) /\ Len(phase) \in Nat
      /\ IsFiniteSet(Loops) /\ Cardinality(Loops) \in Nat /\ Cardinality(direct) \in Nat
      /\ Cardinality(Loops) + Cardinality(direct) = Len(phase)
  BY RunnersCounted DEF ReloadInv
<1>2. /\ Len(phase') = new /\ phase' \in [1..new -> Phases] /\ Runners' = 1..new
      /\ read' \in [Runners' -> Config]
      /\ \A i \in Runners : phase'[i] = phase[i]
      /\ phase'[new] = "sleeping"
  BY CreateGrows DEF Start, Phases
<1>3. task' = new /\ task = 0 /\ direct' = direct
  BY <1>2 DEF Start
<1>4. new \notin Runners /\ direct \subseteq Runners /\ Runners' = Runners \union {new}
  BY <1>1, <1>2 DEF ReloadInv, ReloadTypeOK
<1>5. Loops' = Loops \union {new} /\ new \notin Loops
  BY <1>3, <1>4 DEF Loops
<1>6. Cardinality(Loops') = Cardinality(Loops) + 1
  BY <1>1, <1>5, FS_AddElement
<1>7. RunnersBounded'
  BY <1>1, <1>3, <1>6, HotReloadAssumption DEF RunnersBounded, ReloadInv, Start, MoreLoops
<1>8. new \in 0..MaxRunners
  BY <1>1, HotReloadAssumption
  DEF ReloadInv, RunnersBounded, Start, MoreLoops, MaxRunners
<1>9. ReloadTypeOK'
  <2>1. \E n \in 0..MaxRunners : phase' \in [1..n -> Phases]
    BY <1>2, <1>8
  <2>2. direct' \subseteq Runners' /\ task' \in {0} \union Loops'
    BY <1>3, <1>4, <1>5
  <2>3. cancelling' \subseteq Loops' /\ stopping' \subseteq Loops'
    BY <1>5 DEF ReloadInv, ReloadTypeOK, Start
  <2> QED BY <1>2, <2>1, <2>2, <2>3 DEF ReloadInv, ReloadTypeOK, Start, source, served
<1>10. \A r \in Loops : r \in Runners /\ phase'[r] = phase[r]
  BY <1>2 DEF Loops
<1>11. SingleLoop'
  BY <1>3, <1>5, <1>10 DEF ReloadInv, SingleLoop, Finished, Start, ReloadTypeOK, Loops
<1>12. StopMeansStopped'
  <2>1. stopping' = stopping /\ task' = new /\ task = 0
    BY <1>3 DEF Start
  <2>2. \A r \in Loops : r # 0
    BY <1>1 DEF Loops
  <2> QED BY <1>5, <1>10, <2>1, <2>2 DEF ReloadInv, StopMeansStopped, Finished
<1> QED BY <1>7, <1>9, <1>11, <1>12 DEF ReloadInv

LEMMA CallReloadReloadInv == ASSUME ReloadInv, CallReload PROVE ReloadInv'
<1> DEFINE new == Len(phase) + 1
<1>1. /\ Runners = 1..Len(phase) /\ Len(phase) \in Nat
      /\ IsFiniteSet(direct) /\ Cardinality(Loops) \in Nat /\ Cardinality(direct) \in Nat
      /\ Cardinality(Loops) + Cardinality(direct) = Len(phase)
  BY RunnersCounted DEF ReloadInv
<1>2. /\ Len(phase') = new /\ phase' \in [1..new -> Phases] /\ Runners' = 1..new
      /\ read' \in [Runners' -> Config]
      /\ \A i \in Runners : phase'[i] = phase[i]
  BY CreateGrows DEF CallReload, Phases
<1>3. direct' = direct \union {new} /\ UNCHANGED control
  BY <1>2 DEF CallReload
<1>4. new \notin Runners /\ direct \subseteq Runners /\ Runners' = Runners \union {new}
  BY <1>1, <1>2 DEF ReloadInv, ReloadTypeOK
<1>5. Loops' = Loops /\ new \notin direct
  BY <1>3, <1>4 DEF Loops
<1>6. Cardinality(direct') = Cardinality(direct) + 1
  BY <1>1, <1>3, <1>5, FS_AddElement
<1>7. RunnersBounded'
  BY <1>1, <1>5, <1>6, HotReloadAssumption DEF RunnersBounded, ReloadInv, CallReload
<1>8. new \in 0..MaxRunners
  BY <1>1, HotReloadAssumption
  DEF ReloadInv, RunnersBounded, CallReload, MaxRunners
<1>9. ReloadTypeOK'
  <2>1. \E n \in 0..MaxRunners : phase' \in [1..n -> Phases]
    BY <1>2, <1>8
  <2>2. direct' \subseteq Runners'
    BY <1>3, <1>4
  <2>3. task' \in {0} \union Loops' /\ cancelling' \subseteq Loops' /\ stopping' \subseteq Loops'
    BY <1>3, <1>5 DEF ReloadInv, ReloadTypeOK, control
  <2> QED BY <1>2, <2>1, <2>2, <2>3 DEF ReloadInv, ReloadTypeOK, CallReload, source, served
<1>10. \A r \in Loops : r \in Runners /\ phase'[r] = phase[r]
  BY <1>2 DEF Loops
<1>11. SingleLoop' /\ StopMeansStopped'
  BY <1>3, <1>5, <1>10 DEF ReloadInv, SingleLoop, StopMeansStopped, Finished, control
<1> QED BY <1>7, <1>9, <1>11 DEF ReloadInv

\* stop() marks the loop it forgets: it is cancelled, and awaited.
LEMMA StopReloadInv == ASSUME ReloadInv, Stop PROVE ReloadInv'
<1>1. Runners' = Runners /\ Loops' = Loops /\ task \in Loops
  BY DEF ReloadInv, ReloadTypeOK, Stop, Runners, Loops
<1>2. ReloadTypeOK'
  BY <1>1 DEF ReloadInv, ReloadTypeOK, Stop, source, served
<1>3. RunnersBounded'
  BY <1>1 DEF ReloadInv, RunnersBounded, Stop
<1>4. SingleLoop'
  BY <1>1 DEF ReloadInv, SingleLoop, Finished, Stop
<1>5. StopMeansStopped'
  BY <1>1 DEF ReloadInv, StopMeansStopped, Finished, Stop
<1> QED BY <1>2, <1>3, <1>4, <1>5 DEF ReloadInv

LEMMA StopReturnsReloadInv ==
  ASSUME ReloadInv, NEW r \in Runners, StopReturns(r) PROVE ReloadInv'
<1>1. Runners' = Runners /\ Loops' = Loops
  BY DEF StopReturns, Runners, Loops
<1>2. ReloadTypeOK'
  BY <1>1 DEF ReloadInv, ReloadTypeOK, StopReturns, source, served
<1>3. RunnersBounded' /\ SingleLoop' /\ StopMeansStopped'
  BY <1>1 DEF ReloadInv, RunnersBounded, SingleLoop, StopMeansStopped, Finished, StopReturns
<1> QED BY <1>2, <1>3 DEF ReloadInv

-----------------------------------------------------------------------------
(* HotReload: the steps of one runner *)

\* A runner that is not over goes to another phase, and nothing of the
\* coordinator changes: no runner that is over comes back.
LEMMA GotoReloadInv ==
  ASSUME ReloadInv, NEW r \in Runners, ~Finished(r), NEW p \in Phases, Goto(r, p),
         UNCHANGED <<source, control, direct>>,
         read' \in [Runners -> Config], flags' \in 0..MaxEdits,
         adapter' \in Adapter
  PROVE  ReloadInv'
<1>1. PICK n \in 0..MaxRunners : phase \in [1..n -> Phases]
  BY DEF ReloadInv, ReloadTypeOK
<1>2. phase' \in [1..n -> Phases] /\ Runners' = Runners /\ Runners = 1..n
  BY <1>1 DEF Goto, Runners
<1>3. Loops' = Loops
  BY <1>2 DEF Loops
<1>4. ReloadTypeOK'
  BY <1>2, <1>3 DEF ReloadInv, ReloadTypeOK, source, control
<1>5. RunnersBounded'
  BY <1>3 DEF ReloadInv, RunnersBounded
<1>6. \A s \in Loops : Finished(s) => Finished(s)'
  BY <1>1, <1>2 DEF Loops, Goto, Finished
<1>7. SingleLoop' /\ StopMeansStopped'
  BY <1>3, <1>6 DEF ReloadInv, SingleLoop, StopMeansStopped, control
<1> QED BY <1>4, <1>5, <1>7 DEF ReloadInv

LEMMA RunnerReloadInv ==
  ASSUME ReloadInv, NEW r \in Runners, RunnerStep(r) PROVE ReloadInv'
<1> USE DEF At, source, served, control
<1>0. /\ read \in [Runners -> Config] /\ file \in Config /\ flags \in 0..MaxEdits
      /\ flag_store \in 0..MaxEdits /\ adapter \in Adapter
  BY DEF ReloadInv, ReloadTypeOK
<1>1. CASE Wake(r)
  BY <1>0, <1>1, GotoReloadInv DEF Wake, Finished, Over, Phases
<1>2. CASE CoreReads(r)
  <2>1. read' \in [Runners -> Config]
    BY <1>0, <1>2 DEF CoreReads
  <2> QED BY <1>0, <1>2, <2>1, GotoReloadInv DEF CoreReads, Finished, Over, Phases
<1>3. CASE Installs(r)
  <2>1. read[r] \in Config
    BY <1>0
  <2>2. adapter' \in Adapter
    BY <1>0, <1>3, <2>1 DEF Installs, Materialize, CoreReload, Adapter, Config
  <2>3. \E p \in Phases : Goto(r, p)
    BY <1>3 DEF Installs, Phases, Over
  <2> QED BY <1>0, <1>3, <2>2, <2>3, GotoReloadInv DEF Installs, Finished, Over
<1>4. CASE Refreshes(r)
  <2>1. \E p \in Phases : Goto(r, p)
    BY <1>4 DEF Refreshes, Phases, Over
  <2> QED BY <1>0, <1>4, <2>1, GotoReloadInv DEF Refreshes, Finished, Over
<1>5. CASE Raises(r)
  BY <1>0, <1>5, GotoReloadInv DEF Raises, Finished, Over, Phases
<1>6. CASE Cancelled(r)
  BY <1>0, <1>6, GotoReloadInv DEF Cancelled, Over, Phases
<1> QED BY <1>1, <1>2, <1>3, <1>4, <1>5, <1>6 DEF RunnerStep

LEMMA NextReloadInv == ReloadInv /\ [ReloadNext]_reloadVars => ReloadInv'
<1> SUFFICES ASSUME ReloadInv, [ReloadNext]_reloadVars PROVE ReloadInv'
  OBVIOUS
<1>1. CASE EditConfig
  <2>1. file' \in Config /\ Runners' = Runners /\ Loops' = Loops
    BY <1>1 DEF EditConfig, ReloadInv, ReloadTypeOK, Config, Runners, Loops
  <2> QED
    BY <1>1, <2>1
    DEF EditConfig, ReloadInv, ReloadTypeOK, RunnersBounded, SingleLoop, StopMeansStopped, Finished,
        served, control
<1>2. CASE EditFlags
  <2>1. flag_store' \in 0..MaxEdits /\ Runners' = Runners /\ Loops' = Loops
    BY <1>2, HotReloadAssumption DEF EditFlags, ReloadInv, ReloadTypeOK, Runners, Loops
  <2> QED
    BY <1>2, <2>1
    DEF EditFlags, ReloadInv, ReloadTypeOK, RunnersBounded, SingleLoop, StopMeansStopped, Finished,
        served, control
<1>3. CASE UNCHANGED reloadVars
  <2>1. Runners' = Runners /\ Loops' = Loops
    BY <1>3 DEF reloadVars, Runners, Loops
  <2> QED
    BY <1>3, <2>1
    DEF reloadVars, ReloadInv, ReloadTypeOK, RunnersBounded, SingleLoop, StopMeansStopped, Finished,
        source, served, control
<1> QED
  BY <1>1, <1>2, <1>3, StartReloadInv, StopReloadInv, CallReloadReloadInv, RunnerReloadInv, StopReturnsReloadInv DEF ReloadNext

LEMMA SpecReloadInv == ReloadSpec => []ReloadInv
  BY InitReloadInv, NextReloadInv, PTL DEF ReloadSpec

-----------------------------------------------------------------------------

\* The coordinator's fields and the runners keep their types.
THEOREM ReloadTyped == ReloadSpec => []ReloadTypeOK
<1>1. ReloadInv => ReloadTypeOK
  BY DEF ReloadInv
<1> QED BY <1>1, SpecReloadInv, PTL

\* There is one background loop, in whichever order start(), stop() and
\* reload_now() are called and however many loops are still ending.
THEOREM OneLoopReloads == ReloadSpec => []SingleLoop
<1>1. ReloadInv => SingleLoop
  BY DEF ReloadInv
<1> QED BY <1>1, SpecReloadInv, PTL

\* A stop() that has returned leaves no loop behind it.
THEOREM StopAwaitsItsLoop == ReloadSpec => []StopMeansStopped
<1>1. ReloadInv => StopMeansStopped
  BY DEF ReloadInv
<1> QED BY <1>1, SpecReloadInv, PTL

-----------------------------------------------------------------------------
(* Lifespan: what Among picks *)

Piece(e, kind) == IF e \in kind THEN <<e>> ELSE <<>>

LEMMA AmongEmpty == \A kind : Among(<<>>, kind) = <<>>
<1>1. ASSUME NEW kind PROVE Among(<<>>, kind) = <<>>
  <2>1. [i \in DOMAIN <<>> |-> IF <<>>[i] \in kind THEN <<<<>>[i]>> ELSE <<>>] = <<>>
    OBVIOUS
  <2> QED BY <2>1, FlattenEmpty DEF Among
<1> QED BY <1>1

LEMMA AmongGrows ==
  ASSUME NEW S, NEW s \in Seq(S), NEW e \in S, NEW kind
  PROVE  /\ Among(s, kind) \in Seq(S)
         /\ Among(Append(s, e), kind) = IF e \in kind THEN Append(Among(s, kind), e)
                                        ELSE Among(s, kind)
<1> DEFINE ps == [i \in DOMAIN s |-> Piece(s[i], kind)]
           p == Piece(e, kind)
           qs == [i \in DOMAIN Append(s, e) |-> Piece(Append(s, e)[i], kind)]
<1>1. Among(s, kind) = FlattenSeq(ps) /\ Among(Append(s, e), kind) = FlattenSeq(qs)
  BY Zenon DEF Among, Piece
<1>2. \A x \in S : Piece(x, kind) \in Seq(S)
  BY DEF Piece
<1>3. ps \in Seq(Seq(S)) /\ Len(ps) = Len(s) /\ p \in Seq(S)
  <2>1. ps = [i \in 1..Len(s) |-> Piece(s[i], kind)] /\ Len(s) \in Nat
        /\ \A i \in 1..Len(s) : s[i] \in S
    OBVIOUS
  <2> HIDE DEF ps
  <2>2. ps \in [1..Len(s) -> Seq(S)]
    BY <1>2, <2>1
  <2> QED BY <1>2, <2>1, <2>2
<1>4. qs = Append(ps, p)
  <2>1. Append(s, e) \in Seq(S) /\ Len(Append(s, e)) = Len(s) + 1 /\ Len(s) \in Nat
        /\ \A i \in 1..Len(s) : Append(s, e)[i] = s[i]
        /\ Append(s, e)[Len(s) + 1] = e
    OBVIOUS
  <2>2. qs = [i \in 1..Len(s) + 1 |-> Piece(Append(s, e)[i], kind)]
    BY <2>1
  <2>3. \A i \in 1..Len(s) : ps[i] = Piece(s[i], kind)
    BY <2>1
  <2>4. qs \in Seq(Seq(S)) /\ Len(qs) = Len(s) + 1
    <3>1. \A i \in 1..Len(s) + 1 : Append(s, e)[i] \in S
      BY <2>1
    <3> HIDE DEF qs
    <3>2. qs \in [1..Len(s) + 1 -> Seq(S)]
      BY <1>2, <2>2, <3>1
    <3> QED BY <2>1, <3>2
  <2>5. \A i \in 1..Len(s) + 1 : qs[i] = Piece(Append(s, e)[i], kind)
    BY <2>2
  <2> HIDE DEF qs, p, ps
  <2>6. Append(ps, p) \in Seq(Seq(S)) /\ Len(Append(ps, p)) = Len(s) + 1
        /\ \A i \in 1..Len(s) : Append(ps, p)[i] = ps[i]
        /\ Append(ps, p)[Len(s) + 1] = p
    BY <1>3, AppendProperties
  <2>7. \A i \in 1..Len(s) + 1 : Append(ps, p)[i] = qs[i]
    <3> SUFFICES ASSUME NEW i \in 1..Len(s) + 1 PROVE Append(ps, p)[i] = qs[i]
      OBVIOUS
    <3>1. CASE i \in 1..Len(s)
      BY <2>1, <2>3, <2>5, <2>6, <3>1
    <3>2. CASE i = Len(s) + 1
      BY <2>1, <2>5, <2>6, <3>2 DEF p
    <3>3. Len(s) \in Nat
      BY <2>1
    <3>4. i \in 1..Len(s) \/ i = Len(s) + 1
      BY <3>3
    <3> QED BY <3>1, <3>2, <3>4
  <2> QED BY <2>4, <2>6, <2>7, SeqEqual
<1> HIDE DEF ps, qs, p
<1>5. FlattenSeq(qs) = FlattenSeq(ps) \o p /\ FlattenSeq(ps) \in Seq(S)
  BY <1>3, <1>4, FlattenAppend, FlattenType
<1>6. Among(s, kind) \in Seq(S) /\ Among(Append(s, e), kind) = Among(s, kind) \o p
  BY <1>1, <1>5
<1>7. Among(s, kind) \o p = IF e \in kind THEN Append(Among(s, kind), e) ELSE Among(s, kind)
  BY <1>6 DEF p, Piece
<1> QED BY <1>6, <1>7 DEF p

\* Among picks every element of the kind, as often as it is there and in order.
Picks(s, t, kind) ==
  /\ Len(t) <= Len(s)
  /\ \A e : e \in ToSet(t) <=> e \in ToSet(s) /\ e \in kind
  /\ IsInjective(s) => IsInjective(t)

LEMMA AmongPicks ==
  ASSUME NEW S, NEW kind
  PROVE  \A s \in Seq(S) : Among(s, kind) \in Seq(S) /\ Picks(s, Among(s, kind), kind)
<1> DEFINE T == {s \in Seq(S) : Among(s, kind) \in Seq(S) /\ Picks(s, Among(s, kind), kind)}
<1>1. <<>> \in T
  <2>1. Picks(<<>>, <<>>, kind)
    BY DEF Picks, ToSet, IsInjective
  <2>2. <<>> \in Seq(S) /\ Among(<<>>, kind) = <<>>
    BY AmongEmpty
  <2> QED BY <2>1, <2>2
<1>2. ASSUME NEW s \in Seq(S), NEW e \in S, s \in T PROVE Append(s, e) \in T
  <2> DEFINE t == Among(s, kind)
             u == Among(Append(s, e), kind)
  <2>1. t \in Seq(S) /\ Picks(s, t, kind)
    BY <1>2
  <2>2. u = IF e \in kind THEN Append(t, e) ELSE t
    BY AmongGrows
  <2> HIDE DEF t, u
  <2>3. u \in Seq(S) /\ Len(u) <= Len(Append(s, e))
    BY <2>1, <2>2 DEF Picks
  <2>4. \A x : x \in ToSet(u) <=> x \in ToSet(Append(s, e)) /\ x \in kind
    <3>1. ToSet(Append(s, e)) = ToSet(s) \union {e}
      BY ToSetAppend
    <3>2. ToSet(Append(t, e)) = ToSet(t) \union {e}
      BY <2>1, ToSetAppend
    <3> QED BY <2>1, <2>2, <3>1, <3>2 DEF Picks
  <2>5. IsInjective(Append(s, e)) => IsInjective(u)
    <3>1. IsInjective(Append(s, e)) => IsInjective(s) /\ e \notin ToSet(s)
      BY ToSetAppend
    <3>2. IsInjective(t) /\ e \notin ToSet(t) => IsInjective(Append(t, e))
      BY <2>1, ToSetAppend
    <3> QED BY <2>1, <2>2, <3>1, <3>2 DEF Picks
  <2>6. Picks(Append(s, e), u, kind)
    BY <2>3, <2>4, <2>5 DEF Picks
  <2>7. Append(s, e) \in Seq(S)
    OBVIOUS
  <2> QED BY <2>3, <2>6, <2>7 DEF u
<1> HIDE DEF T
<1>3. \A s \in Seq(S) : s \in T
  BY <1>1, <1>2, SeqInduction
<1> QED BY <1>3 DEF T

-----------------------------------------------------------------------------
(* Lifespan: the inductive invariant *)

\* What __aenter__ has pushed: the stops under the shutdown callbacks.
Stopping == Among(InTime, Components)
Finishing == Among(InTime, Shutdowns)
Plan == Stopping \o Finishing

LeftCalls == {c \in Calls : c.op = "stop" \/ c.item \in Shutdowns}
MadeCalls(ops) == {c \in Calls : c.op \in ops /\ c.item \in Components}

RegistryOK ==
  /\ registered \in Seq(Items) /\ IsInjective(registered)
  /\ entered \in 0..Len(registered)
  /\ context \in Contexts
  /\ next \in 1..Len(registered) + 1
  /\ log \in Seq(Calls) /\ pending \in Items \union {NoError}

\* A stack of n is the lower part of the plan; the teardown has called the upper
\* part from its top, and components only once it has reached them.
TeardownOK(stack, left, stops, plan, components) ==
  /\ Len(stack) <= Len(plan) /\ \A i \in 1..Len(stack) : stack[i] = plan[i]
  /\ Len(left) = Len(plan) - Len(stack)
  /\ \A i \in 1..Len(left) : left[i].item = plan[Len(plan) + 1 - i]
  /\ Len(stack) >= Len(components) => Len(stops) = 0
  /\ Len(stack) < Len(components) => Len(stops) = Len(components) - Len(stack)
  /\ \A i \in 1..Len(stops) : stops[i].item = components[Len(components) + 1 - i]

ExitsOK ==
  /\ exits \in Seq(Items)
  /\ TeardownOK(exits, Among(log, LeftCalls), Made({"stop"}), Plan, Stopping)
  /\ context = "exited" => exits = <<>>

\* Every stop is of a component, and comes after every shutdown callback.
OrderOK(entries) ==
  /\ \A i \in 1..Len(entries) : entries[i].op = "stop" => entries[i].item \in Components
  /\ \A i, j \in 1..Len(entries) : entries[i].op = "stop" /\ entries[j].item \in Shutdowns => j < i

StartsOK(starts, components, at, n) ==
  /\ Len(starts) <= Len(components)
  /\ \A i \in 1..Len(starts) : starts[i].item = components[i]
  /\ at \in {"idle", "callbacks"} => Len(starts) = 0
  /\ at = "starting" => n = Len(starts) + 1

ErrorsOK ==
  /\ context \in {"idle", "callbacks", "starting", "running"} =>
       pending = NoError /\ \A i \in 1..Len(log) : ~log[i].raised
  /\ context \in {"exiting", "exited"} =>
       (pending # NoError <=> \E i \in 1..Len(log) : log[i].raised)

LifespanInv ==
  /\ RegistryOK
  /\ ExitsOK
  /\ OrderOK(log)
  /\ StartsOK(Made({"start"}), _components, context, next)
  /\ ErrorsOK

-----------------------------------------------------------------------------
(* Lifespan: helpers *)

LEMMA Kinds ==
  /\ Components \subseteq Items /\ Startups \subseteq Items /\ Shutdowns \subseteq Items
  /\ \A item \in Items : item \in Components \/ item \in Startups \/ item \in Shutdowns
  /\ \A item \in Components : item \notin Startups /\ item \notin Shutdowns
  /\ \A item \in Startups : item \notin Shutdowns
  /\ NoError \notin Items
  BY LifespanAssumption DEF Items

LEMMA MadeIs == \A ops : Made(ops) = Among(log, MadeCalls(ops))
  BY DEF Made, MadeCalls

\* The plan of what was registered in time.
LEMMA PlanFacts ==
  ASSUME RegistryOK
  PROVE  /\ InTime \in Seq(Items) /\ Len(InTime) = entered /\ IsInjective(InTime)
         /\ ToSet(InTime) \subseteq ToSet(registered) /\ ToSet(InTime) \subseteq Items
         /\ Stopping \in Seq(Items) /\ Plan \in Seq(Items)
         /\ Len(Stopping) \in Nat /\ Len(Plan) \in Nat /\ Len(Stopping) <= Len(Plan)
         /\ \A i \in 1..Len(Stopping) : Plan[i] = Stopping[i] /\ Plan[i] \in Components
         /\ \A i \in Len(Stopping) + 1..Len(Plan) : Plan[i] \in Shutdowns
         /\ IsInjective(Plan)
         /\ \A item : item \in ToSet(Plan) <=> item \in ToSet(InTime) /\ item \notin Startups
<1>1. InTime \in Seq(Items) /\ Len(InTime) = entered /\ entered \in Nat
      /\ \A i \in 1..entered : InTime[i] = registered[i] /\ i \in 1..Len(registered)
  BY DEF InTime, RegistryOK
<1>2. DOMAIN InTime = 1..entered /\ DOMAIN registered = 1..Len(registered)
  BY <1>1 DEF RegistryOK
<1>3. IsInjective(InTime)
  BY <1>1, <1>2 DEF IsInjective, RegistryOK
<1>4. ToSet(InTime) \subseteq ToSet(registered) /\ ToSet(InTime) \subseteq Items
  BY <1>1, <1>2 DEF ToSet
<1> DEFINE C == Stopping
           F == Finishing
<1>5. /\ C \in Seq(Items) /\ Picks(InTime, C, Components)
      /\ F \in Seq(Items) /\ Picks(InTime, F, Shutdowns)
  BY <1>1, AmongPicks DEF Stopping, Finishing
<1>6. Plan = C \o F
  BY DEF Plan
<1> HIDE DEF C, F
<1>7. /\ Plan \in Seq(Items) /\ Len(C) \in Nat /\ Len(F) \in Nat /\ Len(Plan) = Len(C) + Len(F)
      /\ \A i \in 1..Len(C) : Plan[i] = C[i]
      /\ \A i \in 1..Len(F) : Plan[Len(C) + i] = F[i]
      /\ DOMAIN C = 1..Len(C) /\ DOMAIN F = 1..Len(F) /\ DOMAIN Plan = 1..Len(Plan)
  BY <1>5, <1>6
<1>8. \A i \in 1..Len(C) : C[i] \in ToSet(InTime) /\ C[i] \in Components
  BY <1>5, <1>7 DEF Picks, ToSet
<1>9. \A i \in 1..Len(F) : F[i] \in ToSet(InTime) /\ F[i] \in Shutdowns
  BY <1>5, <1>7 DEF Picks, ToSet
<1>10. ASSUME NEW i \in Len(C) + 1..Len(Plan)
       PROVE  i - Len(C) \in 1..Len(F) /\ Plan[i] = F[i - Len(C)]
  <2>1. i - Len(C) \in 1..Len(F) /\ i = Len(C) + (i - Len(C))
    BY <1>7
  <2> QED BY <1>7, <2>1
<1>11. \A i \in Len(C) + 1..Len(Plan) : Plan[i] \in Shutdowns
  BY <1>9, <1>10
<1>12. \A i \in 1..Len(Plan) : i \in 1..Len(C) \/ i \in Len(C) + 1..Len(Plan)
  BY <1>7
<1>13. IsInjective(Plan)
  <2> SUFFICES ASSUME NEW i \in 1..Len(Plan), NEW j \in 1..Len(Plan), Plan[i] = Plan[j]
               PROVE  i = j
    BY <1>7 DEF IsInjective
  <2>1. CASE i \in 1..Len(C) /\ j \in 1..Len(C)
    <3>1. IsInjective(C)
      BY <1>3, <1>5 DEF Picks
    <3> QED BY <1>7, <2>1, <3>1 DEF IsInjective
  <2>2. CASE i \in Len(C) + 1..Len(Plan) /\ j \in Len(C) + 1..Len(Plan)
    <3>1. IsInjective(F)
      BY <1>3, <1>5 DEF Picks
    <3>2. i - Len(C) = j - Len(C)
      BY <1>7, <1>10, <2>2, <3>1 DEF IsInjective
    <3> QED BY <1>7, <2>2, <3>2
  <2>3. CASE i \in 1..Len(C) /\ j \in Len(C) + 1..Len(Plan)
    BY <1>7, <1>8, <1>11, <2>3, Kinds
  <2>4. CASE j \in 1..Len(C) /\ i \in Len(C) + 1..Len(Plan)
    BY <1>7, <1>8, <1>11, <2>4, Kinds
  <2> QED BY <1>12, <2>1, <2>2, <2>3, <2>4
<1>14. ASSUME NEW item \in ToSet(Plan)
       PROVE  item \in ToSet(InTime) /\ item \notin Startups
  <2>1. PICK i \in 1..Len(Plan) : item = Plan[i]
    BY <1>7 DEF ToSet
  <2>2. CASE i \in 1..Len(C)
    BY <1>7, <1>8, <2>1, <2>2, Kinds
  <2>3. CASE i \in Len(C) + 1..Len(Plan)
    BY <1>9, <1>10, <2>1, <2>3, Kinds
  <2> QED BY <1>12, <2>2, <2>3
<1>15. ASSUME NEW item \in ToSet(InTime), item \notin Startups
       PROVE  item \in ToSet(Plan)
  <2>1. item \in Components \/ item \in Shutdowns
    BY <1>4, <1>15, Kinds
  <2>2. CASE item \in Components
    <3>1. PICK i \in 1..Len(C) : item = C[i]
      BY <1>5, <1>7, <1>15, <2>2 DEF Picks, ToSet
    <3>2. i \in 1..Len(Plan)
      BY <1>7
    <3> QED BY <1>7, <3>1, <3>2 DEF ToSet
  <2>3. CASE item \in Shutdowns
    <3>1. PICK i \in 1..Len(F) : item = F[i]
      BY <1>5, <1>7, <1>15, <2>3 DEF Picks, ToSet
    <3>2. Len(C) + i \in 1..Len(Plan)
      BY <1>7
    <3> QED BY <1>7, <3>1, <3>2 DEF ToSet
  <2> QED BY <2>1, <2>2, <2>3
<1> QED BY <1>1, <1>3, <1>4, <1>5, <1>7, <1>8, <1>11, <1>13, <1>14, <1>15 DEF C

-----------------------------------------------------------------------------
(* Lifespan: what a step leaves alone *)

\* A plan depends on what was registered in time, a log on what was called.
LEMMA SamePlan ==
  ASSUME RegistryOK, entered' = entered,
         registered' = registered \/ \E item \in Items : registered' = Append(registered, item)
  PROVE  InTime' = InTime /\ Stopping' = Stopping /\ Plan' = Plan
<1>1. InTime' = InTime
  <2>1. CASE registered' = registered
    BY <2>1 DEF InTime
  <2>2. CASE \E item \in Items : registered' = Append(registered, item)
    <3>1. PICK item \in Items : registered' = Append(registered, item)
      BY <2>2
    <3>2. registered \in Seq(Items) /\ entered \in 0..Len(registered) /\ Len(registered) \in Nat
      BY DEF RegistryOK
    <3>3. \A i \in 1..entered : Append(registered, item)[i] = registered[i]
      BY <3>2
    <3>4. /\ SubSeq(registered, 1, entered) = [i \in 1..entered |-> registered[i]]
          /\ SubSeq(Append(registered, item), 1, entered)
               = [i \in 1..entered |-> Append(registered, item)[i]]
      BY <3>2
    <3> QED BY <3>1, <3>3, <3>4 DEF InTime
  <2> QED BY <2>1, <2>2
<1> QED BY <1>1 DEF Plan, Stopping, Finishing

LEMMA SameLog ==
  ASSUME log' = log
  PROVE  /\ \A ops : Made(ops)' = Made(ops)
         /\ Among(log, LeftCalls)' = Among(log, LeftCalls)
  BY DEF Made, LeftCalls

\* A call more.
LEMMA LogGrows ==
  ASSUME log \in Seq(Calls), NEW c \in Calls, log' = Append(log, c)
  PROVE  /\ log' \in Seq(Calls)
         /\ Len(log') = Len(log) + 1 /\ Len(log) \in Nat
         /\ \A i \in 1..Len(log) : log'[i] = log[i]
         /\ log'[Len(log) + 1] = c
         /\ Among(log, LeftCalls) \in Seq(Calls)
         /\ Among(log, LeftCalls)' = IF c \in LeftCalls THEN Append(Among(log, LeftCalls), c)
                                     ELSE Among(log, LeftCalls)
         /\ \A ops : /\ Made(ops) \in Seq(Calls)
                     /\ Made(ops)' = IF c \in MadeCalls(ops) THEN Append(Made(ops), c)
                                     ELSE Made(ops)
<1>1. /\ log' \in Seq(Calls) /\ Len(log') = Len(log) + 1 /\ Len(log) \in Nat
      /\ \A i \in 1..Len(log) : log'[i] = log[i]
      /\ log'[Len(log) + 1] = c
  OBVIOUS
<1>2. \A kind : /\ Among(log, kind) \in Seq(Calls)
                /\ Among(log', kind) = IF c \in kind THEN Append(Among(log, kind), c)
                                       ELSE Among(log, kind)
  <2> SUFFICES ASSUME NEW kind
               PROVE  /\ Among(log, kind) \in Seq(Calls)
                      /\ Among(Append(log, c), kind) = IF c \in kind THEN Append(Among(log, kind), c)
                                                       ELSE Among(log, kind)
    OBVIOUS
  <2> QED BY AmongGrows
<1>3. Among(log, LeftCalls)' = Among(log', LeftCalls)
  BY DEF LeftCalls
<1>4. \A ops : Made(ops) = Among(log, MadeCalls(ops)) /\ Made(ops)' = Among(log', MadeCalls(ops))
  BY DEF Made, MadeCalls
<1>5. /\ Among(log, LeftCalls) \in Seq(Calls)
      /\ Among(log, LeftCalls)' = IF c \in LeftCalls THEN Append(Among(log, LeftCalls), c)
                                  ELSE Among(log, LeftCalls)
  BY <1>2, <1>3
<1>6. ASSUME NEW ops
      PROVE  /\ Made(ops) \in Seq(Calls)
             /\ Made(ops)' = IF c \in MadeCalls(ops) THEN Append(Made(ops), c) ELSE Made(ops)
  <2>1. /\ Among(log, MadeCalls(ops)) \in Seq(Calls)
        /\ Among(log', MadeCalls(ops)) = IF c \in MadeCalls(ops)
             THEN Append(Among(log, MadeCalls(ops)), c) ELSE Among(log, MadeCalls(ops))
    BY <1>2
  <2> QED BY <1>4, <2>1
<1> QED BY <1>1, <1>5, <1>6

-----------------------------------------------------------------------------
(* Lifespan: the invariant at the start and after every step *)

LEMMA InitLifespanInv == LifespanInit => LifespanInv
<1> SUFFICES ASSUME LifespanInit PROVE LifespanInv
  OBVIOUS
<1>1. /\ registered = <<>> /\ entered = 0 /\ context = "idle" /\ next = 1
      /\ exits = <<>> /\ log = <<>> /\ pending = NoError
  BY DEF LifespanInit
<1>2. RegistryOK
  BY <1>1 DEF RegistryOK, Contexts, IsInjective
<1>3. InTime = <<>>
  BY <1>1 DEF InTime
<1>4. Stopping = <<>> /\ Finishing = <<>> /\ _components = <<>> /\ Among(log, LeftCalls) = <<>>
      /\ \A ops : Made(ops) = <<>>
  BY <1>1, <1>3, AmongEmpty DEF Stopping, Finishing, _components, Made
<1>5. Plan = <<>>
  BY <1>4 DEF Plan
<1>6. ExitsOK
  BY <1>1, <1>4, <1>5 DEF ExitsOK, TeardownOK
<1>7. OrderOK(log)
  BY <1>1 DEF OrderOK
<1>8. StartsOK(Made({"start"}), _components, context, next)
  BY <1>1, <1>4 DEF StartsOK
<1>9. ErrorsOK
  BY <1>1 DEF ErrorsOK
<1> QED BY <1>2, <1>6, <1>7, <1>8, <1>9 DEF LifespanInv

LEMMA RegisterLifespanInv ==
  ASSUME LifespanInv, NEW item \in Items, Register(item) PROVE LifespanInv'
<1>1. /\ registered \in Seq(Items) /\ IsInjective(registered) /\ item \notin ToSet(registered)
      /\ registered' = Append(registered, item)
      /\ entered' = entered /\ context' = context /\ next' = next /\ exits' = exits
      /\ log' = log /\ pending' = pending
  BY DEF Register, LifespanInv, RegistryOK
<1>2. RegistryOK'
  <2>1. registered' \in Seq(Items) /\ Len(registered') = Len(registered) + 1 /\ Len(registered) \in Nat
    BY <1>1
  <2>2. IsInjective(registered')
    BY <1>1, ToSetAppend
  <2>3. entered' \in 0..Len(registered') /\ next' \in 1..Len(registered') + 1
    BY <1>1, <2>1 DEF LifespanInv, RegistryOK
  <2> QED BY <1>1, <2>1, <2>2, <2>3 DEF LifespanInv, RegistryOK
<1>3. InTime' = InTime /\ Stopping' = Stopping /\ Plan' = Plan
  BY <1>1, SamePlan DEF LifespanInv
<1>4. /\ \A ops : Made(ops)' = Made(ops)
      /\ Among(log, LeftCalls)' = Among(log, LeftCalls)
  BY <1>1, SameLog
<1>5. ExitsOK'
  BY <1>1, <1>3, <1>4 DEF LifespanInv, ExitsOK
<1>6. StartsOK(Made({"start"}), _components, context, next)'
  <2>1. /\ _components \in Seq(Items)
        /\ _components' = _components \/ _components' = Append(_components, item)
    <3>1. /\ Among(registered, Components) \in Seq(Items)
          /\ Among(Append(registered, item), Components)
               = IF item \in Components THEN Append(Among(registered, Components), item)
                 ELSE Among(registered, Components)
      BY <1>1, AmongGrows
    <3>2. _components' = Among(registered', Components)
      BY DEF _components
    <3> QED BY <1>1, <3>1, <3>2 DEF _components
  <2>2. StartsOK(Made({"start"}), _components, context, next)
    BY DEF LifespanInv
  <2> DEFINE starts == Made({"start"})
  <2>3. starts' = starts
    BY <1>4
  <2>4. CASE _components' = _components
    BY <1>1, <2>2, <2>3, <2>4 DEF StartsOK
  <2>5. CASE _components' = Append(_components, item)
    <3>1. starts \in Seq(Calls)
      BY AmongPicks, MadeIs DEF LifespanInv, RegistryOK
    <3> HIDE DEF starts
    <3>2. Len(starts) \in Nat /\ Len(_components) \in Nat
          /\ Len(_components') = Len(_components) + 1
          /\ \A i \in 1..Len(_components) : _components'[i] = _components[i]
      BY <2>1, <2>5, <3>1
    <3>3. StartsOK(starts, _components', context, next)
      BY <2>2, <3>2 DEF StartsOK, starts
    <3> QED BY <1>1, <2>3, <3>3 DEF starts
  <2> QED BY <2>1, <2>4, <2>5
<1>7. OrderOK(log)' /\ ErrorsOK'
  BY <1>1 DEF LifespanInv, OrderOK, ErrorsOK
<1> QED BY <1>2, <1>5, <1>6, <1>7 DEF LifespanInv

LEMMA EnterLifespanInv ==
  ASSUME LifespanInv, Enter PROVE LifespanInv'
<1>1. /\ exits' = _components \o _shutdown_callbacks /\ entered' = Len(registered)
      /\ context' = "callbacks" /\ next' = 1 /\ log' = <<>> /\ pending' = NoError
      /\ registered' = registered
  BY DEF Enter
<1>2. registered \in Seq(Items) /\ Len(registered) \in Nat /\ IsInjective(registered)
  BY DEF LifespanInv, RegistryOK
<1>3. RegistryOK'
  BY <1>1, <1>2 DEF RegistryOK, Contexts
<1>4. InTime' = registered
  BY <1>1, <1>2 DEF InTime
<1>5. /\ Stopping' = _components /\ _components' = _components
      /\ Plan' = _components \o _shutdown_callbacks /\ exits' = Plan'
  BY <1>1, <1>4 DEF Stopping, Finishing, Plan, _components, _shutdown_callbacks
<1>6. _components \in Seq(Items) /\ _shutdown_callbacks \in Seq(Items)
  BY <1>2, AmongPicks DEF _components, _shutdown_callbacks
<1>7. /\ Plan' \in Seq(Items) /\ Len(Plan') \in Nat /\ Len(Stopping') \in Nat
      /\ Len(Plan') >= Len(Stopping')
  BY <1>5, <1>6
<1>8. Among(log, LeftCalls)' = <<>> /\ \A ops : Made(ops)' = <<>>
  BY <1>1, AmongEmpty DEF Made
<1>9. ExitsOK'
  <2>1. TeardownOK(Plan', <<>>, <<>>, Plan', Stopping')
    BY <1>7 DEF TeardownOK
  <2> QED BY <1>1, <1>5, <1>7, <1>8, <2>1 DEF ExitsOK
<1>10. OrderOK(log)'
  BY <1>1 DEF OrderOK
<1>11. StartsOK(Made({"start"}), _components, context, next)'
  BY <1>1, <1>5, <1>6, <1>8 DEF StartsOK
<1>12. ErrorsOK'
  BY <1>1 DEF ErrorsOK
<1> QED BY <1>3, <1>9, <1>10, <1>11, <1>12 DEF LifespanInv
\* A call of __aenter__ is of nothing that is on the exit stack.
LEMMA CallLifespanInv ==
  ASSUME LifespanInv, RunStartup \/ StartComponent PROVE LifespanInv'
<1>1. PICK items, op :
        /\ CallNext(items, op)
        /\ \/ context = "callbacks" /\ items = _startup_callbacks /\ op = "run"
           \/ context = "starting" /\ items = _components /\ op = "start"
  BY DEF RunStartup, StartComponent
<1>2. PICK raises \in BOOLEAN :
        /\ log' = Append(log, [item |-> items[next], op |-> op, raised |-> raises])
        /\ context' = IF raises THEN "start_failed" ELSE context
  BY <1>1 DEF CallNext, Logs
<1> DEFINE c == [item |-> items[next], op |-> op, raised |-> raises]
           starts == Made({"start"})
           stops == Made({"stop"})
           left == Among(log, LeftCalls)
<1>3. /\ next <= Len(items) /\ next' = next + 1 /\ registered' = registered
      /\ entered' = entered /\ exits' = exits /\ pending' = pending
  BY <1>1 DEF CallNext
<1>4. /\ registered \in Seq(Items) /\ Len(registered) \in Nat /\ next \in 1..Len(registered) + 1
      /\ log \in Seq(Calls) /\ RegistryOK
  BY DEF LifespanInv, RegistryOK
<1>5. /\ items \in Seq(Items) /\ Len(items) <= Len(registered) /\ Len(items) \in Nat
      /\ items = _components => \A e \in ToSet(items) : e \in Components
      /\ items = _startup_callbacks => \A e \in ToSet(items) : e \in Startups
  BY <1>1, <1>4, AmongPicks DEF _components, _startup_callbacks, Picks
<1>6. next \in 1..Len(items) /\ items[next] \in ToSet(items) /\ items[next] \in Items
  BY <1>3, <1>4, <1>5 DEF ToSet
<1>7. /\ c \in Calls /\ c.op = op /\ c.item = items[next] /\ c.raised = raises
      /\ c \notin LeftCalls /\ c \notin MadeCalls({"stop"}) /\ c.op # "stop"
      /\ c.item \notin Shutdowns
      /\ c \in MadeCalls({"start"}) <=> context = "starting"
  BY <1>1, <1>5, <1>6, Kinds DEF Calls, LeftCalls, MadeCalls
<1>8. log' = Append(log, c)
  BY <1>2
<1> HIDE DEF c
<1>9. /\ log' \in Seq(Calls) /\ Len(log') = Len(log) + 1 /\ Len(log) \in Nat
      /\ \A i \in 1..Len(log) : log'[i] = log[i]
      /\ log'[Len(log) + 1] = c
      /\ left' = left /\ stops' = stops /\ starts \in Seq(Calls)
      /\ starts' = IF context = "starting" THEN Append(starts, c) ELSE starts
  BY <1>4, <1>7, <1>8, LogGrows
<1> HIDE DEF starts, stops, left
<1>10. InTime' = InTime /\ Stopping' = Stopping /\ Plan' = Plan /\ _components' = _components
  BY <1>3, <1>4, SamePlan DEF _components
<1>11. context' \in {"start_failed", context} /\ (context' = "start_failed" <=> raises)
  BY <1>1, <1>2
<1>12. RegistryOK'
  <2>1. next' \in 1..Len(registered) + 1
    BY <1>3, <1>4, <1>5
  <2> QED BY <1>3, <1>4, <1>9, <1>11, <2>1 DEF RegistryOK, Contexts
<1>13. ExitsOK'
  BY <1>1, <1>3, <1>9, <1>10, <1>11 DEF LifespanInv, ExitsOK, left, stops
<1>14. \A i \in 1..Len(log') : i \in 1..Len(log) \/ i = Len(log) + 1
  BY <1>9
<1>15. OrderOK(log')
  <2>1. OrderOK(log)
    BY DEF LifespanInv
  <2> QED BY <1>7, <1>9, <1>14, <2>1 DEF OrderOK
<1>16. StartsOK(starts', _components, context', next')
  <2>1. StartsOK(starts, _components, context, next)
    BY DEF LifespanInv, starts
  <2>2. Len(starts) \in Nat
    BY <1>9
  <2>3. CASE context = "callbacks"
    BY <1>9, <1>11, <2>1, <2>3 DEF StartsOK
  <2>4. CASE context = "starting"
    <3>1. /\ starts' = Append(starts, c) /\ items = _components /\ next = Len(starts) + 1
          /\ Len(starts) <= Len(_components)
          /\ \A i \in 1..Len(starts) : starts[i].item = _components[i]
      BY <1>1, <1>9, <2>1, <2>4 DEF StartsOK
    <3>2. /\ Len(starts') = Len(starts) + 1
          /\ \A i \in 1..Len(starts) : starts'[i] = starts[i]
          /\ starts'[Len(starts) + 1] = c
      BY <1>9, <3>1
    <3>3. Len(starts') <= Len(_components) /\ next' = Len(starts') + 1
      BY <1>3, <2>2, <3>1, <3>2
    <3>4. \A i \in 1..Len(starts') : starts'[i].item = _components[i]
      <4>1. \A i \in 1..Len(starts') : i \in 1..Len(starts) \/ i = Len(starts) + 1
        BY <2>2, <3>2
      <4> QED BY <1>7, <3>1, <3>2, <4>1
    <3> QED BY <1>11, <2>4, <3>3, <3>4 DEF StartsOK
  <2> QED BY <1>1, <2>3, <2>4
<1>17. ErrorsOK'
  <2>1. pending = NoError /\ \A i \in 1..Len(log) : ~log[i].raised
    BY <1>1 DEF LifespanInv, ErrorsOK
  <2>2. CASE raises
    BY <1>11, <2>2 DEF ErrorsOK
  <2>3. CASE ~raises
    <3>1. \A i \in 1..Len(log') : ~log'[i].raised
      BY <1>7, <1>9, <1>14, <2>1, <2>3
    <3>2. context' = context
      BY <1>11, <2>3
    <3> QED BY <1>1, <1>3, <2>1, <3>1, <3>2 DEF ErrorsOK
  <2> QED BY <2>2, <2>3
<1> QED BY <1>10, <1>12, <1>13, <1>15, <1>16, <1>17 DEF LifespanInv, starts

\* The steps that call nothing.
LEMMA TurnLifespanInv ==
  ASSUME LifespanInv, StartupsDone \/ AllStarted \/ Exit \/ Exited PROVE LifespanInv'
<1>1. /\ registered' = registered /\ entered' = entered /\ exits' = exits /\ log' = log
      /\ pending' = pending /\ next' \in {1, next}
      /\ \/ context = "callbacks" /\ context' = "starting" /\ next' = 1
         \/ context = "starting" /\ context' = "running"
         \/ context = "running" /\ context' = "exiting"
         \/ context = "exiting" /\ context' = "exited" /\ exits = <<>>
  BY DEF StartupsDone, AllStarted, Exit, Exited
<1>2. InTime' = InTime /\ Stopping' = Stopping /\ Plan' = Plan /\ _components' = _components
  BY <1>1, SamePlan DEF LifespanInv, _components
<1>3. /\ \A ops : Made(ops)' = Made(ops)
      /\ Among(log, LeftCalls)' = Among(log, LeftCalls)
  BY <1>1, SameLog
<1>4. RegistryOK'
  <2>1. Len(registered) \in Nat /\ next \in 1..Len(registered) + 1 /\ RegistryOK
    BY DEF LifespanInv, RegistryOK
  <2>2. next' \in 1..Len(registered) + 1
    BY <1>1, <2>1
  <2> QED BY <1>1, <2>1, <2>2 DEF RegistryOK, Contexts
<1>5. ExitsOK'
  BY <1>1, <1>2, <1>3 DEF LifespanInv, ExitsOK
<1>6. OrderOK(log)'
  BY <1>1 DEF LifespanInv, OrderOK
<1>7. StartsOK(Made({"start"}), _components, context, next)'
  <2> DEFINE starts == Made({"start"})
  <2>1. StartsOK(starts, _components, context, next) /\ starts' = starts
    BY <1>3 DEF LifespanInv
  <2> HIDE DEF starts
  <2>2. StartsOK(starts, _components, context', next')
    BY <1>1, <2>1 DEF StartsOK
  <2> QED BY <1>2, <2>1, <2>2 DEF starts
<1>8. ErrorsOK'
  BY <1>1 DEF LifespanInv, ErrorsOK
<1> QED BY <1>4, <1>5, <1>6, <1>7, <1>8 DEF LifespanInv
\* The teardown calls the top of what is left of the plan.
LEMMA PopExitLifespanInv ==
  ASSUME LifespanInv, PopExit PROVE LifespanInv'
<1> DEFINE n == Len(exits)
           x == Last(exits)
           starts == Made({"start"})
           stops == Made({"stop"})
           left == Among(log, LeftCalls)
<1>1. PICK raises \in BOOLEAN :
        /\ log' = Append(log, [item |-> x, op |-> Op(x), raised |-> raises])
        /\ pending' = IF raises THEN x ELSE pending
  BY DEF PopExit, Logs
<1> DEFINE c == [item |-> x, op |-> Op(x), raised |-> raises]
<1>2. /\ exits # <<>> /\ exits' = Front(exits) /\ context = "exiting" /\ context' = "exiting"
      /\ registered' = registered /\ entered' = entered /\ next' = next
  BY DEF PopExit
<1>3. RegistryOK /\ ExitsOK /\ exits \in Seq(Items) /\ log \in Seq(Calls)
  BY DEF LifespanInv, RegistryOK, ExitsOK
<1>4. /\ n \in Nat /\ n >= 1 /\ x = exits[n]
      /\ Front(exits) \in Seq(Items) /\ Len(Front(exits)) = n - 1
      /\ \A i \in 1..n - 1 : Front(exits)[i] = exits[i]
  <2>1. n \in Nat /\ n >= 1
    BY <1>2, <1>3
  <2>2. x = exits[n]
    BY DEF Last
  <2>3. Front(exits) = [i \in 1..n - 1 |-> exits[i]] /\ n - 1 \in Nat
    BY <1>3, <2>1 DEF Front
  <2>4. \A i \in 1..n - 1 : exits[i] \in Items
    BY <1>3, <2>1
  <2> QED BY <2>1, <2>2, <2>3, <2>4
<1>5. /\ Plan \in Seq(Items) /\ Len(Plan) \in Nat /\ Len(Stopping) \in Nat
      /\ Len(Stopping) <= Len(Plan)
      /\ \A i \in 1..Len(Stopping) : Plan[i] = Stopping[i] /\ Plan[i] \in Components
      /\ \A i \in Len(Stopping) + 1..Len(Plan) : Plan[i] \in Shutdowns
  BY <1>3, PlanFacts
<1>6. TeardownOK(exits, left, stops, Plan, Stopping)
  BY <1>3 DEF ExitsOK
<1>7. n \in 1..Len(Plan) /\ x = Plan[n] /\ x \in Items
  <2>1. n <= Len(Plan) /\ \A i \in 1..n : exits[i] = Plan[i]
    BY <1>6 DEF TeardownOK
  <2>2. n \in 1..Len(Plan) /\ n \in 1..n
    BY <1>4, <1>5, <2>1
  <2> QED BY <1>3, <1>4, <1>5, <2>1, <2>2
<1>8. x \in Components <=> n <= Len(Stopping)
  <2>1. n \in 1..Len(Stopping) \/ n \in Len(Stopping) + 1..Len(Plan)
    BY <1>5, <1>7
  <2>2. CASE n \in 1..Len(Stopping)
    BY <1>5, <1>7, <2>2
  <2>3. CASE n \in Len(Stopping) + 1..Len(Plan)
    BY <1>5, <1>7, <2>3, Kinds
  <2> QED BY <2>1, <2>2, <2>3
<1>9. x \in Components \/ x \in Shutdowns
  <2>1. n \in 1..Len(Stopping) \/ n \in Len(Stopping) + 1..Len(Plan)
    BY <1>5, <1>7
  <2> QED BY <1>5, <1>7, <2>1
<1> HIDE DEF x, n
<1>10. /\ c \in Calls /\ c.item = x /\ c.raised = raises
       /\ c.op = "stop" <=> x \in Components
       /\ c \in LeftCalls /\ c \notin MadeCalls({"start"})
       /\ c \in MadeCalls({"stop"}) <=> x \in Components
  BY <1>7, <1>9, Kinds DEF Calls, LeftCalls, MadeCalls, Op
<1>11. log' = Append(log, c) /\ (c.raised <=> raises)
  BY <1>1, <1>10
<1> HIDE DEF c
<1>12. /\ log' \in Seq(Calls) /\ Len(log') = Len(log) + 1 /\ Len(log) \in Nat
       /\ \A i \in 1..Len(log) : log'[i] = log[i]
       /\ log'[Len(log) + 1] = c
       /\ left \in Seq(Calls) /\ stops \in Seq(Calls)
       /\ starts' = starts /\ left' = Append(left, c)
       /\ stops' = IF x \in Components THEN Append(stops, c) ELSE stops
  BY <1>3, <1>10, <1>11, LogGrows
<1> HIDE DEF starts, stops, left
<1>13. InTime' = InTime /\ Stopping' = Stopping /\ Plan' = Plan /\ _components' = _components
  BY <1>2, <1>3, SamePlan DEF _components
<1>14. RegistryOK'
  BY <1>1, <1>2, <1>3, <1>7, <1>12 DEF RegistryOK
<1>15. TeardownOK(exits', left', stops', Plan, Stopping)
  <2>1. /\ Len(left) = Len(Plan) - n /\ n <= Len(Plan)
        /\ \A i \in 1..n : exits[i] = Plan[i]
        /\ \A i \in 1..Len(left) : left[i].item = Plan[Len(Plan) + 1 - i]
        /\ n >= Len(Stopping) => Len(stops) = 0
        /\ n < Len(Stopping) => Len(stops) = Len(Stopping) - n
        /\ \A i \in 1..Len(stops) : stops[i].item = Stopping[Len(Stopping) + 1 - i]
    BY <1>6 DEF TeardownOK, n
  <2>2. Len(exits') = n - 1 /\ \A i \in 1..n - 1 : exits'[i] = exits[i]
    BY <1>2, <1>4
  <2>3. /\ Len(left') = Len(left) + 1 /\ Len(left) \in Nat /\ Len(stops) \in Nat
        /\ \A i \in 1..Len(left) : left'[i] = left[i]
        /\ left'[Len(left) + 1] = c
    BY <1>12
  <2>4. n \in Nat /\ n >= 1
    BY <1>4
  <2>5. Len(exits') <= Len(Plan) /\ \A i \in 1..Len(exits') : exits'[i] = Plan[i]
    BY <1>5, <2>1, <2>2, <2>4
  <2>6. Len(left') = Len(Plan) - Len(exits')
    BY <1>5, <2>1, <2>2, <2>3, <2>4
  <2>7. \A i \in 1..Len(left') : left'[i].item = Plan[Len(Plan) + 1 - i]
    <3> SUFFICES ASSUME NEW i \in 1..Len(left')
                 PROVE  left'[i].item = Plan[Len(Plan) + 1 - i]
      OBVIOUS
    <3>1. i \in 1..Len(left) \/ i = Len(left) + 1
      BY <2>3
    <3>2. CASE i \in 1..Len(left)
      BY <2>1, <2>3, <3>2
    <3>3. CASE i = Len(left) + 1
      <4>1. Len(Plan) + 1 - i = n
        BY <1>5, <2>1, <2>3, <2>4, <3>3
      <4> QED BY <1>7, <1>10, <2>3, <3>3, <4>1
    <3> QED BY <3>1, <3>2, <3>3
  <2>8. CASE x \in Components
    <3>1. n <= Len(Stopping) /\ Len(stops) = Len(Stopping) - n
      BY <1>5, <1>8, <2>1, <2>3, <2>4, <2>8
    <3>2. /\ Len(stops') = Len(stops) + 1
          /\ \A i \in 1..Len(stops) : stops'[i] = stops[i]
          /\ stops'[Len(stops) + 1] = c
      BY <1>12, <2>8
    <3>3. Len(exits') < Len(Stopping) /\ Len(stops') = Len(Stopping) - Len(exits')
      BY <1>5, <2>2, <2>3, <2>4, <3>1, <3>2
    <3>4. \A i \in 1..Len(stops') : stops'[i].item = Stopping[Len(Stopping) + 1 - i]
      <4> SUFFICES ASSUME NEW i \in 1..Len(stops')
                   PROVE  stops'[i].item = Stopping[Len(Stopping) + 1 - i]
        OBVIOUS
      <4>1. i \in 1..Len(stops) \/ i = Len(stops) + 1
        BY <2>3, <3>2
      <4>2. CASE i \in 1..Len(stops)
        BY <2>1, <3>2, <4>2
      <4>3. CASE i = Len(stops) + 1
        <5>1. Len(Stopping) + 1 - i = n /\ n \in 1..Len(Stopping)
          BY <1>5, <2>3, <2>4, <3>1, <4>3, SMTT(30)
        <5> QED BY <1>5, <1>7, <1>10, <3>2, <4>3, <5>1
      <4> QED BY <4>1, <4>2, <4>3
    <3>5. ~(Len(exits') >= Len(Stopping))
      BY <1>5, <2>2, <2>4, <3>3
    <3> QED BY <2>5, <2>6, <2>7, <3>3, <3>4, <3>5 DEF TeardownOK
  <2>9. CASE x \notin Components
    <3>1. stops' = stops /\ Len(stops) = 0 /\ Len(exits') >= Len(Stopping)
      BY <1>5, <1>8, <1>12, <2>1, <2>2, <2>4, <2>9
    <3>2. ~(Len(exits') < Len(Stopping))
      BY <1>5, <2>2, <2>4, <3>1
    <3> QED BY <2>1, <2>5, <2>6, <2>7, <3>1, <3>2 DEF TeardownOK
  <2> QED BY <2>8, <2>9
<1>16. ExitsOK'
  <2>1. ExitsOK' <=> /\ exits' \in Seq(Items)
                     /\ TeardownOK(exits', left', stops', Plan', Stopping')
                     /\ context' = "exited" => exits' = <<>>
    BY DEF ExitsOK, left, stops
  <2> QED BY <1>2, <1>4, <1>13, <1>15, <2>1
<1>17. \A i \in 1..Len(log') : i \in 1..Len(log) \/ i = Len(log) + 1
  BY <1>12
<1>18. OrderOK(log')
  <2>1. OrderOK(log)
    BY DEF LifespanInv
  <2>2. \A i \in 1..Len(log') : log'[i].op = "stop" => log'[i].item \in Components
    BY <1>10, <1>12, <1>17, <2>1 DEF OrderOK
  <2>3. ASSUME NEW i \in 1..Len(log'), NEW j \in 1..Len(log'),
               log'[i].op = "stop", log'[j].item \in Shutdowns
        PROVE  j < i
    <3>1. CASE i \in 1..Len(log) /\ j \in 1..Len(log)
      BY <1>12, <2>1, <2>3, <3>1 DEF OrderOK
    <3>2. CASE i = Len(log) + 1 /\ j \in 1..Len(log)
      BY <1>12, <3>2
    <3>3. CASE j = Len(log) + 1
      <4>1. x \in Shutdowns /\ x \notin Components
        BY <1>10, <1>12, <2>3, <3>3, Kinds
      <4>2. i \in 1..Len(log) /\ log[i].op = "stop"
        BY <1>10, <1>12, <1>17, <2>3, <4>1
      <4>3. log[i] \in MadeCalls({"stop"}) /\ log[i] \in ToSet(log)
        BY <1>3, <2>1, <4>2 DEF OrderOK, MadeCalls, ToSet
      <4>4. log[i] \in ToSet(stops)
        BY <1>3, <4>3, AmongPicks, MadeIs DEF Picks, stops
      <4>5. Len(stops) # 0
        BY <1>12, <4>4 DEF ToSet
      <4>6. n > Len(Stopping)
        BY <1>4, <1>5, <1>8, <4>1
      <4>7. Len(stops) = 0
        BY <1>4, <1>5, <1>6, <4>6 DEF TeardownOK, n
      <4> QED BY <4>5, <4>7
    <3> QED BY <1>17, <3>1, <3>2, <3>3
  <2> QED BY <2>2, <2>3 DEF OrderOK
<1>19. StartsOK(starts', _components, context', next')
  <2>1. StartsOK(starts, _components, context, next)
    BY DEF LifespanInv, starts
  <2> QED BY <1>2, <1>12, <2>1
<1>20. ErrorsOK'
  <2>1. pending # NoError <=> \E i \in 1..Len(log) : log[i].raised
    BY <1>2 DEF LifespanInv, ErrorsOK
  <2>2. x # NoError
    BY <1>7, Kinds
  <2>3. CASE raises
    <3>1. Len(log) + 1 \in 1..Len(log') /\ log'[Len(log) + 1].raised
      BY <1>11, <1>12, <2>3
    <3> QED BY <1>1, <1>2, <2>2, <2>3, <3>1 DEF ErrorsOK
  <2>4. CASE ~raises
    <3>1. (\E i \in 1..Len(log') : log'[i].raised) <=> \E i \in 1..Len(log) : log[i].raised
      <4>1. \A i \in 1..Len(log') : log'[i].raised => i \in 1..Len(log) /\ log[i].raised
        BY <1>11, <1>12, <1>17, <2>4
      <4>2. \A i \in 1..Len(log) : i \in 1..Len(log') /\ (log[i].raised => log'[i].raised)
        BY <1>12
      <4> QED BY <4>1, <4>2
    <3> QED BY <1>1, <1>2, <2>1, <2>4, <3>1 DEF ErrorsOK
  <2> QED BY <2>3, <2>4
<1> QED BY <1>13, <1>14, <1>16, <1>18, <1>19, <1>20 DEF LifespanInv, starts

LEMMA NextLifespanInv == LifespanInv /\ [LifespanNext]_lifespanVars => LifespanInv'
<1> SUFFICES ASSUME LifespanInv, [LifespanNext]_lifespanVars PROVE LifespanInv'
  OBVIOUS
<1>1. ASSUME NEW item \in Items, Register(item) PROVE LifespanInv'
  BY <1>1, RegisterLifespanInv
<1>2. CASE Enter
  BY <1>2, EnterLifespanInv
<1>3. CASE RunStartup \/ StartComponent
  BY <1>3, CallLifespanInv
<1>4. CASE StartupsDone \/ AllStarted \/ Exit \/ Exited
  BY <1>4, TurnLifespanInv
<1>5. CASE PopExit
  BY <1>5, PopExitLifespanInv
<1>6. CASE UNCHANGED lifespanVars
  BY <1>6 DEF lifespanVars, LifespanInv, RegistryOK, ExitsOK, OrderOK, ErrorsOK, Made,
     LeftCalls, Plan, Stopping, Finishing, InTime, _components
<1> QED BY <1>1, <1>2, <1>3, <1>4, <1>5, <1>6 DEF LifespanNext

LEMMA SpecLifespanInv == LifespanSpec => []LifespanInv
  BY InitLifespanInv, NextLifespanInv, PTL DEF LifespanSpec
-----------------------------------------------------------------------------
(* Lifespan: the theorems *)

LEMMA LifespanTypes == LifespanInv => LifespanTypeOK
<1> SUFFICES ASSUME LifespanInv PROVE LifespanTypeOK
  OBVIOUS
<1>1. RegistryOK /\ ExitsOK
  BY DEF LifespanInv
<1>2. /\ exits \in Seq(Items) /\ Len(exits) <= Len(Plan)
      /\ \A i \in 1..Len(exits) : exits[i] = Plan[i]
  BY <1>1 DEF ExitsOK, TeardownOK
<1>3. /\ IsInjective(Plan) /\ Plan \in Seq(Items) /\ Len(Plan) \in Nat
      /\ \A item \in ToSet(Plan) : item \in ToSet(registered)
  BY <1>1, PlanFacts
<1>4. /\ DOMAIN exits = 1..Len(exits) /\ DOMAIN Plan = 1..Len(Plan) /\ Len(exits) \in Nat
      /\ \A i \in 1..Len(exits) : i \in 1..Len(Plan)
  BY <1>2, <1>3
<1>5. IsInjective(exits)
  BY <1>2, <1>3, <1>4 DEF IsInjective
<1>6. ToSet(exits) \subseteq ToSet(registered)
  <2> SUFFICES ASSUME NEW i \in 1..Len(exits) PROVE exits[i] \in ToSet(registered)
    BY <1>4 DEF ToSet
  <2>1. Plan[i] \in ToSet(Plan)
    BY <1>4 DEF ToSet
  <2> QED BY <1>2, <1>3, <2>1
<1>7. \A i \in DOMAIN log : log[i] \in Calls
  BY <1>1 DEF RegistryOK
<1> QED BY <1>1, <1>5, <1>6, <1>7 DEF LifespanTypeOK, RegistryOK

\* The type invariant of LifespanAdapter: nothing is registered twice, and what
\* aclose() has left to call is registered and called once.
THEOREM LifespanTyped == LifespanSpec => []LifespanTypeOK
  BY SpecLifespanInv, LifespanTypes, PTL

LEMMA PrefixBy ==
  ASSUME NEW S, NEW s \in Seq(S), NEW t \in Seq(S), Len(s) <= Len(t),
         \A i \in 1..Len(s) : s[i] = t[i]
  PROVE  IsPrefix(s, t)
<1>1. Len(s) \in Nat /\ Len(t) \in Nat
  OBVIOUS
<1>2. /\ SubSeq(s, 1, Len(s)) = [i \in 1..Len(s) |-> s[i]]
      /\ SubSeq(t, 1, Len(s)) = [i \in 1..Len(s) |-> t[i]]
  BY <1>1
<1>3. [i \in 1..Len(s) |-> s[i]] = [i \in 1..Len(s) |-> t[i]]
  OBVIOUS
<1> QED BY <1>2, <1>3 DEF IsPrefix

LEMMA ItemsOfCalls ==
  ASSUME NEW entries \in Seq(Calls)
  PROVE  /\ ItemsOf(entries) \in Seq(Items) /\ Len(ItemsOf(entries)) = Len(entries)
         /\ \A i \in 1..Len(entries) : ItemsOf(entries)[i] = entries[i].item
<1>1. /\ ItemsOf(entries) = [i \in 1..Len(entries) |-> entries[i].item] /\ Len(entries) \in Nat
      /\ \A i \in 1..Len(entries) : entries[i].item \in Items
  <2>1. DOMAIN entries = 1..Len(entries) /\ Len(entries) \in Nat /\ \A i \in 1..Len(entries) : entries[i] \in Calls
    OBVIOUS
  <2>2. \A c \in Calls : c.item \in Items
    BY DEF Calls
  <2>3. ItemsOf(entries) = [i \in 1..Len(entries) |-> entries[i].item]
    BY <2>1, Zenon DEF ItemsOf
  <2> QED BY <2>1, <2>2, <2>3
<1> QED BY <1>1

LEMMA Teardown == LifespanInv => TeardownOrder
<1> SUFFICES ASSUME LifespanInv PROVE TeardownOrder
  OBVIOUS
<1> DEFINE starts == Made({"start"})
           stops == Made({"stop"})
           back == Reverse(Stopping)
<1>1. RegistryOK /\ registered \in Seq(Items) /\ log \in Seq(Calls) /\ OrderOK(log)
  BY DEF LifespanInv, RegistryOK
<1>2. starts \in Seq(Calls) /\ stops \in Seq(Calls) /\ _components \in Seq(Items)
      /\ Stopping \in Seq(Items) /\ Len(Stopping) \in Nat
  BY <1>1, AmongPicks, MadeIs, PlanFacts DEF _components
<1>3. StartsOK(starts, _components, context, next)
  BY DEF LifespanInv
<1>4. TeardownOK(exits, Among(log, LeftCalls), stops, Plan, Stopping) /\ Len(exits) \in Nat
  BY DEF LifespanInv, ExitsOK
<1> HIDE DEF starts, stops
<1>5. IsPrefix(ItemsOf(starts), _components)
  BY <1>2, <1>3, ItemsOfCalls, PrefixBy DEF StartsOK
<1>6. IsPrefix(ItemsOf(stops), back)
  <2>1. back = [i \in 1..Len(Stopping) |-> Stopping[Len(Stopping) - i + 1]]
    BY DEF Reverse
  <2>2. \A i \in 1..Len(Stopping) : Len(Stopping) - i + 1 \in 1..Len(Stopping)
                                    /\ Len(Stopping) - i + 1 = Len(Stopping) + 1 - i
    BY <1>2
  <2>3. \A i \in 1..Len(Stopping) : Stopping[Len(Stopping) - i + 1] \in Items
    BY <1>2, <2>2
  <2> HIDE DEF back
  <2>4. back \in Seq(Items) /\ Len(back) = Len(Stopping)
        /\ \A i \in 1..Len(Stopping) : back[i] = Stopping[Len(Stopping) + 1 - i]
    BY <1>2, <2>1, <2>2, <2>3
  <2>5. /\ Len(stops) <= Len(Stopping) /\ Len(stops) \in Nat
        /\ \A i \in 1..Len(stops) : stops[i].item = Stopping[Len(Stopping) + 1 - i]
    BY <1>2, <1>4 DEF TeardownOK
  <2>6. \A i \in 1..Len(stops) : ItemsOf(stops)[i] = back[i]
    <3>1. \A i \in 1..Len(stops) : ItemsOf(stops)[i] = stops[i].item
      BY <1>2, ItemsOfCalls
    <3>2. \A i \in 1..Len(stops) : i \in 1..Len(Stopping)
      BY <1>2, <2>5
    <3> QED BY <2>4, <2>5, <3>1, <3>2
  <2> QED BY <1>2, <2>4, <2>5, <2>6, ItemsOfCalls, PrefixBy
<1>7. \A i, j \in DOMAIN log : log[i].op = "stop" /\ log[j].item \in Shutdowns => j < i
  BY <1>1 DEF OrderOK
<1> QED BY <1>5, <1>6, <1>7 DEF TeardownOrder, starts, stops, Stopping

\* Components start in the order of registration and stop in the reverse of it,
\* after every shutdown callback, whatever raises on the way and whatever is
\* registered too late: __aenter__ pushes what aclose() pops.
THEOREM TearsDownInOrder == LifespanSpec => []TeardownOrder
  BY SpecLifespanInv, Teardown, PTL

LEMMA EveryStop == LifespanInv => EveryStopRuns
<1> SUFFICES ASSUME LifespanInv, context = "exited" PROVE
      LET left == Among(log, LeftCalls)
      IN  /\ IsInjective(ItemsOf(left))
          /\ ToSet(ItemsOf(left)) = ToSet(InTime) \ Startups
  BY DEF EveryStopRuns, LeftCalls
<1> DEFINE left == Among(log, LeftCalls)
           items == ItemsOf(left)
<1>1. RegistryOK /\ log \in Seq(Calls) /\ exits = <<>>
  BY DEF LifespanInv, RegistryOK, ExitsOK
<1>2. left \in Seq(Calls)
  BY <1>1, AmongPicks
<1>3. /\ Plan \in Seq(Items) /\ Len(Plan) \in Nat /\ IsInjective(Plan)
      /\ ToSet(Plan) = ToSet(InTime) \ Startups
  BY <1>1, PlanFacts
<1>4. Len(left) = Len(Plan) /\ \A i \in 1..Len(left) : left[i].item = Plan[Len(Plan) + 1 - i]
  BY <1>1, <1>3 DEF LifespanInv, ExitsOK, TeardownOK
<1> HIDE DEF left
<1>5. /\ items \in Seq(Items) /\ Len(items) = Len(Plan)
      /\ \A i \in 1..Len(Plan) : items[i] = Plan[Len(Plan) + 1 - i]
  BY <1>2, <1>4, ItemsOfCalls
<1>6. DOMAIN items = 1..Len(Plan) /\ DOMAIN Plan = 1..Len(Plan)
  BY <1>3, <1>5
<1> HIDE DEF items
<1>7. \A i \in 1..Len(Plan) : Len(Plan) + 1 - i \in 1..Len(Plan)
                              /\ Len(Plan) + 1 - (Len(Plan) + 1 - i) = i
  BY <1>3
<1>8. IsInjective(items)
  <2> SUFFICES ASSUME NEW i \in 1..Len(Plan), NEW j \in 1..Len(Plan), items[i] = items[j]
               PROVE  i = j
    BY <1>6 DEF IsInjective
  <2>1. Len(Plan) + 1 - i = Len(Plan) + 1 - j
    BY <1>3, <1>5, <1>6, <1>7, ZenonT(40) DEF IsInjective
  <2> QED BY <1>3, <2>1
<1>9. ToSet(items) = ToSet(Plan)
  <2>1. \A i \in 1..Len(Plan) : items[i] \in ToSet(Plan)
    BY <1>5, <1>6, <1>7 DEF ToSet
  <2>2. \A i \in 1..Len(Plan) : Plan[i] \in ToSet(items)
    <3> SUFFICES ASSUME NEW i \in 1..Len(Plan) PROVE Plan[i] \in ToSet(items)
      OBVIOUS
    <3>1. items[Len(Plan) + 1 - i] = Plan[i]
      BY <1>5, <1>7
    <3> QED BY <1>6, <1>7, <3>1 DEF ToSet
  <2> QED BY <1>6, <2>1, <2>2 DEF ToSet
<1> QED BY <1>3, <1>8, <1>9 DEF items, left

\* Best-effort teardown: when __aexit__ is over, every component and every
\* shutdown callback registered before __aenter__ has been called once, although
\* others raised.
THEOREM EveryStopIsRun == LifespanSpec => []EveryStopRuns
  BY SpecLifespanInv, EveryStop, PTL

LEMMA ErrorSurfaces == LifespanInv => TeardownErrorSurfaces
<1> SUFFICES ASSUME LifespanInv, context = "exited" PROVE pending # NoError <=> Raising # <<>>
  BY DEF TeardownErrorSurfaces
<1> DEFINE kind == {c \in Calls : c.raised /\ context \in {"exiting", "exited"}}
<1>1. log \in Seq(Calls) /\ (pending # NoError <=> \E i \in 1..Len(log) : log[i].raised)
  BY DEF LifespanInv, RegistryOK, ErrorsOK
<1>2. Raising \in Seq(Calls) /\ \A c : c \in ToSet(Raising) <=> c \in ToSet(log) /\ c \in kind
  BY <1>1, AmongPicks DEF Raising, Picks
<1>3. \A i \in 1..Len(log) : log[i] \in Calls /\ log[i] \in ToSet(log)
  BY <1>1 DEF ToSet
<1>4. Raising # <<>> <=> \E c : c \in ToSet(Raising)
  <2>1. DOMAIN Raising = 1..Len(Raising) /\ Len(Raising) \in Nat
    BY <1>2
  <2>2. Raising # <<>> => 1 \in 1..Len(Raising)
    BY <1>2, <2>1
  <2>3. Raising = <<>> => Len(Raising) = 0
    OBVIOUS
  <2> QED BY <2>1, <2>2, <2>3 DEF ToSet
<1>5. (\E c : c \in ToSet(Raising)) => \E i \in 1..Len(log) : log[i].raised
  BY <1>1, <1>2 DEF ToSet
<1>6. (\E i \in 1..Len(log) : log[i].raised) => \E c : c \in ToSet(Raising)
  BY <1>2, <1>3
<1> QED BY <1>1, <1>4, <1>5, <1>6

\* An exception of the teardown is never lost: aclose() raises if and only if
\* something it called raised.
THEOREM TeardownErrorIsRaised == LifespanSpec => []TeardownErrorSurfaces
  BY SpecLifespanInv, ErrorSurfaces, PTL
=============================================================================
