------------------------- MODULE ResyncManagerProofs -------------------------
(***************************************************************************)
(* The safety of ResyncManager for any number of edits, direct calls and   *)
(* permits and any thresholds of its breaker: the type invariant, the two  *)
(* invariants of the run, and that the default never rolls AgentOS back.   *)
(***************************************************************************)
EXTENDS ResyncManager, CircuitBreakerProofs, FiniteSetTheorems, SequenceTheorems

\* The cycles inside the semaphore.
Held(ph) == {c \in DOMAIN ph : ph[c] \in Holding}

\* Every debounced cycle, and an event that waits to become one, stems from an
\* edit of its own, which bounds the cycles.
Counted ==
  /\ file.edit <= MaxEdits
  /\ Cardinality(Cycles \ manual) + (IF event THEN 1 ELSE 0) <= file.edit
  /\ Cardinality(manual) <= MaxManual

\* What a cycle has read is not newer than the file, nor, with one permit, older
\* than what AgentOS has.
Ordered ==
  /\ os.edit <= file.edit
  /\ \A c \in Cycles :
       phase[c] = "reread" =>
         /\ read[c].edit <= file.edit
         /\ max_concurrent = 1 => os.edit <= read[c].edit

IInv ==
  /\ TypeOK /\ Sound(breaker) /\ Counted /\ Ordered
  /\ ServesValidatedConfig /\ PermitsBalance

-----------------------------------------------------------------------------
(* Helpers *)

\* f gives each of n cycles an element of S.
Gives(f, n, S) == n \in Nat /\ f \in [1..n -> S]

\* What one more cycle does to a sequence over the cycles.
LEMMA AppendFunction ==
  ASSUME NEW S, NEW n, NEW f, Gives(f, n, S), NEW e \in S
  PROVE  /\ Len(Append(f, e)) = n + 1
         /\ Append(f, e) \in [1..n + 1 -> S]
         /\ \A i \in 1..n : Append(f, e)[i] = f[i]
         /\ Append(f, e)[n + 1] = e
<1>1. f \in Seq(S) /\ Len(f) = n /\ n \in Nat
  BY DEF Gives
<1>2. /\ Append(f, e) \in Seq(S) /\ Len(Append(f, e)) = n + 1
      /\ \A i \in 1..n : Append(f, e)[i] = f[i]
      /\ Append(f, e)[n + 1] = e
  BY <1>1, AppendProperties
<1> QED BY <1>2, LenProperties

\* The cycles are numbered without a gap, the debounced and the direct ones
\* between them.
LEMMA CyclesCounted ==
  ASSUME TypeOK
  PROVE  /\ Cycles = 1..Len(phase) /\ Len(phase) \in Nat
         /\ phase \in [1..Len(phase) -> Phases]
         /\ read \in [1..Len(phase) -> Config]
         /\ IsFiniteSet(manual) /\ IsFiniteSet(Cycles \ manual)
         /\ Cardinality(manual) \in Nat /\ Cardinality(Cycles \ manual) \in Nat
         /\ Cardinality(Cycles \ manual) + Cardinality(manual) = Len(phase)
<1>1. PICK n \in 0..MaxCycles : phase \in [1..n -> Phases]
  BY DEF TypeOK
<1>2. n \in Nat /\ Len(phase) = n /\ Cycles = 1..n
  BY <1>1, ResyncAssumption DEF MaxCycles, Cycles
<1>3. IsFiniteSet(Cycles) /\ Cardinality(Cycles) = n
  BY <1>2, FS_Interval
<1>4. manual \subseteq Cycles
  BY DEF TypeOK
<1>5. IsFiniteSet(manual) /\ IsFiniteSet(Cycles \ manual)
  BY <1>3, <1>4, FS_Subset
<1>6. Cardinality(Cycles \ manual) = Cardinality(Cycles) - Cardinality(Cycles \cap manual)
  BY <1>3, FS_Difference
<1>7. Cycles \cap manual = manual
  BY <1>4
<1>8. Cardinality(Cycles \ manual) \in Nat /\ Cardinality(manual) \in Nat
  BY <1>5, FS_CardinalityType
<1>9. Cardinality(Cycles \ manual) = n - Cardinality(manual)
  BY <1>3, <1>6, <1>7
<1>10. Cardinality(Cycles \ manual) + Cardinality(manual) = n
  BY <1>2, <1>8, <1>9
<1>11. read \in [1..n -> Config]
  BY <1>2 DEF TypeOK
<1> QED BY <1>1, <1>2, <1>5, <1>8, <1>10, <1>11

In(p) == IF p \in Holding THEN 1 ELSE 0

Moved(ph, q, c, p) == Cardinality(Held(q)) + In(ph[c]) = Cardinality(Held(ph)) + In(p)

\* A cycle that moves takes a permit's worth of Held with it.
LEMMA HeldMoves ==
  ASSUME NEW n, NEW ph, Gives(ph, n, Phases), NEW c \in 1..n, NEW p \in Phases,
         NEW q, q = [ph EXCEPT ![c] = p]
  PROVE  /\ q \in [1..n -> Phases]
         /\ Cardinality(Held(ph)) \in Nat /\ Cardinality(Held(q)) \in Nat
         /\ Moved(ph, q, c, p)
<1>1. /\ q \in [1..n -> Phases] /\ q[c] = p
      /\ \A d \in 1..n : d # c => q[d] = ph[d]
      /\ ph \in [1..n -> Phases] /\ n \in Nat
  BY DEF Gives
<1>2. Held(ph) \subseteq 1..n /\ Held(q) \subseteq 1..n
  BY <1>1 DEF Held
<1>3. IsFiniteSet(Held(ph)) /\ IsFiniteSet(Held(q))
  <2>1. IsFiniteSet(1..n)
    BY <1>1, FS_Interval
  <2> QED BY <1>2, <2>1, FS_Subset
<1>4. Cardinality(Held(ph)) \in Nat /\ Cardinality(Held(q)) \in Nat
  BY <1>3, FS_CardinalityType
<1>5. CASE p \in Holding /\ ph[c] \notin Holding
  <2>1. Held(q) = Held(ph) \union {c} /\ c \notin Held(ph)
    BY <1>1, <1>5 DEF Held
  <2>2. Cardinality(Held(q)) = Cardinality(Held(ph)) + 1
    BY <1>3, <2>1, FS_AddElement
  <2> QED BY <1>1, <1>3, <1>4, <1>5, <2>2 DEF In, Moved
<1>6. CASE p \notin Holding /\ ph[c] \in Holding
  <2>1. Held(ph) = Held(q) \union {c} /\ c \notin Held(q)
    BY <1>1, <1>6 DEF Held
  <2>2. Cardinality(Held(ph)) = Cardinality(Held(q)) + 1
    BY <1>3, <2>1, FS_AddElement
  <2> QED BY <1>1, <1>3, <1>4, <1>6, <2>2 DEF In, Moved
<1>7. CASE p \in Holding <=> ph[c] \in Holding
  <2>1. Held(q) = Held(ph)
    BY <1>1, <1>7 DEF Held
  <2> QED BY <1>1, <1>3, <1>4, <1>7, <2>1 DEF In, Moved
<1> QED BY <1>5, <1>6, <1>7

\* With one permit a cycle inside the semaphore is alone in it.
LEMMA OneHolds ==
  ASSUME IInv, max_concurrent = 1, NEW c \in Held(phase)
  PROVE  Held(phase) = {c}
<1>1. Cycles = 1..Len(phase) /\ Len(phase) \in Nat
  BY CyclesCounted DEF IInv
<1>2. IsFiniteSet(Held(phase))
  <2>1. IsFiniteSet(1..Len(phase))
    BY <1>1, FS_Interval
  <2>2. Held(phase) \subseteq 1..Len(phase)
    BY <1>1 DEF Held, Cycles
  <2> QED BY <2>1, <2>2, FS_Subset
<1>3. Cardinality(Held(phase)) \in Nat /\ permits \in Nat
  BY <1>2, FS_CardinalityType, ResyncAssumption DEF IInv, TypeOK
<1>4. permits + Cardinality(Held(phase)) = 1
  BY DEF IInv, PermitsBalance, Held, Cycles
<1>5. Cardinality(Held(phase)) # 0
  BY <1>2, FS_EmptySet
<1>6. Cardinality(Held(phase)) = 1
  BY <1>3, <1>4, <1>5
<1> QED BY <1>2, <1>6, FS_Singleton

-----------------------------------------------------------------------------
(* The steps *)

LEMMA InitIInv == Init => IInv
<1> SUFFICES ASSUME Init PROVE IInv
  OBVIOUS
<1>1. phase = <<>> /\ read = <<>> /\ Cycles = {} /\ manual = {}
  BY DEF Init, Cycles
<1>2. FirstConfig \in Config /\ NewAdapter(FirstConfig) \in Adapter
  BY DEF FirstConfig, Config, NewAdapter, Adapter
<1>3. Sound(breaker)
  BY NewBreakerSound DEF Init
<1>4. phase \in [1..0 -> Phases] /\ 0 \in 0..MaxCycles
  BY <1>1, ResyncAssumption DEF MaxCycles
<1>5. max_concurrent \in 1..MaxConcurrent /\ permits = max_concurrent /\ permits \in 0..MaxConcurrent
  BY ResyncAssumption DEF Init
<1>6. breaker \in Breaker
  BY <1>3 DEF Sound
<1>7. TypeOK
  <2>1. file \in Config /\ os \in Config /\ adapter \in Adapter
    BY <1>2 DEF Init
  <2>2. read \in [Cycles -> Config] /\ cancelling \subseteq Cycles /\ manual \subseteq Cycles
    BY <1>1 DEF Init
  <2>3. event \in BOOLEAN /\ attached \in BOOLEAN /\ debounce \in 0..MaxCycles
    BY <1>4 DEF Init
  <2> QED BY <1>4, <1>5, <1>6, <2>1, <2>2, <2>3 DEF TypeOK
<1>8. Counted
  BY <1>1, FS_EmptySet, ResyncAssumption DEF Counted, Init, FirstConfig
<1>9. Ordered
  BY <1>1 DEF Ordered, Init, FirstConfig
<1>10. ServesValidatedConfig
  BY DEF Init, ServesValidatedConfig, ServesValidated, NewAdapter, FirstConfig
<1>11. PermitsBalance
  <2>1. {c \in Cycles : phase[c] \in Holding} = {}
    BY <1>1
  <2> QED BY <1>1, <1>5, <2>1, FS_EmptySet, ResyncAssumption DEF PermitsBalance
<1> QED BY <1>3, <1>7, <1>8, <1>9, <1>10, <1>11 DEF IInv

\* A step of one cycle keeps the counts and the permits if it moves its permit.
LEMMA CycleKeeps ==
  ASSUME IInv, NEW c \in Cycles, NEW p \in Phases,
         phase' = [phase EXCEPT ![c] = p],
         UNCHANGED <<world, timers>>,
         p \in Over \/ phase[c] \notin Over,
         permits' \in Nat, permits' + In(p) = permits + In(phase[c])
  PROVE  /\ Cycles' = Cycles /\ \E n \in 0..MaxCycles : phase' \in [1..n -> Phases]
         /\ permits' \in 0..MaxConcurrent
         /\ Counted' /\ PermitsBalance'
         /\ \A d \in Cycles : phase'[d] = IF d = c THEN p ELSE phase[d]
<1>1. /\ Cycles = 1..Len(phase) /\ Len(phase) \in Nat
      /\ phase \in [1..Len(phase) -> Phases]
  BY CyclesCounted DEF IInv
<1>2. /\ phase' \in [1..Len(phase) -> Phases]
      /\ Cardinality(Held(phase)) \in Nat /\ Cardinality(Held(phase')) \in Nat
      /\ Cardinality(Held(phase')) + In(phase[c]) = Cardinality(Held(phase)) + In(p)
  <2>1. Gives(phase, Len(phase), Phases)
    BY <1>1 DEF Gives
  <2>2. c \in 1..Len(phase) /\ p \in Phases
    BY <1>1
  <2>3. /\ phase' \in [1..Len(phase) -> Phases]
        /\ Cardinality(Held(phase)) \in Nat /\ Cardinality(Held(phase')) \in Nat
        /\ Moved(phase, phase', c, p)
    BY <2>1, <2>2, HeldMoves
  <2> QED BY <2>3 DEF Moved
<1>3. \E n \in 0..MaxCycles : phase' \in [1..n -> Phases]
  <2>1. PICK n \in 0..MaxCycles : phase \in [1..n -> Phases]
    BY DEF IInv, TypeOK
  <2> QED BY <2>1
<1>4. Cycles' = Cycles /\ \A d \in Cycles : phase'[d] = IF d = c THEN p ELSE phase[d]
  BY <1>1 DEF Cycles
<1>5. In(p) \in Nat /\ In(phase[c]) \in Nat /\ permits \in Nat
  BY ResyncAssumption DEF In, IInv, TypeOK
<1>6. permits + Cardinality(Held(phase)) = max_concurrent
  BY DEF IInv, PermitsBalance, Held, Cycles
<1>7. permits' + Cardinality(Held(phase')) = max_concurrent
  <2> DEFINE held == Cardinality(Held(phase))
             heldThen == Cardinality(Held(phase'))
  <2>1. held \in Nat /\ heldThen \in Nat /\ heldThen + In(phase[c]) = held + In(p)
    BY <1>2
  <2>2. permits + held = max_concurrent
    BY <1>6
  <2> HIDE DEF held, heldThen
  <2>3. permits' + heldThen = max_concurrent
    BY <1>5, <2>1, <2>2
  <2> QED BY <2>3 DEF heldThen
<1>8. max_concurrent' = max_concurrent /\ max_concurrent \in 1..MaxConcurrent
  BY DEF world, IInv, TypeOK
<1>9. permits' \in 0..MaxConcurrent
  BY <1>2, <1>7, <1>8, ResyncAssumption
<1>10. PermitsBalance'
  <2>1. \A d \in Cycles \ manual : phase'[d] \notin Over /\ d \notin cancelling => d = debounce
    BY <1>4 DEF IInv, PermitsBalance
  <2> QED BY <1>4, <1>7, <1>8, <2>1 DEF PermitsBalance, Held, Cycles, timers
<1>11. Counted'
  BY <1>4 DEF IInv, Counted, world, timers
<1> QED BY <1>3, <1>4, <1>9, <1>10, <1>11

\* Every step of a cycle but the one that reads and the one that installs.
LEMMA QuietCycleIInv ==
  ASSUME IInv, NEW c \in Cycles,
         \/ NotAttached(c) \/ Park(c) \/ Enter(c) \/ Blocked(c) \/ ReloadFails(c) \/ Cancelled(c)
  PROVE  IInv'
<1>1. Sound(breaker') /\ Sound(breaker)
  BY AllowRequestSound, RecordFailureSound
  DEF IInv, NotAttached, Park, Enter, Blocked, ReloadFails, Cancelled, Fails
<1>2. /\ permits \in Nat /\ UNCHANGED <<world, served, timers, read>>
      /\ phase[c] \in Phases
  <2>1. phase \in [Cycles -> Phases]
    BY CyclesCounted DEF IInv
  <2> QED
    BY <2>1, ResyncAssumption
    DEF IInv, TypeOK, NotAttached, Park, Enter, Blocked, ReloadFails, Cancelled, Fails
<1> DEFINE Moves(p) ==
             /\ phase' = [phase EXCEPT ![c] = p]
             /\ p \in Over \/ phase[c] \notin Over
             /\ permits' \in Nat /\ permits' + In(p) = permits + In(phase[c])
           Quiet == Phases \ {"reread"}
<1>3. PICK p \in Quiet : Moves(p)
  <2>1. CASE NotAttached(c)
    <3>1. "unattached" \in Quiet /\ Moves("unattached")
      BY <1>2, <2>1 DEF NotAttached, Starting, Phases, Holding, Over, In
    <3> QED BY <3>1
  <2>2. CASE Park(c)
    <3>1. "waiting" \in Quiet /\ Moves("waiting")
      BY <1>2, <2>2 DEF Park, Starting, Phases, Holding, Over, In
    <3> QED BY <3>1
  <2>3. CASE Enter(c)
    <3>1. "reloading" \in Quiet /\ Moves("reloading")
      BY <1>2, <2>3 DEF Enter, GetsPermit, Starting, Phases, Holding, Over, In
    <3> QED BY <3>1
  <2>4. CASE Blocked(c)
    <3>1. "blocked" \in Quiet /\ Moves("blocked")
      BY <1>2, <2>4 DEF Blocked, GetsPermit, Starting, Phases, Holding, Over, In
    <3> QED BY <3>1
  <2>5. CASE ReloadFails(c)
    <3>1. "failed" \in Quiet /\ Moves("failed")
      BY <1>2, <2>5 DEF ReloadFails, Fails, Phases, Holding, Over, In
    <3> QED BY <3>1
  <2>6. CASE Cancelled(c)
    <3>1. "cancelled" \in Quiet /\ Moves("cancelled")
      BY <1>2, <2>6 DEF Cancelled, Phases, Holding, Over, In
    <3> QED BY <3>1
  <2> QED BY <2>1, <2>2, <2>3, <2>4, <2>5, <2>6
<1>4. /\ Cycles' = Cycles /\ \E n \in 0..MaxCycles : phase' \in [1..n -> Phases]
      /\ permits' \in 0..MaxConcurrent
      /\ Counted' /\ PermitsBalance'
      /\ \A d \in Cycles : phase'[d] = IF d = c THEN p ELSE phase[d]
  BY <1>2, <1>3, CycleKeeps
<1>5. TypeOK'
  BY <1>1, <1>2, <1>4 DEF IInv, TypeOK, Sound, world, served, timers
<1>6. Ordered'
  BY <1>2, <1>3, <1>4 DEF IInv, Ordered, world, served
<1>7. ServesValidatedConfig'
  BY <1>2 DEF IInv, ServesValidatedConfig, served
<1> QED BY <1>1, <1>4, <1>5, <1>6, <1>7 DEF IInv

LEMMA CoreReadsIInv == ASSUME IInv, NEW c \in Cycles, CoreReads(c) PROVE IInv'
<1>1. /\ permits \in Nat /\ phase[c] = "reloading" /\ "reread" \in Phases
      /\ phase' = [phase EXCEPT ![c] = "reread"] /\ read' = [read EXCEPT ![c] = file]
      /\ UNCHANGED <<world, served, timers, breaker, permits>>
  BY ResyncAssumption DEF CoreReads, IInv, TypeOK, Phases, Holding
<1>2. In("reread") = In(phase[c]) /\ phase[c] \notin Over
  BY <1>1 DEF In, Holding, Over
<1>3. /\ Cycles' = Cycles /\ \E n \in 0..MaxCycles : phase' \in [1..n -> Phases]
      /\ permits' \in 0..MaxConcurrent
      /\ Counted' /\ PermitsBalance'
      /\ \A d \in Cycles : phase'[d] = IF d = c THEN "reread" ELSE phase[d]
  BY <1>1, <1>2, CycleKeeps
<1>4. read' \in [Cycles -> Config] /\ \A d \in Cycles : read'[d] = IF d = c THEN file ELSE read[d]
  BY <1>1 DEF IInv, TypeOK
<1>5. TypeOK'
  BY <1>1, <1>3, <1>4 DEF IInv, TypeOK, world, served, timers
<1>6. Ordered'
  <2>1. file.edit \in Nat
    BY DEF IInv, TypeOK, Config
  <2> QED BY <1>1, <1>3, <1>4, <2>1 DEF IInv, Ordered, world, served
<1> QED BY <1>1, <1>3, <1>5, <1>6 DEF IInv, ServesValidatedConfig, served

LEMMA ApplyIInv ==
  ASSUME IInv, NEW c \in Cycles, Apply(c)
  PROVE  IInv' /\ (max_concurrent = 1 => os'.edit >= os.edit)
<1> DEFINE loaded == CoreReload(adapter, read[c])
<1>1. /\ phase[c] = "reread" /\ permits \in Nat /\ permits' = permits + 1
      /\ adapter' = Materialize(loaded)
      /\ UNCHANGED <<world, timers, read>>
  BY ResyncAssumption DEF Apply, Fails, IInv, TypeOK
<1>2. \/ /\ loaded.core.valid /\ os' = adapter'.snapshot
         /\ breaker' = RecordSuccess(breaker) /\ phase' = [phase EXCEPT ![c] = "done"]
      \/ /\ os' = os
         /\ breaker' = RecordFailure(breaker) /\ phase' = [phase EXCEPT ![c] = "failed"]
  BY DEF Apply, Fails
<1>3. PICK p \in {"done", "failed"} : phase' = [phase EXCEPT ![c] = p]
  BY <1>2
<1>4. /\ p \in Phases /\ p \in Over
      /\ permits' \in Nat /\ permits' + In(p) = permits + In(phase[c])
  BY <1>1 DEF Phases, Over, Holding, In
<1>5. /\ Cycles' = Cycles /\ \E n \in 0..MaxCycles : phase' \in [1..n -> Phases]
      /\ permits' \in 0..MaxConcurrent
      /\ Counted' /\ PermitsBalance'
      /\ \A d \in Cycles : phase'[d] = IF d = c THEN p ELSE phase[d]
  BY <1>1, <1>3, <1>4, CycleKeeps
<1>6. Sound(breaker')
  BY <1>2, RecordSuccessSound, RecordFailureSound DEF IInv
<1>7. read[c] \in Config /\ adapter \in Adapter /\ os \in Config
  BY DEF IInv, TypeOK
<1>8. /\ adapter' \in Adapter /\ ServesValidated(adapter')
      /\ loaded.core.valid => adapter'.snapshot = read[c] /\ read[c].valid
  BY <1>1, <1>7 DEF IInv, ServesValidatedConfig, ServesValidated, Materialize, CoreReload, Adapter
<1>9. os' \in Config /\ os'.valid /\ (os' = os \/ os' = read[c])
  BY <1>2, <1>7, <1>8 DEF IInv, ServesValidatedConfig
<1>10. TypeOK'
  BY <1>1, <1>5, <1>6, <1>8, <1>9 DEF IInv, TypeOK, Sound, world, timers
<1>11. /\ read[c].edit <= file.edit
       /\ max_concurrent = 1 => os.edit <= read[c].edit
       /\ os.edit \in Nat /\ read[c].edit \in Nat
  BY <1>1, <1>7 DEF IInv, Ordered, Config
<1>12. max_concurrent = 1 => \A d \in Cycles : phase[d] = "reread" => d = c
  <2> SUFFICES ASSUME max_concurrent = 1, NEW d \in Cycles, phase[d] = "reread"
               PROVE  d = c
    OBVIOUS
  <2>1. c \in Held(phase) /\ d \in Held(phase)
    BY <1>1 DEF Held, Cycles, Holding
  <2>2. Held(phase) = {c}
    BY <2>1, OneHolds
  <2> QED BY <2>1, <2>2
<1>13. Ordered'
  <2>1. os'.edit <= file.edit
    BY <1>9, <1>11 DEF IInv, Ordered
  <2>2. \A d \in Cycles : phase'[d] = "reread" => d # c /\ phase[d] = "reread"
    BY <1>4, <1>5 DEF Over
  <2> QED BY <1>1, <1>5, <1>12, <2>1, <2>2 DEF IInv, Ordered, world
<1>14. max_concurrent = 1 => os'.edit >= os.edit
  BY <1>9, <1>11
<1> QED BY <1>5, <1>6, <1>8, <1>9, <1>10, <1>13, <1>14 DEF IInv, ServesValidatedConfig

\* A cycle more, a debounced or a direct one: phase and read grow by one, and
\* the semaphore is not concerned.
LEMMA AppendKeeps ==
  ASSUME IInv, NEW p \in {"sleeping", "called"},
         phase' = Append(phase, p), read' = Append(read, FirstConfig)
  PROVE  /\ Len(phase') = Len(phase) + 1
         /\ phase' \in [1..Len(phase) + 1 -> Phases]
         /\ read' \in [1..Len(phase) + 1 -> Config]
         /\ Cycles' = 1..Len(phase) + 1
         /\ \A c \in Cycles : phase'[c] = phase[c] /\ read'[c] = read[c]
         /\ phase'[Len(phase) + 1] = p
         /\ Held(phase') = Held(phase)
<1>1. /\ Cycles = 1..Len(phase) /\ Len(phase) \in Nat
      /\ phase \in [1..Len(phase) -> Phases] /\ read \in [1..Len(phase) -> Config]
  BY CyclesCounted DEF IInv
<1>2. p \in Phases /\ p \notin Holding /\ FirstConfig \in Config
  BY DEF Phases, Holding, FirstConfig, Config
<1>3. /\ Len(phase') = Len(phase) + 1 /\ phase'[Len(phase) + 1] = p
      /\ \A c \in 1..Len(phase) : phase'[c] = phase[c]
  BY <1>1, SMT
<1>4. phase' \in [1..Len(phase) + 1 -> Phases]
  <2>1. phase \in Seq(Phases)
    BY <1>1
  <2>2. phase' \in Seq(Phases)
    BY <1>2, <2>1, AppendProperties
  <2> QED BY <1>3, <2>2, LenProperties
<1>5. /\ read' \in [1..Len(phase) + 1 -> Config]
      /\ \A c \in 1..Len(phase) : read'[c] = read[c]
  <2>1. Gives(read, Len(phase), Config)
    BY <1>1 DEF Gives
  <2>2. FirstConfig \in Config /\ read' = Append(read, FirstConfig)
    BY <1>2
  <2> QED BY <2>1, <2>2, AppendFunction
<1>6. Held(phase') = Held(phase)
  BY <1>1, <1>2, <1>3, <1>4 DEF Held
<1> QED BY <1>1, <1>3, <1>4, <1>5, <1>6 DEF Cycles

LEMMA DeliverEventIInv == ASSUME IInv, DeliverEvent PROVE IInv'
<1> DEFINE new == Len(phase) + 1
<1>1. /\ Cycles = 1..Len(phase) /\ Len(phase) \in Nat
      /\ IsFiniteSet(Cycles \ manual)
      /\ Cardinality(manual) \in Nat /\ Cardinality(Cycles \ manual) \in Nat
      /\ Cardinality(Cycles \ manual) + Cardinality(manual) = Len(phase)
  BY CyclesCounted DEF IInv
<1>2. /\ Len(phase') = new /\ phase' \in [1..new -> Phases] /\ read' \in [1..new -> Config]
      /\ Cycles' = 1..new
      /\ \A c \in Cycles : phase'[c] = phase[c] /\ read'[c] = read[c]
      /\ phase'[new] = "sleeping" /\ Held(phase') = Held(phase)
  BY AppendKeeps DEF DeliverEvent
<1>3. /\ event /\ event' = FALSE /\ debounce' = new
      /\ cancelling' = IF IsPending(debounce) THEN cancelling \union {debounce} ELSE cancelling
      /\ UNCHANGED <<served, max_concurrent, file, attached, breaker, permits, manual>>
  BY <1>2 DEF DeliverEvent
<1>4. /\ new \notin Cycles /\ manual \subseteq Cycles /\ Cycles' = Cycles \union {new}
  BY <1>1, <1>2 DEF IInv, TypeOK
<1>5. Cycles' \ manual' = (Cycles \ manual) \union {new} /\ new \notin Cycles \ manual
  BY <1>3, <1>4
<1>6. Cardinality(Cycles' \ manual') = Cardinality(Cycles \ manual) + 1
  <2>1. Cardinality((Cycles \ manual) \union {new}) = Cardinality(Cycles \ manual) + 1
    BY <1>1, <1>5, FS_AddElement
  <2> QED BY <1>5, <2>1
<1>7. Counted'
  BY <1>1, <1>3, <1>6 DEF IInv, Counted
<1>8. new \in 0..MaxCycles
  <2>1. file.edit \in Nat
    BY DEF IInv, TypeOK, Config
  <2> QED BY <1>1, <1>3, <2>1, ResyncAssumption DEF IInv, Counted, MaxCycles
<1>9. TypeOK'
  <2>1. \E n \in 0..MaxCycles : phase' \in [1..n -> Phases]
    BY <1>2, <1>8
  <2>2. cancelling' \subseteq Cycles'
    BY <1>3, <1>4 DEF IInv, TypeOK, IsPending
  <2> QED BY <1>2, <1>3, <1>4, <1>8, <2>1, <2>2 DEF IInv, TypeOK, served
<1>10. PermitsBalance'
  <2>1. permits' + Cardinality(Held(phase')) = max_concurrent'
    BY <1>2, <1>3 DEF IInv, PermitsBalance, Held, Cycles
  <2>2. ASSUME NEW c \in Cycles' \ manual', phase'[c] \notin Over, c \notin cancelling'
        PROVE  c = debounce'
    <3>1. CASE c \in Cycles
      <4>1. c \in Cycles \ manual /\ phase[c] \notin Over /\ c \notin cancelling
        BY <1>2, <1>3, <2>2, <3>1
      <4>2. c = debounce
        BY <4>1 DEF IInv, PermitsBalance
      <4> QED BY <1>3, <2>2, <4>1, <4>2 DEF IsPending
    <3>2. CASE c \notin Cycles
      BY <1>3, <1>4, <3>2
    <3> QED BY <3>1, <3>2
  <2> QED BY <2>1, <2>2 DEF PermitsBalance, Held, Cycles
<1>11. Ordered'
  BY <1>2, <1>3, <1>4 DEF IInv, Ordered, served
<1> QED BY <1>3, <1>7, <1>9, <1>10, <1>11 DEF IInv, ServesValidatedConfig, served

LEMMA CallResyncIInv == ASSUME IInv, CallResync PROVE IInv'
<1> DEFINE new == Len(phase) + 1
<1>1. /\ Cycles = 1..Len(phase) /\ Len(phase) \in Nat
      /\ IsFiniteSet(manual)
      /\ Cardinality(manual) \in Nat /\ Cardinality(Cycles \ manual) \in Nat
      /\ Cardinality(Cycles \ manual) + Cardinality(manual) = Len(phase)
  BY CyclesCounted DEF IInv
<1>2. /\ Len(phase') = new /\ phase' \in [1..new -> Phases] /\ read' \in [1..new -> Config]
      /\ Cycles' = 1..new
      /\ \A c \in Cycles : phase'[c] = phase[c] /\ read'[c] = read[c]
      /\ phase'[new] = "called" /\ Held(phase') = Held(phase)
  BY AppendKeeps DEF CallResync
<1>3. /\ Cardinality(manual) < MaxManual /\ manual' = manual \union {new}
      /\ UNCHANGED <<world, served, breaker, permits, debounce, cancelling>>
  BY <1>2 DEF CallResync
<1>4. /\ new \notin Cycles /\ manual \subseteq Cycles /\ Cycles' = Cycles \union {new}
  BY <1>1, <1>2 DEF IInv, TypeOK
<1>5. Cycles' \ manual' = Cycles \ manual /\ new \notin manual
  BY <1>3, <1>4
<1>6. Cardinality(manual') = Cardinality(manual) + 1
  BY <1>1, <1>3, <1>5, FS_AddElement
<1>7. Counted'
  <2>1. Cardinality(Cycles' \ manual') = Cardinality(Cycles \ manual)
    BY <1>5
  <2> QED BY <1>1, <1>3, <1>6, <2>1, ResyncAssumption DEF IInv, Counted, world
<1>8. new \in 0..MaxCycles
  <2>1. file.edit \in Nat
    BY DEF IInv, TypeOK, Config
  <2> QED BY <1>1, <1>3, <2>1, ResyncAssumption DEF IInv, Counted, MaxCycles
<1>9. TypeOK'
  <2>1. \E n \in 0..MaxCycles : phase' \in [1..n -> Phases]
    BY <1>2, <1>8
  <2> QED BY <1>2, <1>3, <1>4, <2>1 DEF IInv, TypeOK, world, served
<1>10. PermitsBalance'
  <2>1. permits' + Cardinality(Held(phase')) = max_concurrent'
    BY <1>2, <1>3 DEF IInv, PermitsBalance, Held, Cycles, world
  <2>2. \A c \in Cycles' \ manual' : phase'[c] \notin Over /\ c \notin cancelling' => c = debounce'
    BY <1>2, <1>3, <1>5 DEF IInv, PermitsBalance
  <2> QED BY <2>1, <2>2 DEF PermitsBalance, Held, Cycles
<1>11. Ordered'
  BY <1>2, <1>3, <1>4 DEF IInv, Ordered, world, served
<1> QED BY <1>3, <1>7, <1>9, <1>10, <1>11 DEF IInv, ServesValidatedConfig, served

LEMMA WorldIInv == ASSUME IInv, Edit \/ Tick \/ Attach \/ UNCHANGED vars PROVE IInv'
<1>1. Cycles' = Cycles /\ UNCHANGED <<served, timers, permits, phase, read, max_concurrent>>
  BY DEF Edit, Tick, Attach, vars, world, Cycles
<1>2. Sound(breaker')
  <2>1. CASE Tick
    BY <2>1, ClockSound, 0 \in Nat DEF Tick, IInv
  <2>2. CASE ~Tick
    BY <2>2 DEF Edit, Attach, vars, IInv
  <2> QED BY <2>1, <2>2
<1>3. file.edit \in Nat /\ file \in Config
  BY DEF IInv, TypeOK, Config
<1>0. event \in BOOLEAN /\ attached \in BOOLEAN /\ file.edit <= MaxEdits
  BY DEF IInv, TypeOK, Counted
<1>4. /\ file' \in Config /\ file.edit <= file'.edit /\ file'.edit <= MaxEdits
      /\ event' \in BOOLEAN /\ attached' \in BOOLEAN
      /\ \/ event' = event /\ file' = file
         \/ event' = TRUE /\ file'.edit = file.edit + 1
  <2>1. CASE Edit
    BY <1>0, <1>3, <2>1, ResyncAssumption DEF Edit, Config
  <2>2. CASE Tick \/ UNCHANGED vars
    <3>1. file' = file /\ event' = event /\ attached' = attached
      BY <2>2 DEF Tick, vars, world
    <3> QED BY <1>0, <1>3, <3>1
  <2>3. CASE Attach
    <3>1. file' = file /\ event' = event /\ attached' = TRUE
      BY <2>3 DEF Attach
    <3> QED BY <1>0, <1>3, <3>1
  <2> QED BY <2>1, <2>2, <2>3
<1>5. TypeOK'
  BY <1>1, <1>2, <1>4 DEF IInv, TypeOK, Sound, served, timers
<1>6. Counted'
  <2>1. Cardinality(Cycles \ manual) \in Nat
    BY CyclesCounted DEF IInv
  <2> QED BY <1>1, <1>3, <1>4, <2>1 DEF IInv, Counted, timers
<1>7. Ordered'
  <2>1. os.edit \in Nat /\ \A c \in Cycles : read[c].edit \in Nat
    BY DEF IInv, TypeOK, Config
  <2>2. file'.edit \in Nat
    BY <1>4 DEF Config
  <2> QED BY <1>1, <1>3, <1>4, <2>1, <2>2 DEF IInv, Ordered, served
<1>8. PermitsBalance' /\ ServesValidatedConfig'
  BY <1>1 DEF IInv, PermitsBalance, ServesValidatedConfig, served, timers
<1> QED BY <1>2, <1>5, <1>6, <1>7, <1>8 DEF IInv

LEMMA NextIInv == IInv /\ [Next]_vars => IInv'
<1> SUFFICES ASSUME IInv, [Next]_vars PROVE IInv'
  OBVIOUS
<1> QED
  BY WorldIInv, DeliverEventIInv, CallResyncIInv, QuietCycleIInv, CoreReadsIInv, ApplyIInv
  DEF Next, CycleStep

LEMMA SpecIInv == Spec => []IInv
  BY InitIInv, NextIInv, PTL DEF Spec

-----------------------------------------------------------------------------

\* The manager's fields and the cycles keep their types, the breaker its bounds.
THEOREM TypeCorrect == Spec => []TypeOK
<1>1. IInv => TypeOK
  BY DEF IInv
<1> QED BY <1>1, SpecIInv, PTL

\* What is served satisfied the settings model, and AgentOS never resynced to
\* anything else, however many reloads overlap, fail and are cancelled.
THEOREM ServesOnlyValidated == Spec => []ServesValidatedConfig
<1>1. IInv => ServesValidatedConfig
  BY DEF IInv
<1> QED BY <1>1, SpecIInv, PTL

\* No way out of resync_now leaks a permit, and at most one debounced cycle is
\* still going to resync.
THEOREM PermitsComeBack == Spec => []PermitsBalance
<1>1. IInv => PermitsBalance
  BY DEF IInv
<1> QED BY <1>1, SpecIInv, PTL

\* With the default of one permit AgentOS never goes back to an older
\* configuration.
THEOREM DefaultNeverRollsBack == Spec => NeverRollsBack
<1> DEFINE Forward == max_concurrent = 1 => os'.edit >= os.edit
<1>1. IInv /\ [Next]_vars => [Forward]_vars
  <2> SUFFICES ASSUME IInv, Next PROVE Forward
    OBVIOUS
  <2>1. ASSUME NEW c \in Cycles, Apply(c) PROVE Forward
    BY <2>1, ApplyIInv
  <2>2. ASSUME os' = os PROVE Forward
    <3>1. os.edit \in Nat
      BY DEF IInv, TypeOK, Config
    <3> QED BY <2>2, <3>1
  <2>3. ASSUME NEW c \in Cycles, CycleStep(c), ~Apply(c) PROVE os' = os
    BY <2>3
    DEF CycleStep, NotAttached, Park, Enter, Blocked, CoreReads, ReloadFails, Cancelled, served
  <2>4. ASSUME Edit \/ Tick \/ Attach \/ DeliverEvent \/ CallResync PROVE os' = os
    BY <2>4 DEF Edit, Tick, Attach, DeliverEvent, CallResync, served
  <2> HIDE DEF Forward
  <2> QED BY <2>1, <2>2, <2>3, <2>4 DEF Next
<1> QED BY <1>1, SpecIInv, PTL DEF Spec, NeverRollsBack
=============================================================================
