------------------------- MODULE StepExecutorProofs -------------------------
(***************************************************************************)
(* StepExecutor for any finite set of works, any number of retries and any *)
(* thresholds: the type invariant, why a task raises, what the TaskGroup   *)
(* leaves behind, that the breaker observes every attempt, and that the    *)
(* attempts keep the breaker's promise.                                    *)
(***************************************************************************)
EXTENDS StepExecutor, CircuitBreakerProofs, FoldLemmas

PcValues == {"ready", "working", "sleeping"} \union Finished
Returned == {t \in Tasks : pc[t] = "returned"}

\* A group that aborts by itself has a task that raised, and only an abort
\* cancels a task.
AbortsForCause ==
  /\ group = "aborting" => SomeRaised
  /\ group = "running" => \A t \in Tasks : pc[t] # "cancelled"

\* An executor without a breaker has none that opens.
NoBreakerNoGate == ~has_breaker => breaker.state = "closed"

IInv ==
  /\ TypeOK /\ Sound(breaker) /\ NoBreakerNoGate
  /\ RaisesForCause
  /\ AbortsForCause /\ GroupAccountsForTasks

-----------------------------------------------------------------------------

LEMMA InitIInv == Init => IInv
<1> SUFFICES ASSUME Init PROVE IInv
  OBVIOUS
<1>1. Sound(breaker) /\ breaker.state = "closed"
  BY NewBreakerSound DEF Init, NewBreaker
<1>2. TypeOK
  BY <1>1, StepAssumption DEF Init, TypeOK, Sound
<1>3. RaisesForCause /\ AbortsForCause /\ NoBreakerNoGate
  BY <1>1 DEF Init, RaisesForCause, AbortsForCause, NoBreakerNoGate
<1>4. GroupAccountsForTasks
  <2>1. {t \in Tasks : pc[t] = "returned"} = {} /\ Len(results) = 0
    BY DEF Init
  <2>2. {results[i] : i \in 1..Len(results)} = {}
    BY <2>1
  <2> QED BY <2>1, <2>2, FS_EmptySet DEF Init, GroupAccountsForTasks, GroupEnded
<1> QED BY <1>1, <1>2, <1>3, <1>4 DEF IInv

\* A task moves while the group is not over.  What the group promises survives
\* if the task neither leaves nor joins those that returned.
LEMMA TaskMoves ==
  ASSUME IInv, NEW t \in Tasks, NEW to \in PcValues \ {"returned"},
         pc[t] \notin Finished, pc' = [pc EXCEPT ![t] = to],
         UNCHANGED <<group, results>>,
         group \notin GroupEnded,
         group = "running" => to # "cancelled"
  PROVE  /\ pc' \in [Tasks -> PcValues]
         /\ \A u \in Tasks : pc'[u] = IF u = t THEN to ELSE pc[u]
         /\ AbortsForCause' /\ GroupAccountsForTasks'
<1>1. pc \in [Tasks -> PcValues]
  BY DEF IInv, TypeOK, PcValues
<1>2. pc' \in [Tasks -> PcValues] /\ \A u \in Tasks : pc'[u] = IF u = t THEN to ELSE pc[u]
  BY <1>1
<1>3. {u \in Tasks : pc'[u] = "returned"} = {u \in Tasks : pc[u] = "returned"}
  BY <1>2 DEF Finished
<1>4. GroupAccountsForTasks'
  BY <1>3 DEF IInv, GroupAccountsForTasks, GroupEnded
<1>5. AbortsForCause'
  BY <1>2 DEF IInv, AbortsForCause, SomeRaised, Finished
<1> QED BY <1>2, <1>4, <1>5

LEMMA StartIInv == ASSUME IInv, NEW t \in Tasks, StartAttempt(t) PROVE IInv'
<1>1. /\ pc[t] \notin Finished /\ group = "running" /\ group \notin GroupEnded
      /\ pc' = [pc EXCEPT ![t] = "working"] /\ "working" \in PcValues \ {"returned"}
      /\ UNCHANGED <<mode, attempt, error, results, reports, group>>
  BY DEF StartAttempt, Finished, GroupEnded, PcValues
<1>2. /\ pc' \in [Tasks -> PcValues]
      /\ \A u \in Tasks : pc'[u] = IF u = t THEN "working" ELSE pc[u]
      /\ AbortsForCause' /\ GroupAccountsForTasks'
  BY <1>1, TaskMoves
<1>3. Sound(breaker')
  BY AllowRequestSound DEF IInv, StartAttempt
<1>4. TypeOK'
  BY <1>1, <1>2, <1>3 DEF IInv, TypeOK, Sound, PcValues, mode
<1>5. RaisesForCause' /\ NoBreakerNoGate'
  BY <1>1, <1>2 DEF IInv, RaisesForCause, NoBreakerNoGate, StartAttempt, mode
<1> QED BY <1>2, <1>3, <1>4, <1>5 DEF IInv

LEMMA RejectIInv == ASSUME IInv, NEW t \in Tasks, RejectAttempt(t) PROVE IInv'
<1>1. /\ pc[t] \notin Finished /\ group = "running" /\ group \notin GroupEnded
      /\ pc' = [pc EXCEPT ![t] = "raised"] /\ "raised" \in PcValues \ {"returned"}
      /\ error' = [error EXCEPT ![t] = OpenError] /\ reports' = reports + 1
      /\ UNCHANGED <<mode, breaker, attempt, results, group>>
  BY DEF RejectAttempt, Finished, GroupEnded, PcValues
<1>2. /\ pc' \in [Tasks -> PcValues]
      /\ \A u \in Tasks : pc'[u] = IF u = t THEN "raised" ELSE pc[u]
      /\ AbortsForCause' /\ GroupAccountsForTasks'
  BY <1>1, TaskMoves
<1>3. /\ error' \in [Tasks -> Errors \union {"none", OpenError}]
      /\ \A u \in Tasks : error'[u] = IF u = t THEN OpenError ELSE error[u]
  BY <1>1 DEF IInv, TypeOK
<1>4. TypeOK'
  BY <1>1, <1>2, <1>3 DEF IInv, TypeOK, PcValues, mode
<1>5. RaisesForCause' /\ NoBreakerNoGate'
  BY <1>1, <1>2, <1>3
  DEF IInv, RaisesForCause, IsRetryable, OpenError, NoBreakerNoGate, mode
<1> QED BY <1>1, <1>2, <1>4, <1>5 DEF IInv

LEMMA FailsIInv ==
  ASSUME IInv, NEW t \in Tasks, NEW class \in Errors, WorkFails(t, class)
  PROVE  IInv'
<1>1. /\ pc[t] \notin Finished /\ group = "running" /\ group \notin GroupEnded
      /\ UNCHANGED <<mode, results, group>>
  BY DEF WorkFails, Finished, GroupEnded
<1>2. Sound(breaker') /\ NoBreakerNoGate'
  BY <1>1, RecordFailureSound DEF IInv, WorkFails, NoBreakerNoGate, mode
<1>3. CASE Retries(t, class)
  <2>1. /\ pc' = [pc EXCEPT ![t] = "sleeping"] /\ "sleeping" \in PcValues \ {"returned"}
        /\ reports' = reports + 1 /\ error' = error
        /\ attempt' = [attempt EXCEPT ![t] = @ + 1] /\ attempt[t] < MaxRetries
    BY <1>3 DEF WorkFails, Retries, PcValues
  <2>2. /\ pc' \in [Tasks -> PcValues]
        /\ \A u \in Tasks : pc'[u] = IF u = t THEN "sleeping" ELSE pc[u]
        /\ AbortsForCause' /\ GroupAccountsForTasks'
    BY <1>1, <2>1, TaskMoves
  <2>3. attempt[t] + 1 \in 0..MaxRetries
    BY <2>1, StepAssumption DEF IInv, TypeOK
  <2>4. /\ attempt' \in [Tasks -> 0..MaxRetries]
        /\ \A u \in Tasks : u # t => attempt'[u] = attempt[u]
    BY <2>1, <2>3 DEF IInv, TypeOK
  <2>5. TypeOK'
    BY <1>1, <1>2, <2>1, <2>2, <2>4 DEF IInv, TypeOK, Sound, PcValues, mode
  <2>6. RaisesForCause'
    BY <1>1, <2>1, <2>2, <2>4 DEF IInv, RaisesForCause, mode
  <2> QED BY <1>2, <2>2, <2>5, <2>6 DEF IInv
<1>4. CASE ~Retries(t, class)
  <2>1. /\ pc' = [pc EXCEPT ![t] = "raised"] /\ "raised" \in PcValues \ {"returned"}
        /\ error' = [error EXCEPT ![t] = class] /\ UNCHANGED <<reports, attempt>>
    BY <1>4 DEF WorkFails, PcValues, Finished
  <2>2. /\ pc' \in [Tasks -> PcValues]
        /\ \A u \in Tasks : pc'[u] = IF u = t THEN "raised" ELSE pc[u]
        /\ AbortsForCause' /\ GroupAccountsForTasks'
    BY <1>1, <2>1, TaskMoves
  <2>3. /\ error' \in [Tasks -> Errors \union {"none", OpenError}]
        /\ \A u \in Tasks : error'[u] = IF u = t THEN class ELSE error[u]
    BY <2>1 DEF IInv, TypeOK
  <2>4. TypeOK'
    BY <1>1, <1>2, <2>1, <2>2, <2>3 DEF IInv, TypeOK, Sound, PcValues, mode
  <2>5. attempt[t] \in 0..MaxRetries
    BY DEF IInv, TypeOK
  <2>6. ~IsRetryable(class) \/ ~has_retry \/ attempt[t] = MaxRetries
    BY <1>4, <2>5, StepAssumption DEF Retries
  <2>7. RaisesForCause'
    BY <1>1, <2>1, <2>2, <2>3, <2>6 DEF IInv, RaisesForCause, mode
  <2> QED BY <1>2, <2>2, <2>4, <2>7 DEF IInv
<1> QED BY <1>3, <1>4

LEMMA CancelIInv == ASSUME IInv, NEW t \in Tasks, CancelTask(t) PROVE IInv'
<1>1. /\ pc[t] \notin Finished /\ group \notin GroupEnded /\ group # "running"
      /\ pc' = [pc EXCEPT ![t] = "cancelled"] /\ "cancelled" \in PcValues \ {"returned"}
      /\ UNCHANGED <<mode, breaker, attempt, error, results, reports, group>>
  BY DEF CancelTask, Finished, Aborting, GroupEnded, PcValues
<1>2. /\ pc' \in [Tasks -> PcValues]
      /\ \A u \in Tasks : pc'[u] = IF u = t THEN "cancelled" ELSE pc[u]
      /\ AbortsForCause' /\ GroupAccountsForTasks'
  BY <1>1, TaskMoves
<1>3. TypeOK'
  BY <1>1, <1>2 DEF IInv, TypeOK, PcValues, mode
<1>4. RaisesForCause' /\ NoBreakerNoGate'
  BY <1>1, <1>2 DEF IInv, RaisesForCause, NoBreakerNoGate, mode
<1> QED BY <1>1, <1>2, <1>3, <1>4 DEF IInv

\* The result of a work that returns is appended, and was not there before.
LEMMA SucceedsIInv == ASSUME IInv, NEW t \in Tasks, WorkSucceeds(t) PROVE IInv'
<1>1. /\ pc[t] = "working" /\ group = "running" /\ group \notin GroupEnded
      /\ pc' = [pc EXCEPT ![t] = "returned"] /\ "returned" \in PcValues
      /\ results' = Append(results, t)
      /\ UNCHANGED <<mode, attempt, error, reports, group>>
  BY DEF WorkSucceeds, GroupEnded, PcValues, Finished
<1>2. pc \in [Tasks -> PcValues] /\ results \in Seq(Tasks)
  BY DEF IInv, TypeOK, PcValues
<1>3. pc' \in [Tasks -> PcValues] /\ \A u \in Tasks : pc'[u] = IF u = t THEN "returned" ELSE pc[u]
  BY <1>1, <1>2
<1>4. Sound(breaker') /\ NoBreakerNoGate'
  BY <1>1, RecordSuccessSound DEF IInv, WorkSucceeds, NoBreakerNoGate, mode
<1>5. /\ results' \in Seq(Tasks) /\ Len(results') = Len(results) + 1 /\ Len(results) \in Nat
      /\ \A i \in 1..Len(results) : results'[i] = results[i]
      /\ results'[Len(results) + 1] = t
  BY <1>1, <1>2, AppendProperties
<1>6. TypeOK'
  BY <1>1, <1>3, <1>4, <1>5 DEF IInv, TypeOK, Sound, PcValues, mode
<1>7. RaisesForCause' /\ AbortsForCause'
  BY <1>1, <1>3 DEF IInv, RaisesForCause, AbortsForCause, SomeRaised, mode
<1>8. Returned' = Returned \union {t} /\ t \notin Returned
  BY <1>1, <1>3 DEF Returned
<1>9. /\ {results[i] : i \in 1..Len(results)} = Returned
      /\ Len(results) = Cardinality(Returned)
  BY DEF IInv, GroupAccountsForTasks, Returned
<1>10. Cardinality(Returned') = Cardinality(Returned) + 1
  <2>1. IsFiniteSet(Returned)
    BY StepAssumption, FS_Subset DEF Returned
  <2>2. Cardinality(Returned \union {t}) = Cardinality(Returned) + 1
    BY <1>8, <2>1, FS_AddElement
  <2> QED BY <1>8, <2>2
<1>11. {results'[i] : i \in 1..Len(results')} = {results[i] : i \in 1..Len(results)} \union {t}
  <2>1. 1..Len(results') = 1..Len(results) \union {Len(results) + 1}
    BY <1>5
  <2> QED BY <1>5, <2>1
<1>12. GroupAccountsForTasks'
  <2>1. /\ {results'[i] : i \in 1..Len(results')} = Returned'
        /\ Len(results') = Cardinality(Returned')
    BY <1>5, <1>8, <1>9, <1>10, <1>11
  <2> QED BY <1>1, <2>1 DEF GroupAccountsForTasks, Returned, GroupEnded
<1> QED BY <1>4, <1>6, <1>7, <1>12 DEF IInv

LEMMA GroupIInv == ASSUME IInv, Abort \/ CallerCancelled \/ Join PROVE IInv'
<1>1. UNCHANGED <<mode, breaker, pc, attempt, error, results, reports>>
  BY DEF Abort, CallerCancelled, Join
<1>2. group' \in {"aborting", "aborting_cancelled"} \union GroupEnded
  BY DEF Abort, CallerCancelled, Join, GroupEnded
<1>3. TypeOK' /\ RaisesForCause' /\ NoBreakerNoGate'
  BY <1>1, <1>2 DEF IInv, TypeOK, RaisesForCause, NoBreakerNoGate, mode
<1>4. AbortsForCause'
  BY <1>1, <1>2 DEF Abort, CallerCancelled, Join, AbortsForCause, SomeRaised, GroupEnded
<1>5. /\ group' \in GroupEnded => AllFinished
      /\ group' = "returned" => \A t \in Tasks : pc[t] = "returned"
      /\ group' = "failed" => SomeRaised
  <2>1. CASE Abort \/ CallerCancelled
    BY <2>1 DEF Abort, CallerCancelled, GroupEnded
  <2>2. CASE Join
    <3>1. /\ AllFinished
          /\ group' = IF SomeRaised THEN "failed"
                      ELSE IF group = "aborting_cancelled" THEN "cancelled" ELSE "returned"
      BY <2>2 DEF Join
    <3>2. group' = "returned" => group = "running"
      BY <2>2, <3>1 DEF IInv, TypeOK, AbortsForCause, Join
    <3> QED BY <3>1, <3>2 DEF IInv, AbortsForCause, AllFinished, SomeRaised, Finished
  <2> QED BY <2>1, <2>2
<1>6. GroupAccountsForTasks'
  BY <1>1, <1>5 DEF IInv, GroupAccountsForTasks, AllFinished, SomeRaised
<1> QED BY <1>1, <1>3, <1>4, <1>6 DEF IInv

LEMMA NextIInv == IInv /\ [Next]_vars => IInv'
<1> SUFFICES ASSUME IInv, [Next]_vars PROVE IInv'
  OBVIOUS
<1>1. CASE Tick
  <2>1. Sound(breaker') /\ breaker'.state = breaker.state
    BY <1>1, ClockSound, 0 \in Nat DEF Tick, IInv, ClockTicks, Sound, Breaker
  <2> QED
    BY <1>1, <2>1, ZenonT(40)
    DEF Tick, IInv, TypeOK, Sound, RaisesForCause, NoBreakerNoGate, AbortsForCause, SomeRaised,
        GroupAccountsForTasks, AllFinished, mode
<1>2. CASE UNCHANGED vars
  BY <1>2, ZenonT(40)
  DEF vars, IInv, TypeOK, RaisesForCause, NoBreakerNoGate, AbortsForCause, SomeRaised,
      GroupAccountsForTasks, AllFinished
<1> QED
  BY <1>1, <1>2, StartIInv, RejectIInv, FailsIInv, CancelIInv, SucceedsIInv, GroupIInv
  DEF Next, TaskStep

LEMMA SpecIInv == Spec => []IInv
  BY InitIInv, NextIInv, PTL DEF Spec

-----------------------------------------------------------------------------

\* The executor's fields, its tasks and its breaker keep their types.
THEOREM TypeCorrect == Spec => []TypeOK
<1>1. IInv => TypeOK
  BY DEF IInv
<1> QED BY <1>1, SpecIInv, PTL

\* A task raises only an error that no retry is left for.
THEOREM RaisesOnlyForCause == Spec => []RaisesForCause
<1>1. IInv => RaisesForCause
  BY DEF IInv
<1> QED BY <1>1, SpecIInv, PTL

\* The TaskGroup is structured: it leaves no task behind, and its end and its
\* results tell what became of the works.
THEOREM GroupIsStructured == Spec => []GroupAccountsForTasks
<1>1. IInv => GroupAccountsForTasks
  BY DEF IInv
<1> QED BY <1>1, SpecIInv, PTL

-----------------------------------------------------------------------------
(* AttemptsBalance, over IInv *)

\* Only a task that raised has an error, so an open circuit ends a task once.
ErrorsAreRaised == \A t \in Tasks : pc[t] # "raised" => error[t] = "none"

SeenByTask == [t \in Tasks |-> Seen(t)]

\* What the code adds to AttemptsBalance: the last retry is not reported.
ExactBalance ==
  /\ has_breaker => breaker.total_requests = SumFunction(SeenByTask)
  /\ reports = SumFunction(attempt) + Cardinality(Opened)

Balance == ExactBalance /\ ErrorsAreRaised

\* Where one task has moved, the sums change by what that task's terms do.
LEMMA TermsChange ==
  ASSUME TypeOK, TypeOK', NEW t \in Tasks,
         \A u \in Tasks \ {t} : pc'[u] = pc[u] /\ attempt'[u] = attempt[u] /\ error'[u] = error[u]
  PROVE  /\ SumFunction(SeenByTask') = SumFunction(SeenByTask) + (Seen(t)' - Seen(t))
         /\ SumFunction(attempt') = SumFunction(attempt) + (attempt'[t] - attempt[t])
         /\ SumFunction(SeenByTask) \in Int /\ SumFunction(attempt) \in Int
         /\ Seen(t) \in Int /\ Seen(t)' \in Int
<1>1. attempt \in [Tasks -> Int] /\ attempt' \in [Tasks -> Int]
  BY StepAssumption DEF TypeOK
<1>2. SeenByTask \in [Tasks -> Int] /\ SeenByTask' \in [Tasks -> Int]
  BY <1>1 DEF SeenByTask, Seen
<1>3. \A u \in Tasks \ {t} : SeenByTask'[u] = SeenByTask[u]
  BY DEF SeenByTask, Seen
<1>4. SumFunction(SeenByTask') = SumFunction(SeenByTask) + (SeenByTask'[t] - SeenByTask[t])
  BY <1>2, <1>3, SumChanges, StepAssumption
<1>5. SumFunction(attempt') = SumFunction(attempt) + (attempt'[t] - attempt[t])
  BY <1>1, SumChanges, StepAssumption
<1>6. SumFunction(SeenByTask) \in Int /\ SumFunction(attempt) \in Int
  BY <1>1, <1>2, SumType, StepAssumption
<1> QED BY <1>2, <1>4, <1>5, <1>6 DEF SeenByTask

\* The breaker counts an outcome once, and nothing else.
LEMMA OutcomesCounted ==
  ASSUME NEW b \in Breaker
  PROVE  /\ RecordSuccess(b).total_requests = b.total_requests + 1
         /\ RecordFailure(b).total_requests = b.total_requests + 1
         /\ AllowRequest(b).total_requests = b.total_requests
         /\ ClockTicks(b).total_requests = b.total_requests
<1>1. RecordSuccess(b).total_requests = b.total_requests + 1
  BY DEF RecordSuccess, Breaker
<1>2. RecordFailure(b).total_requests = b.total_requests + 1
  BY DEF RecordFailure, Breaker
<1>3. AllowRequest(b).total_requests = b.total_requests
  BY DEF AllowRequest, Breaker
<1>4. ClockTicks(b).total_requests = b.total_requests
  BY DEF ClockTicks, Breaker
<1> QED BY <1>1, <1>2, <1>3, <1>4

LEMMA InitBalance == Init => Balance
<1> SUFFICES ASSUME Init PROVE Balance
  OBVIOUS
<1>1. ErrorsAreRaised /\ Opened = {}
  BY DEF Init, ErrorsAreRaised, Opened, OpenError
<1>2. \A t \in Tasks : SeenByTask[t] \in {0} /\ attempt[t] \in {0}
  BY DEF Init, SeenByTask, Seen
<1>3. SumFunction(SeenByTask) \in {0} /\ SumFunction(attempt) \in {0}
  <2>1. DOMAIN SeenByTask = Tasks /\ DOMAIN attempt = Tasks
    BY DEF Init, SeenByTask
  <2>2. 0 \in {0} /\ \A m, n \in {0} : m + n \in {0}
    OBVIOUS
  <2>3. IsFiniteSet(Tasks)
    BY StepAssumption
  <2>4. SumFunction(SeenByTask) \in {0}
    BY <1>2, <2>1, <2>2, <2>3, SumType
  <2>5. SumFunction(attempt) \in {0}
    BY <1>2, <2>1, <2>2, <2>3, SumType
  <2> QED BY <2>4, <2>5
<1>4. breaker.total_requests = SumFunction(SeenByTask) /\ breaker.total_requests = 0
  BY <1>3 DEF Init, NewBreaker
<1>5. reports = SumFunction(attempt) + Cardinality(Opened)
  BY <1>1, <1>3, FS_EmptySet DEF Init
<1> QED BY <1>1, <1>4, <1>5, Zenon DEF Balance, ExactBalance, SeenByTask, Opened

\* An attempt that starts, and a task that is cancelled, have no outcome yet.
LEMMA NoOutcomeBalance ==
  ASSUME IInv, IInv', Balance, NEW t \in Tasks, StartAttempt(t) \/ CancelTask(t)
  PROVE  Balance'
<1>1. /\ pc[t] \notin Finished
      /\ \E to \in {"working", "cancelled"} : pc' = [pc EXCEPT ![t] = to]
      /\ UNCHANGED <<attempt, error, reports, has_breaker>>
      /\ breaker' = breaker \/ breaker' = AllowRequest(breaker)
  BY DEF StartAttempt, CancelTask, Finished, mode
<1>2. TypeOK /\ TypeOK' /\ breaker \in Breaker
  BY DEF IInv, TypeOK
<1>3. /\ pc'[t] \in {"working", "cancelled"}
      /\ \A u \in Tasks \ {t} : pc'[u] = pc[u]
  BY <1>1, <1>2 DEF TypeOK
<1>4. Seen(t)' = Seen(t)
  BY <1>1, <1>3 DEF Seen, Finished
<1>5. SumFunction(SeenByTask') = SumFunction(SeenByTask)
  BY <1>1, <1>2, <1>3, <1>4, TermsChange
<1>6. breaker'.total_requests = breaker.total_requests
  BY <1>1, <1>2, OutcomesCounted
<1>7. ExactBalance'
  BY <1>1, <1>5, <1>6 DEF Balance, ExactBalance, Opened
<1>8. ErrorsAreRaised'
  BY <1>1, <1>3 DEF Balance, ErrorsAreRaised, Finished
<1> QED BY <1>7, <1>8 DEF Balance

\* An attempt that the breaker rejects is not observed, but reported.
LEMMA RejectBalance ==
  ASSUME IInv, IInv', Balance, NEW t \in Tasks, RejectAttempt(t)
  PROVE  Balance'
<1>1. /\ pc[t] \in {"ready", "sleeping"} /\ pc' = [pc EXCEPT ![t] = "raised"]
      /\ error' = [error EXCEPT ![t] = OpenError] /\ reports' = reports + 1
      /\ UNCHANGED <<attempt, breaker, has_breaker>>
  BY DEF RejectAttempt, mode
<1>2. TypeOK /\ TypeOK'
  BY DEF IInv
<1>3. /\ pc'[t] = "raised" /\ error'[t] = OpenError
      /\ \A u \in Tasks \ {t} : pc'[u] = pc[u] /\ error'[u] = error[u]
  BY <1>1, <1>2 DEF TypeOK
<1>4. SumFunction(SeenByTask') = SumFunction(SeenByTask)
  <2>1. Seen(t)' = Seen(t)
    BY <1>1, <1>3 DEF Seen
  <2> QED BY <1>1, <1>2, <1>3, <2>1, TermsChange
<1>5. error[t] = "none"
  BY <1>1 DEF Balance, ErrorsAreRaised
<1>6. Cardinality(Opened') = Cardinality(Opened) + 1 /\ Cardinality(Opened) \in Int
  <2>1. Opened' = Opened \union {t} /\ t \notin Opened
    BY <1>3, <1>5 DEF Opened, OpenError
  <2>2. IsFiniteSet(Opened)
    BY StepAssumption, FS_Subset DEF Opened
  <2> QED BY <2>1, <2>2, FS_AddElement, FS_CardinalityType
<1>7. ExactBalance'
  <2>1. SumFunction(attempt) \in Int
    BY <1>1, <1>2, <1>3, TermsChange
  <2> QED BY <1>1, <1>4, <1>6, <2>1 DEF Balance, ExactBalance, SeenByTask, Opened
<1>8. ErrorsAreRaised'
  BY <1>3 DEF Balance, ErrorsAreRaised
<1> QED BY <1>7, <1>8 DEF Balance

\* The outcome of an attempt is observed once, and a retry is reported.
LEMMA OutcomeBalance ==
  ASSUME IInv, IInv', Balance, NEW t \in Tasks,
         WorkSucceeds(t) \/ \E class \in Errors : WorkFails(t, class)
  PROVE  Balance'
<1>1. pc[t] = "working" /\ UNCHANGED has_breaker
  BY DEF WorkSucceeds, WorkFails, mode
<1>2. TypeOK /\ TypeOK' /\ breaker \in Breaker /\ breaker.total_requests \in Int
  BY DEF IInv, TypeOK, Breaker
<1>3. has_breaker => breaker'.total_requests = breaker.total_requests + 1
  BY <1>2, OutcomesCounted DEF WorkSucceeds, WorkFails
<1>4. error[t] = "none" /\ error[t] # OpenError
  BY <1>1 DEF Balance, ErrorsAreRaised, OpenError
<1>5. PICK n \in {0, 1} :
        /\ attempt'[t] = attempt[t] + n /\ reports' = reports + n
        /\ Seen(t)' = Seen(t) + 1
        /\ \A u \in Tasks \ {t} : /\ pc'[u] = pc[u] /\ attempt'[u] = attempt[u]
                                  /\ error'[u] = error[u]
        /\ error'[t] # OpenError /\ (pc'[t] # "raised" => error'[t] = "none")
  <2>0. attempt[t] \in Int /\ reports \in Int
    BY <1>2, StepAssumption DEF TypeOK
  <2>1. CASE WorkSucceeds(t)
    <3>1. /\ pc'[t] = "returned" /\ UNCHANGED <<attempt, error, reports>>
          /\ \A u \in Tasks \ {t} : pc'[u] = pc[u]
      BY <1>2, <2>1 DEF WorkSucceeds, TypeOK
    <3>2. Seen(t)' = Seen(t) + 1
      BY <1>1, <2>0, <3>1 DEF Seen
    <3> QED BY <1>4, <2>0, <3>1, <3>2
  <2>2. ASSUME NEW class \in Errors, WorkFails(t, class), Retries(t, class)
        PROVE  /\ attempt'[t] = attempt[t] + 1 /\ reports' = reports + 1
               /\ Seen(t)' = Seen(t) + 1
               /\ \A u \in Tasks \ {t} : /\ pc'[u] = pc[u] /\ attempt'[u] = attempt[u]
                                         /\ error'[u] = error[u]
               /\ error'[t] # OpenError /\ (pc'[t] # "raised" => error'[t] = "none")
    <3>1. /\ pc'[t] = "sleeping" /\ attempt'[t] = attempt[t] + 1
          /\ error' = error /\ reports' = reports + 1
          /\ \A u \in Tasks \ {t} : pc'[u] = pc[u] /\ attempt'[u] = attempt[u]
      BY <1>2, <2>2 DEF WorkFails, TypeOK
    <3>2. Seen(t)' = Seen(t) + 1
      BY <1>1, <2>0, <3>1 DEF Seen
    <3> QED BY <1>4, <3>1, <3>2
  <2>3. ASSUME NEW class \in Errors, WorkFails(t, class), ~Retries(t, class)
        PROVE  /\ attempt'[t] = attempt[t] /\ reports' = reports
               /\ Seen(t)' = Seen(t) + 1
               /\ \A u \in Tasks \ {t} : /\ pc'[u] = pc[u] /\ attempt'[u] = attempt[u]
                                         /\ error'[u] = error[u]
               /\ error'[t] # OpenError /\ (pc'[t] # "raised" => error'[t] = "none")
    <3>1. /\ pc'[t] = "raised" /\ error'[t] = class /\ UNCHANGED <<attempt, reports>>
          /\ \A u \in Tasks \ {t} : pc'[u] = pc[u] /\ error'[u] = error[u]
      BY <1>2, <2>3 DEF WorkFails, TypeOK
    <3>2. class # OpenError
      BY StepAssumption DEF OpenError
    <3>3. Seen(t)' = Seen(t) + 1
      BY <1>1, <2>0, <3>1, <3>2 DEF Seen
    <3> QED BY <3>1, <3>2, <3>3
  <2> QED BY <2>0, <2>1, <2>2, <2>3
<1>6. /\ SumFunction(SeenByTask') = SumFunction(SeenByTask) + 1
      /\ SumFunction(attempt') = SumFunction(attempt) + n
      /\ SumFunction(attempt) \in Int
  <2>1. attempt[t] \in Int
    BY <1>2, StepAssumption DEF TypeOK
  <2> QED BY <1>2, <1>5, <2>1, TermsChange
<1>7. Opened' = Opened
  BY <1>4, <1>5 DEF Opened
<1>8. Cardinality(Opened) \in Int
  BY StepAssumption, FS_Subset, FS_CardinalityType DEF Opened
<1>9. ExactBalance'
  <2>1. /\ has_breaker => breaker.total_requests = SumFunction(SeenByTask)
        /\ reports = SumFunction(attempt) + Cardinality(Opened)
    BY DEF Balance, ExactBalance, SeenByTask, Opened
  <2>2. has_breaker' => breaker'.total_requests = SumFunction(SeenByTask')
    BY <1>1, <1>3, <1>6, <2>1
  <2>3. reports' = SumFunction(attempt') + Cardinality(Opened')
    BY <1>5, <1>6, <1>7, <1>8, <2>1
  <2> QED BY <2>2, <2>3, Zenon DEF ExactBalance, SeenByTask, Opened
<1>10. ErrorsAreRaised'
  BY <1>5 DEF Balance, ErrorsAreRaised
<1> QED BY <1>9, <1>10 DEF Balance

LEMMA NextBalance == IInv /\ IInv' /\ Balance /\ [Next]_vars => Balance'
<1> SUFFICES ASSUME IInv, IInv', Balance, [Next]_vars PROVE Balance'
  OBVIOUS
<1>1. CASE Abort \/ CallerCancelled \/ Join \/ Tick \/ UNCHANGED vars
  <2>1. /\ UNCHANGED <<has_breaker, pc, attempt, error, reports>>
        /\ breaker' = breaker \/ breaker' = ClockTicks(breaker)
    BY <1>1 DEF Abort, CallerCancelled, Join, Tick, vars, mode
  <2>2. breaker'.total_requests = breaker.total_requests
    BY <2>1, OutcomesCounted DEF IInv, TypeOK
  <2> QED BY <2>1, <2>2 DEF Balance, ExactBalance, ErrorsAreRaised, SeenByTask, Opened, Seen
<1> QED
  BY <1>1, NoOutcomeBalance, RejectBalance, OutcomeBalance DEF Next, TaskStep

\* The breaker observes every attempt that ends, across the tasks, their
\* retries and the cancellation of their group, and nothing else; every retry
\* and every task an open circuit ended is reported, once.
THEOREM AttemptsAreBalanced == Spec => []AttemptsBalance
<1>1. Balance /\ TypeOK => AttemptsBalance
  <2> SUFFICES ASSUME Balance, TypeOK PROVE AttemptsBalance
    OBVIOUS
  <2>1. Cardinality(Opened) \in Nat /\ Cardinality(Exhausted) \in Nat
    BY StepAssumption, FS_Subset, FS_CardinalityType DEF Opened, Exhausted
  <2>2. SumFunction(attempt) \in Int
    <3>1. attempt \in [Tasks -> Int]
      BY StepAssumption DEF TypeOK
    <3> QED BY <3>1, SumType, StepAssumption
  <2>3. /\ reports >= SumFunction(attempt) + Cardinality(Opened)
        /\ reports <= SumFunction(attempt) + Cardinality(Opened) + Cardinality(Exhausted)
    BY <2>1, <2>2 DEF Balance, ExactBalance
  <2>4. has_breaker => breaker.total_requests = SumFunction([t \in Tasks |-> Seen(t)])
    BY DEF Balance, ExactBalance, SeenByTask
  <2> QED BY <2>3, <2>4 DEF AttemptsBalance
<1> QED BY <1>1, InitBalance, NextBalance, SpecIInv, TypeCorrect, PTL DEF Spec

-----------------------------------------------------------------------------
(* The refinement of BreakerPromise *)

Working == {t \in Tasks : pc[t] = "working"}

LEMMA PromiseInit == Init => Promise!Init
  BY BreakerAssumption DEF Init, Promise!Init, NewBreaker

\* A task that stops working leaves those that do, and no other does.
LEMMA WorkingEnds ==
  ASSUME pc \in [Tasks -> PcValues], NEW t \in Working, NEW to, to # "working",
         pc' = [pc EXCEPT ![t] = to]
  PROVE  Working' = Working \ {t}
  BY DEF Working

\* Every step maps to a step of the promise or to a stutter.
LEMMA PromiseNext == IInv /\ [Next]_vars => [Promise!Next]_(Promise!vars)
<1> SUFFICES ASSUME IInv, [Next]_vars PROVE [Promise!Next]_(Promise!vars)
  OBVIOUS
<1>0. breaker \in Breaker /\ pc \in [Tasks -> PcValues]
  BY DEF IInv, TypeOK, PcValues
<1>1. ASSUME NEW t \in Tasks, StartAttempt(t) PROVE Promise!Start(t)
  <2>1. t \notin Working /\ Working' = Working \union {t}
    BY <1>0, <1>1 DEF StartAttempt, Working
  <2>2. breaker.state = "open" => breaker.elapsed >= RecoveryTimeout
    BY <1>1 DEF StartAttempt, Admits, IInv, NoBreakerNoGate
  <2>3. /\ breaker'.state = IF breaker.state = "open" THEN "half_open" ELSE breaker.state
        /\ breaker'.elapsed = breaker.elapsed
    BY <1>0, <1>1, <2>2 DEF StartAttempt, AllowRequest, Breaker, IInv, NoBreakerNoGate
  <2> QED BY <2>1, <2>2, <2>3 DEF Promise!Start, Working
<1>2. ASSUME NEW t \in Tasks, RejectAttempt(t) PROVE UNCHANGED Promise!vars
  <2>1. breaker' = breaker
    BY <1>2 DEF RejectAttempt
  <2>2. Working' = Working
    BY <1>0, <1>2 DEF RejectAttempt, Working
  <2> QED BY <2>1, <2>2 DEF Promise!vars, Working
<1>3. ASSUME NEW t \in Tasks, WorkSucceeds(t) PROVE Promise!Succeed(t)
  <2>1. t \in Working /\ Working' = Working \ {t}
    BY <1>0, <1>3 DEF WorkSucceeds, Working
  <2>2. /\ breaker'.elapsed = breaker.elapsed
        /\ \/ breaker'.state = breaker.state
           \/ breaker.state = "half_open" /\ breaker'.state = "closed"
    BY <1>0, <1>3, RecordSuccessGate DEF WorkSucceeds
  <2> QED BY <1>0, <2>1, <2>2
          DEF Promise!Succeed, Breaker, CircuitState, Working
<1>4. ASSUME NEW t \in Tasks, NEW class \in Errors, WorkFails(t, class)
      PROVE  Promise!Fail(t) \/ Promise!Abandon(t)
  <2>1. t \in Working /\ Working' = Working \ {t}
    <3>1. t \in Working
      BY <1>4 DEF WorkFails, Working
    <3>2. PICK to \in {"sleeping", "raised"} : pc' = [pc EXCEPT ![t] = to]
      <4>1. pc' = [pc EXCEPT ![t] = "sleeping"] \/ pc' = [pc EXCEPT ![t] = "raised"]
        BY <1>4 DEF WorkFails
      <4> QED BY <4>1
    <3> QED BY <1>0, <3>1, <3>2, WorkingEnds
  <2>2. CASE ~has_breaker
    <3>1. breaker' = breaker
      BY <1>4, <2>2 DEF WorkFails
    <3> QED BY <2>1, <3>1 DEF Promise!Abandon, Working
  <2>3. CASE has_breaker
    <3>1. /\ breaker'.elapsed = 0
          /\ \/ breaker'.state = "open"
             \/ breaker'.state = breaker.state /\ breaker.state # "half_open"
      BY <1>0, <1>4, <2>3, RecordFailureGate DEF WorkFails
    <3>2. 0 >= RecoveryTimeout <=> RecoveryTimeout = 0
      BY BreakerAssumption
    <3>3. breaker'.state \in IF breaker.state = "closed" THEN {"closed", "open"}
                            ELSE {"open"}
      BY <1>0, <3>1 DEF Breaker, CircuitState
    <3>4. (breaker'.elapsed >= RecoveryTimeout) = (RecoveryTimeout = 0)
      BY <3>1, <3>2
    <3> QED BY <2>1, <3>3, <3>4 DEF Promise!Fail, Working
  <2> QED BY <2>2, <2>3
<1>5. ASSUME NEW t \in Tasks, CancelTask(t)
      PROVE  Promise!Abandon(t) \/ UNCHANGED Promise!vars
  <2>1. breaker' = breaker /\ pc' = [pc EXCEPT ![t] = "cancelled"]
    BY <1>5 DEF CancelTask
  <2>2. CASE pc[t] = "working"
    <3>1. t \in Working /\ Working' = Working \ {t}
      BY <1>0, <2>1, <2>2 DEF Working
    <3> QED BY <2>1, <3>1 DEF Promise!Abandon, Working
  <2>3. CASE pc[t] # "working"
    <3>1. Working' = Working
      BY <1>0, <2>1, <2>3 DEF Working
    <3> QED BY <2>1, <3>1 DEF Promise!vars, Working
  <2> QED BY <2>2, <2>3
<1>6. CASE Tick
  <2>1. breaker'.state = breaker.state
    BY <1>0, <1>6 DEF Tick, ClockTicks, Breaker
  <2> QED BY <1>6, <2>1 DEF Tick, Promise!Next, Promise!Clock
<1>7. CASE Abort \/ CallerCancelled \/ Join \/ UNCHANGED vars
  BY <1>7 DEF Abort, CallerCancelled, Join, vars, Promise!vars
<1> QED
  BY <1>1, <1>2, <1>3, <1>4, <1>5, <1>6, <1>7 DEF Next, TaskStep, Promise!Next

\* Works behind the executor start no attempt that the breaker's promise
\* forbids, in whichever order siblings fail and backoffs end.
THEOREM TasksKeepPromise == Spec => KeepsPromise
  BY PromiseInit, PromiseNext, SpecIInv, PTL
  DEF Spec, KeepsPromise, Promise!Spec
=============================================================================
