---------------------------- MODULE StepExecutor ----------------------------
(***************************************************************************)
(* StepExecutor.execute_parallel_step over works that each go through      *)
(* execute_step of one shared executor: asyncio's TaskGroup around         *)
(* RetryPolicy around CircuitBreaker (workflows/step_executor.py,          *)
(* workflows/retry_policy.py).                                             *)
(*                                                                         *)
(* The awaits are the work itself and the backoff sleep; everything        *)
(* between two awaits is one step.  A backoff sleep may end at any time:   *)
(* its length, min(base_delay * 2^attempt, max_delay) with jitter, is not  *)
(* told apart.  A work neither swallows its cancellation nor answers it    *)
(* with an error of its own.                                               *)
(***************************************************************************)
EXTENDS CircuitBreaker, FiniteSetsExt, Sequences

CONSTANTS
  Tasks,       \* the works of one execute_parallel_step call
  MaxRetries,  \* RetryPolicy.max_retries
  Errors       \* classes ErrorHandlingManager.classify gives the works' errors

ASSUME StepAssumption ==
  /\ IsFiniteSet(Tasks)
  /\ MaxRetries \in Nat
  /\ Errors \subseteq {"TRANSIENT", "RATE_LIMIT", "PERMANENT", "VALIDATION", "AUTH"}

VARIABLES
  has_breaker,  \* was the executor built with a CircuitBreaker?
  has_retry,    \* ... with a RetryPolicy?
  breaker,      \* the CircuitBreaker's fields
  pc,           \* where each task is
  attempt,      \* the retry loop's index, the next attempt's while it sleeps
  error,        \* the class of the error a task raised
  results,      \* the tasks whose results were appended, in that order
  reports,      \* calls of error_manager.report
  group         \* the TaskGroup

mode == <<has_breaker, has_retry>>
vars == <<has_breaker, has_retry, breaker, pc, attempt, error, results, reports, group>>

OpenError == "CircuitBreakerOpenError"
Finished == {"returned", "raised", "cancelled"}
GroupEnded == {"returned", "failed", "cancelled"}

TypeOK ==
  /\ has_breaker \in BOOLEAN /\ has_retry \in BOOLEAN
  /\ breaker \in Breaker
  /\ pc \in [Tasks -> {"ready", "working", "sleeping"} \union Finished]
  /\ attempt \in [Tasks -> 0..MaxRetries]
  /\ error \in [Tasks -> Errors \union {"none", OpenError}]
  /\ results \in Seq(Tasks)
  /\ reports \in Nat
  /\ group \in {"running", "aborting", "aborting_cancelled"} \union GroupEnded

Init ==
  /\ has_breaker \in BOOLEAN
  /\ has_retry \in BOOLEAN
  /\ breaker = NewBreaker
  /\ pc = [t \in Tasks |-> "ready"]
  /\ attempt = [t \in Tasks |-> 0]
  /\ error = [t \in Tasks |-> "none"]
  /\ results = <<>>
  /\ reports = 0
  /\ group = "running"

-----------------------------------------------------------------------------
(* execute_step *)

\* is_retryable.  classify gives CircuitBreakerOpenError PERMANENT.
IsRetryable(class) == class \in {"TRANSIENT", "RATE_LIMIT"}

\* Mutant: allow_request asked once, before the retry loop.
StartAttempt_AsksOnce(t) ==
  /\ group = "running"
  /\ pc[t] \in {"ready", "sleeping"}
  /\ has_breaker /\ pc[t] = "ready" => Admits(breaker)
  /\ breaker' = IF has_breaker /\ pc[t] = "ready" THEN AllowRequest(breaker)
                ELSE breaker
  /\ pc' = [pc EXCEPT ![t] = "working"]
  /\ UNCHANGED <<mode, attempt, error, results, reports, group>>

\* A new task, or one whose backoff is over, calls the work, through the
\* breaker if there is one.
StartAttempt(t) ==
  /\ group = "running"
  /\ pc[t] \in {"ready", "sleeping"}
  /\ has_breaker => Admits(breaker)
  /\ breaker' = IF has_breaker THEN AllowRequest(breaker) ELSE breaker
  /\ pc' = [pc EXCEPT ![t] = "working"]
  /\ UNCHANGED <<mode, attempt, error, results, reports, group>>

\* The breaker rejects the attempt: not retryable, reported, raised again.
RejectAttempt(t) ==
  /\ group = "running"
  /\ pc[t] \in {"ready", "sleeping"}
  /\ has_breaker /\ ~Admits(breaker)
  /\ pc' = [pc EXCEPT ![t] = "raised"]
  /\ error' = [error EXCEPT ![t] = OpenError]
  /\ reports' = reports + 1
  /\ UNCHANGED <<mode, breaker, attempt, results, group>>

\* The work ends: execute records it, _run_and_collect appends the result.
WorkSucceeds(t) ==
  /\ group = "running"
  /\ pc[t] = "working"
  /\ breaker' = IF has_breaker THEN RecordSuccess(breaker) ELSE breaker
  /\ pc' = [pc EXCEPT ![t] = "returned"]
  /\ results' = Append(results, t)
  /\ UNCHANGED <<mode, attempt, error, reports, group>>

\* Mutant: one retry fewer than max_retries.
Retries_OneFewer(t, class) ==
  has_retry /\ IsRetryable(class) /\ attempt[t] + 1 < MaxRetries

\* Mutant: one retry more.
Retries_OneMore(t, class) ==
  has_retry /\ IsRetryable(class) /\ attempt[t] <= MaxRetries

\* execute_with_retry's except clause: retry, or raise.
Retries(t, class) ==
  has_retry /\ IsRetryable(class) /\ attempt[t] < MaxRetries

\* Mutant: the retry loop inside one breaker call, which then counts once.
WorkFails_BreakerOutside(t, class) ==
  /\ group = "running"
  /\ pc[t] = "working"
  /\ IF Retries(t, class)
       THEN /\ reports' = reports + 1
            /\ attempt' = [attempt EXCEPT ![t] = @ + 1]
            /\ pc' = [pc EXCEPT ![t] = "sleeping"]
            /\ UNCHANGED <<breaker, error>>
       ELSE /\ breaker' = IF has_breaker THEN RecordFailure(breaker) ELSE breaker
            /\ pc' = [pc EXCEPT ![t] = "raised"]
            /\ error' = [error EXCEPT ![t] = class]
            /\ UNCHANGED <<reports, attempt>>
  /\ UNCHANGED <<mode, results, group>>

WorkFails(t, class) ==
  /\ group = "running"
  /\ pc[t] = "working"
  /\ breaker' = IF has_breaker THEN RecordFailure(breaker) ELSE breaker
  /\ IF Retries(t, class)
       THEN /\ reports' = reports + 1
            /\ attempt' = [attempt EXCEPT ![t] = @ + 1]
            /\ pc' = [pc EXCEPT ![t] = "sleeping"]
            /\ UNCHANGED error
       ELSE /\ pc' = [pc EXCEPT ![t] = "raised"]
            /\ error' = [error EXCEPT ![t] = class]
            /\ UNCHANGED <<reports, attempt>>
  /\ UNCHANGED <<mode, results, group>>

-----------------------------------------------------------------------------
(* The TaskGroup (asyncio).  A task that raised aborts the group in a        *)
(* callback of its own, so its siblings may run in between; once the group   *)
(* aborts, the next step of every unfinished task is its cancellation.       *)

Aborting == {"aborting", "aborting_cancelled"}

Abort ==
  /\ group = "running"
  /\ \E t \in Tasks : pc[t] = "raised"
  /\ group' = "aborting"
  /\ UNCHANGED <<mode, breaker, pc, attempt, error, results, reports>>

\* The task that called execute_parallel_step is cancelled.
CallerCancelled ==
  /\ group = "running"
  /\ group' = "aborting_cancelled"
  /\ UNCHANGED <<mode, breaker, pc, attempt, error, results, reports>>

\* CancelledError passes execute, execute_with_retry and execute_step, none
\* of which catches it: nothing is recorded, reported or appended.
CancelTask(t) ==
  /\ group \in Aborting
  /\ pc[t] \notin Finished
  /\ pc' = [pc EXCEPT ![t] = "cancelled"]
  /\ UNCHANGED <<mode, breaker, attempt, error, results, reports, group>>

AllFinished == \A t \in Tasks : pc[t] \in Finished
SomeRaised == \E t \in Tasks : pc[t] = "raised"

\* Mutant: the first exception is raised at once, as asyncio.gather would.
Join_OnFirstError ==
  /\ group \notin GroupEnded
  /\ AllFinished \/ SomeRaised
  /\ group' = IF SomeRaised THEN "failed"
              ELSE IF group = "aborting_cancelled" THEN "cancelled" ELSE "returned"
  /\ UNCHANGED <<mode, breaker, pc, attempt, error, results, reports>>

\* Leaving "async with": errors first, then the caller's own cancellation.
Join ==
  /\ group \notin GroupEnded
  /\ AllFinished
  /\ group = "running" => ~SomeRaised
  /\ group' = IF SomeRaised THEN "failed"
              ELSE IF group = "aborting_cancelled" THEN "cancelled" ELSE "returned"
  /\ UNCHANGED <<mode, breaker, pc, attempt, error, results, reports>>

Tick ==
  /\ breaker' = ClockTicks(breaker)
  /\ UNCHANGED <<mode, pc, attempt, error, results, reports, group>>

\* Mutant: a task whose backoff the abort interrupts is left asleep.
TaskStep_SleepsOn(t) ==
  \/ StartAttempt(t)
  \/ RejectAttempt(t)
  \/ WorkSucceeds(t)
  \/ \E class \in Errors : WorkFails(t, class)
  \/ pc[t] # "sleeping" /\ CancelTask(t)

TaskStep(t) ==
  \/ StartAttempt(t)
  \/ RejectAttempt(t)
  \/ WorkSucceeds(t)
  \/ \E class \in Errors : WorkFails(t, class)
  \/ CancelTask(t)

Next ==
  \/ \E t \in Tasks : TaskStep(t)
  \/ Abort
  \/ CallerCancelled
  \/ Join
  \/ Tick

\* The event loop runs every task that can run, a work ends, a sleep is over
\* and callbacks are called: each task's next step, Abort and Join are taken.
Fairness ==
  /\ \A t \in Tasks : WF_vars(TaskStep(t))
  /\ WF_vars(Abort)
  /\ WF_vars(Join)

Spec == Init /\ [][Next]_vars /\ Fairness

-----------------------------------------------------------------------------
(* Safety *)

\* Attempts of t whose outcome the retry loop has seen: those it retried, and
\* the last one unless the breaker rejected it or it was cancelled.
Seen(t) ==
  attempt[t] + IF pc[t] = "returned" \/ (pc[t] = "raised" /\ error[t] # OpenError)
                 THEN 1 ELSE 0

\* The tasks that an open circuit ended, and those whose last retry failed with
\* an error that would have been retried.
Opened == {t \in Tasks : error[t] = OpenError}
Exhausted == {t \in Tasks : has_retry /\ pc[t] = "raised" /\ IsRetryable(error[t])}

\* "Each retry attempt re-enters the CB, so the CB counts every attempt": over
\* all tasks, retries and cancellations, the breaker has observed exactly the
\* attempts that ran to an outcome.  The error manager has had a report for
\* every failure that was retried and for every task an open circuit ended, and
\* none twice or for anything but a retryable failure: the only retryable
\* failures that may lack one are those that used up the retries, of which
\* FailuresReported says more.
AttemptsBalance ==
  /\ has_breaker => breaker.total_requests = SumFunction([t \in Tasks |-> Seen(t)])
  /\ reports >= SumFunction(attempt) + Cardinality(Opened)
  /\ reports <= SumFunction(attempt) + Cardinality(Opened) + Cardinality(Exhausted)

\* A task raises only for a reason: an error that is not retryable, an open
\* circuit, no retry policy, or max_retries retries used up.
RaisesForCause ==
  \A t \in Tasks : pc[t] = "raised" =>
    \/ ~IsRetryable(error[t])
    \/ ~has_retry
    \/ attempt[t] = MaxRetries

\* Structured concurrency: when execute_parallel_step is over no task of it
\* is left; it returned only if every work did, and failed only if one did;
\* the results are those of the works that returned, each once, in the order
\* in which they ended.
GroupAccountsForTasks ==
  /\ group \in GroupEnded => AllFinished
  /\ group = "returned" => \A t \in Tasks : pc[t] = "returned"
  /\ group = "failed" => SomeRaised
  /\ {results[i] : i \in 1..Len(results)} = {t \in Tasks : pc[t] = "returned"}
  /\ Len(results) = Cardinality({t \in Tasks : pc[t] = "returned"})

\* The tasks' attempts keep the breaker's promise: a task that wakes from its
\* backoff after a sibling's failures opened the circuit starts no attempt.
Promise == INSTANCE BreakerPromise WITH
  Callers <- Tasks,
  NoRest <- RecoveryTimeout = 0,
  gate <- breaker.state,
  rested <- breaker.elapsed >= RecoveryTimeout,
  running <- {t \in Tasks : pc[t] = "working"}

KeepsPromise == Promise!Spec

-----------------------------------------------------------------------------
(* Liveness *)

\* execute_parallel_step always ends, whatever fails or is cancelled when.
AlwaysEnds == <>(group \in GroupEnded)

-----------------------------------------------------------------------------
(* What the documentation says and the code does not do. *)

\* "report() is called synchronously on each transient failure", the one that
\* uses up the retries included.  execute_with_retry raises that one first.
FailuresReported ==
  reports >= SumFunction(attempt) + Cardinality(Opened) + Cardinality(Exhausted)
=============================================================================
