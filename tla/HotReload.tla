----------------------------- MODULE HotReload -----------------------------
(***************************************************************************)
(* HotReloadCoordinator (config/hotreload.py): a background loop that      *)
(* re-materializes the configuration and refreshes the feature flags every *)
(* interval, with start(), stop() and direct calls of reload_now().        *)
(*                                                                         *)
(* A runner is one execution of reload_now: a loop task, which repeats it, *)
(* or a direct call.  Both await core.reload() and flags.refresh(), which  *)
(* are external and may raise; a cancellation is delivered at an await.    *)
(* stop() awaits the loop it cancelled, and start() may be called then.    *)
(***************************************************************************)
EXTENDS ConfigAdapter, FiniteSets, Sequences

CONSTANTS
  MaxEdits,   \* bound: edits of the configuration, and of the flags
  MaxLoops,   \* bound: loop tasks created by start()
  MaxDirect   \* bound: direct calls of reload_now()

ASSUME HotReloadAssumption ==
  MaxEdits \in Nat /\ MaxLoops \in Nat /\ MaxDirect \in Nat

VARIABLES
  file,         \* the configuration on disk
  flag_store,   \* the version of the flags where the flag manager reads them
  adapter,      \* _config: the YamlAgnoConfigAdapter
  flags,        \* _flags: the version the flag manager serves
  task,         \* _task: a loop, or 0 for None
  phase,        \* where each runner is
  direct,       \* the runners that are direct calls
  read,         \* what core.reload() has read in each runner
  cancelling,   \* loops whose task.cancel() has been called
  stopping      \* loops some stop() is awaiting

source == <<file, flag_store>>
served == <<adapter, flags>>
control == <<task, cancelling, stopping>>
reloadVars == <<source, served, control, phase, direct, read>>

MaxRunners == MaxLoops + MaxDirect
Runners == DOMAIN phase
Loops == Runners \ direct

Over == {"returned", "raised", "cancelled"}
Phases == {"sleeping", "reloading", "reread", "refreshing"} \union Over

ReloadTypeOK ==
  /\ file \in Config /\ flag_store \in 0..MaxEdits
  /\ adapter \in Adapter /\ flags \in 0..MaxEdits
  /\ \E n \in 0..MaxRunners : phase \in [1..n -> Phases]
  /\ read \in [Runners -> Config]
  /\ direct \subseteq Runners
  /\ task \in {0} \union Loops
  /\ cancelling \subseteq Loops /\ stopping \subseteq Loops

FirstConfig == [edit |-> 0, valid |-> TRUE]

ReloadInit ==
  /\ file = FirstConfig /\ flag_store = 0
  /\ adapter = NewAdapter(FirstConfig) /\ flags = 0
  /\ task = 0 /\ cancelling = {} /\ stopping = {}
  /\ phase = <<>> /\ direct = {} /\ read = <<>>

-----------------------------------------------------------------------------
(* The environment *)

EditConfig ==
  /\ file.edit < MaxEdits
  /\ \E valid \in BOOLEAN : file' = [edit |-> file.edit + 1, valid |-> valid]
  /\ UNCHANGED <<flag_store, served, control, phase, direct, read>>

EditFlags ==
  /\ flag_store < MaxEdits
  /\ flag_store' = flag_store + 1
  /\ UNCHANGED <<file, served, control, phase, direct, read>>

-----------------------------------------------------------------------------
(* start, stop, reload_now *)

Create(first) ==
  /\ phase' = Append(phase, first)
  /\ read' = Append(read, FirstConfig)

MoreLoops == Cardinality(Loops) < MaxLoops

\* Mutant: start() is not idempotent.
Start_Again ==
  /\ MoreLoops
  /\ Create("sleeping")
  /\ task' = Len(phase')
  /\ UNCHANGED <<source, served, cancelling, stopping, direct>>

\* start(): a new loop unless _task is set, be that loop alive or not.
Start ==
  /\ task = 0
  /\ MoreLoops
  /\ Create("sleeping")
  /\ task' = Len(phase')
  /\ UNCHANGED <<source, served, cancelling, stopping, direct>>

Finished(r) == phase[r] \in Over

\* Mutant: stop() cancels the loop and does not await it.
Stop_NoAwait ==
  /\ task # 0
  /\ task' = 0
  /\ cancelling' = IF Finished(task) THEN cancelling ELSE cancelling \union {task}
  /\ UNCHANGED <<source, served, stopping, phase, direct, read>>

\* stop() up to its await: cancelling a finished task has no effect.
Stop ==
  /\ task # 0
  /\ task' = 0
  /\ cancelling' = IF Finished(task) THEN cancelling ELSE cancelling \union {task}
  /\ stopping' = stopping \union {task}
  /\ UNCHANGED <<source, served, phase, direct, read>>

\* The loop is over: stop() returns, or raises what the loop raised.
StopReturns(r) ==
  /\ r \in stopping /\ Finished(r)
  /\ stopping' = stopping \ {r}
  /\ UNCHANGED <<source, served, task, cancelling, phase, direct, read>>

\* Mutant: a direct call is made a task of the coordinator.
CallReload_AsTask ==
  /\ Cardinality(direct) < MaxDirect
  /\ Create("reloading")
  /\ direct' = direct \union {Len(phase')}
  /\ task' = Len(phase')
  /\ UNCHANGED <<source, served, cancelling, stopping>>

\* reload_now() called directly.
CallReload ==
  /\ Cardinality(direct) < MaxDirect
  /\ Create("reloading")
  /\ direct' = direct \union {Len(phase')}
  /\ UNCHANGED <<source, served, control>>

-----------------------------------------------------------------------------
(* One runner *)

At(r, p) == r \in Runners /\ r \notin cancelling /\ phase[r] = p
Goto(r, p) == phase' = [phase EXCEPT ![r] = p]

\* Mutant: the loop refreshes the flags only.
Wake_FlagsOnly(r) ==
  /\ At(r, "sleeping")
  /\ Goto(r, "refreshing")
  /\ UNCHANGED <<source, served, control, direct, read>>

\* The interval has elapsed.
Wake(r) ==
  /\ At(r, "sleeping")
  /\ Goto(r, "reloading")
  /\ UNCHANGED <<source, served, control, direct, read>>

\* core.reload() reads its sources.
CoreReads(r) ==
  /\ At(r, "reloading")
  /\ read' = [read EXCEPT ![r] = file]
  /\ Goto(r, "reread")
  /\ UNCHANGED <<source, served, control, direct>>

\* core.reload() returns, and the adapter materializes what the core now has.
\* An invalid configuration raises out of reload_now: the flags are skipped.
Installs(r) ==
  /\ At(r, "reread")
  /\ adapter' = Materialize(CoreReload(adapter, read[r]))
  /\ Goto(r, IF adapter'.core.valid THEN "refreshing" ELSE "raised")
  /\ UNCHANGED <<source, flags, control, direct, read>>

\* flags.refresh() returns: the loop goes back to its sleep.
Refreshes(r) ==
  /\ At(r, "refreshing")
  /\ flags' = flag_store
  /\ Goto(r, IF r \in direct THEN "returned" ELSE "sleeping")
  /\ UNCHANGED <<source, adapter, control, direct, read>>

\* core.reload() or flags.refresh() raises; _run catches nothing.
Raises(r) ==
  /\ At(r, "reloading") \/ At(r, "refreshing")
  /\ Goto(r, "raised")
  /\ UNCHANGED <<source, served, control, direct, read>>

\* CancelledError at the loop's await.
Cancelled(r) ==
  /\ r \in cancelling /\ ~Finished(r)
  /\ Goto(r, "cancelled")
  /\ UNCHANGED <<source, served, control, direct, read>>

RunnerStep(r) ==
  \/ Wake(r)
  \/ CoreReads(r)
  \/ Installs(r)
  \/ Refreshes(r)
  \/ Raises(r)
  \/ Cancelled(r)

ReloadNext ==
  \/ EditConfig
  \/ EditFlags
  \/ Start
  \/ Stop
  \/ CallReload
  \/ \E r \in Runners : RunnerStep(r) \/ StopReturns(r)

\* The event loop runs every task whose await is over.
Fairness ==
  \A r \in 1..MaxRunners : WF_reloadVars(RunnerStep(r)) /\ WF_reloadVars(StopReturns(r))

ReloadSpec == ReloadInit /\ [][ReloadNext]_reloadVars /\ Fairness

-----------------------------------------------------------------------------
(* Properties *)

\* "A single background loop": a loop that is going to reload again is the
\* one _task names, whatever the order of start() and stop().
SingleLoop ==
  \A r \in Loops : ~Finished(r) /\ r \notin cancelling => r = task

\* Once the stop() of a loop has returned, the loop's task is over: nothing
\* it awaited is still under way when the wiring layer tears down.
StopMeansStopped ==
  \A r \in Loops : r # task /\ r \notin stopping => Finished(r)

\* A loop that lives on takes the program to the last configuration and the
\* last flags, even if a direct call that read earlier installs later.
Converges ==
  \A r \in 1..MaxRunners :
    <>[](r = task /\ ~Finished(r))
      => <>[](adapter.snapshot = file /\ flags = flag_store)

\* The module's diagram of states: Running repeats reload_now every interval
\* and is left by stop() only.  Running is _task being set (what start()
\* tests).
RunningUntilStopped == task # 0 => ~Finished(task)
=============================================================================
