--------------------------- MODULE ResyncManager ---------------------------
(***************************************************************************)
(* ResyncManager (agentos/resync_manager.py): file events debounced by a   *)
(* cancel-and-restart task, and cycles of config.reload() then             *)
(* AgentOS.resync() under a semaphore and a CircuitBreaker.                *)
(*                                                                         *)
(* A cycle is a task: one per debounced file event, and one per direct     *)
(* call of resync_now().  Its awaits are the debounce sleep, the semaphore *)
(* and core.reload(); a cancellation is delivered at the next of them.     *)
(* core.reload(), external, reads the file while it is awaited and         *)
(* installs what it read as it returns; the caller goes on from there      *)
(* without yielding.                                                       *)
(* Cycles are numbered in the order in which their tasks are created.      *)
(***************************************************************************)
EXTENDS CircuitBreaker, ConfigAdapter, FiniteSets, Sequences

CONSTANTS
  MaxEdits,       \* bound: edits of the watched file
  MaxManual,      \* bound: direct calls of resync_now()
  MaxConcurrent   \* bound: ResyncSettings.max_concurrent is 1..MaxConcurrent

ASSUME ResyncAssumption ==
  /\ MaxEdits \in Nat
  /\ MaxManual \in Nat
  /\ MaxConcurrent \in Nat \ {0}

VARIABLES
  max_concurrent,  \* ResyncSettings.max_concurrent
  file,        \* the configuration on disk
  event,       \* is a file event waiting to be delivered to watch()?
  attached,    \* has attach() been called?
  adapter,     \* the YamlAgnoConfigAdapter
  os,          \* the configuration AgentOS last resynced to
  breaker,     \* _breaker
  permits,     \* _sem
  debounce,    \* _debounce_task: a cycle, or 0 for None
  phase,       \* where each cycle is
  cancelling,  \* cycles whose task.cancel() has been called
  manual,      \* the cycles that are direct calls
  read         \* what core.reload() has read in each cycle

world == <<max_concurrent, file, event, attached>>
served == <<adapter, os>>
timers == <<debounce, cancelling, manual>>
vars == <<world, served, timers, breaker, permits, phase, read>>

MaxCycles == MaxEdits + MaxManual
Cycles == DOMAIN phase

\* "sleeping": in the debounce sleep; "called": resync_now() was called;
\* "waiting": for the semaphore; "reloading": in core.reload(); "reread": the
\* core has read the file and not returned.
Holding == {"reloading", "reread"}
Over == {"done", "failed", "blocked", "unattached", "cancelled"}
Phases == {"sleeping", "called", "waiting"} \union Holding \union Over

TypeOK ==
  /\ file \in Config /\ os \in Config
  /\ event \in BOOLEAN /\ attached \in BOOLEAN
  /\ adapter \in Adapter
  /\ breaker \in Breaker
  /\ permits \in 0..MaxConcurrent
  /\ debounce \in 0..MaxCycles
  /\ \E n \in 0..MaxCycles : phase \in [1..n -> Phases]
  /\ cancelling \subseteq Cycles
  /\ manual \subseteq Cycles
  /\ read \in [Cycles -> Config]
  /\ max_concurrent \in 1..MaxConcurrent

FirstConfig == [edit |-> 0, valid |-> TRUE]

Init ==
  /\ file = FirstConfig
  /\ event = FALSE
  /\ attached = FALSE
  /\ adapter = NewAdapter(FirstConfig)
  /\ os = FirstConfig
  /\ breaker = NewBreaker
  /\ max_concurrent \in 1..MaxConcurrent
  /\ permits = max_concurrent
  /\ debounce = 0
  /\ phase = <<>>
  /\ cancelling = {}
  /\ manual = {}
  /\ read = <<>>

-----------------------------------------------------------------------------
(* The environment *)

\* The file is edited; events that watch() has not taken yet coalesce.
Edit ==
  /\ file.edit < MaxEdits
  /\ \E valid \in BOOLEAN : file' = [edit |-> file.edit + 1, valid |-> valid]
  /\ event' = TRUE
  /\ UNCHANGED <<served, timers, max_concurrent, attached, breaker, permits, phase, read>>

Tick ==
  /\ breaker' = ClockTicks(breaker)
  /\ UNCHANGED <<world, served, timers, permits, phase, read>>

-----------------------------------------------------------------------------
(* attach, watch and the debounce *)

Attach ==
  /\ attached' = TRUE
  /\ UNCHANGED <<served, timers, max_concurrent, file, event, breaker, permits, phase, read>>

IsPending(c) == c \in Cycles /\ phase[c] \notin Over

\* Mutant: leading-edge debounce, an event is dropped while a task is pending.
DeliverEvent_LeadingEdge ==
  /\ event
  /\ event' = FALSE
  /\ IF IsPending(debounce)
       THEN UNCHANGED <<debounce, phase, read>>
       ELSE /\ phase' = Append(phase, "sleeping")
            /\ debounce' = Len(phase')
            /\ read' = Append(read, FirstConfig)
  /\ UNCHANGED <<served, max_concurrent, file, attached, breaker, permits, cancelling, manual>>

\* watch() takes an event: _start_debounce_timer cancels the pending task,
\* whether it still sleeps or is in its cycle, and creates the next one.
DeliverEvent ==
  /\ event
  /\ event' = FALSE
  /\ cancelling' = IF IsPending(debounce) THEN cancelling \union {debounce}
                                          ELSE cancelling
  /\ phase' = Append(phase, "sleeping")
  /\ debounce' = Len(phase')
  /\ read' = Append(read, FirstConfig)
  /\ UNCHANGED <<served, max_concurrent, file, attached, breaker, permits, manual>>

\* resync_now() called directly.
CallResync ==
  /\ Cardinality(manual) < MaxManual
  /\ phase' = Append(phase, "called")
  /\ manual' = manual \union {Len(phase')}
  /\ read' = Append(read, FirstConfig)
  /\ UNCHANGED <<world, served, breaker, permits, debounce, cancelling>>

-----------------------------------------------------------------------------
(* resync_now *)

Runs(c) == c \in Cycles /\ c \notin cancelling
Starting == {"sleeping", "called"}
Queue == {c \in Cycles : phase[c] = "waiting" /\ c \notin cancelling}

\* RuntimeError: attach() was not called yet.
NotAttached(c) ==
  /\ Runs(c) /\ phase[c] \in Starting
  /\ ~attached
  /\ phase' = [phase EXCEPT ![c] = "unattached"]
  /\ UNCHANGED <<world, served, timers, breaker, permits, read>>

\* The semaphore is taken, or has a queue.
Park(c) ==
  /\ Runs(c) /\ phase[c] \in Starting
  /\ attached
  /\ permits = 0 \/ Queue # {}
  /\ phase' = [phase EXCEPT ![c] = "waiting"]
  /\ UNCHANGED <<world, served, timers, breaker, permits, read>>

\* A waiting cycle is given a permit, in any order; a starting one that finds
\* no queue takes it.
GetsPermit(c) ==
  /\ Runs(c) /\ permits > 0
  /\ \/ phase[c] = "waiting"
     \/ phase[c] \in Starting /\ attached /\ Queue = {}

\* Mutant: the cycle does not take its permit.
Enter_NoPermit(c) ==
  /\ GetsPermit(c)
  /\ Admits(breaker)
  /\ breaker' = AllowRequest(breaker)
  /\ phase' = [phase EXCEPT ![c] = "reloading"]
  /\ UNCHANGED <<world, served, timers, permits, read>>

\* Inside the semaphore: the breaker admits, and the reload begins.
Enter(c) ==
  /\ GetsPermit(c)
  /\ Admits(breaker)
  /\ breaker' = AllowRequest(breaker)
  /\ permits' = permits - 1
  /\ phase' = [phase EXCEPT ![c] = "reloading"]
  /\ UNCHANGED <<world, served, timers, read>>

\* Mutant: acquire and release by hand, the raise in between keeps the permit.
Blocked_KeepsPermit(c) ==
  /\ GetsPermit(c)
  /\ ~Admits(breaker)
  /\ permits' = permits - 1
  /\ phase' = [phase EXCEPT ![c] = "blocked"]
  /\ UNCHANGED <<world, served, timers, breaker, read>>

\* ResyncBlockedError; leaving "async with" gives the permit back.
Blocked(c) ==
  /\ GetsPermit(c)
  /\ ~Admits(breaker)
  /\ phase' = [phase EXCEPT ![c] = "blocked"]
  /\ UNCHANGED <<world, served, timers, breaker, permits, read>>

\* core.reload() reads the file.
CoreReads(c) ==
  /\ Runs(c) /\ phase[c] = "reloading"
  /\ read' = [read EXCEPT ![c] = file]
  /\ phase' = [phase EXCEPT ![c] = "reread"]
  /\ UNCHANGED <<world, served, timers, breaker, permits>>

\* The except branch of a cycle whose reload or resync raised.
Fails(c) ==
  /\ breaker' = RecordFailure(breaker)
  /\ permits' = permits + 1
  /\ phase' = [phase EXCEPT ![c] = "failed"]

\* core.reload() raises: the file cannot be read.
ReloadFails(c) ==
  /\ Runs(c) /\ phase[c] = "reloading"
  /\ Fails(c)
  /\ UNCHANGED <<world, served, timers, read>>

\* core.reload() returns: the adapter materializes, and raises if what it got
\* is invalid; then AgentOS.resync(), external, which may raise as well.
Apply(c) ==
  /\ Runs(c) /\ phase[c] = "reread"
  /\ LET loaded == CoreReload(adapter, read[c])
     IN  /\ adapter' = Materialize(loaded)
         /\ \/ /\ loaded.core.valid
               /\ os' = adapter'.snapshot
               /\ breaker' = RecordSuccess(breaker)
               /\ permits' = permits + 1
               /\ phase' = [phase EXCEPT ![c] = "done"]
            \/ /\ Fails(c)
               /\ UNCHANGED os
  /\ UNCHANGED <<world, timers, read>>

\* Mutant: a release in a finally around the whole task.
Cancelled_AlwaysReleases(c) ==
  /\ c \in cancelling /\ phase[c] \notin Over
  /\ permits' = permits + 1
  /\ phase' = [phase EXCEPT ![c] = "cancelled"]
  /\ UNCHANGED <<world, served, timers, breaker, read>>

\* CancelledError at the cycle's await: no outcome is recorded, and a cycle
\* inside the semaphore gives its permit back.
Cancelled(c) ==
  /\ c \in cancelling /\ phase[c] \notin Over
  /\ permits' = IF phase[c] \in Holding THEN permits + 1 ELSE permits
  /\ phase' = [phase EXCEPT ![c] = "cancelled"]
  /\ UNCHANGED <<world, served, timers, breaker, read>>

CycleStep(c) ==
  \/ NotAttached(c)
  \/ Park(c)
  \/ Enter(c)
  \/ Blocked(c)
  \/ CoreReads(c)
  \/ ReloadFails(c)
  \/ Apply(c)
  \/ Cancelled(c)

Next ==
  \/ Edit
  \/ Tick
  \/ Attach
  \/ DeliverEvent
  \/ CallResync
  \/ \E c \in Cycles : CycleStep(c)

\* watch() takes the events it is given, and the event loop runs every task
\* whose await is over: sleeps and reloads end.
Fairness ==
  /\ WF_vars(DeliverEvent)
  /\ \A c \in 1..MaxCycles : WF_vars(CycleStep(c))

Spec == Init /\ [][Next]_vars /\ Fairness

-----------------------------------------------------------------------------
(* Safety *)

\* get_* never observes a configuration that did not satisfy the settings
\* model, snapshot and settings come from the same reload, and AgentOS never
\* resynced to an invalid one: through failed, overlapping and cancelled
\* reloads.
ServesValidatedConfig == ServesValidated(adapter) /\ os.valid

\* Every permit is with a cycle inside the semaphore or back: no way out of
\* resync_now (blocked, failed, cancelled, done) leaks one.  And the debounce
\* coalesces, so that they are not all queued for: of the tasks that events
\* created, at most the one _debounce_task names is still going to resync.
PermitsBalance ==
  /\ permits + Cardinality({c \in Cycles : phase[c] \in Holding}) = max_concurrent
  /\ \A c \in Cycles \ manual :
       phase[c] \notin Over /\ c \notin cancelling => c = debounce

\* With max_concurrent = 1, the default, no cycle takes AgentOS back to an
\* older configuration, not even one that was cancelled late or one called
\* directly.  (With more, a cycle that read the file earlier may end later.)
NeverRollsBack == [][max_concurrent = 1 => os'.edit >= os.edit]_vars

-----------------------------------------------------------------------------
(* Liveness *)

\* With max_concurrent = 1, once the edits are over AgentOS ends on the last
\* configuration, unless the last debounced cycle ended without success: no
\* edit is lost to the debounce, to coalesced events or to a cancelled cycle.
SettlesOnLatest ==
  max_concurrent = 1 =>
    <>[](file # FirstConfig =>
           /\ debounce # 0 /\ phase[debounce] \in Over
           /\ phase[debounce] = "done" => os = file)
=============================================================================
