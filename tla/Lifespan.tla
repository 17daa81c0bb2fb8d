------------------------------ MODULE Lifespan ------------------------------
(***************************************************************************)
(* LifespanAdapter (agentos/lifespan.py): components with start() and      *)
(* stop(), startup callbacks and shutdown callbacks, composed into one     *)
(* async context manager over contextlib.AsyncExitStack.                   *)
(*                                                                         *)
(* An item is a component or a callback.  Each call of an item is an await *)
(* that returns or raises; items may be registered at any time, from a     *)
(* callback that is running too.  One owner enters and exits, and may      *)
(* enter again (a server that restarts its application).                   *)
(***************************************************************************)
EXTENDS Naturals, Sequences, SequencesExt

CONSTANTS Components, Startups, Shutdowns, NoError

Items == Components \union Startups \union Shutdowns

ASSUME LifespanAssumption ==
  /\ Components \intersect Startups = {}
  /\ Components \intersect Shutdowns = {}
  /\ Startups \intersect Shutdowns = {}
  /\ NoError \notin Items

VARIABLES
  registered,  \* the items in the order in which they were registered
  entered,     \* how many of them were registered when __aenter__ was called
  context,     \* where the context manager is
  next,        \* the index __aenter__'s current loop is at
  exits,       \* _stack: what aclose() still has to call, its top the last
  log,         \* the calls made since __aenter__
  pending      \* the item whose exception aclose() is going to raise

lifespanVars == <<registered, entered, context, next, exits, log, pending>>

Contexts == {"idle", "callbacks", "starting", "running", "exiting",
           "exited", "start_failed"}
Calls == [item: Items, op: {"start", "stop", "run"}, raised: BOOLEAN]

LifespanTypeOK ==
  /\ registered \in Seq(Items) /\ IsInjective(registered)
  /\ entered \in 0..Len(registered)
  /\ context \in Contexts
  /\ next \in 1..Len(registered) + 1
  /\ IsInjective(exits) /\ ToSet(exits) \subseteq ToSet(registered)
  /\ \A i \in DOMAIN log : log[i] \in Calls
  /\ pending \in Items \union {NoError}

\* _components, _startup_callbacks and _shutdown_callbacks: each list has the
\* order of registration.
Among(items, kind) ==
  FlattenSeq([i \in DOMAIN items |-> IF items[i] \in kind THEN <<items[i]>> ELSE <<>>])
_components == Among(registered, Components)
_startup_callbacks == Among(registered, Startups)
_shutdown_callbacks == Among(registered, Shutdowns)

LifespanInit ==
  /\ registered = <<>> /\ entered = 0
  /\ context = "idle" /\ next = 1
  /\ exits = <<>> /\ log = <<>> /\ pending = NoError

-----------------------------------------------------------------------------
(* Registration: add_component, add_startup, add_shutdown *)

Register(item) ==
  /\ item \notin ToSet(registered)
  /\ registered' = Append(registered, item)
  /\ UNCHANGED <<entered, context, next, exits, log, pending>>

-----------------------------------------------------------------------------
(* __aenter__ *)

Logs(item, op, raised) ==
  log' = Append(log, [item |-> item, op |-> op, raised |-> raised])

\* Mutant: the stops pushed in the reverse order.
Enter_ReversedPush ==
  /\ context \in {"idle", "exited", "start_failed"}
  /\ exits' = Reverse(_components) \o _shutdown_callbacks
  /\ entered' = Len(registered)
  /\ context' = "callbacks" /\ next' = 1
  /\ log' = <<>> /\ pending' = NoError
  /\ UNCHANGED registered

\* Mutant: the exit stack of the adapter, not of the entry.
Enter_OneStack ==
  /\ context \in {"idle", "exited", "start_failed"}
  /\ exits' = exits \o _components \o _shutdown_callbacks
  /\ entered' = Len(registered)
  /\ context' = "callbacks" /\ next' = 1
  /\ log' = <<>> /\ pending' = NoError
  /\ UNCHANGED registered

\* A new exit stack: every component's stop, then every shutdown callback.
Enter ==
  /\ context \in {"idle", "exited", "start_failed"}
  /\ exits' = _components \o _shutdown_callbacks
  /\ entered' = Len(registered)
  /\ context' = "callbacks" /\ next' = 1
  /\ log' = <<>> /\ pending' = NoError
  /\ UNCHANGED registered

\* One call of a loop of __aenter__ over a list that may grow meanwhile.  An
\* exception leaves __aenter__: __aexit__ will not run.
CallNext(items, op) ==
  /\ next <= Len(items)
  /\ \E raises \in BOOLEAN :
       /\ Logs(items[next], op, raises)
       /\ context' = IF raises THEN "start_failed" ELSE context
  /\ next' = next + 1
  /\ UNCHANGED <<registered, entered, exits, pending>>

RunStartup == context = "callbacks" /\ CallNext(_startup_callbacks, "run")

StartupsDone ==
  /\ context = "callbacks" /\ next > Len(_startup_callbacks)
  /\ context' = "starting" /\ next' = 1
  /\ UNCHANGED <<registered, entered, exits, log, pending>>

StartComponent == context = "starting" /\ CallNext(_components, "start")

AllStarted ==
  /\ context = "starting" /\ next > Len(_components)
  /\ context' = "running" /\ next' = 1
  /\ UNCHANGED <<registered, entered, exits, log, pending>>

-----------------------------------------------------------------------------
(* __aexit__: AsyncExitStack.aclose(), external *)

Exit ==
  /\ context = "running"
  /\ context' = "exiting"
  /\ UNCHANGED <<registered, entered, next, exits, log, pending>>

Op(item) == IF item \in Components THEN "stop" ELSE "run"

\* Mutant: teardown by a plain loop, which the first exception leaves.
PopExit_Aborts ==
  /\ context = "exiting" /\ exits # <<>>
  /\ \E raises \in BOOLEAN :
       /\ Logs(Last(exits), Op(Last(exits)), raises)
       /\ pending' = IF raises THEN Last(exits) ELSE pending
       /\ exits' = IF raises THEN <<>> ELSE Front(exits)
  /\ UNCHANGED <<registered, entered, context, next>>

\* Mutant: the exception swallowed.
PopExit_Swallows ==
  /\ context = "exiting" /\ exits # <<>>
  /\ \E raises \in BOOLEAN : Logs(Last(exits), Op(Last(exits)), raises)
  /\ exits' = Front(exits)
  /\ UNCHANGED <<registered, entered, context, next, pending>>

\* The top of the stack is called; its exception replaces the pending one.
PopExit ==
  /\ context = "exiting" /\ exits # <<>>
  /\ \E raises \in BOOLEAN :
       /\ Logs(Last(exits), Op(Last(exits)), raises)
       /\ pending' = IF raises THEN Last(exits) ELSE pending
  /\ exits' = Front(exits)
  /\ UNCHANGED <<registered, entered, context, next>>

\* aclose() returns, or raises the pending exception.
Exited ==
  /\ context = "exiting" /\ exits = <<>>
  /\ context' = "exited"
  /\ UNCHANGED <<registered, entered, next, exits, log, pending>>

LifespanNext ==
  \/ \E item \in Items : Register(item)
  \/ Enter
  \/ RunStartup
  \/ StartupsDone
  \/ StartComponent
  \/ AllStarted
  \/ Exit
  \/ PopExit
  \/ Exited

LifespanSpec == LifespanInit /\ [][LifespanNext]_lifespanVars

-----------------------------------------------------------------------------
(* Properties *)

Made(ops) == Among(log, {c \in Calls : c.op \in ops /\ c.item \in Components})
ItemsOf(calls) == [i \in DOMAIN calls |-> calls[i].item]
Raising == Among(log, {c \in Calls : c.raised /\ context \in {"exiting", "exited"}})
InTime == SubSeq(registered, 1, entered)

\* Components start in the order of registration and stop in the reverse of
\* it, whatever raised on the way and whatever was registered too late.  "A
\* callback registered after a component will run BEFORE that component's
\* stop()".
TeardownOrder ==
  /\ IsPrefix(ItemsOf(Made({"start"})), _components)
  /\ IsPrefix(ItemsOf(Made({"stop"})), Reverse(Among(InTime, Components)))
  /\ \A i, j \in DOMAIN log :
       (/\ log[i].op = "stop" /\ log[j].item \in Shutdowns
        /\ Among(registered, {log[i].item, log[j].item}) = <<log[i].item, log[j].item>>)
         => j < i

\* Best-effort teardown: at the end of it every component and every shutdown
\* callback registered before __aenter__ has been called once, although others
\* raised.
EveryStopRuns ==
  context = "exited" =>
    LET left == Among(log, {c \in Calls : c.op = "stop" \/ c.item \in Shutdowns})
    IN  /\ IsInjective(ItemsOf(left))
        /\ ToSet(ItemsOf(left)) = ToSet(InTime) \ Startups

\* An exception of the teardown is never lost: aclose() raises if and only if
\* something it called raised.
TeardownErrorSurfaces ==
  context = "exited" => (pending # NoError <=> Raising # <<>>)

\* __aexit__'s docstring: "the FIRST exception is re-raised".
FirstExceptionReraised ==
  context = "exited" /\ Raising # <<>> => pending = Head(Raising).item
=============================================================================
