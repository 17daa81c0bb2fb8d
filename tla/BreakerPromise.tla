--------------------------- MODULE BreakerPromise ---------------------------
(***************************************************************************)
(* What a circuit breaker promises its callers, with no counters: a gate,  *)
(* the calls behind it, and whether the recovery timeout has gone by since *)
(* the last failure.  BreakerCallers implements it.                        *)
(***************************************************************************)
EXTENDS Naturals

CONSTANTS
  Callers,
  NoRest     \* TRUE when the recovery timeout is zero: an open gate has rested

VARIABLES
  gate,      \* "closed", "open" or "half_open"
  rested,    \* has the recovery timeout elapsed since the last failure?
  running    \* the callers whose call is in flight

vars == <<gate, rested, running>>

Init ==
  /\ gate = "closed"
  /\ rested = TRUE
  /\ running = {}

\* A call starts: never while the gate is open and has not rested, and a
\* call that finds it open and rested turns it half open.
Start(c) ==
  /\ c \notin running
  /\ gate = "open" => rested
  /\ gate' = IF gate = "open" THEN "half_open" ELSE gate
  /\ running' = running \union {c}
  /\ UNCHANGED rested

\* A call in flight succeeds.  Only a half-open gate can be closed by it, and
\* no success opens one or shortens the rest.  A half-open gate counts the
\* success of any call in flight, one admitted before the gate opened too.
Succeed(c) ==
  /\ c \in running
  /\ gate' \in IF gate = "half_open" THEN {"half_open", "closed"} ELSE {gate}
  /\ running' = running \ {c}
  /\ UNCHANGED rested

\* A call in flight fails.  A closed gate may open and a half-open one does;
\* no failure closes a gate, and each starts the rest over.
Fail(c) ==
  /\ c \in running
  /\ gate' \in IF gate = "closed" THEN {"closed", "open"} ELSE {"open"}
  /\ rested' = NoRest
  /\ running' = running \ {c}

\* A call in flight ends with nothing recorded: it was cancelled.
Abandon(c) ==
  /\ c \in running
  /\ running' = running \ {c}
  /\ UNCHANGED <<gate, rested>>

\* Time passes, or the clock is set back.
Clock ==
  /\ rested' \in BOOLEAN
  /\ UNCHANGED <<gate, running>>

Next ==
  \/ \E c \in Callers : Start(c) \/ Succeed(c) \/ Fail(c) \/ Abandon(c)
  \/ Clock

Spec == Init /\ [][Next]_vars
=============================================================================
