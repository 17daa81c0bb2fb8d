------------------------------ MODULE MCRuntime ------------------------------
(***************************************************************************)
(* Hot reload and the lifespan in one run.  They share no variable, so     *)
(* what holds of each holds whatever the other does: a behaviour moves one *)
(* of them and leaves the other as it began.                               *)
(***************************************************************************)
EXTENDS HotReload, Lifespan

VARIABLE part  \* the component that moves

runtimeVars == <<part, reloadVars, lifespanVars>>

RuntimeInit == part \in {"HotReload", "Lifespan"} /\ ReloadInit /\ LifespanInit

RuntimeNext ==
  \/ part = "HotReload" /\ ReloadNext /\ UNCHANGED <<part, lifespanVars>>
  \/ part = "Lifespan" /\ LifespanNext /\ UNCHANGED <<part, reloadVars>>

\* The fairness of hot reload: no runner exists while the lifespan moves.
RuntimeSpec == RuntimeInit /\ [][RuntimeNext]_runtimeVars /\ Fairness
=============================================================================
