--------------------------- MODULE MCResyncFactory ---------------------------
(***************************************************************************)
(* The resync of a served configuration and the building of its workflows  *)
(* in one run.  They share no variable, so what holds of each holds        *)
(* whatever the other does: a behaviour moves one of them and leaves the   *)
(* other as it began.                                                      *)
(***************************************************************************)
EXTENDS ResyncManager, MCWorkflowFactory

VARIABLE part  \* the component that moves

mcVars == <<part, vars, factoryVars>>

TwoSteps == <<Plain("a", "Step", "agent"), Plain("b", "Step", "agent")>>

MCInit ==
  /\ Init /\ FactoryInit
  /\ \/ part = "ResyncManager" /\ config = TwoSteps /\ ~step_executor
     \/ part = "WorkflowFactory" /\ max_concurrent = 1

MCNext ==
  \/ part = "ResyncManager" /\ Next /\ UNCHANGED <<part, factoryVars>>
  \/ part = "WorkflowFactory" /\ FactoryNext /\ UNCHANGED <<part, vars>>

\* The fairness of the resync: no event and no cycle exists while the factory
\* moves.
MCSpec == MCInit /\ [][MCNext]_mcVars /\ Fairness
=============================================================================
