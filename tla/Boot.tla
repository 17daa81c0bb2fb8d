--------------------------------- MODULE Boot ---------------------------------
(***************************************************************************)
(* The start of a process: keys and models, then agents, teams and         *)
(* databases out of them, then an AgentOS over those, and the app that is  *)
(* served.  The code of each part is in its module; what calls them in     *)
(* this order is external, and synchronous.  A part that the rest reads    *)
(* goes on from where the part before it ended; of what nothing behind it  *)
(* reads one value is taken over.                                          *)
(***************************************************************************)
EXTENDS AgentOS, Serving

VARIABLE stage

vars == <<stage, modelVars, tools, agentVars, osVars, servingVars>>

Init ==
  /\ stage = "models"
  /\ ModelsInit /\ AgentsInit /\ OSInit /\ ServingInit

\* Agents are built over keys of the environment: one of the configuration makes
\* a difference to their models only.
BuildAgents ==
  /\ stage = "models" /\ issued = 0 /\ chain = <<>>
  /\ \A a \in Aliases : models[a] = NoModel
  /\ stage' = "agents"
  /\ UNCHANGED <<modelVars, tools, agentVars, osVars, servingVars>>

\* What is built next reads nothing of the agents but which there are: it is
\* built over one environment, teams of no members, one list of databases.
Quiet ==
  /\ stage = "agents" /\ agent.at = "idle"
  /\ allowlist = AGNO_ALLOWLIST_PREFIXES /\ environ = EnvNames
  /\ installed = {"openai", "mistralai", "ollama", "yfinance", "ddgs"}
  /\ \A t \in DOMAIN teams : teams[t] = <<>>

BuildDatabases ==
  /\ Quiet
  /\ stage' = "databases"
  /\ UNCHANGED <<modelVars, tools, agentVars, osVars, servingVars>>

BuildOS ==
  /\ stage = "databases"
  /\ \/ dbs = NoRegistry
     \/ dbs.at = "returned" /\ \E e \in DbEntries : ~e.password_ref /\ dbs.entries = <<e, e>>
  /\ stage' = "os"
  /\ lifecycle' \in Lifecycles
  /\ UNCHANGED <<modelVars, tools, agentVars, builds, os, oses, resync, interface, servingVars>>

\* YamlAgentOS does not call AgentOSFactory yet: it is given agents.
Serve ==
  /\ Quiet /\ agents = AgentNames /\ teams = <<>>
  /\ stage' = "serve"
  /\ UNCHANGED <<modelVars, tools, agentVars, osVars, servingVars>>

AgentsNext ==
  \/ teams = <<>> /\ \E name \in AgentNames : BuildAgent(name)
  \/ TakeTools \/ LoadSkills \/ BuildModel \/ TakeAgent
  \/ \E name \in TeamNames : BuildTeam(name)

Next ==
  \/ stage = "models" /\ ModelsNext /\ UNCHANGED <<stage, tools, agentVars, osVars, servingVars>>
  \/ stage = "agents" /\ AgentsNext /\ UNCHANGED <<stage, osVars, servingVars>>
  \/ stage = "agents" /\ BuildTools /\ UNCHANGED <<stage, osVars, servingVars>>
  \/ /\ stage = "databases" /\ (BuildDbRegistry \/ RegisterDb)
     /\ UNCHANGED <<stage, osVars, servingVars>>
  \/ stage = "os" /\ OSNext /\ UNCHANGED <<stage, servingVars>>
  \/ stage = "serve" /\ ServingNext
       /\ UNCHANGED <<stage, modelVars, tools, agentVars, osVars>>
  \/ BuildAgents \/ BuildDatabases \/ BuildOS \/ Serve

Spec == Init /\ [][Next]_vars

TypeOK ==
  /\ stage \in {"models", "agents", "databases", "os", "serve"}
  /\ ModelsTypeOK /\ AgentsTypeOK /\ OSTypeOK /\ ServingTypeOK
=============================================================================
