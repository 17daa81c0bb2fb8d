------------------------------- MODULE Agents --------------------------------
(***************************************************************************)
(* Agents, teams and databases out of their configurations:                *)
(* factories/agent_factory.py with skills/, factories/team_factory.py and  *)
(* persistence/registry.py.  What is built is put under its name by the    *)
(* loader, which is external; a build that raises puts nothing there.      *)
(***************************************************************************)
EXTENDS Tools

CONSTANTS
  AgentNames,
  TeamNames

VARIABLES
  agents,  \* the names of the agents that were built
  agent,   \* the call of AgentFactory.build
  teams,   \* for each team that was built its members, in their order
  dbs      \* the call of build_db_registry, and the registry it returned

agentVars == <<agents, agent, teams, dbs>>

NoAgent == [name |-> "", at |-> "idle", declared |-> 0, tools |-> 0,
            resolver |-> FALSE, model |-> "none"]
NoRegistry == [entries |-> <<>>, refs |-> {}, at |-> "idle"]

-----------------------------------------------------------------------------
(* AgentFactory.build *)

\* The agents' tool lists: every sort of entry alone, and two in a row.
Entries ==
  {BuiltinToolConfig("yfinance", <<<<"news", 1>>, <<"enable_company_news", 2>>, <<"x", 3>>>>),
   BuiltinToolConfig("nobody", <<>>), BuiltinToolConfig("duckduckgo", <<>>),
   CustomToolConfig(Function, Optional, None, <<Function>>, {"requires_confirmation"}),
   CustomToolConfig(Function, None, Function, <<OfModels>>, {}),
   CustomToolConfig(Function, None, Bare, <<>>, {}),
   CustomToolConfig(Bare, Function, None, <<>>, {}),
   CustomToolConfig(Function, None, None, <<>>, {"requires_user_input", "external_execution"}),
   CustomToolkitConfig(Toolkit, TRUE), CustomToolkitConfig(Function, TRUE),
   HttpMcpConfig("sse", Function), HttpMcpConfig("streamable-http", OfModels),
   StdioMcpConfig(TRUE),
   McpMultiToolConfig(<<StdioMcpConfig(FALSE), HttpMcpConfig("sse", OfModels)>>)}

ToolLists == {<<>>} \union {<<e>> : e \in Entries} \union (Entries \X Entries)

\* What AgentConfig lets through as a model: it looks for the first colon only,
\* so an id with a second one is for parse_model_spec to refuse.
ModelStrings ==
  {Entry("string", p, {}, TRUE) : p \in {"openai", "mistral", "nobody"}}
    \union {Entry("two colons", "openai", {}, TRUE)}

\* SkillsConfig: a path that is there or not, sound skills or not.
SkillsConfig == [path : {"there", "missing"}, sound : BOOLEAN, validate_skills : BOOLEAN]

\* SkillsFactory.build: LocalSkills reads the path, and may validate.
SkillsLoad(cfg) == cfg.path = "there" /\ (cfg.validate_skills => cfg.sound)

Raised == [NoAgent EXCEPT !.at = "raised"]

\* Tools are built if there are any and a resolver was passed, or else dropped.
BuildAgent(name) ==
  /\ agent.at = "idle" /\ name \notin agents
  /\ \E list \in ToolLists, resolver \in BOOLEAN :
       LET call == [NoAgent EXCEPT !.name = name, !.declared = Len(list),
                                   !.resolver = resolver]
       IN  IF list # <<>> /\ resolver
             THEN CallTools(list) /\ agent' = [call EXCEPT !.at = "tools"]
             ELSE agent' = [call EXCEPT !.at = "skills"] /\ UNCHANGED <<tools, modelVars>>
  /\ UNCHANGED <<agents, teams, dbs>>

TakeTools ==
  /\ agent.at = "tools" /\ tools.at \in {"returned", "raised"}
  /\ agent' = IF tools.at = "raised" THEN Raised
              ELSE [agent EXCEPT !.at = "skills", !.tools = Len(tools.built)]
  /\ tools' = NoTools
  /\ UNCHANGED <<modelVars, agents, teams, dbs>>

LoadSkills ==
  /\ agent.at = "skills"
  /\ \/ agent' = [agent EXCEPT !.at = "model"]
     \/ \E cfg \in SkillsConfig :
          agent' = IF SkillsLoad(cfg) THEN [agent EXCEPT !.at = "model"] ELSE Raised
  /\ UNCHANGED <<modelVars, tools, agents, teams, dbs>>

\* Without a provider_factory the string is for Agno; with one it is parsed and
\* built, under the provider as it is written.
BuildModel ==
  /\ agent.at = "model"
  /\ \/ agent' = [agent EXCEPT !.at = "built", !.model = "string"]
     \/ \E entry \in ModelStrings :
          agent' = IF parse_model_spec(entry) /\ Builds(entry, FALSE)
                     THEN [agent EXCEPT !.at = "built", !.model = ModelOf(entry)]
                     ELSE Raised
  /\ UNCHANGED <<modelVars, tools, agents, teams, dbs>>

\* The loader puts the agent under its name, or goes on without.
TakeAgent ==
  /\ agent.at \in {"built", "raised"}
  /\ agents' = IF agent.at = "built" THEN agents \union {agent.name} ELSE agents
  /\ agent' = NoAgent
  /\ UNCHANGED <<modelVars, tools, teams, dbs>>

-----------------------------------------------------------------------------
(* TeamConfig and TeamFactory.build *)

TeamMemberConfig == [member : {"m1", "m2"}, agent : AgentNames]
Modes == {"coordinate", "route"}

\* The members' ids are unique, and to route takes two.
ValidTeam(members, mode) ==
  /\ \A i, j \in DOMAIN members : members[i].member = members[j].member => i = j
  /\ mode = "route" => Len(members) >= 2

BuildTeam(name) ==
  /\ agent.at = "idle" /\ name \notin DOMAIN teams
  /\ \E members \in SeqOf(TeamMemberConfig, 2), mode \in Modes :
       /\ ValidTeam(members, mode)
       /\ \A i \in DOMAIN members : members[i].agent \in agents
       /\ teams' = [t \in DOMAIN teams \union {name} |->
                      IF t = name THEN [i \in DOMAIN members |-> members[i].agent]
                      ELSE teams[t]]
  /\ UNCHANGED <<modelVars, tools, agents, agent, dbs>>

-----------------------------------------------------------------------------
(* build_db_registry *)

\* An entry of databases or, with a table_name, of vector_databases.
DbEntry(dsn, password_ref, vector, table_name) ==
  [dsn |-> dsn, password_ref |-> password_ref, vector |-> vector, table_name |-> table_name]

DbEntries ==
  {DbEntry("plain", FALSE, FALSE, FALSE), DbEntry("placeholder", TRUE, FALSE, FALSE),
   DbEntry("placeholder", FALSE, FALSE, FALSE), DbEntry("missing", FALSE, FALSE, FALSE)}
VectorEntries ==
  {DbEntry("plain", FALSE, TRUE, TRUE), DbEntry("placeholder", TRUE, TRUE, TRUE),
   DbEntry("plain", TRUE, TRUE, TRUE), DbEntry("plain", FALSE, TRUE, FALSE)}

\* _resolve_dsn: there is a DSN, and it asks for a password just if one is named.
ValidDb(entry) ==
  /\ entry.dsn # "missing"
  /\ entry.dsn = "placeholder" <=> entry.password_ref
  /\ entry.vector => entry.table_name

BuildDbRegistry ==
  /\ dbs.at = "idle"
  /\ \E databases \in SeqOf(DbEntries, 2), vector_databases \in SeqOf(VectorEntries, 1) :
       dbs' = [entries |-> databases \o vector_databases, refs |-> {}, at |-> "working"]
  /\ UNCHANGED <<modelVars, tools, agents, agent, teams>>

\* The next entry: its password is read, its driver imported, its ref registered,
\* unless one of them fails, and then the whole registry is lost.
RegisterDb ==
  /\ dbs.at = "working"
  /\ LET i == Cardinality(dbs.refs) + 1
     IN  IF i > Len(dbs.entries) THEN dbs' = [dbs EXCEPT !.at = "returned"]
         ELSE \/ /\ ValidDb(dbs.entries[i])
                 /\ dbs' = [dbs EXCEPT !.refs = @ \union {i}]
              \/ dbs' = [NoRegistry EXCEPT !.at = "raised"]
  /\ UNCHANGED <<modelVars, tools, agents, agent, teams>>

-----------------------------------------------------------------------------

AgentsInit ==
  /\ tools = NoTools
  /\ agents = {} /\ agent = NoAgent
  /\ teams = <<>> /\ dbs = NoRegistry

BuildTools == (BuildEntry \/ ToolsReturn) /\ UNCHANGED agentVars

AgentsTypeOK ==
  /\ ToolsTypeOK
  /\ agents \subseteq AgentNames /\ DOMAIN teams \subseteq TeamNames
  /\ agent.at \in {"idle", "tools", "skills", "model", "built", "raised"}
  /\ tools.at # "idle" <=> agent.at = "tools"
  /\ dbs.at \in {"idle", "working", "returned", "raised"}

\* Nothing is built in part: an agent has all of the tools of the list it is built
\* with, every member of a team is an agent that was built, and a registry of
\* databases that is returned has every ref.
BuiltWhole ==
  /\ agent.at \in {"skills", "model", "built"} =>
       agent.tools = IF agent.resolver THEN agent.declared ELSE 0
  /\ \A t \in DOMAIN teams : ToSet(teams[t]) \subseteq agents
  /\ dbs.at = "returned" => dbs.refs = DOMAIN dbs.entries
=============================================================================
