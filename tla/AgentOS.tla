------------------------------- MODULE AgentOS -------------------------------
(***************************************************************************)
(* factories/agentos_factory.py with what it is wired to: the settings of  *)
(* models/config/agentos_config.py, agentos/authorization_adapter.py,      *)
(* agentos/interfaces.py, agentos/a2a_interface.py and                     *)
(* agentos/mcp_lifecycle.py.  AgentOSFactory.build has five phases; one    *)
(* that raises ends the build.  The lifecycle and the resync manager are   *)
(* shared by the builds, and keep the instance they were last given.       *)
(***************************************************************************)
EXTENDS Agents

CONSTANTS
  WorkflowNames,   \* the workflows of the registry
  KnowledgeNames,  \* the knowledge bases of the registry
  Ghost,           \* a name that no registry knows
  MaxBuilds        \* bound: the calls of AgentOSFactory.build

ASSUME AgentOSAssumption == MaxBuilds \in Nat

VARIABLES
  builds,     \* the calls of build so far
  os,         \* the call at work: its phase, its configuration, its kwargs so far
  oses,       \* for each call that assembled an AgentOS its kwargs
  lifecycle,  \* MCPServerLifecycle: its settings and _agentos, 0 for None
  resync,     \* the AgentOS the ResyncManager is attached to, or 0
  interface   \* the last interface that was built outside of the factory

osVars == <<builds, os, oses, lifecycle, resync, interface>>

Kinds == {"agent", "team", "workflow", "knowledge"}

\* Where a name of a kind is looked up.
Registry(kind) ==
  CASE kind = "agent" -> agents
    [] kind = "team" -> DOMAIN teams
    [] kind = "workflow" -> WorkflowNames
    [] kind = "knowledge" -> KnowledgeNames

NoAuth == [enabled |-> FALSE, user_isolation |-> FALSE, values |-> {}]
NoMcp == [enabled |-> FALSE, tools |-> {}, include_tags |-> {}]
Nothing == [kind \in Kinds |-> <<>>]

\* The sections of AgentOSConfig that are all switched off.
Plain == [refs |-> Nothing, db |-> 0, interfaces |-> <<>>, resync |-> FALSE,
          authorization |-> [enabled |-> FALSE, basic_auth |-> FALSE, config |-> <<>>],
          mcp |-> [enabled |-> FALSE, tools_to_expose |-> {}]]
NoOS == [at |-> "idle", config |-> Plain, deps |-> Nothing, db |-> 0,
         auth |-> NoAuth, mcp |-> NoMcp, interfaces |-> <<>>]
Failed == [NoOS EXCEPT !.at = "raised"]

-----------------------------------------------------------------------------
(* AgentOSConfig *)

\* Lists of names: in either order, one of them twice, one that is unknown.
RefLists(names) ==
  {<<>>} \union {<<n>> : n \in names} \union (names \X names)
    \union {<<n, Ghost>> : n \in names}

Names == [agent |-> AgentNames, team |-> TeamNames, workflow |-> WorkflowNames,
          knowledge |-> KnowledgeNames]

\* One list that is anything, and beside it no other or one of every kind.
Refs ==
  LET Beside == {Nothing, [kind \in Kinds |-> <<CHOOSE name \in Names[kind] : TRUE>>]}
  IN  UNION {{[others EXCEPT ![kind] = list] : others \in Beside, list \in RefLists(Names[kind])} :
               kind \in Kinds}

\* The values an authorization section may have under a key: text, or a list.
AuthConfigs ==
  {<<>>} \union {[k \in {key} |-> values] :
                   key \in {"verification_keys", "user_isolation", "nonsense"},
                   values \in {<<"plain">>, <<"plain", "lost">>, <<"ref", "plain">>}}
AuthorizationSettings == [enabled : BOOLEAN, basic_auth : BOOLEAN, config : AuthConfigs]

\* tools_to_expose: a tag that Agno has, or a tool's name.
MCPServerSettings == [enabled : BOOLEAN, tools_to_expose : {{}, {"search", "core"}}]

\* An interface: what it is, whom it is for, what it has under its keys.
InterfaceSpec(type, target, value) == [type |-> type, target |-> target, value |-> value]

Specs ==
  {InterfaceSpec("agui", n, "absent") : n \in AgentNames \union {"None", Ghost}}
    \union {InterfaceSpec("slack", n, c) :
              n \in TeamNames, c \in {"ref", "lost", "blank", "absent"}}
    \union {InterfaceSpec("telegram", n, "plain") : n \in WorkflowNames}
    \union {InterfaceSpec("a2a", "None", "plain")}
Interfaces == {<<s>> : s \in Specs} \union ({s \in Specs : s.type = "agui"} \X Specs)

\* The configurations: each has one section, or two, that are anything, and
\* names an agent, a team or a workflow.
Usual == [Plain EXCEPT !.refs["workflow"] = <<CHOOSE name \in WorkflowNames : TRUE>>]
OfRefs(refs, db) == [Usual EXCEPT !.refs = refs, !.db = db]
OfAuthorization(settings) == [Usual EXCEPT !.authorization = settings]
OfMcp(mcp, on) == [Usual EXCEPT !.mcp = mcp, !.resync = on]
OfInterfaces(interfaces) == [Usual EXCEPT !.interfaces = interfaces]
AgentOSConfigs ==
  {OfRefs(refs, db) :
     refs \in {r \in Refs : r["agent"] # <<>> \/ r["team"] # <<>> \/ r["workflow"] # <<>>},
     db \in 0..Len(dbs.entries) + 1}
    \union {OfAuthorization(settings) : settings \in AuthorizationSettings}
    \union {OfMcp(mcp, on) : mcp \in MCPServerSettings, on \in BOOLEAN}
    \union {OfInterfaces(interfaces) : interfaces \in Interfaces}

-----------------------------------------------------------------------------
(* Phases 1 and 2: _validate_config and _build_dependencies *)

\* _resolve_refs gives what each name stands for; KeyError refuses the build.
Resolvable(refs, kind) == ToSet(refs) \subseteq Registry(kind)
Resolved(refs, kind) == [i \in DOMAIN refs |-> <<kind, refs[i]>>]

\* Every list is looked through for a name that is in it twice, then resolved.
BuildDependencies ==
  /\ os.at = "idle" /\ builds < MaxBuilds /\ interface = <<>>
  /\ \E cfg \in AgentOSConfigs :
       os' = IF /\ \A kind \in Kinds : /\ IsInjective(cfg.refs[kind])
                                       /\ Resolvable(cfg.refs[kind], kind)
                /\ cfg.db \in dbs.refs \union {0}
               THEN [NoOS EXCEPT !.at = "auth", !.config = cfg, !.db = cfg.db,
                       !.deps = [kind \in Kinds |-> Resolved(cfg.refs[kind], kind)]]
               ELSE Failed
  /\ builds' = builds + 1
  /\ UNCHANGED <<modelVars, tools, agentVars, oses, lifecycle, resync, interface>>

-----------------------------------------------------------------------------
(* Phase 3: _wire_integrations *)

\* A value of the configuration is "plain", or a ${SECRET:...} whose secret the
\* manager has ("ref"), has not ("lost") or has as the empty string ("blank").
SecretValue(value) ==
  CASE value = "ref" -> "secret" [] value = "blank" -> "" [] OTHER -> value

SETTABLE_FIELDS == {"verification_keys"}

\* _map_authorization_config, for a section that is enabled: refused, it is NoAuth.
map_authorization_config(settings, manager) ==
  LET section == settings.config
      values == UNION {ToSet(section[k]) : k \in DOMAIN section}
  IN  IF /\ ~settings.basic_auth /\ DOMAIN section \subseteq SETTABLE_FIELDS
         /\ "lost" \notin values
         /\ "ref" \in values => manager
        THEN [enabled |-> TRUE, user_isolation |-> TRUE,
              values |-> {SecretValue(v) : v \in values}]
        ELSE NoAuth

\* Mutant: the kwargs are begun anew, and not added to.
Wired_Afresh(auth) == [NoOS EXCEPT !.at = "mcp", !.config = os.config, !.auth = auth]

\* The authorization is one more of the kwargs.
Wired(auth) == [os EXCEPT !.at = "mcp", !.auth = auth]

\* With an adapter or, on the legacy path, without one and so without secrets;
\* the wildcard origin was refused when the configuration was validated.
WireAuth ==
  /\ os.at = "auth"
  /\ \/ ~os.config.authorization.enabled /\ os' = Wired(NoAuth)
     \/ /\ os.config.authorization.enabled
        /\ \E adapter \in BOOLEAN :
             LET auth == map_authorization_config(os.config.authorization, adapter)
             IN  os' = IF auth.enabled THEN Wired(auth) ELSE Failed
  /\ UNCHANGED <<modelVars, tools, agentVars, builds, oses, lifecycle, resync, interface>>

\* _build_mcp_config: the names as tools, whether they are tags or not.
WireMcp ==
  /\ os.at = "mcp"
  /\ os' = [os EXCEPT !.at = "interfaces",
               !.mcp = IF os.config.mcp.enabled
                         THEN [NoMcp EXCEPT !.enabled = TRUE,
                                            !.tools = os.config.mcp.tools_to_expose]
                         ELSE NoMcp]
  /\ UNCHANGED <<modelVars, tools, agentVars, builds, oses, lifecycle, resync, interface>>

-----------------------------------------------------------------------------
(* Interfaces *)

ValidSpec(spec) == spec.type # "a2a" => spec.target # "None"

credential_keys == [agui |-> 0, slack |-> 3, whatsapp |-> 3, telegram |-> 1, a2a |-> 0]

\* _resolve_target: an agent of the name, or else a team, or else a workflow.
ResolvedTarget(ref) ==
  CASE ref \in agents -> <<"agent", ref>>
    [] ref \notin agents /\ ref \in DOMAIN teams -> <<"team", ref>>
    [] ref \notin agents \union DOMAIN teams /\ ref \in WorkflowNames -> <<"workflow", ref>>
    [] OTHER -> <<>>

\* InterfaceRegistry.build for what has a target: the references are resolved if
\* there is a manager, which raises for a lost one; then every required key has
\* to have a value; then the target is looked up.
Credential(spec, manager) ==
  CASE manager -> SecretValue(spec.value)
    [] ~manager /\ spec.value \in {"ref", "lost", "blank"} -> "literal"
    [] OTHER -> spec.value
BuildsInterface(spec, manager) ==
  /\ manager => spec.value # "lost"
  /\ credential_keys[spec.type] > 0 => Credential(spec, manager) \notin {"absent", ""}
  /\ spec.type # "a2a" /\ ResolvedTarget(spec.target) # <<>>

\* A2AInterfaceFactory.build: something is declared, the SDK is there, and every
\* name is in its registry.  AgentOSFactory passes no registries, and what it
\* builds of this type always ends in an AttributeError.
A2AInterface(a, t, w, sdk) ==
  IF /\ a # <<>> \/ t # <<>> \/ w # <<>>
     /\ sdk
     /\ Resolvable(a, "agent") /\ Resolvable(t, "team") /\ Resolvable(w, "workflow")
    THEN Resolved(a, "agent") \o Resolved(t, "team") \o Resolved(w, "workflow")
    ELSE <<>>

\* Of no interfaces, or without an InterfaceRegistry, there is nothing to build.
WireInterfaces ==
  /\ os.at = "interfaces"
  /\ \/ os' = [os EXCEPT !.at = "assemble"]
     \/ \E manager \in BOOLEAN :
          LET specs == os.config.interfaces
          IN  /\ specs # <<>>
              /\ os' = IF \A i \in DOMAIN specs :
                            ValidSpec(specs[i]) /\ BuildsInterface(specs[i], manager)
                         THEN [os EXCEPT !.at = "assemble",
                                 !.interfaces = [i \in DOMAIN specs |->
                                                   [type |-> specs[i].type,
                                                    target |-> ResolvedTarget(specs[i].target),
                                                    credential |-> Credential(specs[i], manager)]]]
                         ELSE Failed
  /\ UNCHANGED <<modelVars, tools, agentVars, builds, oses, lifecycle, resync, interface>>

\* An A2A interface that is built over registries, outside of the factory.
BuildInterface ==
  /\ os.at = "idle" /\ builds = 0
  /\ \E a \in RefLists(AgentNames), t \in RefLists(TeamNames), w \in RefLists(WorkflowNames),
        sdk \in BOOLEAN :
       interface' = A2AInterface(a, t, w, sdk)
  /\ UNCHANGED <<modelVars, tools, agentVars, builds, os, oses, lifecycle, resync>>

TakeInterface ==
  /\ interface # <<>> /\ interface' = <<>>
  /\ UNCHANGED <<modelVars, tools, agentVars, builds, os, oses, lifecycle, resync>>

-----------------------------------------------------------------------------
(* Phases 4 and 5: _assemble_app and _register_lifecycle *)

\* AgentOS(...) is Agno's, and may raise.  It is what its kwargs are.
AssembleApp ==
  /\ os.at = "assemble"
  /\ \/ /\ os' = [os EXCEPT !.at = "register"]
        /\ oses' = [n \in DOMAIN oses \union {builds} |->
                      IF n = builds THEN os' ELSE oses[n]]
     \/ os' = Failed /\ UNCHANGED oses
  /\ UNCHANGED <<modelVars, tools, agentVars, builds, lifecycle, resync, interface>>

\* Mutant: the lifecycle is registered whether the section is enabled or not.
RegisterLifecycle_Always ==
  /\ os.at = "register"
  /\ \E with_lifecycle, with_resync \in BOOLEAN :
       /\ lifecycle' = IF with_lifecycle THEN [lifecycle EXCEPT !.agentos = builds] ELSE lifecycle
       /\ resync' = IF with_resync /\ os.config.resync THEN builds ELSE resync
  /\ os' = [os EXCEPT !.at = "built"]
  /\ UNCHANGED <<modelVars, tools, agentVars, builds, oses, interface>>

\* Each is registered if it was injected and its section is enabled.
RegisterLifecycle ==
  /\ os.at = "register"
  /\ \E with_lifecycle, with_resync \in BOOLEAN :
       /\ lifecycle' = IF with_lifecycle /\ os.config.mcp.enabled
                         THEN [lifecycle EXCEPT !.agentos = builds] ELSE lifecycle
       /\ resync' = IF with_resync /\ os.config.resync THEN builds ELSE resync
  /\ os' = [os EXCEPT !.at = "built"]
  /\ UNCHANGED <<modelVars, tools, agentVars, builds, oses, interface>>

\* The caller of build has the AgentOS, or the exception.
TakeOS ==
  /\ os.at \in {"built", "raised"}
  /\ os' = NoOS
  /\ UNCHANGED <<modelVars, tools, agentVars, builds, oses, lifecycle, resync, interface>>

\* MCPServerLifecycle.start replaces what the factory has wired, tools included:
\* of the names it knows only the tags.  stop does nothing.
StartMcp ==
  /\ os.at = "idle" /\ lifecycle.enabled /\ lifecycle.agentos # 0
  /\ oses' = [oses EXCEPT ![lifecycle.agentos].mcp =
                [NoMcp EXCEPT !.enabled = TRUE,
                              !.include_tags = lifecycle.tools \intersect {"core", "session"}]]
  /\ UNCHANGED <<modelVars, tools, agentVars, builds, os, lifecycle, resync, interface>>

-----------------------------------------------------------------------------

\* MCPServerLifecycle, over settings of its own.
Lifecycles == [enabled : BOOLEAN, tools : {{"search", "core"}}, agentos : {0}]

OSInit ==
  /\ builds = 0 /\ os = NoOS /\ oses = <<>>
  /\ lifecycle = [enabled |-> FALSE, tools |-> {"search", "core"}, agentos |-> 0]
  /\ resync = 0 /\ interface = <<>>

OSNext ==
  \/ BuildDependencies \/ WireAuth \/ WireMcp \/ WireInterfaces
  \/ AssembleApp \/ RegisterLifecycle \/ TakeOS
  \/ BuildInterface \/ TakeInterface \/ StartMcp

OSTypeOK ==
  /\ builds \in 0..MaxBuilds /\ DOMAIN oses \subseteq 1..builds
  /\ os.at \in {"idle", "auth", "mcp", "interfaces", "assemble", "register", "built", "raised"}
  /\ lifecycle.agentos \in 0..builds /\ resync \in 0..builds

\* What is said of one AgentOS that was assembled.
Whole(agentos) ==
  /\ \A kind \in Kinds :
       /\ agentos.deps[kind] = Resolved(agentos.config.refs[kind], kind)
       /\ IsInjective(agentos.deps[kind]) /\ Resolvable(agentos.config.refs[kind], kind)
  /\ agentos.db = agentos.config.db /\ agentos.db \in dbs.refs \union {0}
  /\ agentos.auth.enabled <=> agentos.config.authorization.enabled
  /\ agentos.auth.enabled => /\ agentos.auth.user_isolation
                             /\ agentos.auth.values \subseteq {"plain", "secret"}
  /\ agentos.mcp.enabled <=> agentos.config.mcp.enabled
  /\ agentos.interfaces # <<>> => DOMAIN agentos.interfaces = DOMAIN agentos.config.interfaces
  /\ \A i \in DOMAIN agentos.interfaces :
       LET built == agentos.interfaces[i]
       IN  /\ built.target[2] \in agents => built.target[1] = "agent"
           /\ credential_keys[built.type] > 0 =>
                built.credential \in {"plain", "secret", "literal"}

\* What is assembled is what its configuration declares, nothing of it lost on
\* the way through the phases: every name, in its order, stands for something
\* that was built, none is in its list twice, and the database, the authorization
\* and the MCP server are there if and only if they are declared.  The interfaces
\* are all there or, without an InterfaceRegistry, none: each is for an agent of
\* its name if there is one, and none that needs a credential is without (which,
\* without a secret manager, may be the reference itself).  An AgentOS that
\* authorizes its requests also keeps their users apart, and no reference to a
\* secret was passed on to the authorization as a literal.  A build that was
\* refused has left nothing behind: the lifecycle and the resync manager hold no
\* AgentOS but one that was assembled, and the lifecycle only one whose MCP
\* server was asked for.
NoPartialOS ==
  /\ BuiltWhole
  /\ \A n \in DOMAIN oses : Whole(oses[n])
  /\ resync # 0 => resync \in DOMAIN oses
  /\ lifecycle.agentos # 0 => /\ lifecycle.agentos \in DOMAIN oses
                              /\ oses[lifecycle.agentos].mcp.enabled
  /\ \A i \in DOMAIN interface : interface[i][2] \in Registry(interface[i][1])
=============================================================================
