------------------------------- MODULE Serving -------------------------------
(***************************************************************************)
(* What is served, and to whom: api/app.py (YamlAgentOS), runtime/server.py *)
(* (create_app, run_server), api/fastapi_app_builder.py, and the identity  *)
(* of a request or of a run: api/middleware/tenant_context.py,             *)
(* memory/user_identity.py, tenant/resolver.py.  An app is built in one    *)
(* synchronous call; a request has a state of its own.  Of a text that is  *)
(* made with colons the model keeps the sequence of its parts.             *)
(***************************************************************************)
EXTENDS Naturals, Sequences, SequencesExt

CONSTANT MaxIds  \* bound: the ids that are resolved for an app

ASSUME ServingAssumption == MaxIds \in Nat

VARIABLES
  app,  \* the app that was built, or why there is none
  ids   \* the user ids that were resolved over its memory block: for whom

servingVars == <<app, ids>>

NoApp == [kind |-> "none", authorization |-> "False", isolated |-> FALSE, tenant_context |-> FALSE,
          running |-> FALSE, system_user_id |-> <<>>, routers |-> {}, wanted |-> {}, cors |-> FALSE,
          origins |-> FALSE]
Refused == [NoApp EXCEPT !.kind = "refused"]

-----------------------------------------------------------------------------
(* YamlAgentOS, create_app and run_server *)

\* memory.system_user_id: none, a literal, a template, which may be bare.
SystemUserIds == {<<>>, <<"bot">>, <<"workflow", "w1">>, <<"workflow", "{id}">>, <<"{id}">>}

\* _resolve_agents: a list, a file of definitions, neither, or both.
AgentSources == {"agents", "file", "bad file", "neither", "both"}

\* _require_isolated_auth: only True itself is asked for its isolation.
RequireIsolatedAuth(authorization, isolated) == authorization = "True" => isolated

\* YamlAgentOS.__init__ does not raise.  Any value that is true excludes the
\* tenant middleware, which is mounted unless the caller says otherwise.
Constructible(source, authorization, isolated, mount) ==
  /\ source \notin {"both", "bad file"}
  /\ ~(authorization # "False" /\ mount)
  /\ RequireIsolatedAuth(authorization, isolated)

\* get_app: the probes, then the middleware.
YamlAgentOS(authorization, isolated, mount, health, system_user_id) ==
  [NoApp EXCEPT !.kind = "agentos", !.authorization = authorization, !.isolated = isolated,
     !.tenant_context = mount /\ authorization = "False",
     !.routers = IF health THEN {"liveness", "readiness"} ELSE {},
     !.system_user_id = system_user_id]

CreateApp ==
  /\ app.kind = "none"
  /\ \E source \in AgentSources, authorization \in {"False", "True", "truthy"},
        isolated, mount, health \in BOOLEAN, system_user_id \in SystemUserIds :
       app' = IF Constructible(source, authorization, isolated, mount)
                THEN YamlAgentOS(authorization, isolated, mount, health, system_user_id)
                ELSE Refused
  /\ UNCHANGED ids

\* run_server refuses before it builds anything.
RunServer ==
  /\ app.kind = "none"
  /\ \E source \in AgentSources, authorization \in {"False", "True", "truthy"},
        isolated, mount, health \in BOOLEAN, system_user_id \in SystemUserIds :
       app' = IF /\ authorization = "True" /\ RequireIsolatedAuth(authorization, isolated)
                 /\ Constructible(source, authorization, isolated, mount)
                THEN [YamlAgentOS(authorization, isolated, mount, health, system_user_id)
                        EXCEPT !.running = TRUE]
                ELSE Refused
  /\ UNCHANGED ids

-----------------------------------------------------------------------------
(* FastAPIAppBuilder *)

\* The base app: none is given, a factory, or a path that cannot be imported.
BaseApps == {"None", "factory", "broken"}

\* The groups of endpoints, each under the expression it is mounted on.
EndpointGroups == {"None", "tracing", "scheduler.enabled", "nonsense"}

FastAPI == [routers |-> {}, cors |-> FALSE]
BaseApp(base) == IF base = "factory" THEN [FastAPI EXCEPT !.routers = {"base"}] ELSE FastAPI

\* cors_allowed_origins is configured or not.
ApplyCors(fastapi, origins) == [fastapi EXCEPT !.cors = @ \/ origins]

\* A lifespan takes a new FastAPI in the place of the one there was.
WireLifespan(fastapi, lifespan) == IF lifespan THEN FastAPI ELSE fastapi
MountRouters(fastapi, groups) == [fastapi EXCEPT !.routers = @ \union groups]

\* Mutant: the groups are mounted before the lifespan is wired.
Pipeline_MountsFirst(base, origins, lifespan, groups) ==
  WireLifespan(MountRouters(ApplyCors(BaseApp(base), origins), groups), lifespan)

\* The four steps of build, each on the application of the step before it.
Pipeline(base, origins, lifespan, groups) ==
  MountRouters(WireLifespan(ApplyCors(BaseApp(base), origins), lifespan), groups)

\* A group is mounted on a setting that is on; an expression that leads to none
\* raises.
BuildApp ==
  /\ app.kind = "none"
  /\ \E base \in BaseApps, on \in SUBSET {"tracing", "scheduler.enabled"},
        groups \in SUBSET EndpointGroups, origins, lifespan \in BOOLEAN :
       LET wanted == groups \intersect (on \union {"None"})
           built == Pipeline(base, origins, lifespan, wanted)
       IN  app' = IF base = "broken" \/ "nonsense" \in groups THEN Refused
                  ELSE [NoApp EXCEPT !.kind = "builder", !.wanted = wanted, !.origins = origins,
                          !.routers = built.routers, !.cors = built.cors]
  /\ UNCHANGED ids

-----------------------------------------------------------------------------
(* The identity of a request, and of a run *)

Tenants == {<<>>, <<"acme">>, <<"beta">>, <<"acme", "eu">>}
Principals == {<<>>, <<"eu", "bot">>}
Contexts == {"None", "lacks", "", "w1"}

\* What a template becomes in a context.
Expand(template, context) ==
  [i \in DOMAIN template |-> IF template[i] = "{id}" THEN context ELSE template[i]]

\* Mutant: a human needs no tenant before his id.
resolve_user_id_Bare(system_user_id, principal_id, tenant_id, context) ==
  CASE tenant_id = <<>> -> <<>>
    [] tenant_id # <<>> /\ principal_id # <<>> -> principal_id
    [] OTHER -> tenant_id \o system_user_id

\* resolve_user_id; <<>> stands for UserIdentityResolutionError.
resolve_user_id(system_user_id, principal_id, tenant_id, context) ==
  LET template == "{id}" \in ToSet(system_user_id)
  IN  CASE tenant_id = <<>> -> <<>>
        [] tenant_id # <<>> /\ principal_id # <<>> -> tenant_id \o principal_id
        [] OTHER -> IF \/ system_user_id = <<>>
                       \/ template /\ context \in {"None", "lacks"}
                      THEN <<>> ELSE tenant_id \o Expand(system_user_id, context)

\* TenantResolver: what is before the first colon, and what is behind it.
extract_tenant(composite) == <<Head(composite)>>
extract_principal(composite) == Tail(composite)

Resolution(tenant, principal, context, http) ==
  [tenant |-> tenant, principal |-> principal, context |-> context, http |-> http,
   user_id |-> resolve_user_id(app.system_user_id, principal, tenant, context)]

\* TenantContextMiddleware.dispatch: the header's tenant, no human and no
\* context; a request without an id is answered 401 and goes no further.
Dispatch ==
  /\ app.tenant_context /\ Len(ids) < MaxIds
  /\ \E tenant \in Tenants :
       ids' = Append(ids, Resolution(tenant, <<>>, "None", TRUE))
  /\ UNCHANGED app

\* A run outside of HTTP resolves its id itself.
ResolveRun ==
  /\ app.kind = "agentos" /\ Len(ids) < MaxIds
  /\ \E tenant \in Tenants, principal \in Principals, context \in Contexts :
       ids' = Append(ids, Resolution(tenant, principal, context, FALSE))
  /\ UNCHANGED app

-----------------------------------------------------------------------------

ServingInit == app = NoApp /\ ids = <<>>

ServingNext == CreateApp \/ RunServer \/ BuildApp \/ Dispatch \/ ResolveRun

ServingTypeOK ==
  /\ app.kind \in {"none", "refused", "agentos", "builder"}
  /\ Len(ids) <= MaxIds

\* What authorizes its requests keeps their users apart and takes no tenant from
\* a header, and only such an app is ever run as a server.  The app that the
\* builder returns, which need not be the one it began with, has the groups of
\* endpoints that are wanted and no others.  In every other app an id names the
\* tenant it was resolved for, whoever it was resolved for and in whichever
\* context: two tenants never share one, none is a bare tenant, and the resolver
\* of tenants gives back both of its parts.  What is behind the tenant is empty
\* for no human, and without one only in a context whose value is empty (where a
\* bare template leaves nothing).  That holds of the tenants whose own name has
\* no colon.
ServesScoped ==
  /\ app.authorization = "True" => app.isolated
  /\ app.tenant_context => app.authorization = "False"
  /\ app.running => app.authorization = "True"
  /\ app.kind = "builder" => /\ app.wanted \subseteq app.routers
                             /\ app.routers \subseteq app.wanted \union {"base"}
  /\ \A i \in DOMAIN ids :
       LET id == ids[i].user_id
       IN  Len(ids[i].tenant) = 1 /\ id # <<>> =>
             /\ extract_tenant(id) = ids[i].tenant
             /\ extract_principal(id) # <<>>
             /\ extract_principal(id) = <<"">> => ids[i].principal = <<>> /\ ids[i].context = ""
             /\ ids[i].principal # <<>> => extract_principal(id) = ids[i].principal
             /\ \A j \in DOMAIN ids :
                  Len(ids[j].tenant) = 1 /\ ids[j].tenant # ids[i].tenant => ids[j].user_id # id
=============================================================================
