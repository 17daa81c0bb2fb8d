------------------------------ MODULE BootProofs ------------------------------
(***************************************************************************)
(* The start of a process, for every number of builds and ids and any      *)
(* names: the keys models are built with, whom an app is served to, what   *)
(* an AgentOS is made of, and what the tools of a list are built from.     *)
(***************************************************************************)
EXTENDS Boot, FoldLemmas

(* Serving *)

\* The parts that the ids are made of.
Parts == {"bot", "workflow", "w1", "{id}", "acme", "beta", "eu", "None", "lacks", ""}
Text == Seq(Parts)

Named(id, tenant, rest) == id = tenant \o rest

\* An id is a tenant's, with something behind it.
Scoped(r) ==
  /\ r.tenant \in Text /\ r.user_id \in Text
  /\ Len(r.tenant) = 1 /\ r.user_id # <<>> =>
       \E rest \in Text : /\ rest # <<>> /\ Named(r.user_id, r.tenant, rest)
                          /\ r.principal # <<>> => rest = r.principal
                          /\ rest = <<"">> => r.principal = <<>> /\ r.context = ""

AppOK ==
  /\ app.authorization = "True" => app.isolated
  /\ app.tenant_context => app.authorization = "False"
  /\ app.running => app.authorization = "True"
  /\ app.kind = "builder" => /\ app.wanted \subseteq app.routers
                             /\ app.routers \subseteq app.wanted \union {"base"}
  /\ app.system_user_id \in SystemUserIds

IdsOK == \E S : ids \in Seq(S) /\ \A r \in S : Scoped(r)

ServingInv == AppOK /\ IdsOK

LEMMA TextConcat ==
  ASSUME NEW s \in Text, NEW t \in Text
  PROVE  s \o t \in Text /\ (t # <<>> => s \o t # <<>>)
<1>1. s \o t \in Text /\ Len(s \o t) = Len(s) + Len(t) /\ Len(s) \in Nat /\ Len(t) \in Nat
  BY ConcatProperties, LenProperties DEF Text
<1>2. t # <<>> => Len(t) # 0
  BY EmptySeq DEF Text
<1>3. s \o t = <<>> => Len(s \o t) = 0
  BY EmptySeq
<1> QED BY <1>1, <1>2, <1>3

\* TenantResolver gives back both parts of an id of a tenant without a colon.
LEMMA ResolverInverts ==
  ASSUME NEW tenant \in Text, NEW rest \in Text, Len(tenant) = 1, rest # <<>>
  PROVE  /\ extract_tenant(tenant \o rest) = tenant
         /\ extract_principal(tenant \o rest) = rest
<1> DEFINE id == tenant \o rest
<1>1. /\ id \in Text /\ Len(id) = Len(tenant) + Len(rest)
      /\ \A i \in 1..Len(tenant) + Len(rest) :
           id[i] = IF i <= Len(tenant) THEN tenant[i] ELSE rest[i - Len(tenant)]
  BY ConcatProperties DEF Text
<1>2. Len(rest) \in Nat /\ Len(rest) # 0 /\ rest \in [1..Len(rest) -> Parts]
  BY LenProperties, EmptySeq DEF Text
<1> HIDE DEF id
<1>3. id # <<>>
  BY <1>1, <1>2, EmptySeq
<1>4. Head(id) = id[1] /\ id[1] = tenant[1]
  BY <1>1, <1>2, <1>3
<1>5. tenant = <<tenant[1]>>
  <2>1. tenant \in [1..Len(tenant) -> Parts] /\ tenant \in Seq(Parts)
    BY LenProperties DEF Text
  <2>2. tenant[1] \in Parts
    BY <2>1
  <2>3. <<tenant[1]>> \in Seq(Parts) /\ Len(<<tenant[1]>>) = 1 /\ <<tenant[1]>>[1] = tenant[1]
    BY <2>2
  <2>4. \A i \in 1..Len(tenant) : tenant[i] = <<tenant[1]>>[i]
    BY <2>3
  <2> QED BY <2>1, <2>3, <2>4, SeqEqual
<1>6. /\ Tail(id) \in Seq(Parts) /\ Len(Tail(id)) = Len(id) - 1
      /\ \A i \in 1..Len(Tail(id)) : Tail(id)[i] = id[i + 1]
  BY <1>1, <1>3, HeadTailProperties DEF Text
<1>7. Len(Tail(id)) = Len(rest)
  BY <1>1, <1>2, <1>6
<1>8. ASSUME NEW i \in 1..Len(Tail(id))
      PROVE  Tail(id)[i] = rest[i]
  <2>1. i \in 1..Len(rest)
    BY <1>7, <1>8
  <2>2. i + 1 \in 1..Len(tenant) + Len(rest) /\ ~(i + 1 <= Len(tenant)) /\ i + 1 - Len(tenant) = i
    BY <2>1, <1>2
  <2> QED BY <2>2, <1>1, <1>6, <1>8
<1>9. Tail(id) = rest
  BY <1>6, <1>7, <1>8, SeqEqual DEF Text
<1> QED BY <1>4, <1>5, <1>9 DEF id, extract_tenant, extract_principal

LEMMA Texts ==
  /\ \A t \in SystemUserIds : t \in Text
  /\ \A t \in Tenants : t \in Text
  /\ \A p \in Principals : p \in Text
  /\ \A c \in Contexts : c \in Parts
<1>1. <<>> \in Text
  BY EmptySeq DEF Text
<1>2. \A a \in Parts : <<a>> \in Text
  <2>1. TAKE a \in Parts
  <2> QED BY DEF Text
<1>3. \A a, b \in Parts : <<a, b>> \in Text
  <2>1. TAKE a, b \in Parts
  <2> QED BY DEF Text
<1>4. <<"bot">> \in Text /\ <<"acme">> \in Text /\ <<"beta">> \in Text /\ <<"{id}">> \in Text
  BY <1>2 DEF Parts
<1>5. /\ <<"workflow", "w1">> \in Text /\ <<"workflow", "{id}">> \in Text
      /\ <<"acme", "eu">> \in Text /\ <<"eu", "bot">> \in Text
  BY <1>3 DEF Parts
<1>6. \A t \in SystemUserIds : t \in Text
  BY <1>1, <1>4, <1>5 DEF SystemUserIds
<1>7. \A t \in Tenants : t \in Text
  BY <1>1, <1>4, <1>5 DEF Tenants
<1>8. \A p \in Principals : p \in Text
  BY <1>1, <1>5 DEF Principals
<1>9. \A c \in Contexts : c \in Parts
  BY DEF Contexts, Parts
<1> QED BY <1>6, <1>7, <1>8, <1>9

LEMMA ExpandText ==
  ASSUME NEW t \in Text, NEW c \in Parts
  PROVE  Expand(t, c) \in Text /\ (t # <<>> => Expand(t, c) # <<>>)
<1>1. Len(t) \in Nat /\ t \in [1..Len(t) -> Parts] /\ DOMAIN t = 1..Len(t)
  BY LenProperties DEF Text
<1>2. Expand(t, c) \in [1..Len(t) -> Parts]
  BY <1>1 DEF Expand
<1>3. Expand(t, c) \in Text
  <2>1. PICK n \in Nat : n = Len(t)
    BY <1>1
  <2>2. Expand(t, c) \in [1..n -> Parts]
    BY <1>2, <2>1
  <2>3. PICK e : e = Expand(t, c)
    OBVIOUS
  <2>4. e \in Seq(Parts)
    BY <2>1, <2>2, <2>3
  <2> QED BY <2>3, <2>4 DEF Text
<1>4. ASSUME t # <<>>
      PROVE  Expand(t, c) # <<>>
  <2>1. Len(t) # 0 /\ DOMAIN Expand(t, c) = 1..Len(t)
    BY <1>1, <1>2, <1>4, EmptySeq DEF Text
  <2>2. 1 \in DOMAIN Expand(t, c)
    BY <2>1, <1>1
  <2>3. DOMAIN <<>> = {}
    OBVIOUS
  <2> QED BY <2>2, <2>3
<1> QED BY <1>3, <1>4

\* Nothing is left of a template but in a context whose value is empty.
LEMMA EmptyPrincipal ==
  /\ \A p \in Principals : p # <<"">>
  /\ \A t \in SystemUserIds : \A c : Expand(t, c) = <<"">> => c = ""
<1>1. /\ DOMAIN <<"">> = {1} /\ <<"">>[1] = "" /\ DOMAIN <<>> = {}
      /\ DOMAIN <<"eu", "bot">> = {1, 2} /\ <<"eu", "bot">>[1] = "eu"
  OBVIOUS
<1>2. \A p \in Principals : p # <<"">>
  <2>1. <<>> # <<"">> /\ <<"eu", "bot">> # <<"">>
    BY <1>1
  <2> QED BY <2>1 DEF Principals
<1>3. \A t \in SystemUserIds : 1 \in DOMAIN t => t[1] # ""
  <2>1. /\ <<"bot">>[1] = "bot" /\ <<"workflow", "w1">>[1] = "workflow"
        /\ <<"workflow", "{id}">>[1] = "workflow" /\ <<"{id}">>[1] = "{id}"
    OBVIOUS
  <2> QED BY <1>1, <2>1, Zenon DEF SystemUserIds
<1>4. ASSUME NEW t \in SystemUserIds, NEW c, Expand(t, c) = <<"">>
      PROVE  c = ""
  <2>1. PICK e : e = Expand(t, c)
    OBVIOUS
  <2>2. 1 \in DOMAIN e /\ e[1] = ""
    BY <1>1, <1>4, <2>1
  <2>3. e = [i \in DOMAIN t |-> IF t[i] = "{id}" THEN c ELSE t[i]]
    BY <2>1 DEF Expand
  <2>4. 1 \in DOMAIN t /\ (t[1] = "{id}" => c = "") /\ (t[1] # "{id}" => t[1] = "")
    BY <2>2, <2>3
  <2> QED BY <1>3, <2>4
<1> QED BY <1>2, <1>4

\* resolve_user_id never gives a tenant's name for an id.
LEMMA ResolutionScoped ==
  ASSUME app.system_user_id \in SystemUserIds,
         NEW tenant \in Tenants, NEW principal \in Principals, NEW context \in Contexts, NEW http
  PROVE  Scoped(Resolution(tenant, principal, context, http))
<1> DEFINE system == app.system_user_id
           id == resolve_user_id(system, principal, tenant, context)
           r == Resolution(tenant, principal, context, http)
<1>1. r.tenant = tenant /\ r.principal = principal /\ r.user_id = id /\ r.context = context
  BY DEF Resolution
<1>2. /\ tenant \in Text /\ principal \in Text /\ system \in Text /\ Expand(system, context) \in Text
      /\ system # <<>> => Expand(system, context) # <<>>
      /\ principal # <<"">> /\ (Expand(system, context) = <<"">> => context = "")
  BY Texts, ExpandText, EmptyPrincipal
<1> HIDE DEF r
<1>3. \/ id = <<>>
      \/ tenant # <<>> /\ principal # <<>> /\ id = tenant \o principal
      \/ principal = <<>> /\ system # <<>> /\ id = tenant \o Expand(system, context)
  BY DEF resolve_user_id
<1> HIDE DEF id, system
<1>4. Scoped(r)
  <2>1. CASE id = <<>>
    BY <2>1, <1>1, <1>2, EmptySeq DEF Scoped, Text
  <2>2. CASE tenant # <<>> /\ principal # <<>> /\ id = tenant \o principal
    <3>1. id \in Text
      BY <1>2, <2>2, TextConcat
    <3>2. Named(id, tenant, principal)
      BY <2>2 DEF Named
    <3> QED BY <3>1, <3>2, <1>1, <1>2, <2>2 DEF Scoped
  <2>3. CASE principal = <<>> /\ system # <<>> /\ id = tenant \o Expand(system, context)
    <3>1. id \in Text
      BY <1>2, <2>3, TextConcat
    <3>2. Named(id, tenant, Expand(system, context)) /\ Expand(system, context) # <<>>
      BY <1>2, <2>3 DEF Named
    <3> QED BY <3>1, <3>2, <1>1, <1>2, <2>3 DEF Scoped
  <2> QED BY <2>1, <2>2, <2>3, <1>3
<1> QED BY <1>4 DEF r

LEMMA ServingInitOK == ServingInit => ServingInv
<1> SUFFICES ASSUME ServingInit PROVE ServingInv
  OBVIOUS
<1>1. AppOK
  BY DEF ServingInit, NoApp, AppOK, SystemUserIds
<1>2. ids \in Seq({}) /\ \A r \in {} : Scoped(r)
  BY DEF ServingInit
<1>3. IdsOK
  BY <1>2 DEF IdsOK
<1> QED BY <1>1, <1>3 DEF ServingInv

LEMMA IdAppended ==
  ASSUME IdsOK, NEW r, Scoped(r), ids' = Append(ids, r)
  PROVE  IdsOK'
<1>1. PICK S : ids \in Seq(S) /\ \A q \in S : Scoped(q)
  BY DEF IdsOK
<1>2. ids \in Seq(S \union {r}) /\ \A q \in S \union {r} : Scoped(q)
  BY <1>1
<1>3. ids' \in Seq(S \union {r})
  BY <1>2, AppendProperties
<1> QED BY <1>2, <1>3 DEF IdsOK, Scoped

LEMMA AgentOSAppOK ==
  ASSUME NEW auth \in {"False", "True", "truthy"}, NEW isolated \in BOOLEAN,
         NEW mount \in BOOLEAN, NEW health \in BOOLEAN, NEW system \in SystemUserIds,
         NEW source, Constructible(source, auth, isolated, mount),
         \/ app' = YamlAgentOS(auth, isolated, mount, health, system)
         \/ /\ auth = "True"
            /\ app' = [YamlAgentOS(auth, isolated, mount, health, system) EXCEPT !.running = TRUE]
  PROVE  AppOK'
<1>1. /\ app'.authorization = auth /\ app'.isolated = isolated /\ app'.system_user_id = system
      /\ app'.tenant_context = (mount /\ auth = "False") /\ app'.kind = "agentos"
      /\ app'.running = FALSE \/ auth = "True"
  BY DEF YamlAgentOS, NoApp
<1>2. auth = "True" => isolated
  BY DEF Constructible, RequireIsolatedAuth
<1> QED BY <1>1, <1>2 DEF AppOK

LEMMA RefusedAppOK == ASSUME app' = Refused PROVE AppOK'
BY DEF Refused, NoApp, AppOK, SystemUserIds

\* Whichever application the groups are mounted on, it is the one that is returned.
LEMMA PipelineMounts ==
  ASSUME NEW base, NEW origins, NEW lifespan, NEW groups
  PROVE  /\ groups \subseteq Pipeline(base, origins, lifespan, groups).routers
         /\ Pipeline(base, origins, lifespan, groups).routers \subseteq groups \union {"base"}
<1> DEFINE first == ApplyCors(BaseApp(base), origins)
           second == WireLifespan(first, lifespan)
<1>1. first \in [routers : {{}, {"base"}}, cors : {first.cors}]
  BY DEF ApplyCors, BaseApp, FastAPI
<1>2. \E r, c : second = [routers |-> r, cors |-> c] /\ r \subseteq {"base"}
  BY <1>1 DEF WireLifespan, FastAPI
<1> HIDE DEF second
<1>3. Pipeline(base, origins, lifespan, groups).routers = second.routers \union groups
  BY <1>2 DEF Pipeline, MountRouters, second
<1> QED BY <1>2, <1>3

LEMMA ServingKeeps == ServingInv /\ ServingNext => ServingInv'
<1> SUFFICES ASSUME ServingInv, ServingNext PROVE ServingInv'
  OBVIOUS
<1>1. CASE CreateApp
  <2>1. PICK source \in AgentSources, auth \in {"False", "True", "truthy"},
             isolated \in BOOLEAN, mount \in BOOLEAN, health \in BOOLEAN,
             system \in SystemUserIds :
          app' = IF Constructible(source, auth, isolated, mount)
                   THEN YamlAgentOS(auth, isolated, mount, health, system) ELSE Refused
    BY <1>1 DEF CreateApp
  <2>2. CASE Constructible(source, auth, isolated, mount)
    <3>1. app' = YamlAgentOS(auth, isolated, mount, health, system)
      BY <2>1, <2>2
    <3>2. AppOK'
      BY <2>2, <3>1, AgentOSAppOK
    <3> QED BY <3>2, <1>1 DEF CreateApp, ServingInv, IdsOK
  <2>3. CASE ~Constructible(source, auth, isolated, mount)
    BY <2>1, <2>3, <1>1, RefusedAppOK DEF CreateApp, ServingInv, IdsOK
  <2> QED BY <2>2, <2>3
<1>2. CASE RunServer
  <2>1. PICK source \in AgentSources, auth \in {"False", "True", "truthy"},
             isolated \in BOOLEAN, mount \in BOOLEAN, health \in BOOLEAN,
             system \in SystemUserIds :
          app' = IF /\ auth = "True" /\ RequireIsolatedAuth(auth, isolated)
                    /\ Constructible(source, auth, isolated, mount)
                   THEN [YamlAgentOS(auth, isolated, mount, health, system)
                           EXCEPT !.running = TRUE]
                   ELSE Refused
    BY <1>2 DEF RunServer
  <2>2. CASE /\ auth = "True" /\ RequireIsolatedAuth(auth, isolated)
             /\ Constructible(source, auth, isolated, mount)
    <3>1. /\ auth = "True"
          /\ app' = [YamlAgentOS(auth, isolated, mount, health, system)
                       EXCEPT !.running = TRUE]
      BY <2>1, <2>2
    <3>2. AppOK'
      BY <2>2, <3>1, AgentOSAppOK
    <3> QED BY <3>2, <1>2 DEF RunServer, ServingInv, IdsOK
  <2>3. CASE ~(/\ auth = "True" /\ RequireIsolatedAuth(auth, isolated)
               /\ Constructible(source, auth, isolated, mount))
    BY <2>1, <2>3, <1>2, RefusedAppOK DEF RunServer, ServingInv, IdsOK
  <2> QED BY <2>2, <2>3
<1>3. CASE BuildApp
  <2>1. PICK base \in BaseApps, on \in SUBSET {"tracing", "scheduler.enabled"},
             groups \in SUBSET EndpointGroups, origins \in BOOLEAN, lifespan \in BOOLEAN :
          LET wanted == groups \intersect (on \union {"None"})
              built == Pipeline(base, origins, lifespan, wanted)
          IN  app' = IF base = "broken" \/ "nonsense" \in groups THEN Refused
                     ELSE [NoApp EXCEPT !.kind = "builder", !.wanted = wanted,
                             !.origins = origins,
                             !.routers = built.routers, !.cors = built.cors]
    BY <1>3 DEF BuildApp
  <2> DEFINE wanted == groups \intersect (on \union {"None"})
             built == Pipeline(base, origins, lifespan, wanted)
  <2>2. AppOK'
    <3>1. CASE base = "broken" \/ "nonsense" \in groups
      BY <2>1, <3>1, RefusedAppOK
    <3>2. CASE ~(base = "broken" \/ "nonsense" \in groups)
      <4>1. /\ app'.authorization = "False" /\ app'.tenant_context = FALSE
            /\ app'.running = FALSE /\ app'.system_user_id = <<>>
            /\ app'.wanted = wanted /\ app'.routers = built.routers
        BY <2>1, <3>2 DEF NoApp
      <4>2. wanted \subseteq built.routers /\ built.routers \subseteq wanted \union {"base"}
        BY PipelineMounts
      <4> QED BY <4>1, <4>2 DEF AppOK, SystemUserIds
    <3> QED BY <3>1, <3>2
  <2> QED BY <2>2, <1>3 DEF BuildApp, ServingInv, IdsOK
<1>4. CASE Dispatch
  <2>1. PICK tenant \in Tenants : ids' = Append(ids, Resolution(tenant, <<>>, "None", TRUE))
    BY <1>4 DEF Dispatch
  <2>2. <<>> \in Principals /\ "None" \in Contexts /\ app.system_user_id \in SystemUserIds
    BY DEF Principals, Contexts, ServingInv, AppOK
  <2>3. Scoped(Resolution(tenant, <<>>, "None", TRUE))
    BY <2>2, ResolutionScoped
  <2>4. IdsOK'
    BY <2>1, <2>3, IdAppended DEF ServingInv
  <2> QED BY <2>4, <1>4 DEF Dispatch, ServingInv, AppOK
<1>5. CASE ResolveRun
  <2>1. PICK tenant \in Tenants, principal \in Principals, context \in Contexts :
          ids' = Append(ids, Resolution(tenant, principal, context, FALSE))
    BY <1>5 DEF ResolveRun
  <2>2. Scoped(Resolution(tenant, principal, context, FALSE))
    BY ResolutionScoped DEF ServingInv, AppOK
  <2>3. IdsOK'
    BY <2>1, <2>2, IdAppended DEF ServingInv
  <2> QED BY <2>3, <1>5 DEF ResolveRun, ServingInv, AppOK
<1> QED BY <1>1, <1>2, <1>3, <1>4, <1>5 DEF ServingNext

LEMMA ServingStep == ServingInv /\ [Next]_vars => ServingInv'
<1> SUFFICES ASSUME ServingInv, [Next]_vars PROVE ServingInv'
  OBVIOUS
<1>1. ServingNext \/ UNCHANGED servingVars
  BY DEF Next, vars, BuildAgents, BuildDatabases, BuildOS, Serve, osVars
<1>2. CASE UNCHANGED servingVars
  BY <1>2 DEF servingVars, ServingInv, AppOK, IdsOK
<1> QED BY <1>1, <1>2, ServingKeeps

\* What authorizes its requests isolates their users, only that is run as a
\* server, an app that is built has the endpoints that are wanted, and no two
\* tenants whose names have no colon share a user id, however many are resolved
\* and in whichever contexts.
THEOREM TenantsServedApart == Spec => []ServesScoped
<1>1. Init => ServingInv
  BY ServingInitOK DEF Init
<1>2. ServingInv => ServesScoped
  <2> SUFFICES ASSUME ServingInv PROVE ServesScoped
    OBVIOUS
  <2>1. PICK S : ids \in Seq(S) /\ \A r \in S : Scoped(r)
    BY DEF ServingInv, IdsOK
  <2>2. \A i \in DOMAIN ids : Scoped(ids[i])
    BY <2>1, LenProperties, ElementOfSeq
  <2>3. ASSUME NEW i \in DOMAIN ids, Len(ids[i].tenant) = 1, ids[i].user_id # <<>>
        PROVE  /\ extract_tenant(ids[i].user_id) = ids[i].tenant
               /\ extract_principal(ids[i].user_id) # <<>>
               /\ extract_principal(ids[i].user_id) = <<"">> =>
                    ids[i].principal = <<>> /\ ids[i].context = ""
               /\ ids[i].principal # <<>> => extract_principal(ids[i].user_id) = ids[i].principal
    <3>1. ids[i].tenant \in Text
      BY <2>2, <2>3 DEF Scoped
    <3>2. PICK rest \in Text : /\ rest # <<>> /\ Named(ids[i].user_id, ids[i].tenant, rest)
                               /\ ids[i].principal # <<>> => rest = ids[i].principal
                               /\ rest = <<"">> => ids[i].principal = <<>> /\ ids[i].context = ""
      BY <2>2, <2>3 DEF Scoped
    <3>3. /\ extract_tenant(ids[i].tenant \o rest) = ids[i].tenant
          /\ extract_principal(ids[i].tenant \o rest) = rest
      BY <2>3, <3>1, <3>2, ResolverInverts
    <3> QED BY <3>2, <3>3 DEF Named
  <2>4. ASSUME NEW i \in DOMAIN ids, NEW j \in DOMAIN ids,
               Len(ids[i].tenant) = 1, ids[i].user_id # <<>>,
               Len(ids[j].tenant) = 1, ids[j].user_id = ids[i].user_id
        PROVE  ids[j].tenant = ids[i].tenant
    <3>1. extract_tenant(ids[i].user_id) = ids[i].tenant
      BY <2>3, <2>4
    <3>2. extract_tenant(ids[j].user_id) = ids[j].tenant
      BY <2>3, <2>4
    <3> QED BY <3>1, <3>2, <2>4
  <2> QED BY <2>3, <2>4 DEF ServesScoped, ServingInv, AppOK
<1> QED BY <1>1, <1>2, ServingStep, PTL DEF Spec

-----------------------------------------------------------------------------
(* Agents, teams and databases *)

ToolsCall(entries, built, imported, at) ==
  [entries |-> entries, built |-> built, imported |-> imported, at |-> at]

ToolsOK ==
  /\ \E e, b, i, a : tools = ToolsCall(e, b, i, a)
  /\ tools.at = "returned" => Len(tools.built) = Len(tools.entries)

AgentOK ==
  /\ \E n, a, d, t, r, m : agent = [name |-> n, at |-> a, declared |-> d, tools |-> t,
                                    resolver |-> r, model |-> m]
  /\ agent.at = "tools" => agent.resolver /\ agent.declared = Len(tools.entries)
  /\ agent.at \in {"skills", "model", "built"} =>
       agent.tools = IF agent.resolver THEN agent.declared ELSE 0

TeamsOK == \A t \in DOMAIN teams : ToSet(teams[t]) \subseteq agents

\* The refs are a prefix of the entries.
DbsOK ==
  /\ \E e, r, a : dbs = [entries |-> e, refs |-> r, at |-> a]
  /\ dbs.at = "working" => /\ \E S : dbs.entries \in Seq(S)
                           /\ \E k \in 0..Len(dbs.entries) : dbs.refs = 1..k
  /\ dbs.at = "returned" => dbs.refs = DOMAIN dbs.entries

AgentsInv == ToolsOK /\ AgentOK /\ TeamsOK /\ DbsOK

LEMMA AgentsInitOK == AgentsInit => AgentsInv
<1> SUFFICES ASSUME AgentsInit PROVE AgentsInv
  OBVIOUS
<1>1. ToolsOK
  BY DEF AgentsInit, NoTools, ToolsOK, ToolsCall
<1>2. AgentOK
  BY DEF AgentsInit, NoAgent, AgentOK
<1>3. TeamsOK
  <2>1. DOMAIN teams = {}
    BY DEF AgentsInit
  <2> QED BY <2>1 DEF TeamsOK
<1>4. DbsOK
  BY DEF AgentsInit, NoRegistry, DbsOK
<1> QED BY <1>1, <1>2, <1>3, <1>4 DEF AgentsInv

\* The tool factory: the list stays, and is returned when it is built.
LEMMA ToolsKeep ==
  ASSUME AgentsInv, BuildTools
  PROVE  AgentsInv'
<1>1. UNCHANGED <<agents, agent, teams, dbs>>
  BY DEF BuildTools, agentVars
<1>2. PICK e, b, i, a : tools = ToolsCall(e, b, i, a)
  BY DEF AgentsInv, ToolsOK
<1>3. ToolsOK' /\ tools'.entries = tools.entries
  <2>1. CASE BuildEntry
    <3>1. tools.at = "working"
      BY <2>1 DEF BuildEntry
    <3>2. PICK f, g, h : tools' = [tools EXCEPT !.imported = f, !.built = g,
                                                !.at = IF h THEN @ ELSE "raised"]
      BY <2>1, Zenon DEF BuildEntry
    <3>3. tools' = ToolsCall(e, g, f, IF h THEN a ELSE "raised") /\ a = "working"
      BY <1>2, <3>1, <3>2 DEF ToolsCall
    <3>4. tools'.at # "returned" /\ tools'.entries = e /\ tools.entries = e
      BY <1>2, <3>3 DEF ToolsCall
    <3> QED BY <3>3, <3>4 DEF ToolsOK
  <2>2. CASE ToolsReturn
    <3>1. tools' = ToolsCall(e, b, i, "returned") /\ Len(b) = Len(e)
      BY <1>2, <2>2 DEF ToolsReturn, ToolsCall
    <3> QED BY <3>1, <1>2 DEF ToolsOK, ToolsCall
  <2> QED BY <2>1, <2>2 DEF BuildTools
<1> QED BY <1>1, <1>3 DEF AgentsInv, AgentOK, TeamsOK, DbsOK

LEMMA AgentKeeps ==
  ASSUME AgentsInv,
         \/ \E name \in AgentNames : BuildAgent(name)
         \/ TakeTools \/ LoadSkills \/ BuildModel
  PROVE  AgentsInv'
<1>1. UNCHANGED <<agents, teams, dbs>>
  BY DEF BuildAgent, TakeTools, LoadSkills, BuildModel
<1>2. PICK n, a, d, t, r, m : agent = [name |-> n, at |-> a, declared |-> d, tools |-> t,
                                       resolver |-> r, model |-> m]
  BY DEF AgentsInv, AgentOK
<1>3. ToolsOK' /\ AgentOK'
  <2>1. ASSUME NEW name \in AgentNames, BuildAgent(name)
        PROVE  ToolsOK' /\ AgentOK'
    <3> DEFINE call(list, resolver) ==
                 [NoAgent EXCEPT !.name = name, !.declared = Len(list), !.resolver = resolver]
    <3>1. PICK list \in ToolLists, resolver \in BOOLEAN :
            IF list # <<>> /\ resolver
              THEN CallTools(list) /\ agent' = [call(list, resolver) EXCEPT !.at = "tools"]
              ELSE /\ agent' = [call(list, resolver) EXCEPT !.at = "skills"]
                   /\ UNCHANGED <<tools, modelVars>>
      BY <2>1 DEF BuildAgent
    <3>2. CASE list # <<>> /\ resolver
      <4>1. tools' = ToolsCall(list, <<>>, <<>>, "working")
        BY <3>1, <3>2 DEF CallTools, NoTools, ToolsCall
      <4>2. agent' = [name |-> name, at |-> "tools", declared |-> Len(list), tools |-> 0,
                      resolver |-> resolver, model |-> "none"]
        BY <3>1, <3>2 DEF NoAgent
      <4>3. tools'.at = "working" /\ tools'.entries = list
        BY <4>1 DEF ToolsCall
      <4> QED BY <4>1, <4>2, <4>3, <3>2 DEF ToolsOK, AgentOK
    <3>3. CASE ~(list # <<>> /\ resolver)
      <4>1. agent' = [name |-> name, at |-> "skills", declared |-> Len(list), tools |-> 0,
                      resolver |-> resolver, model |-> "none"]
        BY <3>1, <3>3 DEF NoAgent
      <4>2. resolver => Len(list) = 0
        BY <3>3
      <4>3. ToolsOK'
        BY <3>1, <3>3 DEF AgentsInv, ToolsOK
      <4>4. AgentOK'
        BY <4>1, <4>2 DEF AgentOK
      <4> QED BY <4>3, <4>4
    <3> QED BY <3>2, <3>3
  <2>2. CASE TakeTools
    <3>1. ToolsOK'
      BY <2>2 DEF TakeTools, NoTools, ToolsOK, ToolsCall
    <3>2. CASE tools.at = "raised"
      <4>1. agent' = Raised
        BY <2>2, <3>2 DEF TakeTools
      <4> QED BY <4>1, <3>1 DEF Raised, NoAgent, AgentOK
    <3>3. CASE tools.at # "raised"
      <4>1. agent' = [agent EXCEPT !.at = "skills", !.tools = Len(tools.built)]
            /\ tools.at = "returned" /\ agent.at = "tools"
        BY <2>2, <3>3 DEF TakeTools
      <4>2. agent.resolver /\ agent.declared = Len(tools.built)
        BY <4>1 DEF AgentsInv, ToolsOK, AgentOK
      <4>3. agent' = [name |-> n, at |-> "skills", declared |-> d, tools |-> Len(tools.built),
                      resolver |-> r, model |-> m]
        BY <4>1, <1>2
      <4>4. d = Len(tools.built) /\ r
        BY <4>2, <1>2
      <4>5. AgentOK'
        BY <4>3, <4>4 DEF AgentOK
      <4> QED BY <4>5, <3>1
    <3> QED BY <3>2, <3>3
  <2>3. CASE LoadSkills
    <3>1. UNCHANGED tools /\ agent.at = "skills"
          /\ (agent' = [agent EXCEPT !.at = "model"] \/ agent' = Raised)
      BY <2>3 DEF LoadSkills
    <3>2. CASE agent' = Raised
      <4>1. agent' = [name |-> "", at |-> "raised", declared |-> 0, tools |-> 0,
                      resolver |-> FALSE, model |-> "none"]
        BY <3>2 DEF Raised, NoAgent
      <4>2. AgentOK'
        BY <4>1 DEF AgentOK
      <4> QED BY <4>2, <3>1 DEF AgentsInv, ToolsOK
    <3>3. CASE agent' = [agent EXCEPT !.at = "model"]
      <4>1. agent' = [name |-> n, at |-> "model", declared |-> d, tools |-> t,
                      resolver |-> r, model |-> m]
        BY <3>3, <1>2
      <4>2. t = IF r THEN d ELSE 0
        BY <3>1, <1>2 DEF AgentsInv, AgentOK
      <4> QED BY <4>1, <4>2, <3>1 DEF AgentOK, AgentsInv, ToolsOK
    <3> QED BY <3>1, <3>2, <3>3
  <2>4. CASE BuildModel
    <3>1. /\ UNCHANGED tools /\ agent.at = "model"
          /\ (\E x : agent' = [agent EXCEPT !.at = "built", !.model = x]) \/ agent' = Raised
      BY <2>4, Zenon DEF BuildModel
    <3>2. CASE agent' = Raised
      <4>1. agent' = [name |-> "", at |-> "raised", declared |-> 0, tools |-> 0,
                      resolver |-> FALSE, model |-> "none"]
        BY <3>2 DEF Raised, NoAgent
      <4>2. AgentOK'
        BY <4>1 DEF AgentOK
      <4> QED BY <4>2, <3>1 DEF AgentsInv, ToolsOK
    <3>3. CASE \E x : agent' = [agent EXCEPT !.at = "built", !.model = x]
      <4>1. PICK x : agent' = [name |-> n, at |-> "built", declared |-> d, tools |-> t,
                               resolver |-> r, model |-> x]
        BY <3>3, <1>2
      <4>2. t = IF r THEN d ELSE 0
        BY <3>1, <1>2 DEF AgentsInv, AgentOK
      <4> QED BY <4>1, <4>2, <3>1 DEF AgentOK, AgentsInv, ToolsOK
    <3> QED BY <3>1, <3>2, <3>3
  <2> QED BY <2>1, <2>2, <2>3, <2>4
<1> QED BY <1>1, <1>3 DEF AgentsInv, TeamsOK, DbsOK

LEMMA TakeAgentKeeps == ASSUME AgentsInv, TakeAgent PROVE AgentsInv'
<1>1. agents \subseteq agents' /\ agent' = NoAgent /\ UNCHANGED <<tools, teams, dbs>>
  BY DEF TakeAgent
<1>2. TeamsOK'
  BY <1>1 DEF AgentsInv, TeamsOK
<1>3. AgentOK'
  BY <1>1 DEF NoAgent, AgentOK
<1> QED BY <1>1, <1>2, <1>3 DEF AgentsInv, ToolsOK, DbsOK

LEMMA BuildTeamKeeps ==
  ASSUME AgentsInv, NEW name \in TeamNames, BuildTeam(name)
  PROVE  AgentsInv'
<1>1. PICK members \in SeqOf(TeamMemberConfig, 2) :
        /\ \A i \in DOMAIN members : members[i].agent \in agents
        /\ teams' = [t \in DOMAIN teams \union {name} |->
                       IF t = name THEN [i \in DOMAIN members |-> members[i].agent]
                       ELSE teams[t]]
  BY DEF BuildTeam
<1>2. UNCHANGED <<tools, agents, agent, dbs>>
  BY DEF BuildTeam
<1>3. ASSUME NEW t \in DOMAIN teams'
      PROVE  ToSet(teams'[t]) \subseteq agents
  <2>1. CASE t = name
    <3>1. teams'[t] = [i \in DOMAIN members |-> members[i].agent]
      BY <1>1, <1>3, <2>1
    <3> QED BY <3>1, <1>1 DEF ToSet
  <2>2. CASE t # name
    <3>1. t \in DOMAIN teams /\ teams'[t] = teams[t]
      BY <1>1, <1>3, <2>2
    <3> QED BY <3>1 DEF AgentsInv, TeamsOK
  <2> QED BY <2>1, <2>2
<1>4. TeamsOK'
  BY <1>2, <1>3 DEF TeamsOK
<1> QED BY <1>2, <1>4 DEF AgentsInv, ToolsOK, AgentOK, DbsOK

LEMMA DbsKeep == ASSUME AgentsInv, BuildDbRegistry \/ RegisterDb PROVE AgentsInv'
<1>1. UNCHANGED <<tools, agents, agent, teams>>
  BY DEF BuildDbRegistry, RegisterDb
<1>2. DbsOK'
  <2>1. CASE BuildDbRegistry
    <3>1. PICK d \in SeqOf(DbEntries, 2), v \in SeqOf(VectorEntries, 1) :
            dbs' = [entries |-> d \o v, refs |-> {}, at |-> "working"]
      BY <2>1 DEF BuildDbRegistry
    <3>2. d \in Seq(DbEntries) /\ v \in Seq(VectorEntries)
      <4>1. PICK m \in 0..2 : d \in [1..m -> DbEntries]
        BY DEF SeqOf
      <4>2. PICK n \in 0..1 : v \in [1..n -> VectorEntries]
        BY DEF SeqOf
      <4>3. m \in Nat /\ n \in Nat
        OBVIOUS
      <4>4. d \in Seq(DbEntries)
        BY <4>1, <4>3
      <4> QED BY <4>2, <4>3, <4>4
    <3>3. d \o v \in Seq(DbEntries \union VectorEntries)
      BY <3>2, ConcatProperties, SeqMonotonic
    <3>4. Len(d \o v) \in Nat
      BY <3>3, LenProperties
    <3>5. 0 \in 0..Len(d \o v) /\ {} = 1..0
      BY <3>4
    <3> QED BY <3>1, <3>3, <3>5 DEF DbsOK
  <2>2. CASE RegisterDb
    <3>1. PICK e, r, a : dbs = [entries |-> e, refs |-> r, at |-> a]
      BY DEF AgentsInv, DbsOK
    <3>2. a = "working"
      BY <2>2, <3>1 DEF RegisterDb
    <3>3. PICK S : e \in Seq(S)
      BY <3>1, <3>2 DEF AgentsInv, DbsOK
    <3>4. Len(e) \in Nat /\ DOMAIN e = 1..Len(e)
      BY <3>3, LenProperties
    <3>5. PICK k \in 0..Len(e) : r = 1..k /\ k \in 0..Len(e)
      BY <3>1, <3>2 DEF AgentsInv, DbsOK
    <3>6. Cardinality(r) = k /\ k \in Nat
      <4>1. k \in Nat /\ Cardinality(1..k) = IF 1 > k THEN 0 ELSE k - 1 + 1
        BY <3>4, <3>5, FS_Interval
      <4>2. (IF 1 > k THEN 0 ELSE k - 1 + 1) = k
        BY <4>1
      <4> QED BY <4>1, <4>2, <3>5
    <3>7. CASE k + 1 > Len(e)
      <4>1. dbs' = [dbs EXCEPT !.at = "returned"]
        BY <2>2, <3>1, <3>6, <3>7 DEF RegisterDb
      <4>2. dbs' = [entries |-> e, refs |-> r, at |-> "returned"]
        BY <4>1, <3>1
      <4>3. k = Len(e)
        <5>1. \A i, l \in Nat : i \in 0..l /\ i + 1 > l => i = l
          OBVIOUS
        <5> QED BY <5>1, <3>4, <3>5, <3>6, <3>7
      <4>4. r = DOMAIN e
        BY <3>4, <3>5, <4>3
      <4> QED BY <4>2, <4>4 DEF DbsOK
    <3>8. CASE ~(k + 1 > Len(e))
      <4>1. dbs' = [dbs EXCEPT !.refs = @ \union {k + 1}] \/ dbs' = [NoRegistry EXCEPT !.at = "raised"]
        BY <2>2, <3>1, <3>6, <3>8 DEF RegisterDb
      <4>2. CASE dbs' = [dbs EXCEPT !.refs = @ \union {k + 1}]
        <5>1. dbs' = [entries |-> e, refs |-> r \union {k + 1}, at |-> "working"]
          BY <4>2, <3>1, <3>2
        <5>2. r \union {k + 1} = 1..k + 1 /\ k + 1 \in 0..Len(e)
          BY <3>4, <3>5, <3>8
        <5> QED BY <5>1, <5>2, <3>3 DEF DbsOK
      <4>3. CASE dbs' = [NoRegistry EXCEPT !.at = "raised"]
        BY <4>3 DEF NoRegistry, DbsOK
      <4> QED BY <4>1, <4>2, <4>3
    <3> QED BY <3>7, <3>8
  <2> QED BY <2>1, <2>2
<1> QED BY <1>1, <1>2 DEF AgentsInv, ToolsOK, AgentOK, TeamsOK

-----------------------------------------------------------------------------
(* The AgentOS *)

\* The names that are known, each with its kind.
Known ==
  ({"agent"} \X agents) \union ({"team"} \X DOMAIN teams) \union ({"workflow"} \X WorkflowNames)
    \union ({"knowledge"} \X KnowledgeNames)

InterfaceOK(built) ==
  /\ built.target[2] \in agents => built.target[1] = "agent"
  /\ credential_keys[built.type] > 0 => built.credential \in {"plain", "secret", "literal"}

AuthOK(auth) ==
  auth.enabled => auth.user_isolation /\ auth.values \subseteq {"plain", "secret"}

ConfigOK(cfg) ==
  /\ cfg.authorization.config \in AuthConfigs
  /\ \A i \in DOMAIN cfg.interfaces : cfg.interfaces[i] \in Specs

Call(t, f, s, d, u, c, i) ==
  [at |-> t, config |-> f, deps |-> s, db |-> d, auth |-> u, mcp |-> c, interfaces |-> i]

\* What a call has of its configuration after each phase; nothing that is built
\* plays a part in it.
Made(call) ==
  /\ \E t, f, s, d, u, c, i : call = Call(t, f, s, d, u, c, i)
  /\ ConfigOK(call.config) /\ AuthOK(call.auth)
  /\ call.at \notin {"idle", "raised"} =>
       /\ call.db = call.config.db
       /\ \A kind \in Kinds : /\ call.deps[kind] = Resolved(call.config.refs[kind], kind)
                              /\ IsInjective(call.deps[kind])
  /\ call.at \notin {"idle", "raised", "auth"} =>
       (call.auth.enabled <=> call.config.authorization.enabled)
  /\ call.at \notin {"idle", "raised", "auth", "mcp"} =>
       (call.mcp.enabled <=> call.config.mcp.enabled)
  /\ call.interfaces # <<>> => DOMAIN call.interfaces = DOMAIN call.config.interfaces

\* What a call relies on of what is built.
Stands(call) ==
  /\ call.at \notin {"idle", "raised"} =>
       /\ \A kind \in Kinds : Resolvable(call.config.refs[kind], kind)
       /\ call.db \in dbs.refs \union {0}
  /\ \A j \in DOMAIN call.interfaces : InterfaceOK(call.interfaces[j])

CallOK == Made(os) /\ Stands(os)

\* A build that is before its assembly has no AgentOS; one that is behind it has.
OsesOK ==
  /\ builds \in Nat /\ DOMAIN oses \subseteq 1..builds
  /\ \A n \in DOMAIN oses : Made(oses[n]) /\ Stands(oses[n]) /\ oses[n].at = "register"
  /\ os.at \in {"auth", "mcp", "interfaces", "assemble"} => builds \notin DOMAIN oses
  /\ os.at = "register" => builds \in DOMAIN oses /\ oses[builds] = os

HoldersOK ==
  /\ \E e, t, a : lifecycle = [enabled |-> e, tools |-> t, agentos |-> a]
  /\ resync # 0 => resync \in DOMAIN oses
  /\ lifecycle.agentos # 0 => /\ lifecycle.agentos \in DOMAIN oses
                              /\ oses[lifecycle.agentos].mcp.enabled

\* A call that is at work was counted.
BuildsBegun == os.at \in {"auth", "mcp", "interfaces", "assemble"} => builds # 0

InterfaceBuiltOK == \A i \in DOMAIN interface : interface[i] \in Known

\* Agents and teams are not built any more once there may be an AgentOS.
NotYet == os = NoOS /\ oses = <<>> /\ resync = 0 /\ lifecycle.agentos = 0 /\ interface = <<>>

OSInv ==
  /\ CallOK /\ OsesOK /\ HoldersOK /\ InterfaceBuiltOK /\ BuildsBegun
  /\ stage # "os" => NotYet

LEMMA MadeIs ==
  ASSUME NEW t, NEW f, NEW s, NEW d, NEW u, NEW c, NEW i
  PROVE  Made(Call(t, f, s, d, u, c, i)) <=>
           /\ ConfigOK(f) /\ AuthOK(u)
           /\ t \notin {"idle", "raised"} =>
                /\ d = f.db
                /\ \A kind \in Kinds : /\ s[kind] = Resolved(f.refs[kind], kind)
                                       /\ IsInjective(s[kind])
           /\ t \notin {"idle", "raised", "auth"} =>
                (u.enabled <=> f.authorization.enabled)
           /\ t \notin {"idle", "raised", "auth", "mcp"} => (c.enabled <=> f.mcp.enabled)
           /\ i # <<>> => DOMAIN i = DOMAIN f.interfaces
<1> DEFINE call == Call(t, f, s, d, u, c, i)
<1>1. /\ call.at = t /\ call.config = f /\ call.deps = s /\ call.db = d /\ call.auth = u
      /\ call.mcp = c /\ call.interfaces = i
  BY DEF Call
<1>2. \E t2, f2, s2, d2, u2, c2, i2 : call = Call(t2, f2, s2, d2, u2, c2, i2)
  OBVIOUS
<1> HIDE DEF call
<1>3. Made(call) <=>
           /\ ConfigOK(f) /\ AuthOK(u)
           /\ t \notin {"idle", "raised"} =>
                /\ d = f.db
                /\ \A kind \in Kinds : /\ s[kind] = Resolved(f.refs[kind], kind)
                                       /\ IsInjective(s[kind])
           /\ t \notin {"idle", "raised", "auth"} =>
                (u.enabled <=> f.authorization.enabled)
           /\ t \notin {"idle", "raised", "auth", "mcp"} => (c.enabled <=> f.mcp.enabled)
           /\ i # <<>> => DOMAIN i = DOMAIN f.interfaces
  BY <1>1, <1>2 DEF Made
<1> QED BY <1>3 DEF call

LEMMA StandsIs ==
  ASSUME NEW t, NEW f, NEW s, NEW d, NEW u, NEW c, NEW i
  PROVE  Stands(Call(t, f, s, d, u, c, i)) <=>
           /\ t \notin {"idle", "raised"} =>
                /\ \A kind \in Kinds : Resolvable(f.refs[kind], kind)
                /\ d \in dbs.refs \union {0}
           /\ \A j \in DOMAIN i : InterfaceOK(i[j])
BY DEF Stands, Call

\* The registries do not change any more.
LEMMA StandsStill ==
  ASSUME UNCHANGED <<agents, teams, dbs>>, NEW call, Stands(call)
  PROVE  Stands(call)'
<1>1. \A kind : Registry(kind)' = Registry(kind)
  BY DEF Registry
<1>2. \A refs, kind : Resolvable(refs, kind) => Resolvable(refs, kind)'
  BY <1>1 DEF Resolvable
<1>3. \A built : InterfaceOK(built) => InterfaceOK(built)'
  BY DEF InterfaceOK
<1> QED BY <1>2, <1>3 DEF Stands

LEMMA CallStands ==
  ASSUME UNCHANGED <<agents, teams, dbs>>, NEW call, os' = call, Made(call), Stands(call)
  PROVE  CallOK'
<1>1. Stands(call)'
  BY StandsStill
<1>2. Stands(os)'
  BY <1>1 DEF Stands, Resolvable, Registry, InterfaceOK
<1> QED BY <1>2 DEF CallOK

LEMMA OsesStand ==
  ASSUME UNCHANGED <<agents, teams, dbs>>, NEW n, NEW call, oses'[n] = call, Stands(call)
  PROVE  Stands(oses[n])'
<1>1. Stands(call)'
  BY StandsStill
<1> QED BY <1>1 DEF Stands, Resolvable, Registry, InterfaceOK

LEMMA OsesStill ==
  ASSUME OSInv, UNCHANGED <<agents, teams, dbs, oses>>
  PROVE  \A n \in DOMAIN oses' : /\ Made(oses'[n]) /\ Stands(oses[n])'
                                 /\ oses'[n].at = "register"
<1> SUFFICES ASSUME NEW n \in DOMAIN oses'
             PROVE  /\ Made(oses'[n]) /\ Stands(oses[n])' /\ oses'[n].at = "register"
  OBVIOUS
<1>1. Made(oses[n]) /\ Stands(oses[n]) /\ oses[n].at = "register" /\ oses' = oses
  BY DEF OSInv, OsesOK
<1>2. PICK call : call = oses[n]
  OBVIOUS
<1>3. Stands(call) /\ oses'[n] = call
  BY <1>1, <1>2
<1>4. Stands(oses[n])'
  BY <1>3, OsesStand
<1> QED BY <1>1, <1>4

\* NoOS, and what is refused, are calls like the others.
LEMMA EmptyConfig == ConfigOK(Plain) /\ AuthOK(NoAuth)
<1>1. Plain.authorization.config = <<>> /\ Plain.interfaces = <<>> /\ DOMAIN <<>> = {}
  BY DEF Plain
<1>2. <<>> \in AuthConfigs
  BY DEF AuthConfigs
<1>3. AuthOK(NoAuth)
  BY DEF AuthOK, NoAuth
<1> QED BY <1>1, <1>2, <1>3 DEF ConfigOK

LEMMA EmptyCalls ==
  ASSUME NEW call, call = NoOS \/ call = Failed
  PROVE  /\ Made(call) /\ call.at \in {"idle", "raised"} /\ DOMAIN call.interfaces = {}
<1>1. PICK t : t \in {"idle", "raised"} /\ call = Call(t, Plain, Nothing, 0, NoAuth, NoMcp, <<>>)
  BY DEF NoOS, Failed, Call
<1>2. Made(Call(t, Plain, Nothing, 0, NoAuth, NoMcp, <<>>))
  BY <1>1, EmptyConfig, MadeIs
<1>3. call.at = t /\ call.interfaces = <<>> /\ DOMAIN <<>> = {}
  BY <1>1 DEF Call
<1> QED BY <1>1, <1>2, <1>3

LEMMA EmptyCallKeeps == ASSUME os' = NoOS \/ os' = Failed PROVE CallOK'
<1>1. PICK call : call = os'
  OBVIOUS
<1>2. Made(call) /\ call.at \in {"idle", "raised"} /\ DOMAIN call.interfaces = {}
  BY <1>1, EmptyCalls
<1> QED BY <1>1, <1>2 DEF CallOK, Stands

LEMMA OSInitOK == ASSUME OSInit PROVE OSInv
<1>1. CallOK
  <2>1. Made(os) /\ os.at \in {"idle", "raised"} /\ DOMAIN os.interfaces = {}
    BY EmptyCalls DEF OSInit
  <2> QED BY <2>1 DEF CallOK, Stands
<1>2. DOMAIN <<>> = {} /\ os.at = "idle"
  BY DEF OSInit, NoOS
<1>3. OsesOK
  BY <1>2 DEF OSInit, OsesOK
<1>4. HoldersOK /\ lifecycle.agentos = 0
  BY DEF OSInit, HoldersOK
<1>5. InterfaceBuiltOK
  BY <1>2 DEF OSInit, InterfaceBuiltOK
<1>6. BuildsBegun
  BY <1>2 DEF BuildsBegun
<1> QED BY <1>1, <1>3, <1>4, <1>5, <1>6 DEF OSInit, OSInv, NotYet

\* What is resolved is known, and no name is resolved twice.
LEMMA ResolvedOK ==
  ASSUME NEW refs, NEW kind \in Kinds, Resolvable(refs, kind)
  PROVE  \A i \in DOMAIN refs : Resolved(refs, kind)[i] \in Known
<1>1. \A i \in DOMAIN refs : refs[i] \in Registry(kind)
  BY DEF Resolvable, ToSet
<1>2. ASSUME NEW i \in DOMAIN refs
      PROVE  <<kind, refs[i]>> \in Known
  <2>1. CASE kind = "agent"
    BY <1>1, <1>2, <2>1 DEF Registry, Known
  <2>2. CASE kind = "team"
    BY <1>1, <1>2, <2>2 DEF Registry, Known
  <2>3. CASE kind = "workflow"
    BY <1>1, <1>2, <2>3 DEF Registry, Known
  <2>4. CASE kind = "knowledge"
    BY <1>1, <1>2, <2>4 DEF Registry, Known
  <2> QED BY <2>1, <2>2, <2>3, <2>4 DEF Kinds
<1>3. \A i \in DOMAIN refs : Resolved(refs, kind)[i] = <<kind, refs[i]>>
  BY DEF Resolved
<1> QED BY <1>2, <1>3

LEMMA ResolvedOnce ==
  ASSUME NEW refs, NEW kind, IsInjective(refs)
  PROVE  IsInjective(Resolved(refs, kind))
<1>1. DOMAIN Resolved(refs, kind) = DOMAIN refs
      /\ \A i \in DOMAIN refs : Resolved(refs, kind)[i] = <<kind, refs[i]>>
  BY DEF Resolved
<1> QED BY <1>1 DEF IsInjective

LEMMA MapsToSecrets ==
  ASSUME NEW settings, settings.config \in AuthConfigs, NEW manager
  PROVE  AuthOK(map_authorization_config(settings, manager))
<1> DEFINE section == settings.config
           values == UNION {ToSet(section[k]) : k \in DOMAIN section}
           auth == map_authorization_config(settings, manager)
<1>1. values \subseteq {"plain", "lost", "ref"}
  <2>1. /\ ToSet(<<"plain">>) \subseteq {"plain", "lost", "ref"}
        /\ ToSet(<<"plain", "lost">>) \subseteq {"plain", "lost", "ref"}
        /\ ToSet(<<"ref", "plain">>) \subseteq {"plain", "lost", "ref"}
    BY DEF ToSet
  <2>2. CASE section = <<>>
    <3>1. DOMAIN section = {}
      BY <2>2
    <3> QED BY <3>1
  <2>3. CASE section # <<>>
    <3>1. PICK key \in {"verification_keys", "user_isolation", "nonsense"},
               v \in {<<"plain">>, <<"plain", "lost">>, <<"ref", "plain">>} :
            section = [k \in {key} |-> v]
      BY <2>3 DEF AuthConfigs
    <3>2. \A k \in DOMAIN section : section[k] = v
      BY <3>1
    <3>3. ToSet(v) \subseteq {"plain", "lost", "ref"}
      BY <2>1
    <3> QED BY <3>2, <3>3
  <2> QED BY <2>2, <2>3
<1>2. \/ auth = NoAuth
      \/ /\ "lost" \notin values
         /\ auth = [enabled |-> TRUE, user_isolation |-> TRUE,
                    values |-> {SecretValue(v) : v \in values}]
  BY DEF map_authorization_config
<1> HIDE DEF values, auth
<1>3. CASE auth = NoAuth
  BY <1>3 DEF NoAuth, AuthOK, auth
<1>4. CASE /\ "lost" \notin values
           /\ auth = [enabled |-> TRUE, user_isolation |-> TRUE,
                      values |-> {SecretValue(v) : v \in values}]
  <2>1. \A v \in values : SecretValue(v) \in {"plain", "secret"}
    BY <1>1, <1>4 DEF SecretValue
  <2>2. auth.user_isolation /\ auth.values \subseteq {"plain", "secret"}
    BY <1>4, <2>1
  <2> QED BY <2>2 DEF AuthOK, auth
<1> QED BY <1>2, <1>3, <1>4

\* The configurations that are enumerated are well formed.
LEMMA UsualConfigs == ASSUME NEW cfg \in AgentOSConfigs PROVE ConfigOK(cfg)
<1>1. PICK found : Usual = [Plain EXCEPT !.refs = found]
  BY DEF Usual
<1>2. <<>> \in AuthConfigs /\ DOMAIN <<>> = {}
  BY DEF AuthConfigs
<1>3. \A i : i \in Interfaces => \A j \in DOMAIN i : i[j] \in Specs
  <2>1. TAKE i
  <2>2. HAVE i \in Interfaces
  <2>3. CASE i \in {<<s>> : s \in Specs}
    BY <2>3
  <2>4. CASE i \in {s \in Specs : s.type = "agui"} \X Specs
    <3>1. PICK s \in {s \in Specs : s.type = "agui"}, r \in Specs : i = <<s, r>>
      BY <2>4
    <3>2. s \in Specs /\ r \in Specs /\ DOMAIN i = {1, 2} /\ i[1] = s /\ i[2] = r
      BY <3>1
    <3> QED BY <3>2
  <2> QED BY <2>2, <2>3, <2>4 DEF Interfaces
<1>4. \/ cfg.authorization.config = <<>> /\ cfg.interfaces = <<>>
      \/ cfg.authorization \in AuthorizationSettings /\ cfg.interfaces = <<>>
      \/ cfg.authorization.config = <<>> /\ cfg.interfaces \in Interfaces
  <2>1. CASE \E refs, db : cfg = OfRefs(refs, db)
    BY <1>1, <2>1 DEF Plain, OfRefs
  <2>2. CASE \E settings \in AuthorizationSettings : cfg = OfAuthorization(settings)
    BY <1>1, <2>2 DEF Plain, OfAuthorization
  <2>3. CASE \E mcp, on : cfg = OfMcp(mcp, on)
    BY <1>1, <2>3 DEF Plain, OfMcp
  <2>4. CASE \E interfaces \in Interfaces : cfg = OfInterfaces(interfaces)
    BY <1>1, <2>4 DEF Plain, OfInterfaces
  <2>5. \/ \E refs, db : cfg = OfRefs(refs, db)
        \/ \E settings \in AuthorizationSettings : cfg = OfAuthorization(settings)
        \/ \E mcp, on : cfg = OfMcp(mcp, on)
        \/ \E interfaces \in Interfaces : cfg = OfInterfaces(interfaces)
    BY DEF AgentOSConfigs
  <2> QED BY <2>1, <2>2, <2>3, <2>4, <2>5
<1>5. \A a \in AuthorizationSettings : a.config \in AuthConfigs
  BY DEF AuthorizationSettings
<1> QED BY <1>2, <1>3, <1>4, <1>5 DEF ConfigOK

LEMMA DependenciesKeep ==
  ASSUME OSInv, stage = "os", UNCHANGED stage, BuildDependencies
  PROVE  OSInv'
<1>1. /\ os.at = "idle" /\ builds' = builds + 1
      /\ UNCHANGED <<agents, teams, dbs, oses, lifecycle, resync, interface>>
  BY DEF BuildDependencies, agentVars
<1>2. CallOK' /\ os'.at \in {"auth", "raised"}
  <2>1. PICK cfg \in AgentOSConfigs :
          os' = IF /\ \A kind \in Kinds : /\ IsInjective(cfg.refs[kind])
                                          /\ Resolvable(cfg.refs[kind], kind)
                   /\ cfg.db \in dbs.refs \union {0}
                  THEN [NoOS EXCEPT !.at = "auth", !.config = cfg, !.db = cfg.db,
                          !.deps = [kind \in Kinds |-> Resolved(cfg.refs[kind], kind)]]
                  ELSE Failed
    BY DEF BuildDependencies
  <2>2. CASE os' = Failed
    <3>1. CallOK'
      BY <2>2, EmptyCallKeeps
    <3> QED BY <3>1, <2>2 DEF Failed, NoOS
  <2>3. CASE os' # Failed
    <3> DEFINE deps == [kind \in Kinds |-> Resolved(cfg.refs[kind], kind)]
               call == Call("auth", cfg, deps, cfg.db, NoAuth, NoMcp, <<>>)
    <3>1. /\ \A kind \in Kinds : /\ IsInjective(cfg.refs[kind])
                                 /\ Resolvable(cfg.refs[kind], kind)
          /\ cfg.db \in dbs.refs \union {0}
      BY <2>1, <2>3
    <3>2. os' = call
      BY <2>1, <2>3 DEF NoOS, Call
    <3>3. \A kind \in Kinds : /\ deps[kind] = Resolved(cfg.refs[kind], kind)
                              /\ IsInjective(deps[kind])
      BY <3>1, ResolvedOnce
    <3>4. ConfigOK(cfg) /\ AuthOK(NoAuth) /\ DOMAIN <<>> = {}
      BY UsualConfigs, EmptyConfig
    <3> HIDE DEF deps
    <3>5. Made(call)
      BY <3>3, <3>4, MadeIs
    <3>6. Stands(call)
      BY <3>1, <3>4, StandsIs
    <3>7. CallOK'
      BY <3>2, <3>5, <3>6, <1>1, CallStands
    <3> QED BY <3>2, <3>7 DEF Call
  <2> QED BY <2>2, <2>3
<1>3. OsesOK'
  <2>1. builds \in Nat /\ DOMAIN oses \subseteq 1..builds
    BY DEF OSInv, OsesOK
  <2>2. builds + 1 \notin 1..builds /\ builds + 1 \in Nat /\ 1..builds \subseteq 1..builds + 1
    BY <2>1
  <2>3. builds' \in Nat /\ DOMAIN oses' \subseteq 1..builds' /\ builds' \notin DOMAIN oses'
    BY <2>1, <2>2, <1>1
  <2>4. os'.at # "register"
    BY <1>2
  <2> QED BY <2>3, <2>4, <1>1, OsesStill DEF OsesOK
<1>4. BuildsBegun'
  BY <1>1 DEF OSInv, OsesOK, BuildsBegun
<1> QED BY <1>1, <1>2, <1>3, <1>4 DEF OSInv, HoldersOK, InterfaceBuiltOK, Known

\* A phase in the middle of a build changes nothing but the call.
LEMMA PhaseKeeps ==
  ASSUME OSInv, stage = "os", UNCHANGED stage,
         UNCHANGED <<agents, teams, dbs, builds, oses, lifecycle, resync, interface>>,
         os.at \in {"auth", "mcp", "interfaces", "assemble"}, CallOK',
         os'.at \in {"mcp", "interfaces", "assemble", "raised"}
  PROVE  OSInv'
<1>1. OsesOK'
  <2>1. /\ builds' \in Nat /\ DOMAIN oses' \subseteq 1..builds' /\ builds' \notin DOMAIN oses'
        /\ os'.at # "register"
    BY DEF OSInv, OsesOK
  <2> QED BY <2>1, OsesStill DEF OsesOK
<1>2. BuildsBegun'
  BY DEF OSInv, BuildsBegun
<1> QED BY <1>1, <1>2 DEF OSInv, HoldersOK, InterfaceBuiltOK, Known

LEMMA AuthKeeps ==
  ASSUME OSInv, stage = "os", UNCHANGED stage, WireAuth
  PROVE  OSInv'
<1>1. /\ os.at = "auth"
      /\ UNCHANGED <<agents, teams, dbs, builds, oses, lifecycle, resync, interface>>
  BY DEF WireAuth, agentVars
<1>2. PICK t, f, s, d, u, c, i : os = Call(t, f, s, d, u, c, i)
  BY DEF OSInv, CallOK, Made
<1>3. Made(Call(t, f, s, d, u, c, i)) /\ Stands(Call(t, f, s, d, u, c, i)) /\ t = "auth"
  BY <1>1, <1>2 DEF OSInv, CallOK, Call
<1>4. os.config = f /\ f.authorization.config \in AuthConfigs
  BY <1>2, <1>3, MadeIs DEF Call, ConfigOK
<1>5. \/ os' = Failed
      \/ \E auth : /\ os' = Wired(auth) /\ AuthOK(auth)
                   /\ auth.enabled <=> f.authorization.enabled
  <2>2. CASE ~f.authorization.enabled /\ os' = Wired(NoAuth)
    <3>1. AuthOK(NoAuth) /\ ~NoAuth.enabled
      BY DEF AuthOK, NoAuth
    <3> QED BY <2>2, <3>1
  <2>3. ASSUME f.authorization.enabled, NEW adapter \in BOOLEAN,
               LET auth == map_authorization_config(f.authorization, adapter)
               IN  os' = IF auth.enabled THEN Wired(auth) ELSE Failed
        PROVE  \/ os' = Failed
               \/ \E auth : /\ os' = Wired(auth) /\ AuthOK(auth)
                            /\ auth.enabled <=> f.authorization.enabled
    <3>1. PICK auth : auth = map_authorization_config(f.authorization, adapter)
      OBVIOUS
    <3>2. AuthOK(auth)
      BY <1>4, <3>1, MapsToSecrets
    <3>3. os' = Failed \/ (auth.enabled /\ os' = Wired(auth))
      BY <2>3, <3>1
    <3> QED BY <3>2, <3>3, <2>3
  <2> QED BY <1>4, <2>2, <2>3 DEF WireAuth
<1>6. CallOK' /\ os'.at \in {"mcp", "raised"}
  <2>1. CASE os' = Failed
    <3>1. CallOK'
      BY <2>1, EmptyCallKeeps
    <3> QED BY <2>1, <3>1 DEF Failed, NoOS
  <2>2. ASSUME NEW auth, os' = Wired(auth), AuthOK(auth),
               auth.enabled <=> f.authorization.enabled
        PROVE  CallOK' /\ os'.at = "mcp"
    <3>0. os' = Call("mcp", f, s, d, auth, c, i)
      BY <1>2, <2>2 DEF Wired, Call
    <3>1. Made(Call("mcp", f, s, d, auth, c, i))
      BY <2>2, <1>3, MadeIs
    <3>2. Stands(Call("mcp", f, s, d, auth, c, i))
      BY <1>3, StandsIs
    <3>3. CallOK'
      BY <3>0, <3>1, <3>2, <1>1, CallStands
    <3> QED BY <3>0, <3>3 DEF Call
  <2> QED BY <1>5, <2>1, <2>2
<1> QED BY <1>1, <1>6, PhaseKeeps

LEMMA McpKeeps ==
  ASSUME OSInv, stage = "os", UNCHANGED stage, WireMcp
  PROVE  OSInv'
<1>1. /\ os.at = "mcp"
      /\ UNCHANGED <<agents, teams, dbs, builds, oses, lifecycle, resync, interface>>
  BY DEF WireMcp, agentVars
<1>2. PICK t, f, s, d, u, c, i : os = Call(t, f, s, d, u, c, i)
  BY DEF OSInv, CallOK, Made
<1>3. Made(Call(t, f, s, d, u, c, i)) /\ Stands(Call(t, f, s, d, u, c, i)) /\ t = "mcp"
  BY <1>1, <1>2 DEF OSInv, CallOK, Call
<1>4. PICK mcp : /\ os' = Call("interfaces", f, s, d, u, mcp, i)
                 /\ mcp.enabled <=> f.mcp.enabled
  <2>1. PICK mcp : /\ mcp = IF f.mcp.enabled
                              THEN [NoMcp EXCEPT !.enabled = TRUE, !.tools = f.mcp.tools_to_expose]
                              ELSE NoMcp
                   /\ os' = [os EXCEPT !.at = "interfaces", !.mcp = mcp]
    BY <1>2 DEF WireMcp, Call
  <2>2. os' = Call("interfaces", f, s, d, u, mcp, i)
    BY <1>2, <2>1 DEF Call
  <2>3. mcp.enabled <=> f.mcp.enabled
    BY <2>1 DEF NoMcp
  <2> QED BY <2>2, <2>3
<1>5. Made(Call("interfaces", f, s, d, u, mcp, i))
  BY <1>3, <1>4, MadeIs
<1>6. Stands(Call("interfaces", f, s, d, u, mcp, i))
  BY <1>3, StandsIs
<1>7. CallOK' /\ os'.at = "interfaces"
  <2>1. CallOK'
    BY <1>1, <1>4, <1>5, <1>6, CallStands
  <2> QED BY <2>1, <1>4 DEF Call
<1> QED BY <1>1, <1>7, PhaseKeeps

\* An interface that is built has what its type needs.
LEMMA InterfaceIsOK ==
  ASSUME NEW spec \in Specs, NEW manager \in BOOLEAN, BuildsInterface(spec, manager)
  PROVE  InterfaceOK([type |-> spec.type, target |-> ResolvedTarget(spec.target),
                      credential |-> Credential(spec, manager)])
<1> DEFINE target == ResolvedTarget(spec.target)
           credential == Credential(spec, manager)
<1>1. target[2] \in agents => target[1] = "agent"
  <2>1. target # <<>>
    BY DEF BuildsInterface
  <2>2. \/ target = <<"agent", spec.target>>
        \/ target = <<"team", spec.target>> /\ spec.target \notin agents
        \/ target = <<"workflow", spec.target>> /\ spec.target \notin agents
    BY <2>1 DEF ResolvedTarget
  <2> QED BY <2>2
<1>2. credential_keys[spec.type] > 0 => credential \in {"plain", "secret", "literal"}
  <2>1. spec.value \in {"absent", "ref", "lost", "blank", "plain"}
    BY DEF Specs, InterfaceSpec
  <2>2. manager => spec.value # "lost"
    BY DEF BuildsInterface
  <2>3. credential_keys[spec.type] > 0 => credential # "absent" /\ credential # ""
    BY DEF BuildsInterface
  <2>4. credential \in {"plain", "secret", "literal", "absent", ""}
    BY <2>1, <2>2 DEF Credential, SecretValue
  <2> QED BY <2>3, <2>4
<1> HIDE DEF target, credential
<1> QED BY <1>1, <1>2 DEF InterfaceOK, target, credential

LEMMA InterfacesKeep ==
  ASSUME OSInv, stage = "os", UNCHANGED stage, WireInterfaces
  PROVE  OSInv'
<1>1. /\ os.at = "interfaces"
      /\ UNCHANGED <<agents, teams, dbs, builds, oses, lifecycle, resync, interface>>
  BY DEF WireInterfaces, agentVars
<1>2. PICK t, f, s, d, u, c, i : os = Call(t, f, s, d, u, c, i)
  BY DEF OSInv, CallOK, Made
<1>3. Made(Call(t, f, s, d, u, c, i)) /\ Stands(Call(t, f, s, d, u, c, i)) /\ t = "interfaces"
  BY <1>1, <1>2 DEF OSInv, CallOK, Call
<1>4. os.config = f /\ \A j \in DOMAIN f.interfaces : f.interfaces[j] \in Specs
  BY <1>2, <1>3, MadeIs DEF Call, ConfigOK
<1>5. \/ os' = Failed
      \/ \E x : /\ os' = Call("assemble", f, s, d, u, c, x)
                /\ x # <<>> => DOMAIN x = DOMAIN f.interfaces
                /\ \A j \in DOMAIN x : InterfaceOK(x[j])
  <2>1. CASE os' = [os EXCEPT !.at = "assemble"]
    <3>1. os' = Call("assemble", f, s, d, u, c, i)
      BY <2>1, <1>2 DEF Call
    <3>2. (i # <<>> => DOMAIN i = DOMAIN f.interfaces) /\ \A j \in DOMAIN i : InterfaceOK(i[j])
      BY <1>3, MadeIs, StandsIs
    <3> QED BY <3>1, <3>2
  <2>2. ASSUME NEW manager \in BOOLEAN, os' # Failed,
               os' = IF \A j \in DOMAIN f.interfaces :
                          ValidSpec(f.interfaces[j]) /\ BuildsInterface(f.interfaces[j], manager)
                       THEN [os EXCEPT !.at = "assemble",
                               !.interfaces = [j \in DOMAIN f.interfaces |->
                                                 [type |-> f.interfaces[j].type,
                                                  target |-> ResolvedTarget(f.interfaces[j].target),
                                                  credential |->
                                                    Credential(f.interfaces[j], manager)]]]
                       ELSE Failed
        PROVE  \E x : /\ os' = Call("assemble", f, s, d, u, c, x)
                      /\ x # <<>> => DOMAIN x = DOMAIN f.interfaces
                      /\ \A j \in DOMAIN x : InterfaceOK(x[j])
    <3> DEFINE x == [j \in DOMAIN f.interfaces |->
                       [type |-> f.interfaces[j].type,
                        target |-> ResolvedTarget(f.interfaces[j].target),
                        credential |-> Credential(f.interfaces[j], manager)]]
    <3>1. (\A j \in DOMAIN f.interfaces : BuildsInterface(f.interfaces[j], manager))
          /\ os' = [os EXCEPT !.at = "assemble", !.interfaces = x]
      BY <2>2
    <3>2. ASSUME NEW j \in DOMAIN f.interfaces
          PROVE  InterfaceOK([type |-> f.interfaces[j].type,
                              target |-> ResolvedTarget(f.interfaces[j].target),
                              credential |-> Credential(f.interfaces[j], manager)])
      BY <3>1, <3>2, <1>4, InterfaceIsOK
    <3>3. DOMAIN x = DOMAIN f.interfaces /\ \A j \in DOMAIN x : InterfaceOK(x[j])
      BY <3>2
    <3> HIDE DEF x
    <3>4. os' = Call("assemble", f, s, d, u, c, x)
      BY <3>1, <1>2 DEF Call
    <3> QED BY <3>3, <3>4
  <2> QED BY <1>4, <2>1, <2>2 DEF WireInterfaces
<1>6. CallOK' /\ os'.at \in {"assemble", "raised"}
  <2>1. CASE os' = Failed
    <3>1. CallOK'
      BY <2>1, EmptyCallKeeps
    <3> QED BY <2>1, <3>1 DEF Failed, NoOS
  <2>2. ASSUME NEW x, os' = Call("assemble", f, s, d, u, c, x),
               x # <<>> => DOMAIN x = DOMAIN f.interfaces,
               \A j \in DOMAIN x : InterfaceOK(x[j])
        PROVE  CallOK' /\ os'.at = "assemble"
    <3>1. Made(Call("assemble", f, s, d, u, c, x))
      BY <2>2, <1>3, MadeIs
    <3>2. Stands(Call("assemble", f, s, d, u, c, x))
      BY <2>2, <1>3, StandsIs
    <3>3. CallOK'
      BY <2>2, <3>1, <3>2, <1>1, CallStands
    <3> QED BY <2>2, <3>3 DEF Call
  <2> QED BY <1>5, <2>1, <2>2
<1> QED BY <1>1, <1>6, PhaseKeeps

LEMMA AssembleKeeps ==
  ASSUME OSInv, stage = "os", UNCHANGED stage, AssembleApp
  PROVE  OSInv'
<1>1. os.at = "assemble" /\ UNCHANGED <<agents, teams, dbs, builds, lifecycle, resync, interface>>
  BY DEF AssembleApp, agentVars
<1>2. Known' = Known
  BY <1>1 DEF Known
<1>3. CASE /\ os' = [os EXCEPT !.at = "register"]
           /\ oses' = [n \in DOMAIN oses \union {builds} |->
                         IF n = builds THEN os' ELSE oses[n]]
  <2>1. PICK t, f, s, d, u, c, i : os = Call(t, f, s, d, u, c, i)
    BY DEF OSInv, CallOK, Made
  <2>2. Made(Call(t, f, s, d, u, c, i)) /\ Stands(Call(t, f, s, d, u, c, i)) /\ t = "assemble"
    BY <1>1, <2>1 DEF OSInv, CallOK, Call
  <2>3. PICK call : call = Call("register", f, s, d, u, c, i)
    OBVIOUS
  <2>4. os' = call /\ call.at = "register"
    BY <1>3, <2>1, <2>3 DEF Call
  <2>5. Made(call) /\ Stands(call)
    <3>1. Made(Call("register", f, s, d, u, c, i))
      BY <2>2, MadeIs
    <3>2. Stands(Call("register", f, s, d, u, c, i))
      BY <2>2, StandsIs
    <3> QED BY <3>1, <3>2, <2>3
  <2>6. CallOK'
    BY <2>4, <2>5, <1>1, CallStands
  <2>7. /\ builds \in Nat /\ DOMAIN oses \subseteq 1..builds /\ builds \notin DOMAIN oses
        /\ builds # 0
    BY <1>1 DEF OSInv, OsesOK, BuildsBegun
  <2>8. /\ DOMAIN oses' = DOMAIN oses \union {builds} /\ oses'[builds] = call
        /\ \A n \in DOMAIN oses : oses'[n] = oses[n]
    BY <1>3, <2>4, <2>7
  <2>9. ASSUME NEW n \in DOMAIN oses'
        PROVE  Made(oses'[n]) /\ Stands(oses[n])' /\ oses'[n].at = "register"
    <3>1. PICK built : built = oses'[n]
      OBVIOUS
    <3>2. Made(built) /\ Stands(built) /\ built.at = "register"
      <4>1. CASE n = builds
        BY <4>1, <3>1, <2>4, <2>5, <2>8
      <4>2. CASE n # builds
        <5>1. n \in DOMAIN oses /\ built = oses[n]
          BY <4>2, <2>9, <2>8, <3>1
        <5> QED BY <5>1 DEF OSInv, OsesOK
      <4> QED BY <4>1, <4>2
    <3>3. Stands(oses[n])'
      BY <3>1, <3>2, <1>1, OsesStand
    <3> QED BY <3>1, <3>2, <3>3
  <2>10. OsesOK'
    <3>1. builds' \in Nat /\ DOMAIN oses' \subseteq 1..builds' /\ builds' \in DOMAIN oses'
      BY <2>7, <2>8, <1>1
    <3>2. oses'[builds'] = os' /\ os'.at = "register"
      BY <2>4, <2>8, <1>1
    <3> QED BY <3>1, <3>2, <2>9 DEF OsesOK
  <2>11. HoldersOK'
    <3>1. /\ resync # 0 => resync \in DOMAIN oses
          /\ lifecycle.agentos # 0 => /\ lifecycle.agentos \in DOMAIN oses
                                      /\ oses[lifecycle.agentos].mcp.enabled
      BY DEF OSInv, HoldersOK
    <3>2. /\ resync' # 0 => resync' \in DOMAIN oses'
          /\ lifecycle'.agentos # 0 => /\ lifecycle'.agentos \in DOMAIN oses'
                                       /\ oses'[lifecycle'.agentos].mcp.enabled
      BY <3>1, <2>8, <1>1
    <3> QED BY <3>2, <1>1 DEF OSInv, HoldersOK
  <2>12. BuildsBegun'
    BY <1>1 DEF OSInv, BuildsBegun
  <2> QED BY <2>6, <2>10, <2>11, <2>12, <1>1, <1>2 DEF OSInv, InterfaceBuiltOK
<1>4. CASE os' = Failed /\ UNCHANGED oses
  <2>1. CallOK' /\ os'.at = "raised"
    <3>1. CallOK'
      BY <1>4, EmptyCallKeeps
    <3> QED BY <3>1, <1>4 DEF Failed, NoOS
  <2> QED BY <2>1, <1>1, <1>4, PhaseKeeps
<1> QED BY <1>3, <1>4 DEF AssembleApp

\* Who is registered holds the AgentOS that has just been assembled.
LEMMA RegisterKeeps ==
  ASSUME OSInv, stage = "os", UNCHANGED stage, RegisterLifecycle
  PROVE  OSInv'
<1>1. /\ os.at = "register" /\ UNCHANGED <<agents, teams, dbs, builds, oses, interface>>
      /\ os' = [os EXCEPT !.at = "built"]
  BY DEF RegisterLifecycle, agentVars
<1>2. Known' = Known
  BY <1>1 DEF Known
<1>3. PICK t, f, s, d, u, c, i : os = Call(t, f, s, d, u, c, i)
  BY DEF OSInv, CallOK, Made
<1>4. Made(Call(t, f, s, d, u, c, i)) /\ Stands(Call(t, f, s, d, u, c, i)) /\ t = "register"
  BY <1>1, <1>3 DEF OSInv, CallOK, Call
<1>5. os' = Call("built", f, s, d, u, c, i)
  BY <1>1, <1>3 DEF Call
<1>6. CallOK' /\ os'.at = "built"
  <2>1. Made(Call("built", f, s, d, u, c, i))
    BY <1>4, MadeIs
  <2>2. Stands(Call("built", f, s, d, u, c, i))
    BY <1>4, StandsIs
  <2>3. CallOK'
    BY <1>1, <1>5, <2>1, <2>2, CallStands
  <2> QED BY <2>3, <1>5 DEF Call
<1>7. OsesOK' /\ BuildsBegun'
  <2>1. builds' \in Nat /\ DOMAIN oses' \subseteq 1..builds'
    BY <1>1 DEF OSInv, OsesOK
  <2> QED BY <2>1, <1>1, <1>6, OsesStill DEF OsesOK, BuildsBegun
<1>8. /\ builds \in DOMAIN oses /\ oses[builds].mcp = c /\ os.config = f
      /\ c.enabled <=> f.mcp.enabled
  <2>1. builds \in DOMAIN oses /\ oses[builds] = os
    BY <1>1 DEF OSInv, OsesOK
  <2>2. c.enabled <=> f.mcp.enabled
    BY <1>4, MadeIs
  <2> QED BY <2>1, <2>2, <1>3 DEF Call
<1>9. HoldersOK'
  <2>1. PICK with_lifecycle \in BOOLEAN, with_resync \in BOOLEAN :
          /\ lifecycle' = IF with_lifecycle /\ os.config.mcp.enabled
                            THEN [lifecycle EXCEPT !.agentos = builds] ELSE lifecycle
          /\ resync' = IF with_resync /\ os.config.resync THEN builds ELSE resync
    BY DEF RegisterLifecycle
  <2>2. resync' # 0 => resync' \in DOMAIN oses'
    BY <2>1, <1>1, <1>8 DEF OSInv, HoldersOK
  <2>3. PICK e, x, y : lifecycle = [enabled |-> e, tools |-> x, agentos |-> y]
    BY DEF OSInv, HoldersOK
  <2>4. CASE lifecycle' = lifecycle
    BY <2>2, <2>4, <1>1 DEF OSInv, HoldersOK
  <2>5. CASE os.config.mcp.enabled /\ lifecycle' = [lifecycle EXCEPT !.agentos = builds]
    <3>1. lifecycle' = [enabled |-> e, tools |-> x, agentos |-> builds]
      BY <2>3, <2>5
    <3>2. oses'[builds].mcp.enabled /\ builds \in DOMAIN oses'
      BY <2>5, <1>1, <1>8
    <3> QED BY <3>1, <3>2, <2>2 DEF HoldersOK
  <2> QED BY <2>1, <2>4, <2>5
<1> QED BY <1>1, <1>2, <1>6, <1>7, <1>9 DEF OSInv, InterfaceBuiltOK

LEMMA TakeKeeps ==
  ASSUME OSInv, stage = "os", UNCHANGED stage, TakeOS
  PROVE  OSInv'
<1>1. os' = NoOS /\ UNCHANGED <<agents, teams, dbs, builds, oses, lifecycle, resync, interface>>
  BY DEF TakeOS, agentVars
<1>2. CallOK' /\ os'.at = "idle"
  <2>1. CallOK'
    BY <1>1, EmptyCallKeeps
  <2> QED BY <2>1, <1>1 DEF NoOS
<1>3. OsesOK'
  <2>1. builds' \in Nat /\ DOMAIN oses' \subseteq 1..builds'
    BY <1>1 DEF OSInv, OsesOK
  <2> QED BY <2>1, <1>1, <1>2, OsesStill DEF OsesOK
<1>4. HoldersOK' /\ BuildsBegun'
  BY <1>1, <1>2 DEF OSInv, HoldersOK, BuildsBegun
<1> QED BY <1>1, <1>2, <1>3, <1>4 DEF OSInv, InterfaceBuiltOK, Known

LEMMA CallStays == ASSUME OSInv, UNCHANGED <<agents, teams, dbs, os>> PROVE CallOK'
<1>1. PICK call : call = os
  OBVIOUS
<1>2. os' = call /\ Made(call) /\ Stands(call)
  BY <1>1 DEF OSInv, CallOK
<1> QED BY <1>2, CallStands

\* What the lifecycle replaces is there, and stays enabled.
LEMMA StartKeeps ==
  ASSUME OSInv, stage = "os", UNCHANGED stage, StartMcp
  PROVE  OSInv'
<1> DEFINE n == lifecycle.agentos
           wired == [NoMcp EXCEPT !.enabled = TRUE,
                                  !.include_tags = lifecycle.tools \intersect {"core", "session"}]
<1>1. /\ os.at = "idle" /\ n # 0 /\ oses' = [oses EXCEPT ![n].mcp = wired]
      /\ UNCHANGED <<agents, teams, dbs, builds, os, lifecycle, resync, interface>>
  BY DEF StartMcp, agentVars
<1>2. wired.enabled
  BY DEF NoMcp
<1> HIDE DEF wired
<1>3. n \in DOMAIN oses /\ oses[n].mcp.enabled
  BY <1>1 DEF OSInv, HoldersOK
<1>4. PICK t, f, s, d, u, c, i : oses[n] = Call(t, f, s, d, u, c, i)
  BY <1>3 DEF OSInv, OsesOK, Made
<1>5. /\ DOMAIN oses' = DOMAIN oses /\ oses'[n] = Call(t, f, s, d, u, wired, i)
      /\ \A k \in DOMAIN oses : k # n => oses'[k] = oses[k]
  BY <1>1, <1>3, <1>4 DEF Call
<1>6. Made(Call(t, f, s, d, u, c, i)) /\ Stands(Call(t, f, s, d, u, c, i)) /\ t = "register"
  BY <1>3, <1>4 DEF OSInv, OsesOK, Call
<1>7. Made(Call(t, f, s, d, u, wired, i)) /\ Stands(Call(t, f, s, d, u, wired, i))
  <2>1. f.mcp.enabled
    <3>1. c.enabled
      BY <1>3, <1>4 DEF Call
    <3> QED BY <3>1, <1>6, MadeIs
  <2>2. wired.enabled <=> f.mcp.enabled
    BY <2>1, <1>2
  <2>3. Made(Call(t, f, s, d, u, wired, i))
    BY <2>2, <1>6, MadeIs
  <2>4. Stands(Call(t, f, s, d, u, wired, i))
    BY <1>6, StandsIs
  <2> QED BY <2>3, <2>4
<1>8. OsesOK'
  <2>1. ASSUME NEW k \in DOMAIN oses'
        PROVE  Made(oses'[k]) /\ Stands(oses[k])' /\ oses'[k].at = "register"
    <3>1. PICK built : built = oses'[k]
      OBVIOUS
    <3>2. Made(built) /\ Stands(built) /\ built.at = "register"
      <4>1. CASE k = n
        <5>1. built = Call(t, f, s, d, u, wired, i)
          BY <4>1, <3>1, <1>5
        <5> QED BY <5>1, <1>6, <1>7 DEF Call
      <4>2. CASE k # n
        <5>1. k \in DOMAIN oses /\ built = oses[k]
          BY <4>2, <2>1, <1>5, <3>1
        <5> QED BY <5>1 DEF OSInv, OsesOK
      <4> QED BY <4>1, <4>2
    <3>3. Stands(oses[k])'
      BY <3>1, <3>2, <1>1, OsesStand
    <3> QED BY <3>1, <3>2, <3>3
  <2>2. builds' \in Nat /\ DOMAIN oses' \subseteq 1..builds' /\ os'.at = "idle"
    BY <1>1, <1>5 DEF OSInv, OsesOK
  <2> QED BY <2>1, <2>2 DEF OsesOK
<1>9. HoldersOK'
  <2>1. oses'[n].mcp.enabled /\ n \in DOMAIN oses'
    BY <1>2, <1>3, <1>5 DEF Call
  <2> QED BY <2>1, <1>1, <1>5 DEF OSInv, HoldersOK
<1>10. CallOK'
  BY <1>1, CallStays
<1>11. InterfaceBuiltOK' /\ BuildsBegun'
  BY <1>1 DEF OSInv, InterfaceBuiltOK, Known, BuildsBegun
<1> QED BY <1>1, <1>8, <1>9, <1>10, <1>11 DEF OSInv

LEMMA KnownConcat ==
  ASSUME NEW s \in Seq(Known), NEW t \in Seq(Known), NEW u \in Seq(Known)
  PROVE  \A i \in DOMAIN (s \o t \o u) : (s \o t \o u)[i] \in Known
<1>1. s \o t \o u \in Seq(Known)
  BY ConcatProperties
<1> QED BY <1>1, LenProperties, ElementOfSeq

LEMMA RefListsAreSeqs == \A names : \A refs \in RefLists(names) : \E n \in Nat : DOMAIN refs = 1..n
<1>1. TAKE names
<1>2. TAKE refs \in RefLists(names)
<1>3. refs = <<>> \/ (\E x : refs = <<x>>) \/ (\E x, y : refs = <<x, y>>)
  BY DEF RefLists
<1>4. (refs = <<>> => DOMAIN refs = 1..0) /\ ((\E x : refs = <<x>>) => DOMAIN refs = 1..1)
      /\ ((\E x, y : refs = <<x, y>>) => DOMAIN refs = 1..2)
  OBVIOUS
<1> QED BY <1>3, <1>4

LEMMA ResolvedSeq ==
  ASSUME NEW names, NEW refs \in RefLists(names), NEW kind \in Kinds,
         Resolvable(refs, kind)
  PROVE  Resolved(refs, kind) \in Seq(Known)
<1>1. PICK n \in Nat : DOMAIN refs = 1..n
  BY RefListsAreSeqs
<1>2. \A i \in DOMAIN refs : Resolved(refs, kind)[i] \in Known
  BY ResolvedOK
<1>3. Resolved(refs, kind) = [i \in 1..n |-> <<kind, refs[i]>>]
  BY <1>1 DEF Resolved
<1>4. [i \in 1..n |-> <<kind, refs[i]>>] \in [1..n -> Known]
  BY <1>1, <1>2, <1>3
<1> QED BY <1>3, <1>4

LEMMA OsesStays ==
  ASSUME OSInv, UNCHANGED <<agents, teams, dbs, builds, os, oses>>
  PROVE  OsesOK'
<1>1. /\ builds' \in Nat /\ DOMAIN oses' \subseteq 1..builds'
      /\ os'.at \in {"auth", "mcp", "interfaces", "assemble"} => builds' \notin DOMAIN oses'
      /\ os'.at = "register" => builds' \in DOMAIN oses' /\ oses'[builds'] = os'
  BY DEF OSInv, OsesOK
<1> QED BY <1>1, OsesStill DEF OsesOK

LEMMA A2AKeeps ==
  ASSUME OSInv, stage = "os", UNCHANGED stage, BuildInterface \/ TakeInterface
  PROVE  OSInv'
<1>1. UNCHANGED <<agents, teams, dbs, builds, os, oses, lifecycle, resync>>
  BY DEF BuildInterface, TakeInterface, agentVars
<1>2. Known' = Known
  BY <1>1 DEF Known
<1>3. DOMAIN <<>> = {}
  OBVIOUS
<1>4. \A i \in DOMAIN interface' : interface'[i] \in Known
  <2>1. CASE BuildInterface
    <3>1. PICK a \in RefLists(AgentNames), t \in RefLists(TeamNames), w \in RefLists(WorkflowNames),
               sdk \in BOOLEAN : interface' = A2AInterface(a, t, w, sdk)
      BY <2>1 DEF BuildInterface
    <3>2. CASE interface' = <<>>
      BY <3>2, <1>3
    <3>3. CASE interface' # <<>>
      <4>1. /\ Resolvable(a, "agent") /\ Resolvable(t, "team") /\ Resolvable(w, "workflow")
            /\ interface' = Resolved(a, "agent") \o Resolved(t, "team") \o Resolved(w, "workflow")
        BY <3>1, <3>3 DEF A2AInterface
      <4>2. /\ Resolved(a, "agent") \in Seq(Known) /\ Resolved(t, "team") \in Seq(Known)
            /\ Resolved(w, "workflow") \in Seq(Known)
        BY <3>1, <4>1, ResolvedSeq DEF Kinds
      <4> QED BY <4>1, <4>2, KnownConcat
    <3> QED BY <3>2, <3>3
  <2>2. CASE TakeInterface
    BY <2>2, <1>3 DEF TakeInterface
  <2> QED BY <2>1, <2>2
<1>5. CallOK' /\ OsesOK'
  BY <1>1, CallStays, OsesStays
<1>6. HoldersOK' /\ BuildsBegun'
  BY <1>1 DEF OSInv, HoldersOK, BuildsBegun
<1> QED BY <1>1, <1>2, <1>4, <1>5, <1>6 DEF OSInv, InterfaceBuiltOK

-----------------------------------------------------------------------------
(* The whole *)

BootInv == AgentsInv /\ OSInv

\* No other part of the start has an AgentOS yet.
LEMMA OSWaits ==
  ASSUME OSInv, NotYet', UNCHANGED builds,
         \E e, t, a : lifecycle' = [enabled |-> e, tools |-> t, agentos |-> a]
  PROVE  OSInv'
<1>1. DOMAIN <<>> = {} /\ os' = NoOS /\ os'.at = "idle"
  BY DEF NotYet, NoOS
<1>2. CallOK'
  BY <1>1, EmptyCallKeeps
<1>3. OsesOK' /\ BuildsBegun'
  BY <1>1 DEF OSInv, OsesOK, BuildsBegun, NotYet
<1>4. HoldersOK' /\ InterfaceBuiltOK'
  BY <1>1 DEF NotYet, HoldersOK, InterfaceBuiltOK
<1> QED BY <1>2, <1>3, <1>4 DEF OSInv

LEMMA OSStill ==
  ASSUME OSInv, stage # "os", UNCHANGED osVars
  PROVE  OSInv'
<1>1. NotYet' /\ UNCHANGED <<builds, lifecycle>>
  BY DEF OSInv, NotYet, osVars
<1>2. \E e, t, a : lifecycle' = [enabled |-> e, tools |-> t, agentos |-> a]
  BY <1>1 DEF OSInv, HoldersOK
<1> QED BY <1>1, <1>2, OSWaits

LEMMA AgentsStill ==
  ASSUME AgentsInv, UNCHANGED <<tools, agentVars>>
  PROVE  AgentsInv'
BY DEF AgentsInv, ToolsOK, AgentOK, TeamsOK, DbsOK, agentVars

LEMMA OSKeeps ==
  ASSUME BootInv, stage = "os", OSNext, UNCHANGED stage
  PROVE  BootInv'
<1>1. UNCHANGED <<tools, agentVars>>
  BY DEF OSNext, BuildDependencies, WireAuth, WireMcp, WireInterfaces, AssembleApp,
         RegisterLifecycle, TakeOS, BuildInterface, TakeInterface, StartMcp
<1>2. AgentsInv'
  BY <1>1, AgentsStill DEF BootInv
<1>3. OSInv'
  BY DependenciesKeep, AuthKeeps, McpKeeps, InterfacesKeep, AssembleKeeps, RegisterKeeps,
     TakeKeeps, StartKeeps, A2AKeeps DEF OSNext, BootInv
<1> QED BY <1>2, <1>3 DEF BootInv

LEMMA BuildOSKeeps == ASSUME BootInv, BuildOS PROVE BootInv'
<1>1. /\ stage = "databases" /\ lifecycle' \in Lifecycles
      /\ UNCHANGED <<tools, agentVars, builds, os, oses, resync, interface>>
  BY DEF BuildOS
<1>2. PICK e, t : lifecycle' = [enabled |-> e, tools |-> t, agentos |-> 0]
  BY <1>1 DEF Lifecycles
<1>3. NotYet'
  BY <1>1, <1>2 DEF BootInv, OSInv, NotYet
<1>4. OSInv'
  BY <1>1, <1>2, <1>3, OSWaits DEF BootInv
<1>5. AgentsInv'
  BY <1>1, AgentsStill DEF BootInv
<1> QED BY <1>4, <1>5 DEF BootInv

LEMMA AgentsNextKeeps ==
  ASSUME BootInv, stage = "agents", AgentsNext, UNCHANGED osVars
  PROVE  BootInv'
<1>1. AgentsInv'
  <2>1. CASE (\E name \in AgentNames : BuildAgent(name)) \/ TakeTools \/ LoadSkills \/ BuildModel
    BY <2>1, AgentKeeps DEF BootInv
  <2>2. CASE TakeAgent
    BY <2>2, TakeAgentKeeps DEF BootInv
  <2>3. CASE \E name \in TeamNames : BuildTeam(name)
    BY <2>3, BuildTeamKeeps DEF BootInv
  <2> QED BY <2>1, <2>2, <2>3 DEF AgentsNext
<1>2. OSInv'
  BY OSStill DEF BootInv
<1> QED BY <1>1, <1>2 DEF BootInv

LEMMA BootStep == BootInv /\ [Next]_vars => BootInv'
<1> SUFFICES ASSUME BootInv, [Next]_vars PROVE BootInv'
  OBVIOUS
<1>1. CASE stage = "agents" /\ AgentsNext /\ UNCHANGED <<stage, osVars, servingVars>>
  BY <1>1, AgentsNextKeeps
<1>2. CASE stage = "agents" /\ BuildTools /\ UNCHANGED <<stage, osVars, servingVars>>
  BY <1>2, ToolsKeep, OSStill DEF BootInv
<1>3. CASE /\ stage = "databases" /\ (BuildDbRegistry \/ RegisterDb)
           /\ UNCHANGED <<stage, osVars, servingVars>>
  BY <1>3, DbsKeep, OSStill DEF BootInv
<1>4. CASE stage = "os" /\ OSNext /\ UNCHANGED <<stage, servingVars>>
  BY <1>4, OSKeeps
<1>5. CASE BuildOS
  BY <1>5, BuildOSKeeps
<1>6. CASE /\ stage # "os" /\ UNCHANGED <<tools, agentVars, osVars>>
  BY <1>6, AgentsStill, OSStill DEF BootInv
<1>7. CASE UNCHANGED vars
  <2>1. UNCHANGED <<tools, agentVars>>
    BY <1>7 DEF vars
  <2>2. OSInv'
    <3>1. UNCHANGED <<stage, agents, teams, dbs, builds, os, oses, lifecycle, resync, interface>>
      BY <1>7 DEF vars, osVars, agentVars
    <3>2. CallOK' /\ OsesOK'
      BY <3>1, CallStays, OsesStays DEF BootInv
    <3>3. HoldersOK' /\ BuildsBegun' /\ InterfaceBuiltOK' /\ (stage # "os" => NotYet)'
      BY <3>1 DEF BootInv, OSInv, HoldersOK, BuildsBegun, InterfaceBuiltOK, Known, NotYet
    <3> QED BY <3>2, <3>3 DEF OSInv
  <2> QED BY <2>1, <2>2, AgentsStill DEF BootInv
<1>8. \/ stage = "models" /\ UNCHANGED <<tools, agentVars, osVars>>
      \/ stage = "serve" /\ UNCHANGED <<tools, agentVars, osVars>>
      \/ stage = "agents" /\ UNCHANGED <<tools, agentVars, osVars>>
      \/ stage = "agents" /\ AgentsNext /\ UNCHANGED <<stage, osVars, servingVars>>
      \/ stage = "agents" /\ BuildTools /\ UNCHANGED <<stage, osVars, servingVars>>
      \/ /\ stage = "databases" /\ (BuildDbRegistry \/ RegisterDb)
         /\ UNCHANGED <<stage, osVars, servingVars>>
      \/ stage = "os" /\ OSNext /\ UNCHANGED <<stage, servingVars>>
      \/ BuildOS
      \/ UNCHANGED vars
  BY Zenon DEF Next, BuildAgents, BuildDatabases, Serve, Quiet
<1> QED BY <1>1, <1>2, <1>3, <1>4, <1>5, <1>6, <1>7, <1>8

\* Whichever of its steps fails, a start leaves nothing half built behind: an
\* agent without some of its tools, a team of agents that do not exist, an
\* AgentOS that lacks what its configuration declares or authorizes without
\* keeping users apart, a lifecycle or a resync manager that holds an AgentOS
\* which was never assembled.
THEOREM NothingInPart == Spec => []NoPartialOS
<1>1. Init => BootInv
  BY AgentsInitOK, OSInitOK DEF Init, BootInv
<1>2. BootInv => NoPartialOS
  <2> SUFFICES ASSUME BootInv PROVE NoPartialOS
    OBVIOUS
  <2>1. BuiltWhole
    BY DEF BootInv, AgentsInv, AgentOK, TeamsOK, DbsOK, BuiltWhole
  <2>2. ASSUME NEW p \in Known
        PROVE  p[2] \in Registry(p[1])
    BY <2>2 DEF Known, Registry
  <2>3. ASSUME NEW n \in DOMAIN oses
        PROVE  Whole(oses[n])
    <3>1. Made(oses[n]) /\ Stands(oses[n]) /\ oses[n].at = "register"
      BY DEF BootInv, OSInv, OsesOK
    <3>2. /\ oses[n].at \notin {"idle", "raised"} /\ oses[n].at \notin {"idle", "raised", "auth"}
          /\ oses[n].at \notin {"idle", "raised", "auth", "mcp"}
      BY <3>1
    <3> QED BY <3>1, <3>2 DEF Made, Stands, Whole, AuthOK, InterfaceOK
  <2>4. \A i \in DOMAIN interface : interface[i][2] \in Registry(interface[i][1])
    BY <2>2 DEF BootInv, OSInv, InterfaceBuiltOK
  <2>5. HoldersOK
    BY DEF BootInv, OSInv
  <2> QED BY <2>1, <2>3, <2>4, <2>5 DEF NoPartialOS, HoldersOK
<1> QED BY <1>1, <1>2, BootStep, PTL DEF Spec

-----------------------------------------------------------------------------
(* Models *)

\* The part of ModelsAsSpecified that is about one model of a chain.
LinkOK(model, i) ==
  HasItsKey(model) /\ (i > 1 => model.provider \notin DOMAIN PROVIDER_ALIASES)

\* What is in force now is in the history of every alias, so that a model built
\* now has a key that the history knows.
KeysInForce == \A a \in Aliases : KeyOf(a) \in inForce[a]

CacheOK ==
  /\ \E S : models \in [Aliases -> S]
  /\ \A a \in Aliases : models[a] # NoModel => models[a].api_key \in inForce[a]
ChainOK == \A i \in DOMAIN chain : LinkOK(chain[i], i)

ModelsInv ==
  /\ config \in [EnvNames -> 0..MaxVersion] /\ issued \in 0..MaxVersion
  /\ KeysInForce /\ CacheOK /\ ChainOK

LEMMA Rows ==
  /\ SUPPORTED_PROVIDERS = {"openai", "openai_chat", "mistral", "ollama"}
  /\ LOCAL_PROVIDERS = {"ollama"}
  /\ PROVIDER_REGISTRY["openai"].api_key_env = "OPENAI_API_KEY"
  /\ PROVIDER_REGISTRY["openai_chat"].api_key_env = "OPENAI_API_KEY"
  /\ PROVIDER_REGISTRY["mistral"].api_key_env = "MISTRAL_API_KEY"
  /\ PROVIDER_REGISTRY["ollama"].api_key_env = "None"
  /\ DOMAIN PROVIDER_ALIASES = {"openai"} /\ PROVIDER_ALIASES["openai"] = "openai_chat"
<1>1. /\ SUPPORTED_PROVIDERS = {"openai", "openai_chat", "mistral", "ollama"}
      /\ PROVIDER_REGISTRY["openai"].api_key_env = "OPENAI_API_KEY"
      /\ PROVIDER_REGISTRY["openai_chat"].api_key_env = "OPENAI_API_KEY"
      /\ PROVIDER_REGISTRY["mistral"].api_key_env = "MISTRAL_API_KEY"
      /\ PROVIDER_REGISTRY["ollama"].api_key_env = "None"
  BY DEF SUPPORTED_PROVIDERS, PROVIDER_REGISTRY, ProviderRegistryEntry
<1>2. LOCAL_PROVIDERS = {"ollama"}
  BY <1>1 DEF LOCAL_PROVIDERS
<1> QED BY <1>1, <1>2 DEF PROVIDER_ALIASES

\* A secret that is found is the configuration's, or else the environment's.
LEMMA SecretFound ==
  ASSUME ModelsInv, NEW n \in EnvNames, SecretOf(n) # NoKey
  PROVE  \/ config[n] # 0 /\ SecretOf(n) = <<n, "config", config[n]>>
         \/ config[n] = 0 /\ n \in environ /\ SecretOf(n) = <<n, "environ", 0>>
<1>1. CASE config[n] # 0
  BY <1>1 DEF SecretOf
<1>2. CASE config[n] = 0 /\ n \in environ
  BY <1>2 DEF SecretOf
<1>3. CASE config[n] = 0 /\ n \notin environ
  BY <1>3 DEF SecretOf
<1> QED BY <1>1, <1>2, <1>3

\* What the factory builds is a link of a chain, in front of it at least.
LEMMA BuiltLink ==
  ASSUME ModelsInv, NEW spec, NEW v, Builds(spec, v), NEW i,
         i > 1 => spec.provider \notin DOMAIN PROVIDER_ALIASES
  PROVE  LinkOK(ModelOf(spec), i)
<1> DEFINE name == PROVIDER_REGISTRY[spec.provider].api_key_env
           model == ModelOf(spec)
<1>1. spec.provider \in SUPPORTED_PROVIDERS /\ (name # "None" => SecretOf(name) # NoKey)
  BY DEF Builds
<1>2. name \in EnvNames \union {"None"}
  BY <1>1, Rows DEF EnvNames
<1>3. /\ model.provider = spec.provider
      /\ model.api_key = IF name = "None" THEN NoKey ELSE SecretOf(name)
  BY DEF ModelOf
<1>4. PROVIDER_REGISTRY[model.provider].api_key_env = name
  BY <1>3
<1> HIDE DEF name, model
<1>5. ASSUME name = "None" PROVE HasItsKey(model)
  BY <1>3, <1>4, <1>5 DEF HasItsKey
<1>6. ASSUME name # "None" PROVE HasItsKey(model)
  <2>1. \/ config[name] # 0 /\ SecretOf(name) = <<name, "config", config[name]>>
        \/ /\ config[name] = 0 /\ name \in environ
           /\ SecretOf(name) = <<name, "environ", 0>>
    BY <1>1, <1>2, <1>6, SecretFound
  <2> QED BY <2>1, <1>3, <1>4, <1>6 DEF HasItsKey
<1> QED BY <1>3, <1>5, <1>6 DEF LinkOK, model

LEMMA ChainKeeps == ASSUME ModelsInv, BuildChain PROVE ModelsInv'
<1>1. PICK primary \in {Entry("mapping", p, {}, TRUE) : p \in {"openai", "mistral", "ollama"}},
           fallbacks \in Fallbacks, hops \in 1..2, validate \in BOOLEAN :
        chain' = build_fallback_chain(primary, fallbacks, hops, validate)
  BY DEF BuildChain
<1>2. UNCHANGED <<config, issued, environ, models, inForce>>
  BY DEF BuildChain
<1>3. Len(fallbacks) \in 0..2
  BY DEF Fallbacks
<1> DEFINE n == Len(fallbacks)
           spec(i) == [fallbacks[i] EXCEPT !.provider = Canonical(@)]
           all == [i \in 1..n + 1 |-> ModelOf(IF i = 1 THEN primary ELSE spec(i - 1))]
           m == IF n = 0 \/ n < hops THEN n + 1 ELSE hops + 1
<1>4. \A i \in DOMAIN chain' : LinkOK(chain'[i], i)
  <2>1. CASE Builds(primary, validate)
               /\ \A i \in 1..n : parse_model_spec(fallbacks[i]) /\ Builds(spec(i), validate)
    <3>1. chain' = SubSeq(all, 1, m)
      BY <1>1, <2>1 DEF build_fallback_chain
    <3>2. ASSUME NEW i \in 1..n + 1
          PROVE  LinkOK(all[i], i)
      <4>1. CASE i = 1
        BY <4>1, <2>1, BuiltLink
      <4>2. CASE i # 1
        <5>1. i - 1 \in 1..n /\ all[i] = ModelOf(spec(i - 1))
          BY <4>2, <3>2, <1>3
        <5>2. parse_model_spec(fallbacks[i - 1]) /\ Builds(spec(i - 1), validate)
          BY <5>1, <2>1
        <5>3. spec(i - 1).provider \notin DOMAIN PROVIDER_ALIASES
          <6>1. fallbacks[i - 1] \in Written
            BY <5>1, <1>3 DEF Fallbacks
          <6>2. spec(i - 1).provider = Canonical(fallbacks[i - 1].provider)
            BY <6>1 DEF Written, Entry
          <6>3. Canonical(fallbacks[i - 1].provider) \notin {"openai"}
            BY Rows DEF Canonical
          <6> QED BY <6>2, <6>3, Rows
        <5> QED BY <5>1, <5>2, <5>3, BuiltLink
      <4> QED BY <4>1, <4>2
    <3>3. m \in 1..n + 1 /\ n + 1 \in Nat
      BY <1>3
    <3> HIDE DEF n, all, m
    <3>4. ASSUME NEW i \in DOMAIN SubSeq(all, 1, m)
          PROVE  i \in 1..n + 1 /\ SubSeq(all, 1, m)[i] = all[i]
      BY <3>3
    <3> QED BY <3>1, <3>2, <3>4
  <2>2. CASE ~(Builds(primary, validate)
               /\ \A i \in 1..n : parse_model_spec(fallbacks[i]) /\ Builds(spec(i), validate))
    <3>1. chain' = <<>>
      BY <1>1, <2>2 DEF build_fallback_chain
    <3> QED BY <3>1
  <2> QED BY <2>1, <2>2
<1> HIDE DEF n, spec, all, m
<1>5. ChainOK'
  BY <1>2, <1>4 DEF ChainOK, LinkOK, HasItsKey
<1>6. \A a \in Aliases : KeyOf(a)' = KeyOf(a)
  BY <1>2 DEF KeyOf, SecretOf
<1>7. KeysInForce' /\ CacheOK'
  BY <1>2, <1>6 DEF ModelsInv, KeysInForce, CacheOK
<1> QED BY <1>2, <1>5, <1>7 DEF ModelsInv

\* A key comes or goes: the history takes the new one in and loses none.
LEMMA KeyKeeps ==
  ASSUME ModelsInv, NEW n \in EnvNames, PutKey(n) \/ DropKey(n)
  PROVE  ModelsInv'
<1>1. /\ chain' = <<>> /\ models' = models /\ issued' \in 0..MaxVersion
      /\ \E v \in 0..MaxVersion : config' = [config EXCEPT ![n] = v]
  BY ModelsAssumption DEF ModelsInv, PutKey, DropKey
<1>2. inForce' = [a \in Aliases |-> inForce[a] \union {KeyOf(a)'}]
  BY DEF PutKey, DropKey, InForce
<1>3. config' \in [EnvNames -> 0..MaxVersion]
  BY <1>1 DEF ModelsInv
<1>4. KeysInForce'
  BY <1>2 DEF KeysInForce
<1>5. CacheOK'
  BY <1>1, <1>2 DEF ModelsInv, CacheOK
<1>6. ChainOK'
  BY <1>1 DEF ChainOK
<1> QED BY <1>1, <1>3, <1>4, <1>5, <1>6 DEF ModelsInv

\* A model that is cached has the key that is in force.
LEMMA CacheKeeps ==
  ASSUME ModelsInv, NEW a \in Aliases, get_or_build(a)
  PROVE  ModelsInv'
<1> DEFINE model == ModelOf(Entry("mapping", a, {}, TRUE))
<1>1. /\ chain' = <<>> /\ models' = [models EXCEPT ![a] = model]
      /\ UNCHANGED <<config, issued, environ, inForce>>
  BY DEF get_or_build
<1>2. model.api_key = KeyOf(a)
  BY DEF ModelOf, KeyOf, Entry
<1> HIDE DEF model
<1>3. \A b \in Aliases : KeyOf(b)' = KeyOf(b)
  BY <1>1 DEF KeyOf, SecretOf
<1>4. PICK S : models \in [Aliases -> S]
  BY DEF ModelsInv, CacheOK
<1>5. /\ models' \in [Aliases -> S \union {model}]
      /\ \A b \in Aliases : models'[b] = IF b = a THEN model ELSE models[b]
  BY <1>1, <1>4
<1>6. \A b \in Aliases : models'[b] # NoModel => models'[b].api_key \in inForce'[b]
  BY <1>1, <1>2, <1>5 DEF ModelsInv, KeysInForce, CacheOK
<1>7. CacheOK'
  BY <1>5, <1>6 DEF CacheOK
<1>8. KeysInForce'
  BY <1>1, <1>3 DEF ModelsInv, KeysInForce
<1>9. ChainOK'
  BY <1>1 DEF ChainOK
<1> QED BY <1>1, <1>7, <1>8, <1>9 DEF ModelsInv

LEMMA InvalidateKeeps ==
  ASSUME ModelsInv, NEW aliases, invalidate(aliases)
  PROVE  ModelsInv'
<1>1. /\ chain' = <<>> /\ UNCHANGED <<config, issued, environ>>
      /\ models' = [a \in Aliases |-> IF a \in aliases THEN NoModel ELSE models[a]]
      /\ inForce' = [a \in Aliases |-> IF a \in aliases THEN {KeyOf(a)} ELSE inForce[a]]
  BY DEF invalidate
<1>2. \A a \in Aliases : KeyOf(a)' = KeyOf(a)
  BY <1>1 DEF KeyOf, SecretOf
<1>3. PICK S : models \in [Aliases -> S]
  BY DEF ModelsInv, CacheOK
<1>4. models' \in [Aliases -> S \union {NoModel}]
  BY <1>1, <1>3
<1>5. KeysInForce'
  BY <1>1, <1>2 DEF ModelsInv, KeysInForce
<1>6. \A a \in Aliases : models'[a] # NoModel => models'[a].api_key \in inForce'[a]
  BY <1>1 DEF ModelsInv, CacheOK
<1>7. CacheOK'
  BY <1>4, <1>6 DEF CacheOK
<1>8. ChainOK'
  BY <1>1 DEF ChainOK
<1> QED BY <1>1, <1>5, <1>7, <1>8 DEF ModelsInv

LEMMA ModelsInitOK == ModelsInit => ModelsInv
<1> SUFFICES ASSUME ModelsInit PROVE ModelsInv
  OBVIOUS
<1>1. config \in [EnvNames -> 0..MaxVersion] /\ issued \in 0..MaxVersion
  BY ModelsAssumption DEF ModelsInit
<1>2. models \in [Aliases -> {NoModel}] /\ chain = <<>> /\ KeysInForce
  BY DEF ModelsInit, KeysInForce
<1>3. CacheOK
  <2>1. \A a \in Aliases : models[a] = NoModel
    BY <1>2
  <2> QED BY <1>2, <2>1 DEF CacheOK
<1>4. ChainOK
  BY <1>2 DEF ChainOK
<1> QED BY <1>1, <1>2, <1>3, <1>4 DEF ModelsInv

LEMMA ModelsStep == ModelsInv /\ [Next]_vars => ModelsInv'
<1> SUFFICES ASSUME ModelsInv, [Next]_vars PROVE ModelsInv'
  OBVIOUS
<1>1. CASE ModelsNext
  BY <1>1, KeyKeeps, CacheKeeps, InvalidateKeeps, ChainKeeps DEF ModelsNext
<1>2. CASE UNCHANGED modelVars
  <2>1. UNCHANGED <<config, issued, environ, models, chain, inForce>>
    BY <1>2 DEF modelVars
  <2>2. \A a \in Aliases : KeyOf(a)' = KeyOf(a)
    BY <2>1 DEF KeyOf, SecretOf
  <2>3. ChainOK' /\ CacheOK'
    BY <2>1 DEF ModelsInv, ChainOK, LinkOK, HasItsKey, CacheOK
  <2> QED BY <2>1, <2>2, <2>3 DEF ModelsInv, KeysInForce
<1>3. AgentsNext \/ BuildTools \/ BuildDbRegistry \/ RegisterDb => UNCHANGED modelVars
  BY Zenon DEF AgentsNext, BuildAgent, TakeTools, LoadSkills, BuildModel, TakeAgent, BuildTeam,
               BuildTools, BuildDbRegistry, RegisterDb, BuildEntry, ToolsReturn, CallTools
<1>4. OSNext => UNCHANGED modelVars
  BY Zenon DEF OSNext, BuildDependencies, WireAuth, WireMcp, WireInterfaces, AssembleApp,
               RegisterLifecycle, TakeOS, BuildInterface, TakeInterface, StartMcp
<1> QED BY <1>1, <1>2, <1>3, <1>4, Zenon
        DEF Next, BuildAgents, BuildDatabases, BuildOS, Serve, vars

\* Every model of a chain just built has the present key of its own provider, by
\* name, place and version, and every cached one a key of its provider that was
\* in force since its alias was last dropped.
THEOREM ModelsHaveTheirKeys == Spec => []ModelsAsSpecified
<1>1. Init => ModelsInv
  BY ModelsInitOK DEF Init
<1>2. ModelsInv => ModelsAsSpecified
  BY DEF ModelsInv, ModelsAsSpecified, LinkOK, ChainOK, CacheOK
<1> QED BY <1>1, <1>2, ModelsStep, PTL DEF Spec

-----------------------------------------------------------------------------
(* Types *)

\* What a chain is built of, whether it was cut or not.
LEMMA ChainProviders ==
  ASSUME BuildChain
  PROVE  \A i \in DOMAIN chain' : chain'[i].provider \in SUPPORTED_PROVIDERS
<1>1. PICK primary \in {Entry("mapping", p, {}, TRUE) : p \in {"openai", "mistral", "ollama"}},
           fallbacks \in Fallbacks, hops \in 1..2, validate \in BOOLEAN :
        chain' = build_fallback_chain(primary, fallbacks, hops, validate)
  BY DEF BuildChain
<1>2. Len(fallbacks) \in 0..2
  BY DEF Fallbacks
<1> DEFINE n == Len(fallbacks)
           spec(i) == [fallbacks[i] EXCEPT !.provider = Canonical(@)]
           all == [i \in 1..n + 1 |-> ModelOf(IF i = 1 THEN primary ELSE spec(i - 1))]
           m == IF n = 0 \/ n < hops THEN n + 1 ELSE hops + 1
           whole == Builds(primary, validate)
                    /\ \A i \in 1..n : parse_model_spec(fallbacks[i]) /\ Builds(spec(i), validate)
<1>3. CASE whole
  <2>1. chain' = SubSeq(all, 1, m)
    BY <1>1, <1>3 DEF build_fallback_chain
  <2>2. ASSUME NEW i \in 1..n + 1
        PROVE  all[i].provider \in SUPPORTED_PROVIDERS
    <3>1. CASE i = 1
      <4>1. primary.provider \in SUPPORTED_PROVIDERS /\ all[i] = ModelOf(primary)
        BY <3>1, <1>3 DEF Builds
      <4> QED BY <4>1 DEF ModelOf
    <3>2. CASE i # 1
      <4>1. i - 1 \in 1..n /\ all[i] = ModelOf(spec(i - 1))
        BY <3>2, <2>2, <1>2
      <4>2. spec(i - 1).provider \in SUPPORTED_PROVIDERS
        BY <4>1, <1>3 DEF Builds
      <4> QED BY <4>1, <4>2 DEF ModelOf
    <3> QED BY <3>1, <3>2
  <2>3. m \in 1..n + 1 /\ n + 1 \in Nat
    BY <1>2
  <2> HIDE DEF n, all, m
  <2>4. ASSUME NEW i \in DOMAIN SubSeq(all, 1, m)
        PROVE  i \in 1..n + 1 /\ SubSeq(all, 1, m)[i] = all[i]
    BY <2>3
  <2> QED BY <2>1, <2>2, <2>4
<1>4. CASE ~whole
  <2>1. chain' = <<>>
    BY <1>1, <1>4 DEF build_fallback_chain
  <2> QED BY <2>1
<1> QED BY <1>3, <1>4

LEMMA ModelsTypesKeep ==
  ASSUME ModelsTypeOK, ModelsInv, ModelsNext
  PROVE  ModelsTypeOK'
<1>1. CASE BuildChain
  <2>1. UNCHANGED <<allowlist, config, issued, environ, models>>
    BY <1>1 DEF BuildChain
  <2>2. \A i \in DOMAIN chain' : chain'[i].provider \in SUPPORTED_PROVIDERS
    BY <1>1, ChainProviders
  <2> QED BY <2>1, <2>2 DEF ModelsTypeOK
<1>2. ASSUME NEW n \in EnvNames, PutKey(n) \/ DropKey(n)
      PROVE  ModelsTypeOK'
  <2>1. chain' = <<>> /\ UNCHANGED <<allowlist, environ, models>>
    BY <1>2 DEF PutKey, DropKey
  <2>2. issued' \in 0..MaxVersion /\ issued <= issued' /\ issued \in Nat
    BY <1>2, ModelsAssumption DEF PutKey, DropKey, ModelsTypeOK
  <2>3. PICK v \in 0..issued' : config' = [config EXCEPT ![n] = v]
    BY <1>2, <2>2 DEF PutKey, DropKey
  <2>4. config \in [EnvNames -> 0..issued']
    BY <2>2 DEF ModelsTypeOK
  <2>5. config' \in [EnvNames -> 0..issued']
    BY <2>3, <2>4
  <2>6. DOMAIN chain' = {}
    BY <2>1
  <2> QED BY <2>1, <2>2, <2>5, <2>6 DEF ModelsTypeOK
<1>3. ASSUME NEW a \in Aliases, get_or_build(a)
      PROVE  ModelsTypeOK'
  <2> DEFINE model == ModelOf(Entry("mapping", a, {}, TRUE))
  <2>1. /\ chain' = <<>> /\ models' = [models EXCEPT ![a] = model]
        /\ UNCHANGED <<allowlist, config, issued, environ>>
    BY <1>3 DEF get_or_build
  <2>2. model.provider = a
    BY DEF ModelOf, Entry
  <2> HIDE DEF model
  <2>3. DOMAIN models' = Aliases /\ \A b \in Aliases : models'[b] = NoModel \/ models'[b].provider = b
    BY <2>1, <2>2 DEF ModelsTypeOK
  <2>4. DOMAIN chain' = {}
    BY <2>1
  <2> QED BY <2>1, <2>3, <2>4 DEF ModelsTypeOK
<1>4. ASSUME NEW aliases, invalidate(aliases)
      PROVE  ModelsTypeOK'
  <2>1. /\ chain' = <<>> /\ UNCHANGED <<allowlist, config, issued, environ>>
        /\ models' = [a \in Aliases |-> IF a \in aliases THEN NoModel ELSE models[a]]
    BY <1>4 DEF invalidate
  <2>2. DOMAIN chain' = {}
    BY <2>1
  <2> QED BY <2>1, <2>2 DEF ModelsTypeOK
<1> QED BY <1>1, <1>2, <1>3, <1>4 DEF ModelsNext

\* What the lengths of the two lists of a tool factory need to be compared.
ListsOK == (\E S : tools.built \in Seq(S)) /\ Len(tools.entries) \in Nat

\* A call that is at work is for an agent of the configuration.
NameOK == agent.at \notin {"idle", "raised"} => agent.name \in AgentNames

AgentsTyped == AgentsTypeOK /\ ListsOK /\ NameOK /\ AgentsInv

\* The list of tools is built from its front.
LEMMA BuildToolsTyped ==
  ASSUME AgentsTyped, agent.at = "tools", BuildTools
  PROVE  AgentsTypeOK' /\ ListsOK'
<1>1. UNCHANGED <<agents, agent, teams, dbs>>
  BY DEF BuildTools, agentVars
<1>2. PICK e, b, i, a : tools = ToolsCall(e, b, i, a)
  BY DEF AgentsTyped, AgentsInv, ToolsOK
<1>3. PICK S : b \in Seq(S)
  BY <1>2 DEF AgentsTyped, ListsOK, ToolsCall
<1>4. Len(e) \in Nat /\ Len(b) \in Nat
  BY <1>2, <1>3 DEF AgentsTyped, ListsOK, ToolsCall
<1>5. CASE BuildEntry
  <2>1. Len(b) + 1 <= Len(e) /\ a = "working"
    BY <1>2, <1>5 DEF BuildEntry, ToolsCall
  <2>2. PICK f, h, c, x : tools' = [tools EXCEPT !.imported = f,
                                      !.built = IF c THEN Append(b, x) ELSE b,
                                      !.at = IF h THEN @ ELSE "raised"]
    <3>1. PICK f, h, c, x : tools' = [tools EXCEPT !.imported = f,
                                        !.built = IF c THEN Append(tools.built, x) ELSE tools.built,
                                        !.at = IF h THEN @ ELSE "raised"]
      BY <1>5, Zenon DEF BuildEntry
    <3>2. tools.built = b
      BY <1>2 DEF ToolsCall
    <3>3. tools' = [tools EXCEPT !.imported = f, !.built = IF c THEN Append(b, x) ELSE b,
                                 !.at = IF h THEN @ ELSE "raised"]
      BY <3>1, <3>2
    <3> QED BY <3>3, Zenon
  <2> DEFINE g == IF c THEN Append(b, x) ELSE b
  <2>3. tools' = ToolsCall(e, g, f, IF h THEN "working" ELSE "raised")
    BY <1>2, <2>1, <2>2 DEF ToolsCall
  <2>4. g \in Seq(S \union {x}) /\ Len(g) <= Len(e)
    <3>1. b \in Seq(S \union {x})
      BY <1>3
    <3>2. CASE g = b
      BY <3>1, <3>2, <2>1, <1>4
    <3>3. CASE g = Append(b, x)
      <4>1. g \in Seq(S \union {x}) /\ Len(g) = Len(b) + 1
        BY <3>1, <3>3, AppendProperties
      <4> QED BY <4>1, <2>1
    <3> QED BY <3>2, <3>3
  <2> HIDE DEF g
  <2>5. /\ tools'.entries = e /\ tools'.built = g
        /\ tools'.at \in {"working", "raised"}
    BY <2>3 DEF ToolsCall
  <2> QED BY <2>4, <2>5, <1>1, <1>4 DEF AgentsTyped, AgentsTypeOK, ToolsTypeOK, ListsOK
<1>6. CASE ToolsReturn
  <2>1. tools' = ToolsCall(e, b, i, "returned") /\ Len(b) = Len(e)
    BY <1>2, <1>6 DEF ToolsReturn, ToolsCall
  <2>2. tools'.entries = e /\ tools'.built = b /\ tools'.at = "returned"
    BY <2>1 DEF ToolsCall
  <2> QED BY <2>1, <2>2, <1>1, <1>3, <1>4 DEF AgentsTyped, AgentsTypeOK, ToolsTypeOK, ListsOK
<1> QED BY <1>5, <1>6 DEF BuildTools

\* No call of the tool factory is left behind by one of the agent factory.
LEMMA AgentTyped ==
  ASSUME AgentsTyped,
         \/ \E name \in AgentNames : BuildAgent(name)
         \/ TakeTools \/ LoadSkills \/ BuildModel \/ TakeAgent
         \/ \E name \in TeamNames : BuildTeam(name)
  PROVE  AgentsTypeOK' /\ ListsOK'
<1>1. PICK n, a, d, t, r, m : agent = [name |-> n, at |-> a, declared |-> d, tools |-> t,
                                       resolver |-> r, model |-> m]
  BY DEF AgentsTyped, AgentsInv, AgentOK
<1>2. UNCHANGED dbs
  BY DEF BuildAgent, TakeTools, LoadSkills, BuildModel, TakeAgent, BuildTeam
<1>3. ASSUME NEW name \in AgentNames, BuildAgent(name)
      PROVE  AgentsTypeOK' /\ ListsOK'
  <2> DEFINE call(list, resolver) ==
               [NoAgent EXCEPT !.name = name, !.declared = Len(list), !.resolver = resolver]
  <2>1. PICK list \in ToolLists, resolver \in BOOLEAN :
          IF list # <<>> /\ resolver
            THEN CallTools(list) /\ agent' = [call(list, resolver) EXCEPT !.at = "tools"]
            ELSE /\ agent' = [call(list, resolver) EXCEPT !.at = "skills"]
                 /\ UNCHANGED <<tools, modelVars>>
    BY <1>3 DEF BuildAgent
  <2>2. agent.at = "idle" /\ UNCHANGED <<agents, teams>>
    BY <1>3 DEF BuildAgent
  <2>3. CASE list # <<>> /\ resolver
    <3>1. tools' = ToolsCall(list, <<>>, <<>>, "working")
      BY <2>1, <2>3 DEF CallTools, NoTools, ToolsCall
    <3>2. agent'.at = "tools"
      BY <2>1, <2>3 DEF NoAgent
    <3>3. Len(list) \in Nat
      BY DEF ToolLists
    <3>4. /\ tools'.entries = list /\ tools'.built = <<>>
          /\ tools'.at = "working"
      BY <3>1 DEF ToolsCall
    <3>5. <<>> \in Seq({}) /\ Len(<<>>) = 0
      OBVIOUS
    <3>6. ListsOK'
      BY <3>3, <3>4, <3>5 DEF ListsOK
    <3>7. ToolsTypeOK'
      BY <3>3, <3>4, <3>5 DEF ToolsTypeOK
    <3> QED BY <3>2, <3>4, <3>6, <3>7, <2>2, <1>2 DEF AgentsTyped, AgentsTypeOK
  <2>4. CASE ~(list # <<>> /\ resolver)
    <3>1. agent'.at = "skills" /\ UNCHANGED tools
      BY <2>1, <2>4 DEF NoAgent
    <3> QED BY <3>1, <2>2, <1>2 DEF AgentsTyped, AgentsTypeOK, ToolsTypeOK, ListsOK
  <2> QED BY <2>3, <2>4
<1>4. CASE TakeTools
  <2>1. tools' = NoTools /\ UNCHANGED <<agents, teams>>
    BY <1>4 DEF TakeTools
  <2>2. agent'.at \in {"skills", "raised"}
    BY <1>1, <1>4 DEF TakeTools, Raised, NoAgent
  <2>3. tools'.at = "idle" /\ tools'.entries = <<>> /\ tools'.built = <<>>
    BY <2>1 DEF NoTools
  <2>4. <<>> \in Seq({}) /\ Len(<<>>) = 0
    OBVIOUS
  <2>5. ListsOK' /\ ToolsTypeOK'
    BY <2>3, <2>4 DEF ListsOK, ToolsTypeOK
  <2> QED BY <2>1, <2>2, <2>3, <2>5, <1>2 DEF AgentsTyped, AgentsTypeOK
<1>5. CASE LoadSkills \/ BuildModel
  <2>1. UNCHANGED <<tools, agents, teams>> /\ agent.at # "tools"
    BY <1>5 DEF LoadSkills, BuildModel
  <2>2. \/ agent' = [agent EXCEPT !.at = "model"] \/ agent' = Raised
        \/ \E x : agent' = [agent EXCEPT !.at = "built", !.model = x]
    BY <1>5, Zenon DEF LoadSkills, BuildModel
  <2>3. agent'.at \in {"model", "built", "raised"}
    BY <1>1, <2>2 DEF Raised, NoAgent
  <2> QED BY <2>1, <2>3, <1>2 DEF AgentsTyped, AgentsTypeOK, ToolsTypeOK, ListsOK
<1>6. CASE TakeAgent
  <2>1. UNCHANGED <<tools, teams>> /\ agent'.at = "idle" /\ agent.at # "tools"
    BY <1>6 DEF TakeAgent, NoAgent
  <2>2. agents' \subseteq AgentNames
    BY <1>6 DEF TakeAgent, AgentsTyped, AgentsTypeOK, NameOK
  <2> QED BY <2>1, <2>2, <1>2 DEF AgentsTyped, AgentsTypeOK, ToolsTypeOK, ListsOK
<1>7. ASSUME NEW name \in TeamNames, BuildTeam(name)
      PROVE  AgentsTypeOK' /\ ListsOK'
  <2>1. UNCHANGED <<tools, agents, agent>> /\ DOMAIN teams' = DOMAIN teams \union {name}
    BY <1>7 DEF BuildTeam
  <2> QED BY <2>1, <1>2 DEF AgentsTyped, AgentsTypeOK, ToolsTypeOK, ListsOK
<1> QED BY <1>3, <1>4, <1>5, <1>6, <1>7

LEMMA NameTyped ==
  ASSUME AgentsTyped, [AgentsNext \/ BuildTools \/ BuildDbRegistry \/ RegisterDb]_<<tools, agentVars>>
  PROVE  NameOK'
<1>1. PICK n, a, d, t, r, m : agent = [name |-> n, at |-> a, declared |-> d, tools |-> t,
                                       resolver |-> r, model |-> m]
  BY DEF AgentsTyped, AgentsInv, AgentOK
<1>2. CASE UNCHANGED agent
  BY <1>2 DEF AgentsTyped, NameOK
<1>3. ASSUME NEW name \in AgentNames, BuildAgent(name)
      PROVE  agent'.name = name
  BY <1>3 DEF BuildAgent, NoAgent
<1>4. CASE TakeTools \/ LoadSkills \/ BuildModel
  <2>1. /\ agent.at \notin {"idle", "raised"}
        /\ \/ agent' = Raised
           \/ \E x : agent' = [agent EXCEPT !.at = "skills", !.tools = x]
           \/ agent' = [agent EXCEPT !.at = "model"]
           \/ \E x : agent' = [agent EXCEPT !.at = "built", !.model = x]
    BY <1>4, Zenon DEF TakeTools, LoadSkills, BuildModel
  <2>2. agent'.at = "raised" \/ agent'.name = agent.name
    BY <1>1, <2>1 DEF Raised, NoAgent
  <2> QED BY <2>1, <2>2 DEF AgentsTyped, NameOK
<1>5. CASE TakeAgent
  BY <1>5 DEF TakeAgent, NoAgent, NameOK
<1>6. CASE BuildTools \/ BuildDbRegistry \/ RegisterDb \/ \E name \in TeamNames : BuildTeam(name)
  BY <1>2, <1>6, Zenon DEF BuildTools, BuildDbRegistry, RegisterDb, BuildTeam, agentVars
<1>7. CASE UNCHANGED <<tools, agentVars>>
  BY <1>2, <1>7 DEF agentVars
<1> QED BY <1>3, <1>4, <1>5, <1>6, <1>7 DEF AgentsNext, NameOK

LEMMA DbsTyped ==
  ASSUME AgentsTyped, BuildDbRegistry \/ RegisterDb
  PROVE  AgentsTypeOK' /\ ListsOK'
<1>1. UNCHANGED <<tools, agents, agent, teams>>
  BY DEF BuildDbRegistry, RegisterDb
<1>2. PICK e, r, a : dbs = [entries |-> e, refs |-> r, at |-> a]
  BY DEF AgentsTyped, AgentsInv, DbsOK
<1>3. dbs'.at \in {"working", "returned", "raised"}
  <2>1. CASE BuildDbRegistry
    BY <2>1 DEF BuildDbRegistry
  <2>2. CASE RegisterDb
    <3>1. dbs.at = "working"
      BY <2>2 DEF RegisterDb
    <3>2. \/ dbs' = [dbs EXCEPT !.at = "returned"]
          \/ \E x : dbs' = [dbs EXCEPT !.refs = x]
          \/ dbs' = [NoRegistry EXCEPT !.at = "raised"]
      BY <2>2, Zenon DEF RegisterDb
    <3> QED BY <1>2, <3>1, <3>2 DEF NoRegistry
  <2> QED BY <2>1, <2>2
<1> QED BY <1>1, <1>3 DEF AgentsTyped, AgentsTypeOK, ToolsTypeOK, ListsOK

\* Builds are counted up to their bound, and a holder has one that was counted.
LEMMA BuildsTyped ==
  ASSUME OSTypeOK, BootInv, BootInv', OSNext
  PROVE  OSTypeOK'
<1>1. PICK t, f, s, d, u, c, i : os = Call(t, f, s, d, u, c, i)
  BY DEF BootInv, OSInv, CallOK, Made
<1>2. builds \in Nat /\ builds' \in 0..MaxBuilds
  <2>1. (builds < MaxBuilds /\ builds' = builds + 1) \/ builds' = builds
    BY Zenon DEF OSNext, BuildDependencies, WireAuth, WireMcp, WireInterfaces, AssembleApp,
                 RegisterLifecycle, TakeOS, BuildInterface, TakeInterface, StartMcp
  <2> QED BY <2>1, AgentOSAssumption DEF OSTypeOK
<1>3. DOMAIN oses' \subseteq 1..builds'
  BY DEF BootInv, OSInv, OsesOK
<1>4. lifecycle'.agentos \in 0..builds' /\ resync' \in 0..builds'
  <2>1. lifecycle'.agentos = 0 \/ lifecycle'.agentos \in DOMAIN oses'
    BY DEF BootInv, OSInv, HoldersOK
  <2>2. resync' = 0 \/ resync' \in DOMAIN oses'
    BY DEF BootInv, OSInv, HoldersOK
  <2> QED BY <1>2, <1>3, <2>1, <2>2
<1>5. os'.at \in {"idle", "auth", "mcp", "interfaces", "assemble", "register", "built", "raised"}
  <2>1. CASE BuildDependencies
    BY <2>1 DEF BuildDependencies, NoOS, Failed
  <2>2. CASE WireAuth
    <3>1. os' = Failed \/ \E auth : os' = [os EXCEPT !.at = "mcp", !.auth = auth]
      BY <2>2, Zenon DEF WireAuth, Wired
    <3> QED BY <1>1, <3>1 DEF Call, Failed, NoOS
  <2>3. CASE WireMcp \/ AssembleApp \/ RegisterLifecycle
    <3>1. \/ os' = Failed
          \/ \E p \in {"interfaces", "register", "built"} : os' = [os EXCEPT !.at = p]
          \/ \E x : os' = [os EXCEPT !.at = "interfaces", !.mcp = x]
      BY <2>3, Zenon DEF WireMcp, AssembleApp, RegisterLifecycle
    <3> QED BY <1>1, <3>1 DEF Call, Failed, NoOS
  <2>4. CASE WireInterfaces
    <3>1. \/ os' = Failed \/ os' = [os EXCEPT !.at = "assemble"]
          \/ \E x : os' = [os EXCEPT !.at = "assemble", !.interfaces = x]
      BY <2>4, Zenon DEF WireInterfaces
    <3> QED BY <1>1, <3>1 DEF Call, Failed, NoOS
  <2>5. CASE TakeOS
    BY <2>5 DEF TakeOS, NoOS
  <2>6. CASE BuildInterface \/ TakeInterface \/ StartMcp
    BY <2>6 DEF BuildInterface, TakeInterface, StartMcp, OSTypeOK
  <2> QED BY <2>1, <2>2, <2>3, <2>4, <2>5, <2>6 DEF OSNext
<1> QED BY <1>2, <1>3, <1>4, <1>5 DEF OSTypeOK

\* The ids are bounded, and an app is one of the three or none.
LEMMA ServingTyped ==
  ASSUME ServingTypeOK, ServingInv, ServingNext
  PROVE  ServingTypeOK'
<1>1. PICK S : ids \in Seq(S)
  BY DEF ServingInv, IdsOK
<1>2. CASE CreateApp \/ RunServer \/ BuildApp
  <2>1. CASE CreateApp
    <3>1. app' = Refused \/ \E a, b, c, d, e : app' = YamlAgentOS(a, b, c, d, e)
      BY <2>1, Zenon DEF CreateApp
    <3> QED BY <2>1, <3>1 DEF CreateApp, Refused, YamlAgentOS, NoApp, ServingTypeOK
  <2>2. CASE RunServer
    <3>1. PICK source, a, b, c, d, e :
            app' = IF /\ a = "True" /\ RequireIsolatedAuth(a, b) /\ Constructible(source, a, b, c)
                     THEN [YamlAgentOS(a, b, c, d, e) EXCEPT !.running = TRUE]
                     ELSE Refused
      BY <2>2, Zenon DEF RunServer
    <3>2. app'.kind \in {"refused", "agentos"}
      BY <3>1 DEF Refused, YamlAgentOS, NoApp
    <3> QED BY <2>2, <3>2 DEF RunServer, ServingTypeOK
  <2>3. CASE BuildApp
    <3>1. PICK base \in BaseApps, on \in SUBSET {"tracing", "scheduler.enabled"},
               groups \in SUBSET EndpointGroups, origins \in BOOLEAN, lifespan \in BOOLEAN :
            LET wanted == groups \intersect (on \union {"None"})
                built == Pipeline(base, origins, lifespan, wanted)
            IN  app' = IF base = "broken" \/ "nonsense" \in groups THEN Refused
                       ELSE [NoApp EXCEPT !.kind = "builder", !.wanted = wanted,
                               !.origins = origins,
                               !.routers = built.routers, !.cors = built.cors]
      BY <2>3 DEF BuildApp
    <3>2. app'.kind \in {"refused", "builder"}
      BY <3>1 DEF Refused, NoApp
    <3> QED BY <2>3, <3>2 DEF BuildApp, ServingTypeOK
  <2> QED BY <1>2, <2>1, <2>2, <2>3
<1>3. CASE Dispatch \/ ResolveRun
  <2>1. UNCHANGED app /\ Len(ids) < MaxIds /\ \E r : ids' = Append(ids, r)
    BY <1>3, Zenon DEF Dispatch, ResolveRun
  <2>2. PICK r : ids' = Append(ids, r)
    BY <2>1
  <2>3. ids \in Seq(S \union {r})
    BY <1>1
  <2>4. Len(ids') = Len(ids) + 1 /\ Len(ids) \in Nat
    BY <2>2, <2>3, AppendProperties, LenProperties
  <2> QED BY <2>1, <2>4, ServingAssumption DEF ServingTypeOK
<1> QED BY <1>2, <1>3 DEF ServingNext

TypeInv == TypeOK /\ ListsOK /\ NameOK /\ BootInv /\ ModelsInv /\ ServingInv

LEMMA TypeInit == Init => TypeInv
<1> SUFFICES ASSUME Init PROVE TypeInv
  OBVIOUS
<1>1. BootInv /\ ModelsInv /\ ServingInv
  BY AgentsInitOK, OSInitOK, ModelsInitOK, ServingInitOK DEF Init, BootInv
<1>2. ModelsTypeOK
  <2>1. allowlist \subseteq AGNO_ALLOWLIST_PREFIXES
    BY DEF Init, ModelsInit, build_agno_resolver, AGNO_ALLOWLIST_PREFIXES
  <2>2. config \in [EnvNames -> 0..issued] /\ issued \in 0..MaxVersion /\ environ \subseteq EnvNames
    BY ModelsAssumption DEF Init, ModelsInit
  <2>3. DOMAIN models = Aliases /\ \A a \in Aliases : models[a] = NoModel
    BY DEF Init, ModelsInit
  <2>4. DOMAIN chain = {}
    BY DEF Init, ModelsInit
  <2> QED BY <2>1, <2>2, <2>3, <2>4 DEF ModelsTypeOK
<1>3. AgentsTypeOK /\ ListsOK /\ NameOK
  <2>1. /\ tools.at = "idle" /\ tools.built = <<>> /\ tools.entries = <<>>
        /\ agent.at = "idle" /\ dbs.at = "idle"
    BY DEF Init, AgentsInit, NoTools, NoAgent, NoRegistry
  <2>2. <<>> \in Seq({}) /\ Len(<<>>) = 0 /\ DOMAIN <<>> = {}
    OBVIOUS
  <2>3. agents = {} /\ DOMAIN teams = {}
    BY <2>2 DEF Init, AgentsInit
  <2>4. ListsOK /\ ToolsTypeOK /\ NameOK
    BY <2>1, <2>2 DEF ListsOK, ToolsTypeOK, NameOK
  <2> QED BY <2>1, <2>3, <2>4 DEF AgentsTypeOK
<1>4. OSTypeOK
  <2>1. DOMAIN oses = {} /\ os.at = "idle" /\ lifecycle.agentos = 0 /\ resync = 0 /\ builds = 0
    BY DEF Init, OSInit, NoOS
  <2> QED BY <2>1, AgentOSAssumption DEF OSTypeOK
<1>5. ServingTypeOK
  BY ServingAssumption DEF Init, ServingInit, NoApp, ServingTypeOK
<1> QED BY <1>1, <1>2, <1>3, <1>4, <1>5 DEF Init, TypeInv, TypeOK

LEMMA AgentsTypesStep ==
  ASSUME TypeInv, [Next]_vars
  PROVE  AgentsTypeOK' /\ ListsOK' /\ NameOK'
<1>1. AgentsTyped
  BY DEF TypeInv, TypeOK, AgentsTyped, BootInv
<1>2. CASE AgentsNext
  BY <1>1, <1>2, AgentTyped, NameTyped DEF AgentsNext
<1>3. CASE BuildTools
  <2>1. tools.at # "idle"
    BY <1>3 DEF BuildTools, BuildEntry, ToolsReturn
  <2>2. agent.at = "tools"
    BY <1>1, <2>1 DEF AgentsTyped, AgentsTypeOK
  <2> QED BY <1>1, <1>3, <2>2, BuildToolsTyped, NameTyped
<1>4. CASE BuildDbRegistry \/ RegisterDb
  BY <1>1, <1>4, DbsTyped, NameTyped
<1>5. CASE UNCHANGED <<tools, agents, agent, teams, dbs>>
  BY <1>1, <1>5 DEF AgentsTyped, AgentsTypeOK, ToolsTypeOK, ListsOK, NameOK
<1>6. OSNext => UNCHANGED <<tools, agents, agent, teams, dbs>>
  BY Zenon DEF OSNext, BuildDependencies, WireAuth, WireMcp, WireInterfaces, AssembleApp,
               RegisterLifecycle, TakeOS, BuildInterface, TakeInterface, StartMcp, agentVars
<1>7. \/ AgentsNext \/ BuildTools \/ BuildDbRegistry \/ RegisterDb
      \/ UNCHANGED <<tools, agents, agent, teams, dbs>>
  BY <1>6, Zenon DEF Next, BuildAgents, BuildDatabases, BuildOS, Serve, vars, agentVars
<1> QED BY <1>2, <1>3, <1>4, <1>5, <1>7

LEMMA OSTypesStep == ASSUME TypeInv, BootInv', [Next]_vars PROVE OSTypeOK'
<1>1. OSTypeOK /\ BootInv
  BY DEF TypeInv, TypeOK
<1>2. CASE OSNext
  BY <1>1, <1>2, BuildsTyped
<1>3. CASE BuildOS
  <2>1. lifecycle'.agentos = 0 /\ UNCHANGED <<builds, os, oses, resync>>
    BY <1>3 DEF BuildOS, Lifecycles
  <2>2. builds \in 0..MaxBuilds /\ 0 \in 0..builds
    BY <1>1, AgentOSAssumption DEF OSTypeOK
  <2> QED BY <1>1, <2>1, <2>2 DEF OSTypeOK
<1>4. CASE UNCHANGED osVars
  <2>1. UNCHANGED <<builds, os, oses, lifecycle, resync>>
    BY <1>4 DEF osVars
  <2> QED BY <1>1, <2>1 DEF OSTypeOK
<1>5. OSNext \/ BuildOS \/ UNCHANGED osVars
  BY Zenon DEF Next, BuildAgents, BuildDatabases, Serve, vars, BuildTools, BuildDbRegistry
<1> QED BY <1>2, <1>3, <1>4, <1>5

LEMMA ModelsTypesStep == ASSUME TypeInv, [Next]_vars PROVE ModelsTypeOK'
<1>1. CASE ModelsNext
  BY <1>1, ModelsTypesKeep DEF TypeInv, TypeOK
<1>2. CASE UNCHANGED modelVars
  BY <1>2 DEF TypeInv, TypeOK, modelVars, ModelsTypeOK
<1>3. AgentsNext \/ BuildTools \/ BuildDbRegistry \/ RegisterDb => UNCHANGED modelVars
  BY Zenon DEF AgentsNext, BuildAgent, TakeTools, LoadSkills, BuildModel, TakeAgent, BuildTeam,
               BuildTools, BuildDbRegistry, RegisterDb, BuildEntry, ToolsReturn, CallTools
<1>4. OSNext => UNCHANGED modelVars
  BY Zenon DEF OSNext, BuildDependencies, WireAuth, WireMcp, WireInterfaces, AssembleApp,
               RegisterLifecycle, TakeOS, BuildInterface, TakeInterface, StartMcp
<1>5. ModelsNext \/ UNCHANGED modelVars
  BY <1>3, <1>4, Zenon DEF Next, BuildAgents, BuildDatabases, BuildOS, Serve, vars
<1> QED BY <1>1, <1>2, <1>5

LEMMA ServingTypesStep == ASSUME TypeInv, [Next]_vars PROVE ServingTypeOK'
<1>1. CASE ServingNext
  BY <1>1, ServingTyped DEF TypeInv, TypeOK
<1>2. CASE UNCHANGED servingVars
  BY <1>2 DEF TypeInv, TypeOK, servingVars, ServingTypeOK
<1>3. ServingNext \/ UNCHANGED servingVars
  BY Zenon DEF Next, vars, BuildAgents, BuildDatabases, BuildOS, Serve, osVars
<1> QED BY <1>1, <1>2, <1>3

\* Every variable of the start has its type, for any names and bounds: no build,
\* key or id beyond its bound, no call of the tool factory without the agent
\* that it is for, no holder of an AgentOS that was never counted.
THEOREM TypeCorrect == Spec => []TypeOK
<1>1. TypeInv /\ [Next]_vars => TypeInv'
  <2> SUFFICES ASSUME TypeInv, [Next]_vars PROVE TypeInv'
    OBVIOUS
  <2>1. BootInv' /\ ModelsInv' /\ ServingInv'
    BY BootStep, ModelsStep, ServingStep DEF TypeInv
  <2>2. stage' \in {"models", "agents", "databases", "os", "serve"}
    BY Zenon DEF Next, BuildAgents, BuildDatabases, BuildOS, Serve, vars, TypeInv, TypeOK
  <2> QED BY <2>1, <2>2, AgentsTypesStep, OSTypesStep, ModelsTypesStep, ServingTypesStep
          DEF TypeInv, TypeOK
<1>2. TypeInv => TypeOK
  BY DEF TypeInv
<1> QED BY <1>1, <1>2, TypeInit, PTL DEF Spec

-----------------------------------------------------------------------------
(* Tools: what an entry loads *)

Paths ==
  [dotted : BOOLEAN, prefix : {"", "agno.tools.", "agno.models."},
   package : {"", "agno", "yfinance", "ddgs"}, is : {"unset", "function", "class"}]

LEMMA PathTypes ==
  /\ None \in Paths /\ Bare \in Paths /\ Function \in Paths /\ Toolkit \in Paths
  /\ Optional \in Paths /\ OfModels \in Paths
  BY DEF Paths, None, Bare, Function, Toolkit, Optional, OfModels, Path

LEMMA SetType == ASSUME NEW p \in Paths PROVE Set(p) \in Seq(Paths)
  BY DEF Set

\* The paths of a custom tool: itself, then its hooks.
LEMMA FunctionLoads ==
  ASSUME NEW p \in Paths, NEW a \in Paths, NEW b \in Paths, NEW h \in Seq(Paths), NEW k
  PROVE  /\ Loads(CustomToolConfig(p, a, b, h, k)) \in Seq(Paths)
         /\ Hooks(CustomToolConfig(p, a, b, h, k)) \in Seq(Paths)
<1> DEFINE e == CustomToolConfig(p, a, b, h, k)
<1>1. /\ e.kind = "function" /\ e.path = p /\ e.pre_hook = a /\ e.post_hook = b
      /\ e.tool_hooks = h
  BY DEF CustomToolConfig
<1> HIDE DEF e
<1>2. Set(a) \in Seq(Paths) /\ Set(b) \in Seq(Paths)
  BY SetType
<1>3. Set(a) \o Set(b) \in Seq(Paths)
  BY <1>2
<1>4. Hooks(e) \in Seq(Paths)
  <2>1. Hooks(e) = Set(a) \o Set(b) \o h
    BY <1>1 DEF Hooks
  <2> QED BY <2>1, <1>3
<1>5. Loads(e) = <<p>> \o Hooks(e)
  BY <1>1 DEF Loads
<1>6. <<p>> \in Seq(Paths)
  OBVIOUS
<1>7. Loads(e) \in Seq(Paths)
  BY <1>4, <1>5, <1>6
<1> QED BY <1>4, <1>7 DEF e

LEMMA ClassLoads ==
  ASSUME NEW p \in Paths, NEW k PROVE Loads(CustomToolkitConfig(p, k)) \in Seq(Paths)
<1> DEFINE e == CustomToolkitConfig(p, k)
<1>1. e.kind = "toolkit_class" /\ e.path = p
  BY DEF CustomToolkitConfig
<1> HIDE DEF e
<1>2. Loads(e) = <<p>>
  BY <1>1 DEF Loads
<1> QED BY <1>2 DEF e

LEMMA ServerLoads ==
  ASSUME NEW p \in Paths, NEW t, NEW h, NEW e,
         e = HttpMcpConfig(t, p) \/ (e = StdioMcpConfig(h) /\ p = None)
  PROVE  Loads(e) \in Seq(Paths)
<1>1. e.kind = "mcp" /\ e.header_provider = p
  BY DEF HttpMcpConfig, StdioMcpConfig
<1>2. Loads(e) = Set(p)
  BY <1>1 DEF Loads
<1> QED BY <1>2, SetType

LEMMA BuiltinLoads ==
  ASSUME NEW name, NEW args PROVE Loads(BuiltinToolConfig(name, args)) \in Seq(Paths)
<1> DEFINE e == BuiltinToolConfig(name, args)
           p == Path(TRUE, "agno.tools.", BUILTIN_REGISTRY[name].package, "class")
<1>1. e.kind = "builtin" /\ e.name = name
  BY DEF BuiltinToolConfig
<1> HIDE DEF e
<1>2. CASE name \in DOMAIN BUILTIN_REGISTRY
  <2>1. BUILTIN_REGISTRY[name].package \in {"agno", "yfinance", "ddgs"}
    BY <1>2 DEF BUILTIN_REGISTRY, ToolkitAdapter
  <2>2. p \in Paths
    BY <2>1 DEF Paths, Path
  <2> HIDE DEF p
  <2>3. Loads(e) = <<p>>
    BY <1>1, <1>2 DEF Loads, p
  <2> QED BY <2>2, <2>3 DEF e
<1>3. CASE name \notin DOMAIN BUILTIN_REGISTRY
  <2>1. Loads(e) = <<>>
    BY <1>1, <1>3 DEF Loads
  <2> QED BY <2>1 DEF e
<1> QED BY <1>2, <1>3

LEMMA MultiLoads ==
  ASSUME NEW servers PROVE Loads(McpMultiToolConfig(servers)) \in Seq(Paths)
<1>1. McpMultiToolConfig(servers).kind = "mcp_multi"
  BY DEF McpMultiToolConfig
<1>2. Loads(McpMultiToolConfig(servers)) = <<>>
  BY <1>1 DEF Loads
<1> QED BY <1>2

\* The sorts of entries, and where their paths come from.
LEMMA EntrySorts ==
  ASSUME NEW e \in Entries
  PROVE  \/ \E p \in Paths, a \in Paths, b \in Paths, h \in Seq(Paths) : \E k :
              e = CustomToolConfig(p, a, b, h, k)
         \/ \E p \in Paths : \E k : e = CustomToolkitConfig(p, k)
         \/ \E p \in Paths : \E t : e = HttpMcpConfig(t, p)
         \/ \E h : e = StdioMcpConfig(h)
         \/ \E name, args : e = BuiltinToolConfig(name, args)
         \/ \E servers : e = McpMultiToolConfig(servers)
<1>1. <<>> \in Seq(Paths) /\ <<Function>> \in Seq(Paths) /\ <<OfModels>> \in Seq(Paths)
  BY PathTypes
<1> QED BY <1>1, PathTypes, Zenon DEF Entries

LEMMA EntryLoads == ASSUME NEW e \in Entries PROVE Loads(e) \in Seq(Paths)
<1>1. CASE \E p \in Paths, a \in Paths, b \in Paths, h \in Seq(Paths) : \E k :
             e = CustomToolConfig(p, a, b, h, k)
  BY <1>1, FunctionLoads
<1>2. CASE \E p \in Paths : \E k : e = CustomToolkitConfig(p, k)
  BY <1>2, ClassLoads
<1>3. CASE \E p \in Paths : \E t : e = HttpMcpConfig(t, p)
  BY <1>3, ServerLoads
<1>4. CASE \E h : e = StdioMcpConfig(h)
  BY <1>4, ServerLoads, PathTypes
<1>5. CASE \E name, args : e = BuiltinToolConfig(name, args)
  BY <1>5, BuiltinLoads
<1>6. CASE \E servers : e = McpMultiToolConfig(servers)
  BY <1>6, MultiLoads
<1> QED BY <1>1, <1>2, <1>3, <1>4, <1>5, <1>6, EntrySorts

LEMMA EntryHooks ==
  ASSUME NEW e \in Entries, e.kind = "function" PROVE Hooks(e) \in Seq(Paths)
<1>1. \E p \in Paths, a \in Paths, b \in Paths, h \in Seq(Paths) : \E k :
        e = CustomToolConfig(p, a, b, h, k)
  BY EntrySorts DEF CustomToolkitConfig, HttpMcpConfig, StdioMcpConfig, BuiltinToolConfig,
                    McpMultiToolConfig
<1> QED BY <1>1, FunctionLoads

-----------------------------------------------------------------------------
(* Tools: how far the paths of an entry are imported *)

\* The first path that does not resolve is found.
LEMMA RefusedIsFirst ==
  ASSUME NEW loads \in Seq(Paths)
  PROVE  /\ FirstRefused(loads) \in 0..Len(loads)
         /\ FirstRefused(loads) = 0 => \A i \in 1..Len(loads) : ResolveDotted(loads[i])
         /\ FirstRefused(loads) # 0 => \A i \in 1..FirstRefused(loads) - 1 : ResolveDotted(loads[i])
<1> DEFINE I == {i \in 1..Len(loads) : ~ResolveDotted(loads[i])}
<1>1. FirstRefused(loads) = IF I # {} THEN Min(I) ELSE 0
  BY DEF FirstRefused, SelectInSeq
<1>2. I \in SUBSET Nat /\ I \subseteq 1..Len(loads) /\ Len(loads) \in Nat
  OBVIOUS
<1>3. CASE I = {}
  <2>1. FirstRefused(loads) = 0
    BY <1>1, <1>3
  <2> QED BY <2>1, <1>3, <1>2
<1>4. CASE I # {}
  <2> DEFINE n == Min(I)
  <2>1. n \in I /\ \A m \in I : n <= m
    <3> HIDE DEF I
    <3>1. \E x \in I : \A m \in I : x <= m
      BY <1>2, <1>4, LeastNatural
    <3> QED BY <3>1 DEF Min
  <2> HIDE DEF n
  <2>2. FirstRefused(loads) = n /\ n \in 1..Len(loads)
    BY <1>1, <1>4, <2>1 DEF n
  <2>3. \A i \in 1..n - 1 : i \notin I
    BY <2>1, <2>2, <1>2
  <2>4. \A i \in 1..n - 1 : i \in 1..Len(loads)
    BY <2>2, <1>2
  <2> QED BY <2>2, <2>3, <2>4, <1>2
<1> QED BY <1>3, <1>4

\* What is imported of an entry is a prefix of what it loads, and passed both
\* allow-lists.
LEMMA TriedAllowed ==
  ASSUME NEW loads \in Seq(Paths)
  PROVE  /\ Tried(loads) \in Seq(Paths) /\ IsPrefix(Tried(loads), loads)
         /\ \A i \in 1..Len(Tried(loads)) : MayImport(Tried(loads)[i])
         /\ FirstRefused(loads) = 0 => Tried(loads) = loads
<1> DEFINE bad == FirstRefused(loads)
           k == IF bad = 0 THEN Len(loads) ELSE IF MayImport(loads[bad]) THEN bad ELSE bad - 1
<1>1. Len(loads) \in Nat /\ SubSeq(loads, 1, Len(loads)) = loads
  BY SubSeqProperties, SeqEqual
<1>2. bad \in 0..Len(loads) /\ k \in 0..Len(loads)
  BY <1>1, RefusedIsFirst
<1>3. Tried(loads) = SubSeq(loads, 1, k) /\ (bad = 0 => Tried(loads) = loads)
  BY <1>1 DEF Tried
<1>4. /\ SubSeq(loads, 1, k) \in Seq(Paths) /\ Len(SubSeq(loads, 1, k)) = k
      /\ \A i \in 1..k : SubSeq(loads, 1, k)[i] = loads[i]
  BY <1>1, <1>2, SubSeqProperties
<1>5. \A i \in 1..k : MayImport(loads[i])
  <2>1. \A i \in 1..Len(loads) : ResolveDotted(loads[i]) => MayImport(loads[i])
    BY DEF ResolveDotted
  <2>2. CASE bad = 0
    BY <2>1, <2>2, RefusedIsFirst
  <2>3. CASE bad # 0
    <3>1. \A i \in 1..bad - 1 : ResolveDotted(loads[i]) /\ i \in 1..Len(loads)
      BY <2>3, <1>1, <1>2, RefusedIsFirst
    <3>2. \A i \in 1..bad - 1 : MayImport(loads[i])
      BY <2>1, <3>1
    <3>3. CASE MayImport(loads[bad])
      <4>1. k = bad /\ \A i \in 1..bad : i \in 1..bad - 1 \/ i = bad
        BY <2>3, <3>3, <1>2
      <4> QED BY <3>2, <3>3, <4>1
    <3>4. CASE ~MayImport(loads[bad])
      BY <3>2, <3>4, <2>3
    <3> QED BY <3>3, <3>4
  <2> QED BY <2>2, <2>3
<1> HIDE DEF k, bad
<1>6. IsPrefix(SubSeq(loads, 1, k), loads)
  <2>1. SubSeq(SubSeq(loads, 1, k), 1, k) = SubSeq(loads, 1, k)
    BY <1>1, <1>2, <1>4, SubSeqProperties, SeqEqual
  <2> QED BY <2>1, <1>4, <1>2 DEF IsPrefix
<1>7. \A i \in 1..Len(Tried(loads)) : MayImport(Tried(loads)[i])
  BY <1>3, <1>4, <1>5
<1> QED BY <1>3, <1>4, <1>6, <1>7 DEF bad

-----------------------------------------------------------------------------
(* Tools: the invariant of the list *)

\* What the first n entries of a list load.
LoadsOf(entries, n) == [i \in 1..n |-> Loads(entries[i])]
Loaded(entries, n) == FlattenSeq(LoadsOf(entries, n))

ToolsOfEntries == {Tool(e) : e \in Entries}

\* A list is built from its front; what was imported is what the built entries
\* load and, if the list was refused, the front of what the next one does.
ListBuilt(entries, built, imported, at) ==
  /\ entries \in Seq(Entries) /\ built \in Seq(ToolsOfEntries) /\ imported \in Seq(Paths)
  /\ Len(built) <= Len(entries)
  /\ \A i \in 1..Len(built) : built[i] = Tool(entries[i])
  /\ \A i \in 1..Len(imported) : MayImport(imported[i])
  /\ at = "returned" => Len(built) = Len(entries)
  /\ IF at = "raised"
       THEN /\ Len(built) < Len(entries)
            /\ \E rest \in Seq(Paths) :
                 /\ IsPrefix(rest, Loads(entries[Len(built) + 1]))
                 /\ imported = Loaded(entries, Len(built)) \o rest
       ELSE imported = Loaded(entries, Len(built))

ListsInv ==
  \E entries, built, imported, at :
    /\ tools = ToolsCall(entries, built, imported, at)
    /\ ListBuilt(entries, built, imported, at)

LEMMA LoadsTyped ==
  ASSUME NEW entries \in Seq(Entries), NEW n \in 0..Len(entries)
  PROVE  /\ LoadsOf(entries, n) \in Seq(Seq(Paths)) /\ Len(LoadsOf(entries, n)) = n
         /\ \A i \in 1..n : entries[i] \in Entries /\ LoadsOf(entries, n)[i] = Loads(entries[i])
<1>1. \A i \in 1..n : entries[i] \in Entries /\ i \in 1..Len(entries)
  OBVIOUS
<1>2. \A i \in 1..n : Loads(entries[i]) \in Seq(Paths)
  BY <1>1, EntryLoads
<1>3. n \in Nat
  OBVIOUS
<1> QED BY <1>1, <1>2, <1>3, IsASeq, LenProperties DEF LoadsOf

\* One entry more is one sequence more.
LEMMA LoadedMore ==
  ASSUME NEW entries \in Seq(Entries), NEW n \in Nat, n < Len(entries)
  PROVE  /\ Loaded(entries, n) \in Seq(Paths)
         /\ Loads(entries[n + 1]) \in Seq(Paths)
         /\ Loaded(entries, n + 1) = Loaded(entries, n) \o Loads(entries[n + 1])
<1> DEFINE ls == LoadsOf(entries, n)
           l == Loads(entries[n + 1])
<1>1. n \in 0..Len(entries) /\ n + 1 \in 0..Len(entries) /\ n + 1 \in 1..n + 1
  OBVIOUS
<1>2. ls \in Seq(Seq(Paths)) /\ Len(ls) = n /\ \A i \in 1..n : ls[i] = Loads(entries[i])
  BY <1>1, LoadsTyped
<1>3. /\ LoadsOf(entries, n + 1) \in Seq(Seq(Paths)) /\ Len(LoadsOf(entries, n + 1)) = n + 1
      /\ \A i \in 1..n + 1 : LoadsOf(entries, n + 1)[i] = Loads(entries[i])
      /\ entries[n + 1] \in Entries
  BY <1>1, LoadsTyped
<1>4. l \in Seq(Paths)
  BY <1>3, EntryLoads
<1> HIDE DEF ls, l
<1>5. LoadsOf(entries, n + 1) = Append(ls, l)
  <2>1. /\ Append(ls, l) \in Seq(Seq(Paths)) /\ Len(Append(ls, l)) = n + 1
        /\ \A i \in 1..n : Append(ls, l)[i] = ls[i]
        /\ Append(ls, l)[n + 1] = l
    BY <1>2, <1>4, AppendProperties
  <2>2. \A i \in 1..n + 1 : i \in 1..n \/ i = n + 1
    OBVIOUS
  <2>3. \A i \in 1..n + 1 : LoadsOf(entries, n + 1)[i] = Append(ls, l)[i]
    BY <2>1, <2>2, <1>2, <1>3 DEF l
  <2> QED BY <2>1, <2>3, <1>3, SeqEqual
<1>6. FlattenSeq(Append(ls, l)) = FlattenSeq(ls) \o l /\ FlattenSeq(ls) \in Seq(Paths)
  BY <1>2, <1>4, FlattenAppend, FlattenType
<1> QED BY <1>4, <1>5, <1>6 DEF Loaded, ls, l

LEMMA LoadedNone == \A entries : Loaded(entries, 0) = <<>>
<1>1. \A entries : LoadsOf(entries, 0) = <<>>
  BY DEF LoadsOf
<1> QED BY <1>1, FlattenEmpty DEF Loaded

\* A list that begins.
LEMMA ListBegins ==
  ASSUME NEW entries \in Seq(Entries), NEW at \in {"idle", "working"}
  PROVE  ListBuilt(entries, <<>>, <<>>, at) /\ ListBuilt(entries, <<>>, <<>>, at)'
<1>1. <<>> \in Seq(ToolsOfEntries) /\ <<>> \in Seq(Paths) /\ Len(<<>>) = 0 /\ Len(entries) \in Nat
  OBVIOUS
<1>2. Loaded(entries, Len(<<>>)) = <<>>
  BY <1>1, LoadedNone
<1> QED BY <1>1, <1>2 DEF ListBuilt

LEMMA EntryBuilt ==
  ASSUME ListsInv, BuildEntry
  PROVE  ListsInv'
<1>1. PICK entries, built, imported, at :
        /\ tools = ToolsCall(entries, built, imported, at)
        /\ ListBuilt(entries, built, imported, at)
  BY DEF ListsInv
<1>2. /\ tools.entries = entries /\ tools.built = built /\ tools.imported = imported
      /\ tools.at = at
  BY <1>1 DEF ToolsCall
<1> DEFINE entry == entries[Len(built) + 1]
           loads == IF Valid(entry) THEN Loads(entry) ELSE <<>>
           whole == Valid(entry) /\ FirstRefused(loads) = 0 /\ Constructs(entry)
           imported1 == imported \o Tried(loads)
           built1 == IF whole THEN Append(built, Tool(entry)) ELSE built
           at1 == IF whole THEN "working" ELSE "raised"
<1>3. /\ at = "working" /\ Len(built) < Len(entries)
      /\ tools' = [tools EXCEPT !.imported = imported1, !.built = built1, !.at = at1]
      /\ UNCHANGED modelVars
  BY <1>2 DEF BuildEntry
<1>4. tools' = ToolsCall(entries, built1, imported1, at1)
  BY <1>1, <1>3 DEF ToolsCall
<1>5. /\ entries \in Seq(Entries) /\ built \in Seq(ToolsOfEntries) /\ imported \in Seq(Paths)
      /\ \A i \in 1..Len(built) : built[i] = Tool(entries[i])
      /\ \A i \in 1..Len(imported) : MayImport(imported[i])
      /\ imported = Loaded(entries, Len(built))
      /\ Len(built) \in Nat /\ Len(entries) \in Nat /\ Len(imported) \in Nat
  BY <1>1, <1>3 DEF ListBuilt
<1>6. entry \in Entries /\ Loads(entry) \in Seq(Paths)
  <2>1. Len(built) + 1 \in 1..Len(entries)
    BY <1>3, <1>5
  <2> QED BY <2>1, <1>5, EntryLoads
<1>7. loads \in Seq(Paths)
  BY <1>6
<1> HIDE DEF loads
<1>8. /\ Tried(loads) \in Seq(Paths) /\ IsPrefix(Tried(loads), loads)
      /\ \A i \in 1..Len(Tried(loads)) : MayImport(Tried(loads)[i])
      /\ FirstRefused(loads) = 0 => Tried(loads) = loads
  BY <1>7, TriedAllowed
<1>9. imported1 \in Seq(Paths) /\ \A i \in 1..Len(imported1) : MayImport(imported1[i])
  <2> DEFINE t == Tried(loads)
  <2>1. t \in Seq(Paths) /\ Len(t) \in Nat
    BY <1>8
  <2> HIDE DEF t
  <2>2. /\ imported1 \in Seq(Paths) /\ Len(imported1) = Len(imported) + Len(t)
        /\ \A i \in 1..Len(imported1) :
             imported1[i] = IF i <= Len(imported) THEN imported[i] ELSE t[i - Len(imported)]
    BY <2>1, <1>5, ConcatProperties DEF t
  <2>3. ASSUME NEW i \in 1..Len(imported1) PROVE MayImport(imported1[i])
    <3>1. CASE i <= Len(imported)
      <4>1. i \in 1..Len(imported) /\ imported1[i] = imported[i]
        BY <3>1, <2>1, <2>2, <1>5
      <4> QED BY <4>1, <1>5
    <3>2. CASE ~(i <= Len(imported))
      <4>1. i - Len(imported) \in 1..Len(t) /\ imported1[i] = t[i - Len(imported)]
        BY <3>2, <2>1, <2>2, <1>5
      <4> QED BY <4>1, <1>8 DEF t
    <3> QED BY <3>1, <3>2
  <2> QED BY <2>2, <2>3
<1>10. UNCHANGED allowlist
  BY <1>3 DEF modelVars
<1>11. \A p : MayImport(p) => MayImport(p)'
  BY <1>10 DEF MayImport, is_module_allowed
<1>12. CASE whole
  <2>1. /\ built1 = Append(built, Tool(entry)) /\ at1 = "working"
        /\ imported1 = imported \o Loads(entry)
    BY <1>12, <1>8 DEF loads
  <2>2. Tool(entry) \in ToolsOfEntries
    BY <1>6 DEF ToolsOfEntries
  <2>3. /\ built1 \in Seq(ToolsOfEntries) /\ Len(built1) = Len(built) + 1
        /\ \A i \in 1..Len(built) : built1[i] = built[i]
        /\ built1[Len(built) + 1] = Tool(entry)
    BY <2>1, <2>2, <1>5, AppendProperties
  <2>4. \A i \in 1..Len(built) + 1 : i \in 1..Len(built) \/ i = Len(built) + 1
    BY <1>5
  <2>5. \A i \in 1..Len(built1) : built1[i] = Tool(entries[i])
    BY <2>3, <2>4, <1>5
  <2>6. imported1 = Loaded(entries, Len(built1))
    BY <2>1, <2>3, <1>3, <1>5, LoadedMore
  <2>7. Len(built1) <= Len(entries)
    BY <2>3, <1>3, <1>5
  <2> HIDE DEF built1, imported1, at1
  <2>8. PICK b, m : b = built1 /\ m = imported1
    OBVIOUS
  <2>9. ListBuilt(entries, b, m, "working")'
    BY <2>3, <2>5, <2>6, <2>7, <2>8, <1>5, <1>9, <1>11 DEF ListBuilt
  <2>10. tools' = ToolsCall(entries, b, m, "working")
    BY <2>1, <2>8, <1>4
  <2> QED BY <2>9, <2>10, Zenon DEF ListsInv, ToolsCall
<1>13. CASE ~whole
  <2>1. built1 = built /\ at1 = "raised"
    BY <1>13
  <2>2. IsPrefix(Tried(loads), Loads(entry))
    <3>1. CASE Valid(entry)
      BY <3>1, <1>8 DEF loads
    <3>2. CASE ~Valid(entry)
      <4>1. loads = <<>>
        BY <3>2 DEF loads
      <4>2. Len(Tried(loads)) = 0
        BY <4>1, <1>8 DEF IsPrefix
      <4>3. Tried(loads) = <<>>
        BY <4>2, <1>8
      <4>4. IsPrefix(<<>>, Loads(entry))
        BY <1>6 DEF IsPrefix
      <4> QED BY <4>3, <4>4
    <3> QED BY <3>1, <3>2
  <2>3. \E rest \in Seq(Paths) :
          /\ IsPrefix(rest, Loads(entries[Len(built) + 1]))
          /\ imported1 = Loaded(entries, Len(built)) \o rest
    BY <2>2, <1>5, <1>8
  <2> HIDE DEF built1, imported1, at1
  <2>4. PICK m : m = imported1
    OBVIOUS
  <2>5. ListBuilt(entries, built, m, "raised")'
    <3>1. m \in Seq(Paths) /\ \A i \in 1..Len(m) : MayImport(m[i])'
      BY <2>4, <1>9, <1>11
    <3>2. Len(built) < Len(entries) /\ Len(built) <= Len(entries)
      BY <1>3, <1>5
    <3>3. \E rest \in Seq(Paths) :
            /\ IsPrefix(rest, Loads(entries[Len(built) + 1]))
            /\ m = Loaded(entries, Len(built)) \o rest
      BY <2>3, <2>4
    <3> QED BY <3>1, <3>2, <3>3, <1>5 DEF ListBuilt
  <2>6. tools' = ToolsCall(entries, built, m, "raised")
    BY <2>1, <2>4, <1>4
  <2> QED BY <2>5, <2>6, Zenon DEF ListsInv, ToolsCall
<1> QED BY <1>12, <1>13

\* A list that is over has the tools of its entries, or nothing was refused.
LEMMA ListReturned ==
  ASSUME ListsInv, ToolsReturn
  PROVE  ListsInv'
<1>1. PICK entries, built, imported, at :
        /\ tools = ToolsCall(entries, built, imported, at)
        /\ ListBuilt(entries, built, imported, at)
  BY DEF ListsInv
<1>2. /\ tools.entries = entries /\ tools.built = built /\ tools.at = at
  BY <1>1 DEF ToolsCall
<1>3. /\ tools' = ToolsCall(entries, built, imported, "returned")
      /\ at = "working" /\ Len(built) = Len(entries) /\ UNCHANGED modelVars
  BY <1>1, <1>2 DEF ToolsReturn, ToolsCall
<1>4. \A p : MayImport(p) => MayImport(p)'
  BY <1>3 DEF MayImport, is_module_allowed, modelVars
<1>5. ListBuilt(entries, built, imported, "returned")'
  BY <1>1, <1>3, <1>4 DEF ListBuilt
<1> QED BY <1>3, <1>5, Zenon DEF ListsInv, ToolsCall

\* No step but those of the tool factory and its caller touches a list or the
\* resolver's allow-list.
LEMMA ListsStep == ListsInv /\ [Next]_vars => ListsInv'
<1> SUFFICES ASSUME ListsInv, [Next]_vars PROVE ListsInv'
  OBVIOUS
<1>1. \A list \in ToolLists : list \in Seq(Entries)
  <2> TAKE list \in ToolLists
  <2>1. CASE list = <<>>
    BY <2>1
  <2>2. CASE \E e \in Entries : list = <<e>>
    BY <2>2
  <2>3. CASE list \in Entries \X Entries
    <3>1. PICK e \in Entries, f \in Entries : list = <<e, f>>
      BY <2>3
    <3>2. <<e, f>> \in Seq(Entries)
      OBVIOUS
    <3> QED BY <3>1, <3>2
  <2> QED BY <2>1, <2>2, <2>3, Zenon DEF ToolLists
<1>2. CASE tools' = NoTools
  <2>1. ListBuilt(<<>>, <<>>, <<>>, "idle")'
    <3>1. <<>> \in Seq(Entries)
      OBVIOUS
    <3> QED BY <3>1, ListBegins
  <2>2. tools' = ToolsCall(<<>>, <<>>, <<>>, "idle")
    BY <1>2 DEF NoTools, ToolsCall
  <2> QED BY <2>1, <2>2, Zenon DEF ListsInv, ToolsCall
<1>3. CASE \E list \in ToolLists : CallTools(list)
  <2>1. PICK list \in ToolLists : tools' = ToolsCall(list, <<>>, <<>>, "working")
    BY <1>3 DEF CallTools, NoTools, ToolsCall
  <2>2. ListBuilt(list, <<>>, <<>>, "working")'
    BY <1>1, ListBegins
  <2> QED BY <2>1, <2>2, Zenon DEF ListsInv, ToolsCall
<1>4. CASE UNCHANGED <<tools, allowlist>>
  <2>1. PICK entries, built, imported, at :
          /\ tools = ToolsCall(entries, built, imported, at)
          /\ ListBuilt(entries, built, imported, at)
    BY DEF ListsInv
  <2>2. \A p : MayImport(p) => MayImport(p)'
    BY <1>4 DEF MayImport, is_module_allowed
  <2>3. ListBuilt(entries, built, imported, at)'
    BY <2>1, <2>2 DEF ListBuilt
  <2>4. tools' = ToolsCall(entries, built, imported, at)
    BY <2>1, <1>4
  <2> QED BY <2>3, <2>4, Zenon DEF ListsInv, ToolsCall
<1>5. CASE BuildTools
  BY <1>5, EntryBuilt, ListReturned DEF BuildTools
<1>6. ModelsNext => UNCHANGED allowlist
  BY Zenon DEF ModelsNext, PutKey, DropKey, get_or_build, invalidate, BuildChain
<1>7. AgentsNext => \/ tools' = NoTools \/ \E list \in ToolLists : CallTools(list)
                    \/ UNCHANGED <<tools, modelVars>>
  BY Zenon DEF AgentsNext, BuildAgent, TakeTools, LoadSkills, BuildModel, TakeAgent, BuildTeam
<1>8. OSNext => UNCHANGED <<tools, modelVars>>
  BY Zenon DEF OSNext, BuildDependencies, WireAuth, WireMcp, WireInterfaces, AssembleApp,
               RegisterLifecycle, TakeOS, BuildInterface, TakeInterface, StartMcp, agentVars
<1>9. UNCHANGED modelVars => UNCHANGED allowlist
  BY DEF modelVars
<1>10. BuildDbRegistry \/ RegisterDb => UNCHANGED <<tools, modelVars>>
  BY Zenon DEF BuildDbRegistry, RegisterDb
<1>11. \/ ModelsNext /\ UNCHANGED tools
       \/ AgentsNext
       \/ BuildTools
       \/ BuildDbRegistry \/ RegisterDb
       \/ OSNext
       \/ UNCHANGED <<tools, modelVars>>
  BY Zenon DEF Next, BuildAgents, BuildDatabases, BuildOS, Serve, vars
<1> QED BY <1>2, <1>3, <1>4, <1>5, <1>6, <1>7, <1>8, <1>9, <1>10, <1>11

-----------------------------------------------------------------------------
(* Tools: what the lists say *)

\* What a prefix is, place by place.
LEMMA PrefixIs ==
  ASSUME NEW S, NEW q \in Seq(S), NEW l \in Seq(S)
  PROVE  IsPrefix(q, l) <=> Len(q) <= Len(l) /\ \A i \in 1..Len(q) : q[i] = l[i]
<1> DEFINE n == Len(q)
           s == SubSeq(q, 1, n)
           t == SubSeq(l, 1, n)
<1>1. n \in Nat /\ Len(l) \in Nat
  OBVIOUS
<1>2. CASE n <= Len(l)
  <2>1. s \in Seq(S) /\ Len(s) = n /\ \A i \in 1..n : s[i] = q[i]
    BY <1>1, SubSeqProperties
  <2>2. t \in Seq(S) /\ Len(t) = n /\ \A i \in 1..n : t[i] = l[i]
    BY <1>1, <1>2, SubSeqProperties
  <2> HIDE DEF s, t
  <2>3. s = t <=> \A i \in 1..n : q[i] = l[i]
    BY <2>1, <2>2, SeqEqual
  <2> QED BY <2>3, <1>2 DEF IsPrefix, s, t
<1>3. CASE ~(n <= Len(l))
  BY <1>3 DEF IsPrefix
<1> QED BY <1>2, <1>3

LEMMA PrefixConcat ==
  ASSUME NEW S, NEW f \in Seq(S), NEW q \in Seq(S), NEW l \in Seq(S), IsPrefix(q, l)
  PROVE  IsPrefix(f \o q, f \o l)
<1>1. Len(f) \in Nat /\ Len(q) \in Nat /\ Len(l) \in Nat
  OBVIOUS
<1>2. Len(q) <= Len(l) /\ \A i \in 1..Len(q) : q[i] = l[i]
  BY PrefixIs
<1>3. /\ f \o q \in Seq(S) /\ Len(f \o q) = Len(f) + Len(q)
      /\ \A i \in 1..Len(f) + Len(q) :
           (f \o q)[i] = IF i <= Len(f) THEN f[i] ELSE q[i - Len(f)]
  BY ConcatProperties
<1>4. /\ f \o l \in Seq(S) /\ Len(f \o l) = Len(f) + Len(l)
      /\ \A i \in 1..Len(f) + Len(l) :
           (f \o l)[i] = IF i <= Len(f) THEN f[i] ELSE l[i - Len(f)]
  BY ConcatProperties
<1> DEFINE s == f \o q
           t == f \o l
<1> HIDE DEF s, t
<1>5. ASSUME NEW i \in 1..Len(s) PROVE s[i] = t[i]
  <2>1. i \in 1..Len(f) + Len(q) /\ i \in 1..Len(f) + Len(l)
    BY <1>1, <1>2, <1>3 DEF s
  <2>2. CASE i <= Len(f)
    BY <2>1, <2>2, <1>3, <1>4 DEF s, t
  <2>3. CASE ~(i <= Len(f))
    <3>1. i - Len(f) \in 1..Len(q)
      BY <2>1, <2>3, <1>1
    <3>2. s[i] = q[i - Len(f)] /\ t[i] = l[i - Len(f)]
      BY <2>1, <2>3, <1>3, <1>4 DEF s, t
    <3> QED BY <3>1, <3>2, <1>2
  <2> QED BY <2>2, <2>3
<1>6. Len(s) <= Len(t) /\ s \in Seq(S) /\ t \in Seq(S)
  BY <1>1, <1>2, <1>3, <1>4 DEF s, t
<1>7. IsPrefix(s, t)
  BY <1>5, <1>6, PrefixIs
<1> QED BY <1>7 DEF s, t

LEMMA ImportsInOrder ==
  ASSUME NEW entries, NEW built, NEW imported, NEW at, ListBuilt(entries, built, imported, at),
         NEW k, k = IF Len(built) < Len(entries) THEN Len(built) + 1 ELSE Len(entries)
  PROVE  /\ LET reached == SubSeq(entries, 1, k)
            IN  [i \in DOMAIN reached |-> Loads(reached[i])] = LoadsOf(entries, k)
         /\ IsPrefix(imported, Loaded(entries, k))
<1>1. /\ entries \in Seq(Entries) /\ Len(built) \in Nat /\ Len(entries) \in Nat
      /\ imported \in Seq(Paths) /\ Len(built) <= Len(entries)
  BY DEF ListBuilt
<1>2. k \in 0..Len(entries)
  BY <1>1
<1>3. LET reached == SubSeq(entries, 1, k)
      IN  [i \in DOMAIN reached |-> Loads(reached[i])] = LoadsOf(entries, k)
  <2> DEFINE reached == SubSeq(entries, 1, k)
  <2>1. /\ reached \in Seq(Entries) /\ Len(reached) = k
        /\ \A i \in 1..k : reached[i] = entries[i]
    BY <1>1, <1>2, SubSeqProperties
  <2> HIDE DEF reached
  <2>2. DOMAIN reached = 1..k
    BY <2>1
  <2>3. [i \in DOMAIN reached |-> Loads(reached[i])] = [i \in 1..k |-> Loads(entries[i])]
    BY <2>1, <2>2
  <2> QED BY <2>3 DEF reached, LoadsOf
<1>4. ASSUME Len(built) < Len(entries) PROVE IsPrefix(imported, Loaded(entries, k))
  <2> DEFINE f == Loaded(entries, Len(built))
             l == Loads(entries[Len(built) + 1])
  <2>1. f \in Seq(Paths) /\ l \in Seq(Paths) /\ Loaded(entries, k) = f \o l
    BY <1>1, <1>4, LoadedMore
  <2>2. CASE at = "raised"
    <3>1. PICK rest \in Seq(Paths) : IsPrefix(rest, l) /\ imported = f \o rest
      BY <2>2 DEF ListBuilt
    <3> HIDE DEF f, l
    <3> QED BY <3>1, <2>1, PrefixConcat
  <2>3. CASE at # "raised"
    <3>1. imported = f
      BY <2>3 DEF ListBuilt
    <3> HIDE DEF f, l
    <3>2. <<>> \in Seq(Paths) /\ f \o <<>> = f /\ IsPrefix(<<>>, l)
      BY <2>1, ConcatEmptySeq DEF IsPrefix
    <3>3. IsPrefix(f \o <<>>, f \o l)
      BY <3>2, <2>1, PrefixConcat
    <3> QED BY <3>1, <3>2, <3>3, <2>1
  <2> QED BY <2>2, <2>3
<1>5. ASSUME ~(Len(built) < Len(entries)) PROVE IsPrefix(imported, Loaded(entries, k))
  <2>1. imported = Loaded(entries, k)
    BY <1>1, <1>5 DEF ListBuilt
  <2>2. IsPrefix(imported, imported)
    BY <1>1, PrefixIs
  <2> QED BY <2>1, <2>2
<1> QED BY <1>3, <1>4, <1>5

\* A hook of a custom tool that was built is among the paths of the tool, and
\* was imported.
LEMMA HooksImported ==
  ASSUME NEW entries, NEW built, NEW imported,
         ListBuilt(entries, built, imported, "returned"),
         NEW i \in 1..Len(built), entries[i].kind = "function",
         NEW h \in ToSet(Hooks(entries[i]))
  PROVE  h \in ToSet(built[i].paths) /\ h \in ToSet(imported)
<1>1. /\ entries \in Seq(Entries) /\ Len(built) \in Nat /\ Len(entries) \in Nat
      /\ Len(built) = Len(entries) /\ imported = Loaded(entries, Len(entries))
      /\ built[i] = Tool(entries[i])
  BY DEF ListBuilt
<1> DEFINE e == entries[i]
<1>2. e \in Entries /\ i \in 1..Len(entries)
  BY <1>1
<1>3. built[i].paths = Loads(e)
  BY <1>1 DEF Tool
<1>4. h \in ToSet(Loads(e))
  <2>1. Loads(e) = <<e.path>> \o Hooks(e) /\ Loads(e) \in Seq(Paths)
    BY <1>2, EntryLoads DEF Loads
  <2>2. <<e.path>> \in Seq({e.path} \union Paths) /\ Hooks(e) \in Seq({e.path} \union Paths)
    <3>1. Hooks(e) \in Seq(Paths)
      BY <1>2, EntryHooks
    <3> QED BY <3>1
  <2>3. ToSet(<<e.path>> \o Hooks(e)) = ToSet(<<e.path>>) \union ToSet(Hooks(e))
    BY <2>2, ConcatMembers, ZenonT(40)
  <2> QED BY <2>1, <2>3
<1>5. h \in ToSet(imported)
  <2> DEFINE ls == LoadsOf(entries, Len(entries))
  <2>1. Len(entries) \in 0..Len(entries)
    BY <1>1
  <2>2. ls \in Seq(Seq(Paths)) /\ Len(ls) = Len(entries) /\ ls[i] = Loads(e)
    BY <1>1, <1>2, <2>1, LoadsTyped
  <2>3. imported = FlattenSeq(ls)
    BY <1>1 DEF Loaded
  <2> HIDE DEF ls
  <2>4. h \in ToSet(FlattenSeq(ls)) <=> \E j \in 1..Len(ls) : h \in ToSet(ls[j])
    BY <2>2, FlattenMembers
  <2> QED BY <1>2, <1>4, <2>2, <2>3, <2>4
<1> QED BY <1>3, <1>4, <1>5

LEMMA ListsFollow == ListsInv => ToolsFollowConfig
<1> SUFFICES ASSUME ListsInv PROVE ToolsFollowConfig
  OBVIOUS
<1>1. PICK entries, built, imported, at :
        /\ tools = ToolsCall(entries, built, imported, at)
        /\ ListBuilt(entries, built, imported, at)
  BY DEF ListsInv
<1>2. /\ tools.entries = entries /\ tools.built = built /\ tools.imported = imported
      /\ tools.at = at
  BY <1>1 DEF ToolsCall
<1> DEFINE k == IF Len(built) < Len(entries) THEN Len(built) + 1 ELSE Len(entries)
           reached == SubSeq(entries, 1, k)
<1>3. \A i \in DOMAIN imported : is_module_allowed(imported[i]) /\ imported[i].prefix \in allowlist
  <2>1. DOMAIN imported = 1..Len(imported) /\ \A i \in 1..Len(imported) : MayImport(imported[i])
    BY <1>1 DEF ListBuilt
  <2> QED BY <2>1 DEF MayImport
<1>4. IsPrefix(imported, FlattenSeq([i \in DOMAIN reached |-> Loads(reached[i])]))
  <2>1. /\ [i \in DOMAIN reached |-> Loads(reached[i])] = LoadsOf(entries, k)
        /\ IsPrefix(imported, Loaded(entries, k))
    BY <1>1, ImportsInOrder
  <2> QED BY <2>1, Zenon DEF Loaded
<1>5. at = "returned" =>
        /\ Len(built) = Len(entries)
        /\ \A i \in DOMAIN built :
             /\ built[i].kind = entries[i].kind
             /\ entries[i].kind = "function" =>
                  \A h \in ToSet(Hooks(entries[i])) :
                    h \in ToSet(built[i].paths) /\ h \in ToSet(imported)
  <2> SUFFICES ASSUME at = "returned" PROVE /\ Len(built) = Len(entries)
        /\ \A i \in DOMAIN built :
             /\ built[i].kind = entries[i].kind
             /\ entries[i].kind = "function" =>
                  \A h \in ToSet(Hooks(entries[i])) :
                    h \in ToSet(built[i].paths) /\ h \in ToSet(imported)
    OBVIOUS
  <2>1. /\ ListBuilt(entries, built, imported, "returned") /\ DOMAIN built = 1..Len(built)
        /\ Len(built) = Len(entries) /\ \A i \in 1..Len(built) : built[i] = Tool(entries[i])
    BY <1>1 DEF ListBuilt
  <2>2. \A i \in 1..Len(built) : built[i].kind = entries[i].kind
    BY <2>1 DEF Tool
  <2> QED BY <2>1, <2>2, HooksImported
<1> QED BY <1>2, <1>3, <1>4, <1>5, Zenon DEF ToolsFollowConfig

\* Only modules that both allow-lists know are imported, in the order of the
\* list and no further than the first entry that is refused, and a list that is
\* returned has every tool in its place with all of its hooks.
THEOREM ToolsAreConfigured == Spec => []ToolsFollowConfig
<1>1. Init => ListsInv
  <2> SUFFICES ASSUME Init PROVE ListsInv
    OBVIOUS
  <2>1. tools = ToolsCall(<<>>, <<>>, <<>>, "idle")
    BY DEF Init, AgentsInit, NoTools, ToolsCall
  <2>2. <<>> \in Seq(Entries)
    OBVIOUS
  <2>3. ListBuilt(<<>>, <<>>, <<>>, "idle")
    BY <2>2, ListBegins
  <2> QED BY <2>1, <2>3, Zenon DEF ListsInv, ToolsCall
<1> QED BY <1>1, ListsStep, ListsFollow, PTL DEF Spec
=============================================================================
