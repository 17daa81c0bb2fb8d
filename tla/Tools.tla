-------------------------------- MODULE Tools --------------------------------
(***************************************************************************)
(* Tools out of an agent's configuration: tools/tool_factory.py over       *)
(* tools/schema.py, custom_loader.py, mcp_resolver.py, registry.py and     *)
(* security.py.  ToolFactory.build takes the entries one by one and        *)
(* imports what each names.  An import runs the code of the module, so     *)
(* what was imported before a refusal stays done.                          *)
(***************************************************************************)
EXTENDS Models, FiniteSets, SequencesExt

VARIABLES
  tools  \* the call of ToolFactory.build: its entries, what it has built and
         \* imported of them, and whether it is at work, has returned or raised

NoTools == [entries |-> <<>>, built |-> <<>>, imported |-> <<>>, at |-> "idle"]

\* A dotted path: has it a dot, which prefix has its module, which package does
\* the import need, and what does it find there?
Path(dotted, prefix, package, is) ==
  [dotted |-> dotted, prefix |-> prefix, package |-> package, is |-> is]

None == Path(FALSE, "", "", "unset")
Bare == Path(FALSE, "", "", "function")
Function == Path(TRUE, "agno.tools.", "agno", "function")
Toolkit == Path(TRUE, "agno.tools.", "agno", "class")
Optional == Path(TRUE, "agno.tools.", "ddgs", "function")
OfModels == Path(TRUE, "agno.models.", "agno", "function")

is_module_allowed(path) == path.prefix \in {"agno.tools."}

\* The path, if it is set.
Set(path) == IF path = None THEN <<>> ELSE <<path>>

-----------------------------------------------------------------------------
(* The entries of tools/schema.py *)

\* BUILTIN_REGISTRY, a row of each sort: the class takes any keyword or only
\* its own, it has shorthands, its package is part of Agno or an optional one.
ToolkitAdapter(package, alias_map, accepts, var_kw) ==
  [package |-> package, alias_map |-> alias_map, accepts |-> accepts, var_kw |-> var_kw]

BUILTIN_REGISTRY ==
  [calculator |-> ToolkitAdapter("agno", <<>>, {}, TRUE),
   yfinance |-> ToolkitAdapter("yfinance", [news |-> "enable_company_news"],
                               {"enable_company_news"}, FALSE),
   duckduckgo |-> ToolkitAdapter("ddgs", <<>>, {}, FALSE)]

BuiltinToolConfig(name, init_args) ==
  [kind |-> "builtin", name |-> name, init_args |-> init_args]
CustomToolConfig(path, pre_hook, post_hook, tool_hooks, hitl) ==
  [kind |-> "function", path |-> path, pre_hook |-> pre_hook,
   post_hook |-> post_hook, tool_hooks |-> tool_hooks, hitl |-> hitl]
CustomToolkitConfig(path, fits) ==
  [kind |-> "toolkit_class", path |-> path, fits |-> fits]
StdioMcpConfig(headers) ==
  [kind |-> "mcp", transport |-> "stdio", headers |-> headers, header_provider |-> None]
HttpMcpConfig(transport, header_provider) ==
  [kind |-> "mcp", transport |-> transport, headers |-> TRUE,
   header_provider |-> header_provider]
McpMultiToolConfig(servers) == [kind |-> "mcp_multi", servers |-> servers]

Hooks(entry) == Set(entry.pre_hook) \o Set(entry.post_hook) \o entry.tool_hooks

\* The union accepts the entry: hooks have a dot, at most one way of asking a
\* human is on, a stdio server has no headers, and there is a server at all.
ValidServer(server) == server.transport = "stdio" => ~server.headers
Valid(entry) ==
  CASE entry.kind = "function" ->
         /\ \A i \in DOMAIN Hooks(entry) : Hooks(entry)[i].dotted
         /\ Cardinality(entry.hitl) <= 1
    [] entry.kind = "mcp" -> ValidServer(entry)
    [] entry.kind = "mcp_multi" ->
         entry.servers # <<>> /\ \A i \in DOMAIN entry.servers : ValidServer(entry.servers[i])
    [] OTHER -> TRUE

-----------------------------------------------------------------------------
(* The building of one entry *)

\* The paths an entry makes the loader resolve, in its order: the function
\* before its hooks; a server's header_provider, but not within an mcp_multi.
Loads(entry) ==
  CASE entry.kind = "function" -> <<entry.path>> \o Hooks(entry)
    [] entry.kind = "toolkit_class" -> <<entry.path>>
    [] entry.kind = "mcp" -> Set(entry.header_provider)
    [] entry.kind = "builtin" /\ entry.name \in DOMAIN BUILTIN_REGISTRY ->
         <<Path(TRUE, "agno.tools.", BUILTIN_REGISTRY[entry.name].package, "class")>>
    [] OTHER -> <<>>

\* Mutant: the resolver's allow-list is taken for that of the tools.
MayImport_ResolverOnly(path) == path.dotted /\ path.prefix \in allowlist

\* _resolve_dotted: a dot, then the allow-list of the tools, then the resolver's.
MayImport(path) ==
  path.dotted /\ is_module_allowed(path) /\ path.prefix \in allowlist
ResolveDotted(path) == MayImport(path) /\ path.package \in installed \union {"agno"}

\* The place of the first path that does not resolve, or 0.
FirstRefused(loads) == SelectInSeq(loads, LAMBDA p : ~ResolveDotted(p))

\* The paths that are imported: up to the first that is refused, or with the
\* first whose import fails.
Tried(loads) ==
  LET bad == FirstRefused(loads)
  IN  IF bad = 0 THEN loads
      ELSE SubSeq(loads, 1, IF MayImport(loads[bad]) THEN bad ELSE bad - 1)

\* What is left is to construct it: the builtin is known, the class is one and
\* takes its arguments.
Constructs(entry) ==
  CASE entry.kind = "builtin" -> entry.name \in DOMAIN BUILTIN_REGISTRY
    [] entry.kind = "toolkit_class" -> entry.path.is = "class" /\ entry.fits
    [] OTHER -> TRUE

\* The keywords of a builtin: the shorthands renamed, of two with one name the
\* later, and those only that the class declares unless it takes any.
Kwargs(entry) ==
  LET adapter == BUILTIN_REGISTRY[entry.name]
      named(k) == IF k \in DOMAIN adapter.alias_map THEN adapter.alias_map[k] ELSE k
      args == [i \in DOMAIN entry.init_args |->
                 <<named(entry.init_args[i][1]), entry.init_args[i][2]>>]
      last(i) == \A j \in DOMAIN args : args[j][1] = args[i][1] => j <= i
  IN  {args[i] : i \in {j \in DOMAIN args :
                          last(j) /\ (adapter.var_kw \/ args[j][1] \in adapter.accepts)}}

\* The tool: what it calls, what hooks it has, what a builtin was given.  What a
\* server of MCP is given is not told apart.
Tool(entry) ==
  [kind |-> entry.kind, paths |-> Loads(entry),
   given |-> IF entry.kind = "builtin" THEN Kwargs(entry) ELSE {}]

-----------------------------------------------------------------------------
(* ToolFactory.build *)

CallTools(entries) ==
  /\ tools.at = "idle"
  /\ tools' = [NoTools EXCEPT !.entries = entries, !.at = "working"]
  /\ UNCHANGED modelVars

\* The next entry is validated, its paths are resolved up to the first that is
\* refused or whose import fails, and it is constructed.
BuildEntry ==
  LET entry == tools.entries[Len(tools.built) + 1]
      loads == IF Valid(entry) THEN Loads(entry) ELSE <<>>
      builds == Valid(entry) /\ FirstRefused(loads) = 0 /\ Constructs(entry)
  IN  /\ tools.at = "working" /\ Len(tools.built) < Len(tools.entries)
      /\ tools' = [tools EXCEPT !.imported = @ \o Tried(loads),
                                !.built = IF builds THEN Append(@, Tool(entry)) ELSE @,
                                !.at = IF builds THEN @ ELSE "raised"]
      /\ UNCHANGED modelVars

ToolsReturn ==
  /\ tools.at = "working" /\ Len(tools.built) = Len(tools.entries)
  /\ tools' = [tools EXCEPT !.at = "returned"]
  /\ UNCHANGED modelVars

-----------------------------------------------------------------------------
(* Properties *)

ToolsTypeOK ==
  /\ tools.at \in {"idle", "working", "returned", "raised"}
  /\ Len(tools.built) <= Len(tools.entries)

\* Whatever becomes of the list, only modules that both allow-lists know were
\* imported, hooks and header providers included, and in the order in which the
\* list names them, so nothing of the entries behind one that was refused.  A
\* list that is returned has as many tools as entries, each of the kind of its
\* entry and with all of the hooks that the entry declares.
ToolsFollowConfig ==
  LET reached == SubSeq(tools.entries, 1,
                        IF Len(tools.built) < Len(tools.entries) THEN Len(tools.built) + 1
                        ELSE Len(tools.entries))
  IN  /\ \A i \in DOMAIN tools.imported :
           /\ is_module_allowed(tools.imported[i])
           /\ tools.imported[i].prefix \in allowlist
      /\ IsPrefix(tools.imported, FlattenSeq([i \in DOMAIN reached |-> Loads(reached[i])]))
      /\ tools.at = "returned" =>
           /\ Len(tools.built) = Len(tools.entries)
           /\ \A i \in DOMAIN tools.built :
                /\ tools.built[i].kind = tools.entries[i].kind
                /\ tools.entries[i].kind = "function" =>
                     \A h \in ToSet(Hooks(tools.entries[i])) :
                       h \in ToSet(tools.built[i].paths) /\ h \in ToSet(tools.imported)
=============================================================================
