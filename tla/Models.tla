------------------------------- MODULE Models -------------------------------
(***************************************************************************)
(* Models out of their specifications: models/model_spec.py,               *)
(* models/fallback_chain.py, di/provider_factory.py with the tables, the   *)
(* allow-list and the secret resolver behind it, and the instances that    *)
(* AgnoModelAdapter caches.  Nothing here awaits: a call is one step.      *)
(* Between two calls keys change: those of the configuration, which come   *)
(* first, while those of the environment are the process's for its life.   *)
(***************************************************************************)
EXTENDS Naturals, Sequences

CONSTANTS
  NoKey,      \* what the resolver returns for a secret that is nowhere
  NoModel,    \* the cache has no model under an alias
  MaxVersion  \* bound: the keys that are ever put into the configuration

EnvNames == {"OPENAI_API_KEY", "MISTRAL_API_KEY"}

\* A key that was found: its name, where it was, and its version there.
ApiKeys ==
  {<<n, place, v>> : n \in EnvNames, place \in {"config", "environ"}, v \in 0..MaxVersion}

ASSUME ModelsAssumption == MaxVersion \in Nat /\ NoKey \notin ApiKeys

VARIABLES
  allowlist,  \* the prefixes of the modules the resolver may import
  installed,  \* the optional packages that can be imported
  config,     \* for each key its version in the configuration, 0 if it has none
  issued,     \* the last version that was put there
  environ,    \* the keys in os.environ
  models,     \* AgnoModelAdapter._cache: for each alias a model, or NoModel
  chain,      \* the fallback chain just built, <<>> if it was refused
  inForce     \* history: for each alias, the keys in force since it was dropped

modelVars == <<allowlist, installed, config, issued, environ, models, chain, inForce>>

\* A row of PROVIDER_REGISTRY for each way the rows differ: two names of one
\* provider, a key or none, capabilities or none.
ProviderRegistryEntry(package, api_key_env, capabilities) ==
  [package |-> package, api_key_env |-> api_key_env, capabilities |-> capabilities]

PROVIDER_REGISTRY ==
  [openai      |-> ProviderRegistryEntry("openai", "OPENAI_API_KEY", {"caching", "reasoning"}),
   openai_chat |-> ProviderRegistryEntry("openai", "OPENAI_API_KEY", {"caching", "reasoning"}),
   mistral     |-> ProviderRegistryEntry("mistralai", "MISTRAL_API_KEY", {}),
   ollama      |-> ProviderRegistryEntry("ollama", "None", {})]

SUPPORTED_PROVIDERS == DOMAIN PROVIDER_REGISTRY
LOCAL_PROVIDERS ==
  {p \in SUPPORTED_PROVIDERS : PROVIDER_REGISTRY[p].api_key_env = "None"}

PROVIDER_ALIASES == [openai |-> "openai_chat"]
Canonical(provider) ==
  IF provider \in DOMAIN PROVIDER_ALIASES THEN PROVIDER_ALIASES[provider] ELSE provider

\* The allow-list the resolver is built with: the one of the configuration, or
\* the seeded one; none if the configuration cannot be written.  A strict one
\* refuses to be built over an empty list.
AGNO_ALLOWLIST_PREFIXES == {"agno.models.", "agno.tools.", "agno.db."}
build_agno_resolver(allowlist_paths, settable) ==
  CASE allowlist_paths # {} -> allowlist_paths
    [] allowlist_paths = {} /\ settable -> AGNO_ALLOWLIST_PREFIXES
    [] OTHER -> {}

\* resolve_class: the module is allowed, and its package is there.
Resolves(prefix, package) == prefix \in allowlist /\ package \in installed

\* ConfigSecretResolver: the configuration first, then the environment.
SecretOf(name) ==
  CASE config[name] # 0 -> <<name, "config", config[name]>>
    [] config[name] = 0 /\ name \in environ -> <<name, "environ", 0>>
    [] OTHER -> NoKey

\* What may be written for a model: "provider:id", a mapping, or the name of a
\* definition.  "asks" are the capabilities it sets a field of, and it "fits" if
\* the Agno class accepts the fields that it has.
Entry(form, provider, asks, fits) ==
  [form |-> form, provider |-> provider, asks |-> asks, fits |-> fits]

\* parse_model_spec; a fallback of the form {"alias": ...} is not implemented.
parse_model_spec(entry) ==
  /\ entry.form \in {"string", "mapping"}
  /\ entry.provider \in SUPPORTED_PROVIDERS

-----------------------------------------------------------------------------
(* ProviderFactory.build *)

\* ModelCapabilitiesValidator.validate finds nothing.
Declares(spec) == spec.asks \subseteq PROVIDER_REGISTRY[spec.provider].capabilities

\* The factory builds the specification; if not it raises.
Builds(spec, validate_capabilities) ==
  /\ spec.provider \in SUPPORTED_PROVIDERS
  /\ LET entry == PROVIDER_REGISTRY[spec.provider]
     IN  /\ Resolves("agno.models.", entry.package)
         /\ entry.api_key_env # "None" => SecretOf(entry.api_key_env) # NoKey
         /\ validate_capabilities => Declares(spec)
         /\ spec.fits

\* The model it builds.
ModelOf(spec) ==
  LET name == PROVIDER_REGISTRY[spec.provider].api_key_env
  IN  [provider |-> spec.provider,
       api_key |-> IF name = "None" THEN NoKey ELSE SecretOf(name)]

\* build_fallback_chain: the primary as it is written, the fallbacks under their
\* canonical providers; all are built, then the chain is cut to its hops.
build_fallback_chain(primary, fallback_models, max_fallback_hops, validate) ==
  LET n == Len(fallback_models)
      spec(i) == [fallback_models[i] EXCEPT !.provider = Canonical(@)]
      all == [i \in 1..n + 1 |-> ModelOf(IF i = 1 THEN primary ELSE spec(i - 1))]
  IN  IF Builds(primary, validate)
           /\ \A i \in 1..n : parse_model_spec(fallback_models[i]) /\ Builds(spec(i), validate)
        THEN SubSeq(all, 1, IF n = 0 \/ n < max_fallback_hops THEN n + 1
                            ELSE max_fallback_hops + 1)
        ELSE <<>>

-----------------------------------------------------------------------------

\* A model is cached under its provider and its id, by convention.
Aliases == {"openai", "mistral"}

KeyOf(alias) ==
  LET name == PROVIDER_REGISTRY[alias].api_key_env
  IN  IF name = "None" THEN NoKey ELSE SecretOf(name)

ModelsInit ==
  /\ allowlist \in {build_agno_resolver(paths, settable) :
                      paths \in {{}, {"agno.tools.", "agno.db."}}, settable \in BOOLEAN}
  /\ installed \in {{"openai", "mistralai", "ollama", "yfinance", "ddgs"},
                   {"openai", "ollama", "yfinance"}}
  /\ config = [n \in EnvNames |-> 0] /\ issued = 0
  /\ environ \in SUBSET EnvNames
  /\ models = [a \in Aliases |-> NoModel]
  /\ chain = <<>>
  /\ inForce = [a \in Aliases |-> {KeyOf(a)}]

\* The keys in force now are added to the history of every alias.
InForce == inForce' = [a \in Aliases |-> inForce[a] \union {KeyOf(a)'}]

\* A key is put into the configuration, or taken out of it.
PutKey(n) ==
  /\ issued < MaxVersion /\ issued' = issued + 1
  /\ config' = [config EXCEPT ![n] = issued']
  /\ chain' = <<>>
  /\ UNCHANGED <<allowlist, installed, environ, models>>
  /\ InForce

DropKey(n) ==
  /\ config[n] # 0
  /\ config' = [config EXCEPT ![n] = 0]
  /\ chain' = <<>>
  /\ UNCHANGED <<allowlist, installed, issued, environ, models>>
  /\ InForce

\* Mutant: the builder is bound late, and builds for another alias.
get_or_build_BoundLate(a) ==
  /\ models[a] = NoModel
  /\ \E b \in Aliases :
       /\ Builds(Entry("mapping", b, {}, TRUE), FALSE)
       /\ models' = [models EXCEPT ![a] = ModelOf(Entry("mapping", b, {}, TRUE))]
  /\ chain' = <<>>
  /\ UNCHANGED <<allowlist, installed, config, issued, environ, inForce>>

\* AgnoModelAdapter.get_or_build, with the factory for its builder: a builder
\* that raises leaves nothing in the cache.
get_or_build(a) ==
  LET spec == Entry("mapping", a, {}, TRUE)
  IN  /\ models[a] = NoModel /\ Builds(spec, FALSE)
      /\ models' = [models EXCEPT ![a] = ModelOf(spec)]
      /\ chain' = <<>>
      /\ UNCHANGED <<allowlist, installed, config, issued, environ, inForce>>

\* Mutant: the whole cache is cleared only if it is asked for by name.
invalidate_Named(aliases) ==
  /\ models' = [a \in Aliases |-> IF aliases = {a} THEN NoModel ELSE models[a]]
  /\ inForce' = [a \in Aliases |-> IF a \in aliases THEN {KeyOf(a)} ELSE inForce[a]]
  /\ chain' = <<>>
  /\ UNCHANGED <<allowlist, installed, config, issued, environ>>

\* invalidate: one alias, or all of them.
invalidate(aliases) ==
  /\ models' = [a \in Aliases |-> IF a \in aliases THEN NoModel ELSE models[a]]
  /\ inForce' = [a \in Aliases |-> IF a \in aliases THEN {KeyOf(a)} ELSE inForce[a]]
  /\ chain' = <<>>
  /\ UNCHANGED <<allowlist, installed, config, issued, environ>>

\* Somebody builds a chain; the entries show every way to be refused.
Written ==
  {Entry("string", p, {}, TRUE) : p \in {"openai", "nobody"}}
    \union {Entry("mapping", "mistral", {"reasoning"}, TRUE),
            Entry("mapping", "ollama", {}, FALSE), Entry("alias", "openai", {}, TRUE)}
Fallbacks == {<<>>} \union {<<e>> : e \in Written} \union (Written \X Written)

BuildChain ==
  /\ \E primary \in {Entry("mapping", p, {}, TRUE) : p \in {"openai", "mistral", "ollama"}},
        fallbacks \in Fallbacks, hops \in 1..2, validate \in BOOLEAN :
       chain' = build_fallback_chain(primary, fallbacks, hops, validate)
  /\ UNCHANGED <<allowlist, installed, config, issued, environ, models, inForce>>

ModelsNext ==
  \/ \E n \in EnvNames : PutKey(n) \/ DropKey(n)
  \/ \E a \in Aliases : get_or_build(a) \/ invalidate({a})
  \/ invalidate(Aliases)
  \/ BuildChain

-----------------------------------------------------------------------------
(* Properties *)

ModelsTypeOK ==
  /\ allowlist \subseteq AGNO_ALLOWLIST_PREFIXES
  /\ config \in [EnvNames -> 0..issued] /\ issued \in 0..MaxVersion
  /\ environ \subseteq EnvNames
  /\ DOMAIN models = Aliases
  /\ \A a \in Aliases : models[a] = NoModel \/ models[a].provider = a
  /\ \A i \in DOMAIN chain : chain[i].provider \in SUPPORTED_PROVIDERS

\* The key that the model's provider has now: none if it is a local one, the key
\* of its name in the configuration if there is one there, or else that of the
\* environment.
HasItsKey(model) ==
  LET name == PROVIDER_REGISTRY[model.provider].api_key_env
  IN  \/ /\ name = "None"
         /\ model.api_key = NoKey
      \/ /\ name # "None" /\ config[name] # 0
         /\ model.api_key = <<name, "config", config[name]>>
      \/ /\ name # "None" /\ config[name] = 0 /\ name \in environ
         /\ model.api_key = <<name, "environ", 0>>

\* A model of a chain just built has the present key of its own provider, and no
\* fallback is an alias any more.  A cached model has a key of its provider that
\* was in force at some moment since its alias was last dropped, however often
\* the key was replaced in between: after invalidate nobody is served an older one.
ModelsAsSpecified ==
  /\ \A i \in DOMAIN chain :
       /\ HasItsKey(chain[i])
       /\ i > 1 => chain[i].provider \notin DOMAIN PROVIDER_ALIASES
  /\ \A a \in Aliases : models[a] # NoModel => models[a].api_key \in inForce[a]
=============================================================================
