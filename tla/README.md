# A TLA+ verification of yaml-agno

yaml-agno turns YAML into a served Agno application: validated models, factories
that build agents, teams, workflows and an `AgentOS`, and a runtime around them
(circuit breaker, retries, hot reload, resync, lifespan, tenants, secrets). The
modules here model the parts whose correctness depends on order, interleaving,
failure, or on what a long chain of builders hands on. Every definition is
translated from `src/src/yaml_agno/`; the paths below are relative to it.
`PROJECT.json` maps each definition to its lines.

A process runs on one asyncio event loop, so code between two awaits is one
atomic step, and its hard behaviour comes from what happens *at* an await: other
tasks run, a call fails, a task is cancelled, the file or the clock changes.
Several processes share one database, where a step is a statement. The factories
do not await at all: there the order of refusals, and what is left behind by one
in the middle, is what can be wrong.

## 1. Inventory

| Component | State it keeps | Operations | What is hard, and what makes it correct | Status |
|---|---|---|---|---|
| Circuit breaker `resilience/circuit_breaker.py` | state, four counters, last failure time | `allow_request`, `record_success`, `record_failure`, `execute` | shared by tasks that finish late or are cancelled; wall clock. Never rejects for ever; behind an open gate nothing starts, and nothing that comes back closes it; the failures never outgrow the requests; recovers | modelled, proved |
| Step executor, retry policy `workflows/step_executor.py`, `retry_policy.py` | none of its own; the shared breaker, a TaskGroup | `execute_step`, `execute_parallel_step`, `execute_with_retry` | siblings, backoff sleeps, group cancellation. Every attempt counted once; retries as configured; the group accounts for its tasks and ends | modelled, proved |
| Resync manager `agentos/resync_manager.py` | target AgentOS, breaker, semaphore, debounce task | `attach`, `watch`, `resync_now` | a debounce that cancels a task in mid-reload. No leaked permit, no rollback, the last edit not lost | modelled, proved |
| Configuration adapter `config/bootstrap.py` | core manager, snapshot, typed settings | construction, `reload`, `get_*` | keep-old on an invalid configuration, overlapping reloads. Nothing unvalidated is served, to AgentOS or from the adapter | partly: `reload`; not `get_*` and the wiring functions |
| Hot-reload coordinator `config/hotreload.py` | the loop's task | `start`, `stop`, `reload_now` | start during a stop, failures in the loop. One loop; stopped means stopped; converges | modelled, proved |
| Lifespan adapter `agentos/lifespan.py` | three lists, an exit stack | `add_*`, `__aenter__`, `__aexit__` | exceptions on start and teardown, registration while entering. Reverse order; every stop runs; errors surface | modelled, proved |
| Secrets, audit, rotation `config/secrets.py`, `audit.py`, `rotator.py` | rows of the audit trail | `get_secret`, `rotate_secret`, `rotate`, `record` | a failure or a cancellation between the access and its record. One row for each recorder and answer of the core, a hit or a miss as it was, or an accounted loss | modelled, proved |
| Agent configuration repository `db/repositories/agent_config_repository.py` | rows under a unique key | `save`, `delete`, `get_by_name`, `list_by_tenant` | find-then-delete and insert by concurrent transactions. Answers as if one ran after the other; tenants do not meet | modelled, proved |
| Schema provisioner `db/provisioner.py`, `db/bootstrap.py` | the catalogue | `provision`, `bootstrap_database` | look-then-create by processes that start together and die. Ready only over a whole schema; every process gets ready | modelled, proved but for getting ready |
| Workflow factory `factories/workflow_factory.py`, `models/config/workflow_config.py` | none of its own; a recursion over the step graph | `build`, validators | branch cycles, shared targets, renaming, raw nested steps. The workflow has the shape of its configuration (as far as section 5 lets it); resilience on every path; ends | modelled, proved |
| Model specifications, providers, cache `models/`, `di/` | cached model instances | `parse_model_spec`, `build`, `build_fallback_chain`, `get_or_build`, `invalidate` | keys that change under the cache, aliases, a chain whose middle fails. Each model of a chain has the present key of its own provider, a cached one none older than its last invalidation | partly: not the error classifier, the cache key's text, and `AgnoResolver`'s shorthands |
| Tools `tools/` | none; imports are side effects | `ToolFactory.build` | a refusal in the middle of a list, imports from several places. Nothing imported past the allow-lists, every tool and hook in its place | modelled, proved |
| Agent and team factories, skills `factories/agent_factory.py`, `team_factory.py`, `skills/` | what the loader keeps | `AgentFactory.build`, `SkillsFactory.build`, `TeamFactory.build` | four steps that may refuse. What is registered is whole | modelled, proved |
| Persistence registry `persistence/registry.py` | registry of databases | `build_db_registry` | an entry that cannot be resolved. All of the list or nothing | modelled, proved |
| AgentOS factory `factories/agentos_factory.py` | the kwargs of a build; holders shared by builds | `build` in five phases | a later phase refuses after earlier ones resolved or registered. What is assembled is what is configured, nothing half built is held, secrets never literal where authorization is on | partly: not the fields that pass through, nor the scheduler section |
| Authorization `agentos/authorization_adapter.py` | none | mapping, secret references, isolation guard | authorization without isolation | modelled |
| Interfaces, A2A `agentos/interfaces.py`, `a2a_interface.py` | builders by type | `build`, `build_all` | credentials, targets of one name in three registries | modelled |
| MCP server lifecycle `agentos/mcp_lifecycle.py` | settings, the AgentOS | `register`, `start`, `stop` | holds an AgentOS across builds | modelled |
| Server start-up `api/app.py`, `runtime/server.py`, `api/fastapi_app_builder.py` | the app | `YamlAgentOS`, `create_app`, `run_server`, `build` | what is refused before what is mounted, an app that is replaced on the way: the endpoints are on the one that is returned | partly: not the HTTP answers |
| Tenant identity `memory/user_identity.py`, `tenant/resolver.py`, `api/middleware/tenant_context.py` | state of a request | `resolve_user_id`, `extract_*`, `dispatch` | templates and fallbacks. Two tenants never share an id; the resolver inverts the composition | modelled, proved |
| Boot sequence | - | the order in which a caller uses the factories | composition; the repository has no single entry point | partly |
| Feature flags `config/flags_repository.py` | rows nothing here writes | `get_flag`, `seed_flags` | which row wins; one pass over rows | not modelled, see sections 5 and 6 |
| Condition evaluator, configuration schemas, database models | none | evaluation of strings, declarative models, tables | - | not modelled, see section 6 |
| `culture`, `evals`, `guardrails`, `hitl`, `knowledge`, `media`, `reasoning`, `scheduler`, `templates`, `tracing` | - | - | empty namespaces | nothing to model |

Interactions. `StepExecutor` calls `CircuitBreaker` inside `RetryPolicy`;
`WorkflowFactory` wraps every function step with one shared `StepExecutor`.
`ResyncManager` has a breaker of its own and drives `YamlAgnoConfigAdapter.reload`
and then `AgentOS.resync`; `AgentOSFactory` attaches it after construction, and
registers the instance with `MCPServerLifecycle`. `HotReloadCoordinator` drives
the same adapter's `reload` and the flag manager's `refresh`. `LifespanAdapter`
starts and stops components such as these. `SecretRotator` calls a
`SecretManager`, which may be a `SecretAccessAuditor` over another one; both
record into one table of the database whose schema `ConfigStoreProvisioner`
creates and in which `AgentConfigRepository` keeps its rows. `AgentFactory` calls
`ToolFactory`, `SkillsFactory` and `ProviderFactory`, whose resolver shares one
allow-list with the imports of tools; `AgentOSFactory` resolves its references
against what the other factories built. `YamlAgentOS` mounts the middleware, and
the middleware calls `resolve_user_id`.

External, modelled from how the code uses them: `asyncio` (`TaskGroup`,
`Semaphore`, cancellation), `contextlib.AsyncExitStack`, core-cenf's
`ConfigManager`, `SecretManager` and `FeatureFlagManager`, PostgreSQL and its
transactions, Python's import system, Agno's classes, the file watcher behind
`watch()`, and the caller that uses the factories in order.

## 2. Modules

| Module | Models | State and actions against the code |
|---|---|---|
| `CircuitBreaker` | the class | the fields as a record; each method an operator from record to record. `time_fn() - last_failure_time` is the field `elapsed`, saturated at the timeout, since the code reads the clock in no other way |
| `BreakerPromise` | what a breaker promises | a gate, the calls behind it, "has it rested since the last failure"; no counter. A call starts, succeeds, fails or is abandoned. Only a failure opens a gate and starts the rest over; only a success behind a half-open gate closes one, and it may be any call's: that it should be a probe's is in section 5 |
| `BreakerCallers` | concurrent `execute()` calls | `Admit`/`Reject` up to the await, then `Succeed`, `Fail` or `Cancel`; `Tick`, `SetClockBack`, `Heal` are the environment |
| `StepExecutor` | `execute_parallel_step` over works that go through `execute_step` | each task is ready, working, sleeping or over. `has_breaker` and `has_retry` are chosen in `Init`: the four compositions of `execute_step`. `Abort`, `CancelTask`, `Join` are the TaskGroup |
| `ConfigAdapter` | `_materialize` and `reload` | the core's configuration, `_snapshot`, `_settings`; a configuration is its edit number and whether it validates |
| `ResyncManager` | the class with its breaker and adapter | a cycle is a task: sleeping, called, waiting, reloading, reread, over. One action per way out of `resync_now` |
| `HotReload` | the coordinator | a runner is the loop's task or a direct call: sleeping, reloading, reread, refreshing, over. `stopping` are the loops some `stop()` awaits |
| `Lifespan` | the adapter over an exit stack | `registered` gives the three lists; `context` is where the context manager is, `exits` what `aclose()` has left; `log` the calls made since `__aenter__` |
| `WorkflowFactory`, `MCWorkflowFactory` | validators and recursive build | `stack` holds the calls of `_build_step` in progress with what each has still to build (`Children`), `heap` the primitives constructed. `Finish` is the return of a builder: references are resolved after the children, as in the code. `StepConfigs` are the steps a configuration may hold, the nested ones included. The MC module enumerates both |
| `ConfigStore` | provisioner and repository, run by several processes | the committed tables, and for each process the call it is in with its place (`at`) between two statements. A transaction sees what is committed; an insertion waits for one that may still commit the key (`Goes`) and is then refused or goes on. `freed` and `taken` are history: was the key free, or used, at some instant of the call? `Breaks` and `Crash` roll back |
| `Secrets` | auditor, rotator, recorders, by the processes of `ConfigStore` between their calls | a use is the list of awaits still to come (`Chains`), `audit` swallows the failure of its recorder and `record` lets it out; `due` and `lost`, each of hits and of misses, are history: what the core's answers called for and what was not written |
| `Models` | specifications, provider factory, fallback chain, model cache | each call is one step; `PutKey` and `DropKey` change the configuration in between. A provider's row stands for the rows that differ in the same way |
| `Tools` | `ToolFactory.build` | one step for each entry: it is validated, its paths are tried up to the first that is refused (`FirstRefused`, `Tried`), and it is constructed. `imported` are the paths that were tried |
| `Agents` | agent, skills, team and database factories | a build is at its tools, its skills, its model, or over; the loader takes over what is returned |
| `AgentOS` | the factory and what it is wired to | `os` holds the phase, the configuration and the kwargs as far as they are, to which each phase adds its own; `oses` what the assembled ones were given. One action per phase, plus the lifecycle, the resync manager and interfaces built by a caller |
| `Serving` | apps, middleware, identities | an app is one step, with all it refuses in the order of the code; the four steps of `FastAPIAppBuilder.build` are operators from application to application (`Pipeline`). `ids` are the ids that were resolved over it. Text made with colons is the sequence of its parts |
| `Boot` | the composition of the five above | `stage` says which part is running. A part that is read later goes on from where it ended; where nothing later reads the difference one value is taken over (`Quiet`), so that the product of all inputs stays small |
| `MCRuntime`, `MCResyncFactory` | two components side by side | `HotReload` and `Lifespan`, `ResyncManager` and `WorkflowFactory`: `part` says which one moves, and the other stays as it began. They share no variable, so what holds of one alone holds whatever the other does, and TLC explores the sum of the two and not their product |
| `RuntimeProofs`, `CircuitBreakerProofs`, `StepExecutorProofs`, `ResyncManagerProofs`, `ConfigStoreProofs`, `WorkflowFactoryProofs`, `BootProofs` | proofs | section 4 |
| `FoldLemmas` | lemmas | what sums over finite sets, flattened sequences and selections compute; section 4 |

Operators named `X_Y` after an operator `X`, under a comment "Mutant:", are
plausible bugs of `X`; they are in no specification. For each property,
`PROJECT.json` names the one that violates it when it replaces `X`.

`core.reload()` is split in two steps: it reads its sources while it is awaited,
and the caller goes on with what was read. A single step would hide every stale
read. `AgentOS.resync()` is synchronous and is part of the step. In the store the
grain is a statement of SQL: `delete` finds its row in one and removes it in
another, and whole transactions of other processes fit between.

## 3. What is checked

| Run | Instance | Shows |
|---|---|---|
| `breaker` | 3 callers, 6 requests before the work heals, timeout 2, 2 minimum requests, cap 2, one adjustment of one tick | `HalfOpenHasRoom` and `NeverWedged`: no way to reject for ever. `OutcomesAccountedFor`: outcomes never outnumber requests. `KeepsPromise`: implements `BreakerPromise`. `RecoversWhenHealthy` |
| `step_executor` | 3 tasks, 2 retries, one retryable and one permanent class, cap 1 | counting, reporting, cause of every raise, group accounting, promise, termination |
| `resync_factory`, resync | 3 edits, 1 direct call, `max_concurrent` 1 or 2, a breaker that trips at once | validated configurations only, permits balance, one debounced cycle, no rollback and no lost edit at `max_concurrent` 1 |
| `resync_factory`, workflow factory | every configuration of two steps from 97 shapes each, groups nested two levels deep among them, of three branching steps, lists the validators refuse; recursion limit 10 | tree and names follow the configuration, every function step wrapped, no branch cycle ever built and the recursion exhausted by nothing else |
| `runtime`, hot reload | 2 edits of the configuration and of the flags, 2 loops, 1 direct call | one loop, stop means stopped, convergence |
| `runtime`, lifespan | 3 components, 1 startup, 2 shutdown callbacks, entered any number of times | reverse order, every stop runs, callbacks before the stops of components registered earlier, errors surface |
| `tenant_data` | 2 processes, 2 tenants, 1 name, 3 repository calls, 1 fault, an empty or a provisioned database with a row | `CallsLinearize`, `TenantsApart`: repository calls answer as if one ran after the other, and a row changes by its own tenant only. `TrailBalances`: each answer of the core is recorded once by each recorder, as the hit or the miss it was, or is accounted lost. `EventuallyReady`: every process gets past its bootstrap |
| `boot` | 2 key versions, agents `a` and `s`, team `s`, workflow `w`, knowledge `k`, 2 builds of an AgentOS, 2 user ids; per part every shape of input that is treated differently | `ModelsAsSpecified`: keys and providers through aliases, chains and a cache. `ToolsFollowConfig`: imports within the allow-lists, tools and hooks in place. `NoPartialOS`: what is assembled is what is configured, and whatever a build refuses, nothing half built is held. `ServesScoped`: isolation where authorization is on, endpoints on the app that is returned, ids that never meet |
| `closes_on_cap`, `probes_bounded`, `failures_reported`, `running_until_stopped`, `first_exception`, `configuration_is_built` | the instances above, smaller where a smaller one shows it, each of its component alone | six statements of the documentation the code does not keep (section 5) |

Why the bounds are enough. *Breaker*: three callers are a straggler, a probe and a
third that races both; six requests open, close and open the circuit again with
two minimum requests; a timeout of two ticks tells "not yet", "almost" and
"elapsed" apart, and one adjustment below the timeout makes all three recur.
*Step executor*: one task raises, one is caught at work and one in its backoff.
*Resync*: three edits are an edit served, one whose cycle is cancelled and one that
replaces it, while the direct call competes for the permit. *Hot reload*: a loop
that is being stopped, its successor, and a direct call overlap. *Lifespan*: three
components show reversal and an error in the middle; two callbacks an order.
*Workflow factory*: two steps share, nest and close a cycle, three add a detour; a
chain without a cycle is at most nine calls deep (`Len(c) * (MaxNesting + 1)`), below
the limit of ten; the MC module assumes `LimitSuffices`, so TLC evaluates that.
*Tenant data*: two processes race for every item of the schema and every row, one
fault is a crash, a broken connection or a failing recorder at each place, and
three calls are a save and a delete of one name with a third between them. One
name in two tenants is what a lookup that forgets the tenant would mix up.
*Boot*: the team has the name of an agent, so that lookups in the wrong order are
seen; two builds are one after another that was refused; two versions of a key
are a stale and a fresh one; two ids may meet. A list of inputs has two entries
where an order or a refusal in its middle can matter.

Bounds are in guards (`MaxRequests`, `MaxSkews`, `MaxEdits`, `MaxManual`,
`MaxLoops`, `MaxDirect`, `MaxCalls`, `MaxFaults`, `MaxVersion`, `MaxBuilds`,
`MaxIds`) or in finite sets; no state constraint is used. Each of
these systems may come to rest (a breaker nobody calls, a group that ended, a
workflow that is built), so deadlock is not an error in these runs; the liveness
properties say where progress is due. No run uses symmetry.

Fairness.
* `breaker`: weak fairness of the clock, nothing else. `RecoversWhenHealthy` states
  its own assumption: calls keep coming and are not all cancelled.
* `step_executor`: the event loop runs every task that can run and calls every
  callback: weak fairness of each task, of `Abort` and of `Join`. Works are assumed
  to end and to answer a cancellation with it.
* `resync_factory`: weak fairness of the watcher and of each cycle: sleeps and
  reloads end. The factory needs none.
* `runtime`: weak fairness of each runner of the hot reload and of each waiting
  `stop()`. The lifespan needs none.
* `tenant_data`: weak fairness of each process: it takes its next statement when
  the database lets it, and is started again when its bootstrap failed. Faults
  are finite in number, and nobody has to call the repository.
* `boot`: none; its properties are of safety.

None assumes that a reload succeeds, that a user calls anything, or that a
cancelled task is spared.

Limits the properties state themselves. `NeverRollsBack` and `SettlesOnLatest` are
for `max_concurrent = 1`, the default of `ResyncSettings`; with two, a cycle that
read the file earlier may end later, and the model does reach that.
`SettlesOnLatest` excludes a last cycle that was blocked, failed or came before
`attach()`: the code drops that change and nothing retries it. `Converges` is about
a loop that lives: one failing reload ends it (section 5).

## 4. What is proved

Each theorem is `Spec => []Inv`, `Spec => [][A]_vars` or a refinement, for every
value of the constants that the named assumptions of the modules allow
(`BreakerAssumption`, `CallersAssumption`, `StepAssumption`, `ResyncAssumption`,
`HotReloadAssumption`, `LifespanAssumption`, `StoreAssumption`,
`FactoryAssumption`, `ModelsAssumption`, `AgentOSAssumption`,
`ServingAssumption`). With them, and `LimitSuffices` for the half of
`EndsUnlessCyclic` that is about the recursion limit, every safety property of the
passing runs is proved. A proof is one inductive invariant, or a few on top of each
other, one lemma for each action, and a temporal step.

| Module | Theorems | The inductive invariant, and why the property alone is not one |
|---|---|---|
| `RuntimeProofs`, breaker (with `CircuitBreakerProofs`) | `BreakerTyped`, `WindowNeverFull`, `CountsBalance`, `BreakerKeepsPromise` | `HalfOpenHasRoom` says `half_open_calls < cap` and a success adds one. What keeps the window from filling is the other counter: in HALF_OPEN `half_open_calls <= success_count < cap` (`WindowSound`), and a circuit that is not closed has a failure behind it (`CountsSound`). Each method preserves `Sound` as a lemma about records |
| `RuntimeProofs`, hot reload | `ReloadTyped`, `OneLoopReloads`, `StopAwaitsItsLoop` | the runners are loops and direct calls, each with a bound of its own; their number is a sum of cardinalities (`RunnersBounded`) |
| `RuntimeProofs`, lifespan | `LifespanTyped`, `TearsDownInOrder`, `EveryStopIsRun`, `TeardownErrorIsRaised` | the log speaks of the past and the exit stack of what is to come. The invariant ties both to the `Plan`, the stack as `__aenter__` left it: the exits that remain are its lower part and the teardown calls in the log are its upper part, from the top (`TeardownOK`); the starts in the log are the first components in order (`StartsOK`), and an error is pending exactly when a call of the log raised (`ErrorsOK`). An item registered late is behind `entered` and in no plan |
| `StepExecutorProofs` | `TypeCorrect`, `AttemptsAreBalanced`, `RaisesOnlyForCause`, `GroupIsStructured`, `TasksKeepPromise` | a group aborts only with a task that raised, and only an abort cancels (`AbortsForCause`); an executor without a breaker has none that opens (`NoBreakerNoGate`). `GroupAccountsForTasks` goes by cardinalities of the tasks that returned. `AttemptsBalance` is about sums over the tasks: a step moves one task, and the sums by what that task's terms move (`TermsChange`); a task has an error only if it raised. The refinement of `BreakerPromise` cites the lemmas of the breaker |
| `ResyncManagerProofs` | `TypeCorrect`, `ServesOnlyValidated`, `PermitsComeBack`, `DefaultNeverRollsBack` | every cycle stems from an edit or a call of its own, which bounds them (`Counted`); what a cycle has read is not newer than the file nor, with one permit, older than what AgentOS has (`Ordered`). With one permit at most one cycle is in `Held`, so no other can overtake it |
| `ConfigStoreProofs` | `TypeCorrect`, `TrailsBalance`, `RepositoryLinearizes`, `TenantsStayApart` | about the `Spec` of `Secrets`, which runs the store. What a transaction knows between its statements: a save about to commit holds a new id and a free key (`SaveOK`), a delete that found a row knows an id that never meant another key, or the key was free since (`DeleteOK`), and no two transactions hold one key or id (`Apart`). The types need who has made what of the schema (`SchemaInv`) and that every id but the first is due to a call of its own, counting the saves that have still to insert (`CountInv`). The trail balances because every record that was called for is written, owed by a use that is not over, or lost (`UInv`) |
| `WorkflowFactoryProofs` | `FactoryTyped`, `ResilienceReachesAll`, `TreeIsConfigured`, `NoCycleIsBuilt`, `OnlyCyclesExhaust` | each call in progress holds the executor that its caller was given and only primitives that were built (`FrameOK`, `StackOK`); this needs nothing of the shape of the steps. `TreeInv` adds where everything comes from: an open call holds the nodes of its first children, in order, and its callee is the next one (`FrameFollows`, `CalledBy`); a finished node holds all of its children, built before it (`NodeFollows`). No cycle is built since a cycle would have a node that is first in the heap, and its child would come before it. For `OnlyCyclesExhaust` see below |
| `BootProofs` | `TypeCorrect`, `ModelsHaveTheirKeys`, `ToolsAreConfigured`, `TenantsServedApart`, `NothingInPart` | the key in force now is in the history of every alias (`KeysInForce`), so a model built now is as specified and stays so until its alias is invalidated; each link of a chain is sound by itself (`LinkOK`). The paths imported are those of the entries that were built, flattened, and after a refusal a prefix of the next entry's (`ListBuilt`). Every id of a tenant is the tenant followed by something (`Scoped`), which the resolver inverts (`ResolverInverts`). What a registry returned is resolved from a prefix of its list (`DbsOK`); a number of a build is not among the assembled ones before its assembly, and a holder has an assembled one or none (`HoldersOK`, `OSInv`); outside the stage of the factory nothing of it has happened (`NotYet`). Types need all of these, and the lists of the tool factory, which is at work only for an agent of the configuration (`ListsOK`, `NameOK`) |

Sums, flattened lists and trees need induction, and the library's induction
theorems take a predicate as a parameter, which the provers cannot instantiate.
`FoldLemmas` goes around it: an induction is over the *set* of the values that
satisfy the statement. That strict inclusion among the subsets of a finite set is
well-founded is stated without a parameter; from it follow a minimal member of any
family of subsets (`MinimalSubset`), a least member of any set of naturals
(`LeastNatural`) and induction over a set (`Induction`). With these `SumFunction`
is shown to be the sum that its recursion describes (`SumIs`) and to change by one
term when one term does (`SumChanges`), and `FlattenSeq` to take an appended
sequence behind the others (`FlattenAppend`).

That only a cycle exhausts the recursion (`OnlyCyclesExhaust`) is the longest chain
of lemmas. `BuiltRefs` follows the branches through all nested levels by recursion;
that its equation has a solution, and `BuiltRefs` is one, is shown by induction on
`Nesting` (`RefsAre`). Without a cycle the steps have ranks which fall along every
branch, by adding a step whose branches all have one (`RanksExist`). On the stack a
call of a nested step is one level further in and a call of a branch is at a lower
rank, so no more calls are open than `Len(config) * (MaxNesting + 1)`
(`CallsAreBounded`). The theorem assumes `LimitSuffices`, that this is below the
limit for the configurations considered: CPython stops at a thousand frames by
default, a few to a call, and a workflow with hundreds of steps in one chain would
exhaust it without a cycle. `NoCycleIsBuilt`, the other half, needs no assumption.

Only model-checked is liveness, out of the prover's reach: `NeverWedged`,
`RecoversWhenHealthy`, `AlwaysEnds`, `SettlesOnLatest`, `Converges`,
`EventuallyReady`. `BreakerPromise` has no liveness, so its refinements lose nothing.

## 5. Where code and documentation disagree

1. `circuit_breaker.py:90`: closing a half-open circuit reads `success_count`, which
   includes successes from before it opened; the docstring promises
   `half_open_max_calls` successive successes *in HALF_OPEN* (`closes_on_cap`).
2. `circuit_breaker.py:144`: the window counts completed successes, not admitted
   probes, so concurrent probes are unbounded; the docstring promises "up to
   `half_open_max_calls`" (`probes_bounded`).
3. `hotreload.py:72`: one failing reload ends the loop; the state diagram leaves
   Running by `stop()` only, and `start()` still believes it runs
   (`running_until_stopped`).
4. `lifespan.py:180`: of several teardown errors the last one is raised, the
   docstring says the first (`first_exception`).
5. `retry_policy.py:130`: the transient failure that uses the retries up is raised
   before it is reported; lines 110-112 say `report()` is called on each
   (`failures_reported`). `AttemptsBalance` allows both.
6. `workflow_factory.py:583`: the steps nested in a Condition are validated and then
   built by nobody; `workflow_config.py:56` and the specification of the factory
   (`src/openspec/specs/workflow-factory/spec.md:274`) have them built into its
   `if_true` branch. And a branch of a *nested* step that names no step is left out
   silently (lines 584, 596 and 653): the comment at line 654 trusts
   `WorkflowConfig`, whose line 110 promises valid references and whose line 134
   looks at top-level steps only (`configuration_is_built`). `TreeFollowsConfig`
   allows both.

Met while modelling, without a run. The models do what the code does in each, and
no property of a passing run says otherwise.

From the breaker: the success of a call admitted before the circuit opened counts
towards closing a half-open one, and may close it with every probe still out
(`circuit_breaker.py:91`); the documentation has the circuit closed by the requests
it admits to test recovery (line 31, and the recovery scenario of `SPEC_09`), and
`KeepsPromise` leaves open whose success it is. Line 53 calls `time_fn` monotonic
and defaults to `time.time`.

From the audit trail: a read that ends with an exception other than
`ValidationError` is not recorded (`secrets.py:70`), and `audit.py:3-5` says every
access is, hit or miss; a rotation whose await is cancelled after the core has
rotated is not recorded (`rotator.py:72`), and lines 5-6 say the trail is complete.
`TrailBalances` is about the answers that the auditor and the rotator had.

From the application builder: a lifespan takes a new application in the place of
the one CORS was added to (`fastapi_app_builder.py:178`); line 127 says CORS is
applied whenever origins are configured. The routes of a base app are lost in the
same way.

From the lifespan and the workflow factory: `lifespan.py:143-144` numbers the
pushes of `__aenter__` in the opposite order of lines 157-161, so that a shutdown
callback registered *before* a component also runs before its stop, which is not
the "same LIFO semantics" of line 64; branches that form a cycle pass validation
and end in a `RecursionError`, which `build` does not list under Raises.

From the store, secrets and flags: `flags_repository.py:72` says the tenant's own
row wins over the global one, and `seed_flags` keeps a row of *another* tenant that
comes first, even where the tenant has its own; `db/models/feature_flag.py:5` says
the unique constraint allows one global row, and SQL holds two `NULL`s for
distinct; `rotator.py:72` over a manager that is audited itself records one
rotation twice, and raises for a rotation that happened when its own recorder
fails; `bootstrap.py:289` reads `secrets.storage_path`, which no section of
`YamlAgnoConfigAdapter` can hold, so that a production secret manager can be built
over the core's `ConfigManager` only.

From models and tools: `provider_factory.py:239` says that a class which is no
dataclass is re-raised as `ModelConstructionError`, and a plain `TypeError`
leaves; `registries.py:101` allows `agno.workflow.` with its dot, and the
primitives of line 86 are in `agno.workflow` itself; `agent_config.py:96` accepts a
second colon in a model string, and `parse_model_spec` refuses it, so that the
error comes with the build; `tool_factory.py:108` documents `UnknownBuiltinError`,
and a `KeyError` is raised; `schema.py:37` lets a builtin's flags be written next
to its name, and the factory reads `init_args` only; `schema.py:256` says that a
custom toolkit's arguments are filtered by the signature, and they are passed as
they are; several MCP servers in one entry lose the `env` and `header_provider`
that a single one keeps (`resolve_multi` in `mcp_resolver.py`).

From the AgentOS: an A2A interface among the configured ones always fails, since
`agentos_factory.py:308` hands on no registries and `a2a_interface.py:143` reads
them; `agentos_factory.py:392` wants raw types kept from passing through, and
`base_app` and `lifespan` pass as import paths; `mcp_lifecycle.py:88` replaces the
MCP configuration that the factory wired with that of its own settings; without a secret manager a reference
in an interface's credentials stays the literal text, while the authorization
adapter refuses one.

From start-up and identity: agents read from a file (`app.py:251`)
are built without a resolver, and the tools they declare are dropped silently; a
template for `system_user_id` cannot be expanded by the middleware, which has no
context (`tenant_context.py:101`), and every such request is refused; an id is
composed with a colon, so that a tenant with a colon in its name can share an id
with another, which is why `ServesScoped` speaks of tenants without one; a bare template such as
`{agent_id}` over a context whose value is empty expands to nothing, and the id is
`tenant:`, of the tenant and of nobody in it (`user_identity.py:87`), which
`ServesScoped` allows in that context only: two tenants still share none.

## 6. Not modelled, and why

* Feature flags: `get_flag` and `seed_flags` make one pass over rows that no code
  here writes, and a property would restate the pass.
* `get_*` and `build_*` of the configuration adapter: readings and one-time wiring.
* Condition evaluator: a wrapper around an external engine. Configuration schemas,
  merge, cache keys, error classification: conversions of data without state or
  order. Database models: tables; the constraints the repositories rely on are in
  `ConfigStore`.
* `AgnoResolver`'s shorthands and `ValueResolver`: lookups nothing modelled calls.
* The scheduler section of the AgentOS factory and fields it passes through:
  nothing depends on them. HTTP answers of the probes and of Agno's routes.

Within the modelled parts: floating point (the failure rate is compared exactly,
the code's division differs only where the rate equals the threshold); the length
of sleeps and backoffs (a sleep may end at any time); the contents of
configurations, results and errors; a cancellation of the task that awaits
`stop()`, which `suppress(CancelledError)` swallows; the order in which the
semaphore serves its waiters (any order, the code has FIFO); an item registered
twice with the lifespan adapter; works that swallow their own cancellation; of the
workflow factory the warnings for `execute` and `finally`, and the fields passed on
to Agno unchanged; of the tables of providers, builtins and credentials all but a
row for each way their rows differ; the payload of stored configurations, and
isolation levels other than read committed; the expiry of secrets; the keyword
names of Agno's interfaces.

## 7. Plan

| Order | Modules | Contents | State |
|---|---|---|---|
| 1 | breaker, step executor, resync, hot reload, lifespan, workflow factory | 4 passing runs, 6 divergences with a run | done |
| 2 | `ConfigStore`, `Secrets` | transactions and the audit trail | done, run `tenant_data` |
| 3 | `Models`, `Tools`, `Agents`, `AgentOS`, `Serving`, `Boot` | the factories in a row | done, run `boot` |
| 4 | proofs | every safety property of the passing runs; lemmas on sums, flattened lists and ranks | done, section 4 |
| next | `Lifespan` | a failed start and a late registration (`lifespan.py:169`), once the code or its documentation says what they should leave | open |
| next | `AgentOS` | hot reload and resync of an assembled AgentOS, when `YamlAgentOS` calls `AgentOSFactory` | open: the code does not connect them |
