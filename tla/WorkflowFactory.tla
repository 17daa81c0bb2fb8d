--------------------------- MODULE WorkflowFactory ---------------------------
(***************************************************************************)
(* WorkflowFactory.build (factories/workflow_factory.py) over a            *)
(* WorkflowConfig (models/config/workflow_config.py): the recursion of     *)
(* _build_step and its builders as a machine with an explicit stack, and   *)
(* the primitives it constructs as a heap, for they are objects that a     *)
(* Router renames.                                                         *)
(*                                                                         *)
(* A StepConfig is a record.  The type "Step" stands for Step and          *)
(* Function, and "Steps" for Steps and Parallel, which are built alike.    *)
(* "executor" is what its first executor source resolves to, and "expr"    *)
(* maps those of condition, expression and end_condition that are given to *)
(* what they resolve to ("cel", "callable" or "unknown").  Raw nested steps *)
(* are records nobody validated yet.                                       *)
(***************************************************************************)
EXTENDS Naturals, Sequences, SequencesExt

CONSTANTS
  StepConfigs,     \* bound: the candidate StepConfigs, nested ones included
  Configs,         \* bound: the candidate lists of StepConfigs
  NoRef,           \* None for if_true, if_false and max_iterations; in cases,
                   \* the empty string, which the validator passes over
  Nesting,         \* for each candidate, how deep steps are nested in it
  MaxNesting,      \* bound: no candidate nests deeper
  RecursionLimit   \* bound: Python's limit, in nested calls of _build_step

\* A step's id is a str, StepConfig.steps is a list of StepConfigs, and cases maps
\* keys to references.
ASSUME FactoryAssumption ==
  /\ RecursionLimit \in Nat \ {0}
  /\ Configs \subseteq Seq(StepConfigs)
  /\ \A s \in StepConfigs : s.step # NoRef
  /\ {s.steps : s \in StepConfigs} \subseteq Seq(StepConfigs)
  /\ \A s \in StepConfigs :
       s.cases \in Seq({[key |-> c.key, ref |-> c.ref] : c \in ToSet(s.cases)})
  /\ MaxNesting \in Nat /\ Nesting \in [StepConfigs -> 0..MaxNesting]
  /\ \A s \in StepConfigs : \A i \in DOMAIN s.steps : Nesting[s.steps[i]] < Nesting[s]

VARIABLES
  config,         \* the steps of the WorkflowConfig
  step_executor,  \* was a StepExecutor given?
  stage,          \* where the build is, or how it ended
  stack,          \* the calls of _build_step, innermost last
  heap,           \* the primitives built so far, in the order of construction
  steps           \* built_steps: the primitives of the top-level steps

factoryVars == <<config, step_executor, stage, stack, heap, steps>>

Errors == {"ValidationError", "ValueError", "NotImplementedError", "RecursionError"}
Stages == {"validating", "building", "built"} \union Errors

FactoryInit ==
  /\ config \in Configs
  /\ step_executor \in BOOLEAN
  /\ stage = "validating"
  /\ stack = <<>> /\ heap = <<>> /\ steps = <<>>

-----------------------------------------------------------------------------
(* The validators *)

StepIds == {config[i].step : i \in DOMAIN config}

\* validate_type_specific_fields
StepConfigValid(s) ==
  /\ s.max_iterations # NoRef => s.max_iterations >= 1
  /\ s.steps # <<>> => s.type \in {"Parallel", "Steps", "Condition", "Loop"}
  /\ \/ "condition" \in DOMAIN s.expr
     \/ s.if_true # NoRef
     \/ s.if_false # NoRef
     => s.type = "Condition"
  /\ "expression" \in DOMAIN s.expr \/ s.cases # <<>> => s.type = "Router"
  /\ "end_condition" \in DOMAIN s.expr \/ s.max_iterations # NoRef => s.type = "Loop"

BranchRefs(s) ==
  ({s.if_true, s.if_false} \union {s.cases[i].ref : i \in DOMAIN s.cases}) \ {NoRef}

\* validate_steps_integrity: of the top-level steps only.
StepsIntegrity ==
  /\ \A i, j \in DOMAIN config : config[i].step = config[j].step => i = j
  /\ \A i \in DOMAIN config : BranchRefs(config[i]) \subseteq StepIds

Validate ==
  /\ stage = "validating"
  /\ stage' = IF StepsIntegrity /\ \A i \in DOMAIN config : StepConfigValid(config[i])
                THEN "building" ELSE "ValidationError"
  /\ UNCHANGED <<config, step_executor, stack, heap, steps>>

-----------------------------------------------------------------------------
(* _build_step *)

step_index == [id \in StepIds |-> config[CHOOSE i \in DOMAIN config : config[i].step = id]]

\* A branch that is in no index is left out.
Branch(ref, role) ==
  IF ref \in StepIds THEN <<[step |-> step_index[ref], role |-> role]>> ELSE <<>>

\* A Condition builds its branches and none of its nested steps.
BranchSteps(s) == Branch(s.if_true, "then") \o Branch(s.if_false, "else")

CaseSteps(s) ==
  FlattenSeq([i \in DOMAIN s.cases |-> Branch(s.cases[i].ref, s.cases[i].key)])

NestedSteps(s) == [i \in DOMAIN s.steps |-> [step |-> s.steps[i], role |-> "nested"]]

\* What the builder of s builds by recursion, in that order.
Children(s) ==
  CASE s.type = "Condition" -> BranchSteps(s)
    [] s.type = "Router" -> CaseSteps(s)
    [] OTHER -> NestedSteps(s)

\* Mutant: a step that was built before is taken for a cycle.
Call_SeenIsCycle(outer, child, wraps) ==
  /\ stage' = IF child.role = "nested" /\ ~StepConfigValid(child.step)
                THEN "ValidationError"
              ELSE IF Len(outer) = RecursionLimit
                      \/ \E n \in DOMAIN heap : heap[n].step = child.step
                THEN "RecursionError"
              ELSE stage
  /\ stack' = IF stage' # stage THEN stack
              ELSE Append(outer, [step |-> child.step, role |-> child.role,
                                  wraps |-> wraps,
                                  todo |-> Children(child.step), done |-> <<>>])
  /\ UNCHANGED <<config, step_executor, heap, steps>>

\* _build_step(child, ...) is called: a raw nested step is validated first.
Call(outer, child, wraps) ==
  /\ stage' = IF child.role = "nested" /\ ~StepConfigValid(child.step)
                THEN "ValidationError"
              ELSE IF Len(outer) = RecursionLimit THEN "RecursionError"
              ELSE stage
  /\ stack' = IF stage' # stage THEN stack
              ELSE Append(outer, [step |-> child.step, role |-> child.role,
                                  wraps |-> wraps,
                                  todo |-> Children(child.step), done |-> <<>>])
  /\ UNCHANGED <<config, step_executor, heap, steps>>

BuildTop ==
  /\ stage = "building" /\ stack = <<>>
  /\ Len(steps) < Len(config)
  /\ Call(<<>>, [step |-> config[Len(steps) + 1], role |-> "top"], step_executor)

\* Mutant: the groups of nested steps forget to pass the step executor on.
BuildChild_NoPassthrough ==
  /\ stage = "building" /\ stack # <<>>
  /\ LET call == Last(stack)
     IN  /\ call.todo # <<>>
         /\ Call(Append(Front(stack), [call EXCEPT !.todo = Tail(@)]), Head(call.todo),
                 call.wraps /\ Head(call.todo).role # "nested")

BuildChild ==
  /\ stage = "building" /\ stack # <<>>
  /\ LET call == Last(stack)
     IN  /\ call.todo # <<>>
         /\ Call(Append(Front(stack), [call EXCEPT !.todo = Tail(@)]), Head(call.todo),
                 call.wraps)

\* What building s itself raises, once its children are built.
Refusal(s) ==
  IF s.type = "Workflow" \/ (s.type = "Step" /\ s.executor = "workflow")
    THEN "NotImplementedError"
  ELSE IF \/ s.type = "Step" /\ s.executor \in {"unknown", "none"}
          \/ \E field \in DOMAIN s.expr : s.expr[field] = "unknown"
    THEN "ValueError"
  ELSE "none"

\* The primitive is handed to its caller, which a Router renames.
Deliver(outer, role, node) ==
  IF outer = <<>>
    THEN /\ steps' = Append(steps, node)
         /\ stack' = outer
    ELSE /\ stack' = [outer EXCEPT ![Len(outer)].done = Append(@, [role |-> role, node |-> node])]
         /\ UNCHANGED steps

Name(outer, call) ==
  IF outer # <<>> /\ Last(outer).step.type = "Router" THEN call.role ELSE call.step.step

\* A step of another type may name a function too, and nothing uses it.
RunsFunction(s) == s.type = "Step" /\ s.executor = "function"

\* Mutant: primitives are memoised by their StepConfig.
Finish_Memoised ==
  /\ stage = "building" /\ stack # <<>>
  /\ LET call == Last(stack)
         built == {n \in DOMAIN heap : heap[n].step = call.step}
         node == IF built = {} THEN Len(heap) + 1 ELSE CHOOSE n \in built : TRUE
         primitive == [step |-> call.step, name |-> Name(Front(stack), call),
                       children |-> call.done,
                       wrapped |-> call.wraps /\ RunsFunction(call.step)]
     IN  /\ call.todo = <<>>
         /\ IF Refusal(call.step) # "none"
              THEN stage' = Refusal(call.step) /\ UNCHANGED <<stack, heap, steps>>
              ELSE /\ heap' = IF built = {} THEN Append(heap, primitive)
                              ELSE [heap EXCEPT ![node].name = primitive.name]
                   /\ Deliver(Front(stack), call.role, node)
                   /\ UNCHANGED stage
  /\ UNCHANGED <<config, step_executor>>

\* Mutant: a builder that refuses a step falls through instead of raising, and
\* its caller is handed None.
Finish_ReturnsNone ==
  /\ stage = "building" /\ stack # <<>>
  /\ LET call == Last(stack)
         primitive == [step |-> call.step, name |-> Name(Front(stack), call),
                       children |-> call.done,
                       wrapped |-> call.wraps /\ RunsFunction(call.step)]
     IN  /\ call.todo = <<>>
         /\ IF Refusal(call.step) # "none"
              THEN Deliver(Front(stack), call.role, 0) /\ UNCHANGED heap
              ELSE /\ heap' = Append(heap, primitive)
                   /\ Deliver(Front(stack), call.role, Len(heap'))
  /\ UNCHANGED <<config, step_executor, stage>>

\* The innermost call returns: its executor or expression is resolved and the
\* primitive constructed, a function wrapped if a StepExecutor was passed.
Finish ==
  /\ stage = "building" /\ stack # <<>>
  /\ LET call == Last(stack)
         primitive == [step |-> call.step, name |-> Name(Front(stack), call),
                       children |-> call.done,
                       wrapped |-> call.wraps /\ RunsFunction(call.step)]
     IN  /\ call.todo = <<>>
         /\ IF Refusal(call.step) # "none"
              THEN stage' = Refusal(call.step) /\ UNCHANGED <<stack, heap, steps>>
              ELSE /\ heap' = Append(heap, primitive)
                   /\ Deliver(Front(stack), call.role, Len(heap'))
                   /\ UNCHANGED stage
  /\ UNCHANGED <<config, step_executor>>

\* Workflow(...) is constructed.
Built ==
  /\ stage = "building" /\ stack = <<>>
  /\ Len(steps) = Len(config)
  /\ stage' = "built"
  /\ UNCHANGED <<config, step_executor, stack, heap, steps>>

FactoryNext ==
  \/ Validate
  \/ BuildTop
  \/ BuildChild
  \/ Finish
  \/ Built

FactorySpec == FactoryInit /\ [][FactoryNext]_factoryVars

-----------------------------------------------------------------------------
(* Properties *)

\* The recursion stays within the limit, and what it returned is on the heap.
FactoryTypeOK ==
  /\ step_executor \in BOOLEAN /\ stage \in Stages
  /\ Len(stack) <= RecursionLimit
  /\ \A i \in DOMAIN steps : steps[i] \in DOMAIN heap
  /\ \A i \in DOMAIN stack : \A j \in DOMAIN stack[i].done :
       stack[i].done[j].node \in DOMAIN heap

\* What the primitive n chooses between, or branches to, by the name under which
\* each is found and the id of its step.
ChoicesBuilt(n) ==
  {[key |-> heap[child.node].name, ref |-> heap[child.node].step.step]
     : child \in ToSet(heap[n].children)}

BranchesBuilt(n) ==
  {[key |-> child.role, ref |-> heap[child.node].step.step]
     : child \in {c \in ToSet(heap[n].children) : c.role \in {"then", "else"}}}

\* What the configuration of a step names, by the same key and id.
ChoicesNamed(s) == {c \in ToSet(s.cases) : c.ref # NoRef}
BranchesNamed(s) ==
  {b \in {[key |-> "then", ref |-> s.if_true], [key |-> "else", ref |-> s.if_false]}
     : b.ref # NoRef}

\* The workflow has the shape of its configuration, although one StepConfig may
\* be built at the top and under several branches and keys.  The steps of the
\* workflow are there in order and under their ids, and wherever one of them is
\* built it has every branch it names in its role and every choice under the
\* key of its case.  A group has its nested steps in order.  A step nested in a
\* group has no branch and no choice but those it names.  That it has them all,
\* and a Condition the steps nested in it, is ConfigurationIsBuilt, which the
\* code does not keep.
TreeFollowsConfig ==
  stage = "built" =>
    /\ [i \in DOMAIN steps |-> heap[steps[i]].step] = config
    /\ \A i \in DOMAIN steps : heap[steps[i]].name = config[i].step
    /\ \A n \in DOMAIN heap :
         LET s == heap[n].step
             children == heap[n].children
             Child(i) == heap[children[i].node]
         IN  /\ s.type = "Router" =>
                  /\ ChoicesBuilt(n) \subseteq ChoicesNamed(s)
                  /\ s \in ToSet(config) => ChoicesNamed(s) \subseteq ChoicesBuilt(n)
             /\ s.type = "Condition" =>
                  /\ BranchesBuilt(n) \subseteq BranchesNamed(s)
                  /\ s \in ToSet(config) => BranchesNamed(s) \subseteq BranchesBuilt(n)
             /\ s.type \notin {"Router", "Condition"} =>
                  [i \in DOMAIN children |-> Child(i).step] = s.steps
             /\ s.type # "Router" => \A i \in DOMAIN children : Child(i).name = Child(i).step.step

\* "When provided, function-executor steps are wrapped": on every path of the
\* recursion, and no other step is.
ResilienceEverywhere ==
  \A n \in DOMAIN heap :
    heap[n].wrapped <=> step_executor /\ RunsFunction(heap[n].step)

\* What a step branches to, itself or through the steps nested in it.
BuiltRefs[s \in StepConfigs] ==
  BranchRefs(s) \union
    IF s.type = "Condition" THEN {} ELSE UNION {BuiltRefs[s.steps[i]] : i \in DOMAIN s.steps}

\* A set of steps each of which branches into the set.
Cyclic ==
  \E ids \in SUBSET StepIds : ids # {} /\ \A id \in ids : BuiltRefs[step_index[id]] \intersect ids # {}

\* No configuration whose branches form a cycle is ever built, although no
\* validator looks for one: the cycle ends the build, in the recursion or in
\* an earlier refusal.
CyclesAreRefused == stage = "built" => ~Cyclic

\* The limit is above the longest chain without a cycle: every step once, with
\* all that is nested in it.  Python's limit is, but for enormous workflows.
LimitSuffices == \A c \in Configs : Len(c) * (MaxNesting + 1) < RecursionLimit

\* And only a cycle does: where the limit suffices, a validated configuration
\* exhausts the stack only if its branches form one, through nested steps too,
\* however often a step is shared by branches.
EndsUnlessCyclic == CyclesAreRefused /\ (stage = "RecursionError" => Cyclic)

-----------------------------------------------------------------------------
(* What the documentation says and the code does not do. *)

\* "Nested steps (Parallel/Steps/Condition/Loop)", of which a Condition's "van al
\* branch if_true", and "integrity is guaranteed by WorkflowConfig": whatever step
\* of the workflow, a nested one too, has below it every step nested in it and
\* every step that it branches to.  A Condition's nested steps are admitted and
\* never read, and a dangling branch of a nested step is left out.
ConfigurationIsBuilt ==
  stage = "built" =>
    \A n \in DOMAIN heap :
      LET s == heap[n].step
          built == {heap[child.node].step : child \in ToSet(heap[n].children)}
      IN  /\ ToSet(s.steps) \subseteq built
          /\ BranchRefs(s) \subseteq {t.step : t \in built}
=============================================================================
