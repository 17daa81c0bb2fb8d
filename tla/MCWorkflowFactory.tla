-------------------------- MODULE MCWorkflowFactory --------------------------
(***************************************************************************)
(* Every list of two steps of the shapes below, every list of three        *)
(* branching ones, and lists the validators refuse.                        *)
(***************************************************************************)
EXTENDS WorkflowFactory

Plain(id, type, executor) ==
  [step |-> id, type |-> type, executor |-> executor, expr |-> <<>>,
   if_true |-> NoRef, if_false |-> NoRef, cases |-> <<>>, steps |-> <<>>,
   max_iterations |-> NoRef]

Leaves(id) ==
  {Plain(id, "Step", e) : e \in {"agent", "function", "unknown", "workflow"}}
    \union {Plain(id, "Workflow", "none")}

Conditions(id, ids, exprs) ==
  {[Plain(id, "Condition", "none") EXCEPT !.expr = [condition |-> e], !.if_true = t, !.if_false = f]
     : e \in exprs, t \in ids \union {NoRef}, f \in ids \union {NoRef}}

Routers(id, ids) ==
  {[Plain(id, "Router", "none") EXCEPT !.cases = c] : c \in
     {<<>>} \union {<<[key |-> "k1", ref |-> r]>> : r \in ids}
       \union {<<[key |-> "k1", ref |-> r], [key |-> "k2", ref |-> q]>> : r \in ids, q \in ids}}

\* Fields of one type on a step of another, a function nobody runs, and values
\* that the validators let through or do not.
Odd(id) ==
  {[Plain(id, "Loop", "function") EXCEPT !.max_iterations = m] : m \in {0, 2}}
    \union {[Plain(id, "Loop", "none") EXCEPT !.expr = [end_condition |-> e]]
              : e \in {"callable", "unknown"}}
    \union {[Plain(id, "Steps", "none") EXCEPT !.max_iterations = 1],
            [Plain(id, "Condition", "none") EXCEPT !.expr = [expression |-> "cel"]],
            [Plain(id, "Router", "none") EXCEPT
               !.cases = <<[key |-> "k1", ref |-> NoRef], [key |-> "k2", ref |-> "b"]>>]}

\* Raw nested steps: "x" is the id of none, and a Step has no nested steps.  The
\* last of them branch from one level deeper.
Raw(ids) ==
  {Plain("x", "Step", "function"),
   [Plain("x", "Step", "agent") EXCEPT !.steps = <<Plain("y", "Step", "agent")>>]}
    \union {[Plain("x", "Condition", "none") EXCEPT !.if_true = r] : r \in ids \union {"ghost"}}
    \union {[Plain("x", "Router", "none") EXCEPT !.cases = <<[key |-> "k1", ref |-> r]>>]
              : r \in ids \union {"ghost"}}
    \union {[Plain("x", "Steps", "none") EXCEPT !.steps =
               <<[Plain("y", "Condition", "none") EXCEPT !.if_false = r]>>] : r \in ids}

Groups(id, ids) ==
  {[Plain(id, t, "none") EXCEPT !.steps = n]
     : t \in {"Steps", "Loop", "Condition"},
       n \in {<<r>> : r \in Raw(ids)} \union {<<Plain("z", "Step", "function"), r>> : r \in Raw(ids)}}

Shapes(id, ids) ==
  Leaves(id) \union Odd(id) \union Conditions(id, ids, {"cel", "unknown"})
    \union Routers(id, ids) \union Groups(id, ids)

Branching(id, ids) ==
  {Plain(id, "Step", "function")} \union Conditions(id, ids, {"cel"}) \union Routers(id, ids)

MCConfigs ==
  {<<s, t>> : s \in Shapes("a", {"a", "b"}), t \in Shapes("b", {"a", "b"})}
    \union {<<s, t, u>> : s \in Branching("a", {"a", "b", "c"}),
                          t \in Branching("b", {"a", "b", "c"}),
                          u \in Branching("c", {"b", "c"})}
    \union {<<s, t>> : s \in Conditions("a", {"ghost"}, {"cel"}), t \in Leaves("a")}

\* The steps of all of them, with those nested in them, which nest no deeper.
WithNested(configs) == configs \union UNION {ToSet(s.steps) : s \in configs}
MCStepConfigs == WithNested(WithNested(UNION {ToSet(c) : c \in MCConfigs}))

\* How deep they nest.
MCNesting[s \in MCStepConfigs] ==
  IF s.steps = <<>> THEN 0 ELSE 1 + Max({MCNesting[t] : t \in ToSet(s.steps)})

ASSUME LimitAssumption == LimitSuffices
=============================================================================
