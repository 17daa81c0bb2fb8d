------------------------ MODULE WorkflowFactoryProofs ------------------------
(***************************************************************************)
(* WorkflowFactory for every configuration and every recursion limit: the  *)
(* types, that the StepExecutor reaches every function of the tree it is   *)
(* passed down, that a tree which is built follows its configuration node  *)
(* by node, that no cyclic configuration is built, and that only a cyclic  *)
(* one exhausts the recursion.                                             *)
(*                                                                         *)
(* FactoryInv is about the executor alone and needs nothing of the shape   *)
(* of the steps.  TreeInv adds where every node and every open call comes  *)
(* from: a call holds the nodes of the children it has built, in order,    *)
(* and a finished node has all of its children below it in the heap, so    *)
(* that a cycle would have to be infinitely deep.  Without a cycle the     *)
(* steps have ranks that fall along the branches, and the rank of a call's *)
(* step and the levels nested in it bound how much deeper the stack grows. *)
(***************************************************************************)
EXTENDS WorkflowFactory, FoldLemmas

IsSeq(s) == \E S : s \in Seq(S)

Delivered(s, nodes) == IsSeq(s) /\ \A j \in 1..Len(s) : s[j].node \in nodes

\* A call of _build_step passes on the executor it was given, and holds what the
\* calls it made have returned.
FrameOK(f, wraps, nodes) ==
  /\ \E s, r, t, d : f = [step |-> s, role |-> r, wraps |-> wraps, todo |-> t, done |-> d]
  /\ Delivered(f.done, nodes)

StackOK(calls, wraps, nodes) ==
  IsSeq(calls) /\ \A i \in 1..Len(calls) : FrameOK(calls[i], wraps, nodes)

FactoryInv ==
  /\ step_executor \in BOOLEAN /\ stage \in Stages
  /\ IsSeq(heap) /\ StackOK(stack, step_executor, 1..Len(heap))
  /\ Len(stack) <= RecursionLimit
  /\ IsSeq(steps) /\ \A i \in 1..Len(steps) : steps[i] \in 1..Len(heap)
  /\ ResilienceEverywhere

-----------------------------------------------------------------------------
(* Sequences *)

LEMMA SeqFacts ==
  ASSUME NEW s, IsSeq(s)
  PROVE  Len(s) \in Nat /\ DOMAIN s = 1..Len(s) /\ (s # <<>> => Len(s) \in 1..Len(s))
<1>1. PICK S : s \in Seq(S)
  BY DEF IsSeq
<1> QED BY <1>1, LenProperties, EmptySeq

LEMMA SeqAppend ==
  ASSUME NEW s, IsSeq(s), NEW e
  PROVE  /\ IsSeq(Append(s, e)) /\ Len(Append(s, e)) = Len(s) + 1
         /\ \A i \in 1..Len(s) : Append(s, e)[i] = s[i]
         /\ Append(s, e)[Len(s) + 1] = e
<1>1. PICK S : s \in Seq(S)
  BY DEF IsSeq
<1>2. s \in Seq(S \union {e}) /\ e \in S \union {e}
  BY <1>1
<1>3. /\ Append(s, e) \in Seq(S \union {e}) /\ Len(Append(s, e)) = Len(s) + 1
      /\ \A i \in 1..Len(s) : Append(s, e)[i] = s[i]
      /\ Append(s, e)[Len(s) + 1] = e
  BY <1>2, AppendProperties
<1> QED BY <1>3 DEF IsSeq

LEMMA SeqFront ==
  ASSUME NEW s, IsSeq(s), s # <<>>
  PROVE  /\ IsSeq(Front(s)) /\ Len(Front(s)) = Len(s) - 1 /\ Len(s) - 1 \in Nat
         /\ \A i \in 1..Len(s) - 1 : Front(s)[i] = s[i]
         /\ Last(s) = s[Len(s)] /\ Len(s) \in 1..Len(s)
<1>1. PICK S : s \in Seq(S)
  BY DEF IsSeq
<1>2. Len(s) \in Nat /\ Len(s) # 0
  BY <1>1, EmptySeq
<1>3. PICK n \in Nat : n = Len(s) - 1
  BY <1>2
<1>4. PICK t : t = SubSeq(s, 1, n)
  OBVIOUS
<1>5. 1 \in Int /\ n \in Int /\ \A i \in 1..n : s[i] \in S
  BY <1>1, <1>2, <1>3, ElementOfSeq
<1>6. /\ t \in Seq(S) /\ Len(t) = IF 1 <= n THEN n - 1 + 1 ELSE 0
      /\ \A i \in 1..n - 1 + 1 : t[i] = s[1 + i - 1]
  BY <1>4, <1>5, SubSeqProperties
<1>7. Len(t) = n
  <2>1. (IF 1 <= n THEN n - 1 + 1 ELSE 0) = n
    BY <1>3
  <2> QED BY <2>1, <1>6
<1>8. ASSUME NEW i \in 1..n
      PROVE  t[i] = s[i]
  <2>1. i \in 1..n - 1 + 1 /\ 1 + i - 1 = i
    BY <1>3, <1>8
  <2> QED BY <2>1, <1>6
<1>9. Front(s) = t
  BY <1>3, <1>4 DEF Front
<1>10. Len(s) \in 1..Len(s)
  BY <1>2
<1> QED BY <1>2, <1>3, <1>6, <1>7, <1>8, <1>9, <1>10 DEF IsSeq, Last

LEMMA SeqTail ==
  ASSUME NEW s, IsSeq(s), s # <<>>
  PROVE  /\ IsSeq(Tail(s)) /\ Len(Tail(s)) = Len(s) - 1 /\ Len(s) \in Nat /\ Len(s) >= 1
         /\ \A j \in 1..Len(s) - 1 : Tail(s)[j] = s[j + 1]
         /\ Head(s) = s[1]
<1>1. PICK S : s \in Seq(S)
  BY DEF IsSeq
<1>2. Tail(s) \in Seq(S) /\ Len(Tail(s)) = Len(s) - 1 /\ Len(s) \in Nat /\ Len(s) # 0
      /\ \A j \in 1..Len(s) - 1 : Tail(s)[j] = s[j + 1]
      /\ Head(s) = s[1]
  BY <1>1
<1> QED BY <1>2 DEF IsSeq

-----------------------------------------------------------------------------
(* The stack of calls *)

\* What a call goes on to, and what has returned to it, is all of it that changes.
LEMMA SetTodo ==
  ASSUME NEW f, NEW s, NEW r, NEW w, NEW t, NEW d, NEW x,
         f = [step |-> s, role |-> r, wraps |-> w, todo |-> t, done |-> d]
  PROVE  [f EXCEPT !.todo = x] = [step |-> s, role |-> r, wraps |-> w, todo |-> x, done |-> d]
OBVIOUS

LEMMA SetDone ==
  ASSUME NEW f, NEW s, NEW r, NEW w, NEW t, NEW d, NEW x,
         f = [step |-> s, role |-> r, wraps |-> w, todo |-> t, done |-> d]
  PROVE  [f EXCEPT !.done = x] = [step |-> s, role |-> r, wraps |-> w, todo |-> t, done |-> x]
OBVIOUS

LEMMA StackMore ==
  ASSUME NEW calls, NEW w, NEW m \in Nat, NEW n \in Nat, m <= n, StackOK(calls, w, 1..m)
  PROVE  StackOK(calls, w, 1..n)
<1>1. 1..m \subseteq 1..n
  OBVIOUS
<1> QED BY <1>1 DEF StackOK, FrameOK, Delivered

LEMMA StackPush ==
  ASSUME NEW calls, NEW f, NEW w, NEW nodes, StackOK(calls, w, nodes), FrameOK(f, w, nodes)
  PROVE  StackOK(Append(calls, f), w, nodes) /\ Len(Append(calls, f)) = Len(calls) + 1
<1>1. /\ IsSeq(calls) /\ Len(calls) \in Nat
      /\ \A i \in 1..Len(calls) : FrameOK(calls[i], w, nodes)
  BY SeqFacts DEF StackOK
<1>2. /\ IsSeq(Append(calls, f)) /\ Len(Append(calls, f)) = Len(calls) + 1
      /\ \A i \in 1..Len(calls) : Append(calls, f)[i] = calls[i]
      /\ Append(calls, f)[Len(calls) + 1] = f
  BY <1>1, SeqAppend
<1>3. \A i \in 1..Len(Append(calls, f)) : FrameOK(Append(calls, f)[i], w, nodes)
  <2>1. TAKE i \in 1..Len(Append(calls, f))
  <2>2. i \in 1..Len(calls) \/ i = Len(calls) + 1
    BY <1>1, <1>2
  <2>3. CASE i \in 1..Len(calls)
    <3>1. Append(calls, f)[i] = calls[i] /\ FrameOK(calls[i], w, nodes)
      BY <2>3, <1>1, <1>2
    <3> QED BY <3>1
  <2>4. CASE i = Len(calls) + 1
    <3>1. Append(calls, f)[i] = f
      BY <2>4, <1>2
    <3> QED BY <3>1
  <2> QED BY <2>2, <2>3, <2>4
<1> QED BY <1>2, <1>3 DEF StackOK

LEMMA StackPop ==
  ASSUME NEW calls, NEW w, NEW nodes, StackOK(calls, w, nodes), calls # <<>>
  PROVE  /\ StackOK(Front(calls), w, nodes) /\ FrameOK(Last(calls), w, nodes)
         /\ Len(Front(calls)) = Len(calls) - 1
<1>1. IsSeq(calls) /\ \A i \in 1..Len(calls) : FrameOK(calls[i], w, nodes)
  BY DEF StackOK
<1>2. /\ IsSeq(Front(calls)) /\ Len(Front(calls)) = Len(calls) - 1 /\ Len(calls) - 1 \in Nat
      /\ \A i \in 1..Len(calls) - 1 : Front(calls)[i] = calls[i]
      /\ Last(calls) = calls[Len(calls)] /\ Len(calls) \in 1..Len(calls)
  BY <1>1, SeqFront
<1>3. FrameOK(Last(calls), w, nodes)
  <2>1. FrameOK(calls[Len(calls)], w, nodes)
    BY <1>1, <1>2
  <2> QED BY <2>1, <1>2
<1>4. \A i \in 1..Len(Front(calls)) : FrameOK(Front(calls)[i], w, nodes)
  <2>1. TAKE i \in 1..Len(Front(calls))
  <2>2. i \in 1..Len(calls) /\ Front(calls)[i] = calls[i]
    BY <1>2
  <2>3. FrameOK(calls[i], w, nodes)
    BY <2>2, <1>1
  <2> QED BY <2>2, <2>3
<1> QED BY <1>2, <1>3, <1>4 DEF StackOK

LEMMA StackSet ==
  ASSUME NEW calls, NEW i \in 1..Len(calls), NEW f, NEW w, NEW nodes,
         StackOK(calls, w, nodes), FrameOK(f, w, nodes)
  PROVE  StackOK([calls EXCEPT ![i] = f], w, nodes) /\ Len([calls EXCEPT ![i] = f]) = Len(calls)
<1>1. IsSeq(calls) /\ i \in 1..Len(calls) /\ \A j \in 1..Len(calls) : FrameOK(calls[j], w, nodes)
  BY DEF StackOK
<1>2. /\ IsSeq([calls EXCEPT ![i] = f]) /\ Len([calls EXCEPT ![i] = f]) = Len(calls)
      /\ \A j \in 1..Len(calls) : [calls EXCEPT ![i] = f][j] = IF j = i THEN f ELSE calls[j]
  <2>1. PICK S : calls \in Seq(S)
    BY <1>1 DEF IsSeq
  <2>2. calls \in Seq(S \union {f}) /\ f \in S \union {f} /\ i \in 1..Len(calls)
    BY <2>1
  <2>3. [calls EXCEPT ![i] = f] \in Seq(S \union {f})
    BY <2>2, ExceptSeq
  <2>4. /\ Len([calls EXCEPT ![i] = f]) = Len(calls)
        /\ \A j \in 1..Len(calls) : [calls EXCEPT ![i] = f][j] = IF j = i THEN f ELSE calls[j]
    BY <2>2, ExceptSeq
  <2> QED BY <2>3, <2>4 DEF IsSeq
<1>3. \A j \in 1..Len(calls) : FrameOK([calls EXCEPT ![i] = f][j], w, nodes)
  <2>1. TAKE j \in 1..Len(calls)
  <2>2. CASE j = i
    <3>1. [calls EXCEPT ![i] = f][j] = f
      BY <2>2, <1>2
    <3> QED BY <3>1
  <2>3. CASE j # i
    <3>1. [calls EXCEPT ![i] = f][j] = calls[j] /\ FrameOK(calls[j], w, nodes)
      BY <2>3, <1>1, <1>2
    <3> QED BY <3>1
  <2> QED BY <2>2, <2>3
<1> QED BY <1>2, <1>3 DEF StackOK

-----------------------------------------------------------------------------
(* The steps *)

LEMMA EmptyStack == ASSUME NEW w, NEW nodes PROVE StackOK(<<>>, w, nodes) /\ Len(<<>>) = 0
<1>1. IsSeq(<<>>)
  <2>1. <<>> \in Seq({})
    BY EmptySeq
  <2> QED BY <2>1 DEF IsSeq
<1> QED BY <1>1 DEF StackOK

LEMMA InitFactoryInv == FactoryInit => FactoryInv
<1> SUFFICES ASSUME FactoryInit PROVE FactoryInv
  OBVIOUS
<1>1. heap = <<>> /\ steps = <<>> /\ stack = <<>> /\ stage \in Stages /\ step_executor \in BOOLEAN
  BY DEF FactoryInit, Stages
<1>2. StackOK(stack, step_executor, 1..Len(heap)) /\ Len(stack) = 0 /\ IsSeq(heap) /\ IsSeq(steps)
  BY <1>1, EmptyStack DEF StackOK
<1>3. Len(heap) = 0 /\ Len(steps) = 0 /\ DOMAIN heap = {}
  BY <1>1
<1>4. 0 <= RecursionLimit
  BY FactoryAssumption
<1> QED BY <1>1, <1>2, <1>3, <1>4 DEF FactoryInv, ResilienceEverywhere

\* A call that is made leaves the stack within the limit, or ends the build.
LEMMA CallKeeps ==
  ASSUME FactoryInv, stage = "building", NEW outer, NEW child,
         StackOK(outer, step_executor, 1..Len(heap)), Len(outer) <= RecursionLimit,
         Call(outer, child, step_executor)
  PROVE  FactoryInv'
<1> DEFINE frame == [step |-> child.step, role |-> child.role, wraps |-> step_executor,
                     todo |-> Children(child.step), done |-> <<>>]
<1>1. UNCHANGED <<config, step_executor, heap, steps>>
  BY DEF Call
<1>2. stage' \in Stages
  BY DEF Call, Stages, Errors
<1>3. /\ stage' # stage => stack' = stack
      /\ stage' = stage => stack' = Append(outer, frame) /\ Len(outer) # RecursionLimit
  BY DEF Call
<1>4. StackOK(stack', step_executor, 1..Len(heap)) /\ Len(stack') <= RecursionLimit
  <2>1. CASE stage' # stage
    BY <2>1, <1>3 DEF FactoryInv
  <2>2. CASE stage' = stage
    <3>1. Delivered(<<>>, 1..Len(heap))
      BY EmptyStack DEF StackOK, Delivered
    <3>2. frame.done = <<>>
      OBVIOUS
    <3>3. FrameOK(frame, step_executor, 1..Len(heap))
      BY <3>1, <3>2 DEF FrameOK
    <3>4. /\ StackOK(Append(outer, frame), step_executor, 1..Len(heap))
          /\ Len(Append(outer, frame)) = Len(outer) + 1
      BY <3>3, StackPush
    <3>5. Len(outer) \in Nat
      BY SeqFacts DEF StackOK
    <3>6. Len(outer) + 1 <= RecursionLimit
      BY <3>5, <2>2, <1>3, FactoryAssumption
    <3> HIDE DEF frame
    <3> QED BY <3>4, <3>6, <2>2, <1>3
  <2> QED BY <2>1, <2>2
<1> HIDE DEF frame
<1>5. IsSeq(steps') /\ \A i \in 1..Len(steps') : steps'[i] \in 1..Len(heap')
  BY <1>1 DEF FactoryInv
<1>6. ResilienceEverywhere'
  BY <1>1 DEF FactoryInv, ResilienceEverywhere
<1> QED BY <1>1, <1>2, <1>4, <1>5, <1>6 DEF FactoryInv

LEMMA BuildTopKeeps == FactoryInv /\ BuildTop => FactoryInv'
<1> SUFFICES ASSUME FactoryInv, BuildTop PROVE FactoryInv'
  OBVIOUS
<1> DEFINE child == [step |-> config[Len(steps) + 1], role |-> "top"]
<1>1. stage = "building" /\ Call(<<>>, child, step_executor)
  BY DEF BuildTop
<1>2. StackOK(<<>>, step_executor, 1..Len(heap)) /\ Len(<<>>) = 0
  BY EmptyStack
<1>3. Len(<<>>) <= RecursionLimit
  BY <1>2, FactoryAssumption
<1> HIDE DEF child
<1> QED BY <1>1, <1>2, <1>3, CallKeeps

\* The caller goes on to its next child, and passes its executor on.
LEMMA BuildChildKeeps == FactoryInv /\ BuildChild => FactoryInv'
<1> SUFFICES ASSUME FactoryInv, BuildChild PROVE FactoryInv'
  OBVIOUS
<1> DEFINE call == Last(stack)
           advanced == [call EXCEPT !.todo = Tail(@)]
           outer == Append(Front(stack), advanced)
           child == Head(call.todo)
<1>1. stage = "building" /\ stack # <<>> /\ Call(outer, child, call.wraps)
  BY DEF BuildChild
<1>2. /\ StackOK(Front(stack), step_executor, 1..Len(heap))
      /\ FrameOK(call, step_executor, 1..Len(heap)) /\ Len(Front(stack)) = Len(stack) - 1
  BY <1>1, StackPop DEF FactoryInv
<1>3. PICK s, r, t, d : call = [step |-> s, role |-> r, wraps |-> step_executor,
                                todo |-> t, done |-> d]
  BY <1>2 DEF FrameOK
<1>4. FrameOK(advanced, step_executor, 1..Len(heap)) /\ call.wraps = step_executor
  <2>1. call.wraps = step_executor /\ call.done = d
    BY <1>3
  <2>2. PICK x : x = Tail(call.todo)
    OBVIOUS
  <2>3. advanced = [call EXCEPT !.todo = x]
    BY <2>2
  <2> HIDE DEF call, advanced
  <2>4. advanced = [step |-> s, role |-> r, wraps |-> step_executor, todo |-> x, done |-> d]
    BY <1>3, <2>3, SetTodo
  <2>5. advanced.done = d
    BY <2>4
  <2>6. Delivered(advanced.done, 1..Len(heap))
    BY <2>5, <2>1, <1>2 DEF FrameOK
  <2> QED BY <2>1, <2>4, <2>6 DEF FrameOK
<1> HIDE DEF call, advanced
<1>5. /\ StackOK(outer, step_executor, 1..Len(heap))
      /\ Len(outer) = Len(Front(stack)) + 1
  BY <1>2, <1>4, StackPush
<1>6. Len(stack) \in Nat /\ Len(stack) <= RecursionLimit
  BY SeqFacts DEF FactoryInv, StackOK
<1> HIDE DEF outer, child
<1>7. Len(outer) <= RecursionLimit
  BY <1>5, <1>2, <1>6
<1>8. Call(outer, child, step_executor)
  BY <1>1, <1>4
<1> QED BY <1>1, <1>5, <1>7, <1>8, CallKeeps

\* The primitive is wrapped as its call was told to, and is delivered to the call
\* that is now the innermost.
LEMMA FinishKeeps == FactoryInv /\ Finish => FactoryInv'
<1> SUFFICES ASSUME FactoryInv, Finish PROVE FactoryInv'
  OBVIOUS
<1> DEFINE call == Last(stack)
           outer == Front(stack)
           primitive == [step |-> call.step, name |-> Name(outer, call),
                         children |-> call.done,
                         wrapped |-> call.wraps /\ RunsFunction(call.step)]
<1>1. /\ stage = "building" /\ stack # <<>> /\ UNCHANGED <<config, step_executor>>
      /\ IF Refusal(call.step) # "none"
           THEN stage' = Refusal(call.step) /\ UNCHANGED <<stack, heap, steps>>
           ELSE /\ heap' = Append(heap, primitive)
                /\ Deliver(outer, call.role, Len(heap'))
                /\ UNCHANGED stage
  BY DEF Finish
<1>2. /\ StackOK(outer, step_executor, 1..Len(heap))
      /\ FrameOK(call, step_executor, 1..Len(heap)) /\ Len(outer) = Len(stack) - 1
  BY <1>1, StackPop DEF FactoryInv
<1>3. call.wraps = step_executor
  BY <1>2 DEF FrameOK
<1>4. /\ primitive.step = call.step
      /\ primitive.wrapped = (step_executor /\ RunsFunction(call.step))
  BY <1>3
<1> HIDE DEF call, outer, primitive
<1>5. CASE Refusal(call.step) # "none"
  <2>1. stage' = Refusal(call.step) /\ UNCHANGED <<stack, heap, steps, step_executor>>
    BY <1>1, <1>5
  <2>2. Refusal(call.step) \in Stages
    BY <1>5 DEF Refusal, Stages, Errors
  <2> QED BY <2>1, <2>2 DEF FactoryInv, ResilienceEverywhere
<1>6. CASE Refusal(call.step) = "none"
  <2>1. /\ heap' = Append(heap, primitive) /\ Deliver(outer, call.role, Len(heap'))
        /\ UNCHANGED stage
    BY <1>1, <1>6
  <2>2. /\ IsSeq(heap') /\ Len(heap') = Len(heap) + 1 /\ Len(heap) \in Nat
        /\ \A n \in 1..Len(heap) : heap'[n] = heap[n]
        /\ heap'[Len(heap) + 1] = primitive
    BY <2>1, SeqAppend, SeqFacts DEF FactoryInv
  <2>3. Len(heap) <= Len(heap') /\ Len(heap') \in 1..Len(heap') /\ Len(heap') \in Nat
    BY <2>2
  <2>4. StackOK(outer, step_executor, 1..Len(heap'))
    BY <1>2, <2>2, <2>3, StackMore
  <2>5. /\ Len(outer) <= RecursionLimit
        /\ Len(outer) \in Nat
    BY <1>2, SeqFacts, FactoryAssumption DEF FactoryInv, StackOK
  <2>6. /\ StackOK(stack', step_executor, 1..Len(heap')) /\ Len(stack') = Len(outer)
        /\ IsSeq(steps') /\ \A i \in 1..Len(steps') : steps'[i] \in 1..Len(heap')
    <3>1. IsSeq(steps) /\ \A i \in 1..Len(steps) : steps[i] \in 1..Len(heap)
      BY DEF FactoryInv
    <3>2. CASE outer = <<>>
      <4>1. steps' = Append(steps, Len(heap')) /\ stack' = outer
        BY <2>1, <3>2 DEF Deliver
      <4>2. /\ IsSeq(steps') /\ Len(steps') = Len(steps) + 1 /\ Len(steps) \in Nat
            /\ \A i \in 1..Len(steps) : steps'[i] = steps[i]
            /\ steps'[Len(steps) + 1] = Len(heap')
        BY <4>1, <3>1, SeqAppend, SeqFacts
      <4>3. ASSUME NEW i \in 1..Len(steps')
            PROVE  steps'[i] \in 1..Len(heap')
        <5>1. i \in 1..Len(steps) \/ i = Len(steps) + 1
          BY <4>2, <4>3
        <5> QED BY <5>1, <4>2, <3>1, <2>2, <2>3
      <4> QED BY <4>1, <4>2, <4>3, <2>4
    <3>3. CASE outer # <<>>
      <4> DEFINE back == [role |-> call.role, node |-> Len(heap')]
                 last == outer[Len(outer)]
                 caller == [last EXCEPT !.done = Append(@, back)]
      <4>1. stack' = [outer EXCEPT ![Len(outer)] = caller] /\ UNCHANGED steps
        BY <2>1, <3>3 DEF Deliver
      <4>2. Len(outer) \in 1..Len(outer)
        BY <3>3, <1>2, SeqFacts DEF StackOK
      <4>3. FrameOK(last, step_executor, 1..Len(heap'))
        BY <4>2, <2>4 DEF StackOK
      <4>4. FrameOK(caller, step_executor, 1..Len(heap'))
        <5>1. PICK s, r, t, d : last = [step |-> s, role |-> r, wraps |-> step_executor,
                                        todo |-> t, done |-> d]
          BY <4>3 DEF FrameOK
        <5>2. IsSeq(d) /\ \A j \in 1..Len(d) : d[j].node \in 1..Len(heap')
          BY <4>3, <5>1 DEF FrameOK, Delivered
        <5>3. caller = [step |-> s, role |-> r, wraps |-> step_executor,
                        todo |-> t, done |-> Append(d, back)]
          <6>1. last.done = d
            BY <5>1
          <6> HIDE DEF last, back
          <6>2. caller = [last EXCEPT !.done = Append(d, back)]
            BY <6>1
          <6> HIDE DEF caller
          <6> QED BY <5>1, <6>2, SetDone
        <5>4. /\ IsSeq(Append(d, back)) /\ Len(Append(d, back)) = Len(d) + 1 /\ Len(d) \in Nat
              /\ \A j \in 1..Len(d) : Append(d, back)[j] = d[j]
              /\ Append(d, back)[Len(d) + 1] = back
          BY <5>2, SeqAppend, SeqFacts
        <5>5. back.node \in 1..Len(heap')
          BY <2>3
        <5>6. ASSUME NEW j \in 1..Len(Append(d, back))
              PROVE  Append(d, back)[j].node \in 1..Len(heap')
          <6>1. j \in 1..Len(d) \/ j = Len(d) + 1
            BY <5>4, <5>6
          <6> QED BY <6>1, <5>2, <5>4, <5>5
        <5>7. Delivered(Append(d, back), 1..Len(heap'))
          BY <5>4, <5>6 DEF Delivered
        <5>8. caller.done = Append(d, back)
          BY <5>3
        <5> QED BY <5>3, <5>7, <5>8 DEF FrameOK
      <4> HIDE DEF caller, last
      <4>5. /\ StackOK(stack', step_executor, 1..Len(heap')) /\ Len(stack') = Len(outer)
        BY <4>1, <4>2, <4>4, <2>4, StackSet
      <4>6. \A i \in 1..Len(steps) : steps[i] \in 1..Len(heap')
        BY <3>1, <2>2
      <4> QED BY <4>1, <4>5, <4>6, <3>1
    <3> QED BY <3>2, <3>3
  <2>7. ResilienceEverywhere'
    <3>1. DOMAIN heap = 1..Len(heap) /\ DOMAIN heap' = 1..Len(heap')
      BY <2>2, SeqFacts DEF FactoryInv
    <3>2. ASSUME NEW n \in DOMAIN heap'
          PROVE  heap'[n].wrapped <=> step_executor /\ RunsFunction(heap'[n].step)
      <4>1. n \in 1..Len(heap) \/ n = Len(heap) + 1
        BY <3>1, <2>2
      <4>2. CASE n \in 1..Len(heap)
        <5>1. heap'[n] = heap[n]
          BY <4>2, <2>2
        <5>2. heap[n].wrapped <=> step_executor /\ RunsFunction(heap[n].step)
          BY <4>2, <3>1 DEF FactoryInv, ResilienceEverywhere
        <5> QED BY <5>1, <5>2
      <4>3. CASE n = Len(heap) + 1
        <5>1. heap'[n] = primitive
          BY <4>3, <2>2
        <5> QED BY <5>1, <1>4
      <4> QED BY <4>1, <4>2, <4>3
    <3> QED BY <3>2, <1>1 DEF ResilienceEverywhere
  <2> QED BY <2>1, <2>2, <2>5, <2>6, <2>7, <1>1 DEF FactoryInv
<1> QED BY <1>5, <1>6

LEMMA NextFactoryInv == FactoryInv /\ [FactoryNext]_factoryVars => FactoryInv'
<1> SUFFICES ASSUME FactoryInv, [FactoryNext]_factoryVars PROVE FactoryInv'
  OBVIOUS
<1>1. CASE Validate
  <2>1. stage' \in Stages /\ UNCHANGED <<step_executor, stack, heap, steps>>
    BY <1>1 DEF Validate, Stages, Errors
  <2> QED BY <2>1 DEF FactoryInv, ResilienceEverywhere
<1>2. CASE BuildTop
  BY <1>2, BuildTopKeeps
<1>3. CASE BuildChild
  BY <1>3, BuildChildKeeps
<1>4. CASE Finish
  BY <1>4, FinishKeeps
<1>5. CASE Built
  <2>1. stage' \in Stages /\ UNCHANGED <<step_executor, stack, heap, steps>>
    BY <1>5 DEF Built, Stages
  <2> QED BY <2>1 DEF FactoryInv, ResilienceEverywhere
<1>6. CASE UNCHANGED factoryVars
  BY <1>6 DEF factoryVars, FactoryInv, ResilienceEverywhere
<1> QED BY <1>1, <1>2, <1>3, <1>4, <1>5, <1>6 DEF FactoryNext

LEMMA SpecFactoryInv == FactorySpec => []FactoryInv
BY InitFactoryInv, NextFactoryInv, PTL DEF FactorySpec

-----------------------------------------------------------------------------
(* The theorems *)

\* Whatever the configuration, however its steps nest and however often one is
\* shared, _build_step stays within the recursion limit, and no Condition, Router
\* or group refers to a primitive that was not built.
THEOREM FactoryTyped == FactorySpec => []FactoryTypeOK
<1>1. FactoryInv => FactoryTypeOK
  <2> SUFFICES ASSUME FactoryInv PROVE FactoryTypeOK
    OBVIOUS
  <2>1. /\ DOMAIN heap = 1..Len(heap) /\ DOMAIN steps = 1..Len(steps)
        /\ DOMAIN stack = 1..Len(stack)
    BY SeqFacts DEF FactoryInv, StackOK
  <2>2. \A i \in DOMAIN steps : steps[i] \in DOMAIN heap
    BY <2>1 DEF FactoryInv
  <2>3. ASSUME NEW i \in DOMAIN stack, NEW j \in DOMAIN stack[i].done
        PROVE  stack[i].done[j].node \in DOMAIN heap
    <3>1. IsSeq(stack[i].done)
          /\ \A k \in 1..Len(stack[i].done) : stack[i].done[k].node \in 1..Len(heap)
      BY <2>1, <2>3 DEF FactoryInv, StackOK, FrameOK, Delivered
    <3>2. DOMAIN stack[i].done = 1..Len(stack[i].done)
      BY <3>1, SeqFacts
    <3> QED BY <3>1, <3>2, <2>1, <2>3
  <2> QED BY <2>2, <2>3 DEF FactoryInv, FactoryTypeOK
<1> QED BY <1>1, SpecFactoryInv, PTL

\* The StepExecutor reaches every function-executor step of the tree, through
\* every branch, case and nested group, and wraps no other step.
THEOREM ResilienceReachesAll == FactorySpec => []ResilienceEverywhere
<1>1. FactoryInv => ResilienceEverywhere
  BY DEF FactoryInv
<1> QED BY <1>1, SpecFactoryInv, PTL

-----------------------------------------------------------------------------
(* The shape of the tree: the invariant *)

ChildrenOf == [s \in StepConfigs |-> Children(s)]

IsBuilt(nodes, node, s, name) == nodes[node].step = s /\ nodes[node].name = name

\* What a Router builds is named by its case, what anybody else builds by its id.
NameOf(s, child) == IF s.type = "Router" THEN child.role ELSE child.step.step

\* done is what the first children of s have become.
Returned(nodes, of, s, done) ==
  /\ IsSeq(done) /\ Len(done) <= Len(of[s])
  /\ \A j \in 1..Len(done) :
       /\ done[j].role = of[s][j].role
       /\ IsBuilt(nodes, done[j].node, of[s][j].step, NameOf(s, of[s][j]))

\* A frame has returned its first children, has open ones on the stack and the
\* rest of them to do.
FrameFollows(nodes, of, f, open) ==
  /\ f.step \in StepConfigs /\ StepConfigValid(f.step)
  /\ Returned(nodes, of, f.step, f.done)
  /\ IsSeq(f.todo) /\ Len(f.todo) = Len(of[f.step]) - Len(f.done) - open
  /\ \A j \in 1..Len(f.todo) : f.todo[j] = of[f.step][Len(f.done) + open + j]

\* A call is of the child its caller is at.
CalledBy(of, child, caller) ==
  LET at == Len(caller.done) + 1
  IN  at <= Len(of[caller.step])
      /\ child.step = of[caller.step][at].step /\ child.role = of[caller.step][at].role

StackFollows(nodes, of, calls, open) ==
  /\ \A i \in 1..Len(calls) : FrameFollows(nodes, of, calls[i], IF i = Len(calls) THEN open ELSE 1)
  /\ \A i \in 1..Len(calls) - 1 : CalledBy(of, calls[i + 1], calls[i])

\* The outermost call is of the top-level step the build is at.
AtTop(calls, list, built) ==
  Len(calls) >= 1 => Len(built) < Len(list) /\ calls[1].step = list[Len(built) + 1]

\* A primitive holds all of its children, which were built before it.
NodeFollows(nodes, of, n) ==
  LET s == nodes[n].step
      children == nodes[n].children
  IN  /\ s \in StepConfigs /\ StepConfigValid(s)
      /\ Returned(nodes, of, s, children) /\ Len(children) = Len(of[s])
      /\ \A j \in 1..Len(children) : children[j].node \in 1..n - 1

TopFollows(nodes, list, built) ==
  /\ Len(built) <= Len(list)
  /\ \A i \in 1..Len(built) : IsBuilt(nodes, built[i], list[i], list[i].step)

TreeInv ==
  /\ config \in Seq(StepConfigs)
  /\ stage \in {"building", "built"} =>
       \A i \in 1..Len(config) : StepConfigValid(config[i])
  /\ TopFollows(heap, config, steps)
  /\ \A n \in 1..Len(heap) : NodeFollows(heap, ChildrenOf, n)
  /\ StackFollows(heap, ChildrenOf, stack, 0)
  /\ AtTop(stack, config, steps)
  /\ stage = "built" => Len(steps) = Len(config)

-----------------------------------------------------------------------------
(* The children of a step *)

LEMMA Candidates ==
  ASSUME NEW s \in StepConfigs
  PROVE  /\ s.steps \in Seq(StepConfigs)
         /\ s.cases \in Seq({[key |-> c.key, ref |-> c.ref] : c \in ToSet(s.cases)})
  BY FactoryAssumption

LEMMA IndexFacts ==
  ASSUME config \in Seq(StepConfigs), NEW ref \in StepIds
  PROVE  /\ step_index[ref] \in StepConfigs /\ step_index[ref].step = ref
         /\ \E i \in 1..Len(config) : step_index[ref] = config[i]
<1>1. DOMAIN config = 1..Len(config) /\ \A i \in 1..Len(config) : config[i] \in StepConfigs
  OBVIOUS
<1>2. \E i \in DOMAIN config : config[i].step = ref
  BY DEF StepIds
<1> DEFINE at == CHOOSE i \in DOMAIN config : config[i].step = ref
<1>3. at \in DOMAIN config /\ config[at].step = ref
  BY <1>2
<1>4. step_index[ref] = config[at]
  BY DEF step_index
<1> QED BY <1>1, <1>3, <1>4

\* A child is a candidate, and is either nested or a step of the workflow.
IsChild(child) ==
  /\ child.step \in StepConfigs
  /\ child.role = "nested" \/ \E i \in 1..Len(config) : child.step = config[i]

LEMMA BranchFacts ==
  ASSUME config \in Seq(StepConfigs), NEW roles, NEW role \in roles, NEW ref
  PROVE  /\ Branch(ref, role) \in Seq([step : StepConfigs, role : roles])
         /\ \A e : e \in ToSet(Branch(ref, role)) =>
              /\ ref \in StepIds /\ IsChild(e)
              /\ e = [step |-> step_index[ref], role |-> role] /\ e.step.step = ref
         /\ ref \in StepIds =>
              [step |-> step_index[ref], role |-> role] \in ToSet(Branch(ref, role))
<1> DEFINE e0 == [step |-> step_index[ref], role |-> role]
<1>1. CASE ref \notin StepIds
  <2>1. Branch(ref, role) = <<>>
    BY <1>1 DEF Branch
  <2>2. ToSet(<<>>) = {}
    BY DEF ToSet
  <2> QED BY <1>1, <2>1, <2>2
<1>2. CASE ref \in StepIds
  <2>1. Branch(ref, role) = <<e0>>
    BY <1>2 DEF Branch
  <2>2. /\ step_index[ref] \in StepConfigs /\ step_index[ref].step = ref
        /\ \E i \in 1..Len(config) : step_index[ref] = config[i]
    BY <1>2, IndexFacts
  <2>3. e0 \in [step : StepConfigs, role : roles] /\ e0.step = step_index[ref]
    BY <2>2
  <2>4. IsChild(e0) /\ e0.step.step = ref
    BY <2>2, <2>3 DEF IsChild
  <2> HIDE DEF e0
  <2>5. ToSet(<<e0>>) = {e0}
    BY DEF ToSet
  <2>6. <<e0>> \in Seq([step : StepConfigs, role : roles])
    BY <2>3
  <2> QED BY <1>2, <2>1, <2>4, <2>5, <2>6 DEF e0
<1> QED BY <1>1, <1>2

\* A Router builds a step for every case whose reference is in the index.
LEMMA CaseFacts ==
  ASSUME config \in Seq(StepConfigs), NEW s \in StepConfigs
  PROVE  /\ IsSeq(CaseSteps(s))
         /\ \A e \in ToSet(CaseSteps(s)) : IsChild(e)
         /\ \A e : e \in ToSet(CaseSteps(s)) <=>
              \E i \in 1..Len(s.cases) : /\ s.cases[i].ref \in StepIds
                                         /\ e = [step |-> step_index[s.cases[i].ref], role |-> s.cases[i].key]
         /\ \A e \in ToSet(CaseSteps(s)) : \A i \in 1..Len(s.cases) :
              e = [step |-> step_index[s.cases[i].ref], role |-> s.cases[i].key]
                /\ s.cases[i].ref \in StepIds
                => e.role = s.cases[i].key /\ e.step.step = s.cases[i].ref
<1> DEFINE cs == s.cases
           roles == {cs[i].key : i \in 1..Len(cs)}
           A == [step : StepConfigs, role : roles]
           ps == [i \in DOMAIN cs |-> Branch(cs[i].ref, cs[i].key)]
           E(i) == [step |-> step_index[cs[i].ref], role |-> cs[i].key]
<1>1. Len(cs) \in Nat /\ DOMAIN cs = 1..Len(cs)
  BY Candidates
<1>2. CaseSteps(s) = FlattenSeq(ps)
  BY DEF CaseSteps
<1> HIDE DEF cs
<1>3. ASSUME NEW i \in 1..Len(cs)
      PROVE  /\ Branch(cs[i].ref, cs[i].key) \in Seq(A)
             /\ \A e : e \in ToSet(Branch(cs[i].ref, cs[i].key)) =>
                  cs[i].ref \in StepIds /\ IsChild(e) /\ e = E(i) /\ e.step.step = cs[i].ref
             /\ cs[i].ref \in StepIds => E(i) \in ToSet(Branch(cs[i].ref, cs[i].key))
  <2>1. cs[i].key \in roles
    OBVIOUS
  <2> HIDE DEF roles
  <2>2. /\ Branch(cs[i].ref, cs[i].key) \in Seq([step : StepConfigs, role : roles])
        /\ \A e : e \in ToSet(Branch(cs[i].ref, cs[i].key)) =>
             /\ cs[i].ref \in StepIds /\ IsChild(e)
             /\ e = [step |-> step_index[cs[i].ref], role |-> cs[i].key] /\ e.step.step = cs[i].ref
        /\ cs[i].ref \in StepIds =>
             [step |-> step_index[cs[i].ref], role |-> cs[i].key] \in ToSet(Branch(cs[i].ref, cs[i].key))
    BY <2>1, Zenon, BranchFacts
  <2> QED BY <2>2
<1>4. ps \in Seq(Seq(A)) /\ Len(ps) = Len(cs) /\ \A i \in 1..Len(cs) : ps[i] = Branch(cs[i].ref, cs[i].key)
  <2>1. ps = [i \in 1..Len(cs) |-> Branch(cs[i].ref, cs[i].key)]
    BY <1>1
  <2> HIDE DEF ps, A
  <2>2. ps \in [1..Len(cs) -> Seq(A)]
    BY <1>3, <2>1
  <2> QED BY <1>1, <2>1, <2>2
<1> HIDE DEF ps, A, roles
<1>5. /\ FlattenSeq(ps) \in Seq(A)
      /\ \A e : e \in ToSet(FlattenSeq(ps)) <=> \E i \in 1..Len(ps) : e \in ToSet(ps[i])
  BY <1>4, FlattenMembers
<1>6. IsSeq(CaseSteps(s))
  BY <1>2, <1>5 DEF IsSeq
<1> HIDE DEF E
<1>7. \A e : e \in ToSet(CaseSteps(s)) <=> \E i \in 1..Len(cs) : cs[i].ref \in StepIds /\ e = E(i)
  <2> SUFFICES ASSUME NEW e
               PROVE  e \in ToSet(CaseSteps(s)) <=> \E i \in 1..Len(cs) : cs[i].ref \in StepIds /\ e = E(i)
    OBVIOUS
  <2>1. e \in ToSet(CaseSteps(s)) <=> \E i \in 1..Len(cs) : e \in ToSet(Branch(cs[i].ref, cs[i].key))
    BY <1>2, <1>4, <1>5
  <2>2. \A i \in 1..Len(cs) : e \in ToSet(Branch(cs[i].ref, cs[i].key)) <=> cs[i].ref \in StepIds /\ e = E(i)
    BY <1>3
  <2> QED BY <2>1, <2>2
<1>8. \A e \in ToSet(CaseSteps(s)) : IsChild(e)
  BY <1>2, <1>3, <1>4, <1>5
<1>9. \A i \in 1..Len(cs) : cs[i].ref \in StepIds => E(i).role = cs[i].key /\ E(i).step.step = cs[i].ref
  BY <1>3 DEF E
<1> QED BY <1>6, <1>7, <1>8, <1>9 DEF cs, E

\* A Condition builds its branches.
LEMMA BranchesFacts ==
  ASSUME config \in Seq(StepConfigs), NEW s \in StepConfigs
  PROVE  /\ IsSeq(BranchSteps(s))
         /\ \A e \in ToSet(BranchSteps(s)) : IsChild(e)
         /\ \A e : e \in ToSet(BranchSteps(s)) <=>
              \/ s.if_true \in StepIds /\ e = [step |-> step_index[s.if_true], role |-> "then"]
              \/ s.if_false \in StepIds /\ e = [step |-> step_index[s.if_false], role |-> "else"]
<1> DEFINE roles == {"then", "else"}
           A == [step : StepConfigs, role : roles]
           ps == <<Branch(s.if_true, "then"), Branch(s.if_false, "else")>>
           t == Branch(s.if_true, "then")
           u == Branch(s.if_false, "else")
<1>1. "then" \in roles /\ "else" \in roles
  OBVIOUS
<1> HIDE DEF roles
<1>2a. /\ Branch(s.if_true, "then") \in Seq([step : StepConfigs, role : roles])
       /\ \A e : e \in ToSet(Branch(s.if_true, "then")) =>
            /\ s.if_true \in StepIds /\ IsChild(e)
            /\ e = [step |-> step_index[s.if_true], role |-> "then"] /\ e.step.step = s.if_true
       /\ s.if_true \in StepIds =>
            [step |-> step_index[s.if_true], role |-> "then"] \in ToSet(Branch(s.if_true, "then"))
  BY <1>1, Zenon, BranchFacts
<1>2. /\ t \in Seq(A)
      /\ \A e : e \in ToSet(t) =>
           s.if_true \in StepIds /\ IsChild(e) /\ e = [step |-> step_index[s.if_true], role |-> "then"]
      /\ s.if_true \in StepIds => [step |-> step_index[s.if_true], role |-> "then"] \in ToSet(t)
  BY <1>2a
<1>3a. /\ Branch(s.if_false, "else") \in Seq([step : StepConfigs, role : roles])
       /\ \A e : e \in ToSet(Branch(s.if_false, "else")) =>
            /\ s.if_false \in StepIds /\ IsChild(e)
            /\ e = [step |-> step_index[s.if_false], role |-> "else"] /\ e.step.step = s.if_false
       /\ s.if_false \in StepIds =>
            [step |-> step_index[s.if_false], role |-> "else"] \in ToSet(Branch(s.if_false, "else"))
  BY <1>1, Zenon, BranchFacts
<1>3. /\ u \in Seq(A)
      /\ \A e : e \in ToSet(u) =>
           s.if_false \in StepIds /\ IsChild(e) /\ e = [step |-> step_index[s.if_false], role |-> "else"]
      /\ s.if_false \in StepIds => [step |-> step_index[s.if_false], role |-> "else"] \in ToSet(u)
  BY <1>3a
<1>4. BranchSteps(s) = t \o u
  BY DEF BranchSteps
<1> HIDE DEF t, u, A
<1>5. t \o u \in Seq(A) /\ ToSet(t \o u) = ToSet(t) \union ToSet(u)
  BY <1>2, <1>3, ConcatMembers
<1>6. IsSeq(BranchSteps(s))
  BY <1>4, <1>5 DEF IsSeq
<1> QED BY <1>2, <1>3, <1>4, <1>5, <1>6

\* A group builds its nested steps.
LEMMA NestedFacts ==
  ASSUME NEW s \in StepConfigs
  PROVE  /\ IsSeq(NestedSteps(s)) /\ Len(NestedSteps(s)) = Len(s.steps)
         /\ \A i \in 1..Len(s.steps) : /\ NestedSteps(s)[i].step = s.steps[i]
                                       /\ NestedSteps(s)[i].role = "nested"
                                       /\ s.steps[i] \in StepConfigs
<1>1. /\ DOMAIN s.steps = 1..Len(s.steps) /\ Len(s.steps) \in Nat
      /\ \A i \in 1..Len(s.steps) : s.steps[i] \in StepConfigs
  <2>1. PICK q \in Seq(StepConfigs) : q = s.steps
    BY Candidates
  <2>2. DOMAIN q = 1..Len(q) /\ Len(q) \in Nat /\ \A i \in 1..Len(q) : q[i] \in StepConfigs
    OBVIOUS
  <2> QED BY <2>1, <2>2
<1> DEFINE E(i) == [step |-> s.steps[i], role |-> "nested"]
           A == {E(i) : i \in 1..Len(s.steps)}
           ns == NestedSteps(s)
<1>2. ns = [i \in 1..Len(s.steps) |-> E(i)]
  BY <1>1 DEF NestedSteps
<1>3. \A i \in 1..Len(s.steps) : E(i) \in A /\ E(i).step = s.steps[i] /\ E(i).role = "nested"
  OBVIOUS
<1> HIDE DEF E, A, ns
<1>4. ns \in [1..Len(s.steps) -> A]
  BY <1>2, <1>3
<1>5. ns \in Seq(A) /\ Len(ns) = Len(s.steps)
  BY <1>1, <1>4
<1> QED BY <1>1, <1>2, <1>3, <1>5 DEF IsSeq, ns

LEMMA ChildrenFacts ==
  ASSUME config \in Seq(StepConfigs), NEW s \in StepConfigs
  PROVE  /\ ChildrenOf[s] = Children(s) /\ IsSeq(Children(s)) /\ Len(Children(s)) \in Nat
         /\ \A j \in 1..Len(Children(s)) : IsChild(Children(s)[j])
<1>1. ChildrenOf[s] = Children(s)
  BY DEF ChildrenOf
<1>2. /\ s.type = "Condition" => Children(s) = BranchSteps(s)
      /\ s.type = "Router" => Children(s) = CaseSteps(s)
      /\ s.type # "Condition" /\ s.type # "Router" => Children(s) = NestedSteps(s)
  BY DEF Children
<1>3. CASE s.type = "Condition"
  <2>1. IsSeq(BranchSteps(s)) /\ \A e \in ToSet(BranchSteps(s)) : IsChild(e)
    BY BranchesFacts
  <2>2. DOMAIN BranchSteps(s) = 1..Len(BranchSteps(s)) /\ Len(BranchSteps(s)) \in Nat
    BY <2>1, SeqFacts
  <2> QED BY <1>1, <1>2, <1>3, <2>1, <2>2 DEF ToSet
<1>4. CASE s.type = "Router"
  <2>1. IsSeq(CaseSteps(s)) /\ \A e \in ToSet(CaseSteps(s)) : IsChild(e)
    BY CaseFacts
  <2>2. DOMAIN CaseSteps(s) = 1..Len(CaseSteps(s)) /\ Len(CaseSteps(s)) \in Nat
    BY <2>1, SeqFacts
  <2>3. Children(s) = CaseSteps(s)
    BY <1>2, <1>4
  <2> QED BY <1>1, <2>1, <2>2, <2>3 DEF ToSet
<1>5. CASE s.type # "Condition" /\ s.type # "Router"
  <2>1. IsSeq(NestedSteps(s)) /\ Len(NestedSteps(s)) = Len(s.steps)
        /\ \A i \in 1..Len(s.steps) : /\ NestedSteps(s)[i].step = s.steps[i]
                                      /\ NestedSteps(s)[i].role = "nested"
                                      /\ s.steps[i] \in StepConfigs
    BY NestedFacts
  <2>2. Len(NestedSteps(s)) \in Nat
    BY <2>1, SeqFacts
  <2>3. Children(s) = NestedSteps(s)
    BY <1>2, <1>5
  <2> QED BY <1>1, <2>1, <2>2, <2>3 DEF IsChild
<1> QED BY <1>3, <1>4, <1>5
-----------------------------------------------------------------------------
(* The shape of the tree: what a step leaves alone *)

\* More primitives change nothing of those that are there.
LEMMA StillReturned ==
  ASSUME NEW nodes, NEW more, NEW m, \A n \in 1..m : more[n] = nodes[n],
         NEW of, NEW s, NEW done, Delivered(done, 1..m), Returned(nodes, of, s, done)
  PROVE  Returned(more, of, s, done)
  BY DEF Delivered, Returned, IsBuilt

LEMMA StillFollows ==
  ASSUME NEW nodes, NEW more, NEW m, \A n \in 1..m : more[n] = nodes[n],
         NEW of, NEW calls, NEW w, NEW open,
         StackOK(calls, w, 1..m), StackFollows(nodes, of, calls, open)
  PROVE  StackFollows(more, of, calls, open)
<1>1. ASSUME NEW i \in 1..Len(calls)
      PROVE  FrameFollows(more, of, calls[i], IF i = Len(calls) THEN open ELSE 1)
  <2> DEFINE f == calls[i]
             o == IF i = Len(calls) THEN open ELSE 1
  <2>1. Delivered(f.done, 1..m) /\ FrameFollows(nodes, of, f, o)
    BY DEF StackOK, FrameOK, StackFollows
  <2> HIDE DEF f, o
  <2>2. Returned(more, of, f.step, f.done)
    BY <2>1, StillReturned DEF FrameFollows
  <2>3. FrameFollows(more, of, f, o)
    BY <2>1, <2>2 DEF FrameFollows
  <2> QED BY <2>3 DEF f, o
<1> QED BY <1>1 DEF StackFollows

LEMMA PushFollows ==
  ASSUME NEW nodes, NEW of, NEW calls, NEW f, NEW open, IsSeq(calls),
         StackFollows(nodes, of, calls, 1), FrameFollows(nodes, of, f, open),
         Len(calls) >= 1 => CalledBy(of, f, calls[Len(calls)])
  PROVE  StackFollows(nodes, of, Append(calls, f), open)
<1> DEFINE more == Append(calls, f)
<1>1. /\ Len(calls) \in Nat /\ Len(more) = Len(calls) + 1
      /\ \A i \in 1..Len(calls) : more[i] = calls[i]
      /\ more[Len(calls) + 1] = f
  BY SeqFacts, SeqAppend
<1> HIDE DEF more
<1>2. ASSUME NEW i \in 1..Len(more)
      PROVE  FrameFollows(nodes, of, more[i], IF i = Len(more) THEN open ELSE 1)
  <2>1. i \in 1..Len(calls) \/ i = Len(calls) + 1
    BY <1>1
  <2>2. CASE i \in 1..Len(calls)
    <3>1. i # Len(more) /\ more[i] = calls[i]
      BY <1>1, <2>2
    <3>2. FrameFollows(nodes, of, calls[i], 1)
      <4>1. FrameFollows(nodes, of, calls[i], IF i = Len(calls) THEN 1 ELSE 1)
        BY <2>2 DEF StackFollows
      <4> QED BY <4>1
    <3> QED BY <3>1, <3>2
  <2>3. CASE i = Len(calls) + 1
    <3>1. i = Len(more) /\ more[i] = f
      BY <1>1, <2>3
    <3> QED BY <3>1
  <2> QED BY <2>1, <2>2, <2>3
<1>3. ASSUME NEW i \in 1..Len(more) - 1
      PROVE  CalledBy(of, more[i + 1], more[i])
  <2>1. i \in 1..Len(calls) - 1 \/ i = Len(calls)
    BY <1>1
  <2>2. CASE i \in 1..Len(calls) - 1
    <3>1. more[i] = calls[i] /\ more[i + 1] = calls[i + 1]
      BY <1>1, <2>2
    <3>2. CalledBy(of, calls[i + 1], calls[i])
      BY <2>2 DEF StackFollows
    <3> QED BY <3>1, <3>2
  <2>3. CASE i = Len(calls)
    <3>1. more[i] = calls[Len(calls)] /\ more[i + 1] = f /\ Len(calls) >= 1
      BY <1>1, <2>3
    <3> QED BY <3>1
  <2> QED BY <2>1, <2>2, <2>3
<1>4. StackFollows(nodes, of, more, open)
  BY <1>2, <1>3 DEF StackFollows
<1> QED BY <1>4 DEF more

LEMMA PopFollows ==
  ASSUME NEW nodes, NEW of, NEW calls, NEW open, IsSeq(calls), calls # <<>>,
         StackFollows(nodes, of, calls, open)
  PROVE  /\ StackFollows(nodes, of, Front(calls), 1)
         /\ FrameFollows(nodes, of, Last(calls), open)
         /\ Len(Front(calls)) >= 1 => CalledBy(of, Last(calls), Front(calls)[Len(Front(calls))])
<1> DEFINE less == Front(calls)
<1>1. /\ IsSeq(less) /\ Len(less) = Len(calls) - 1 /\ Len(less) \in Nat
      /\ \A i \in 1..Len(less) : less[i] = calls[i]
      /\ Last(calls) = calls[Len(calls)] /\ Len(calls) \in 1..Len(calls) /\ Len(calls) \in Nat
  BY SeqFront, SeqFacts
<1> HIDE DEF less
<1>2. ASSUME NEW i \in 1..Len(less)
      PROVE  FrameFollows(nodes, of, less[i], IF i = Len(less) THEN 1 ELSE 1)
  <2>1. i \in 1..Len(calls) /\ i # Len(calls) /\ less[i] = calls[i]
    BY <1>1
  <2>2. FrameFollows(nodes, of, calls[i], IF i = Len(calls) THEN open ELSE 1)
    BY <2>1 DEF StackFollows
  <2> QED BY <2>1, <2>2
<1>3. ASSUME NEW i \in 1..Len(less) - 1
      PROVE  CalledBy(of, less[i + 1], less[i])
  <2>1. i \in 1..Len(calls) - 1 /\ less[i] = calls[i] /\ less[i + 1] = calls[i + 1]
    BY <1>1
  <2> QED BY <2>1 DEF StackFollows
<1>4. StackFollows(nodes, of, less, 1)
  BY <1>2, <1>3 DEF StackFollows
<1>5. FrameFollows(nodes, of, Last(calls), open)
  <2>1. FrameFollows(nodes, of, calls[Len(calls)], IF Len(calls) = Len(calls) THEN open ELSE 1)
    BY <1>1 DEF StackFollows
  <2> QED BY <1>1, <2>1
<1>6. Len(less) >= 1 => CalledBy(of, Last(calls), less[Len(less)])
  <2> SUFFICES ASSUME Len(less) >= 1 PROVE CalledBy(of, Last(calls), less[Len(less)])
    OBVIOUS
  <2>1. Len(less) \in 1..Len(calls) - 1 /\ less[Len(less)] = calls[Len(less)]
        /\ Len(less) + 1 = Len(calls)
    BY <1>1
  <2>2. CalledBy(of, calls[Len(less) + 1], calls[Len(less)])
    BY <2>1 DEF StackFollows
  <2> QED BY <1>1, <2>1, <2>2
<1> QED BY <1>4, <1>5, <1>6 DEF less

\* The innermost call goes on: it is still of the same step in the same role.
LEMMA SetFollows ==
  ASSUME NEW nodes, NEW of, NEW calls, NEW f, NEW open, NEW was, IsSeq(calls), calls # <<>>,
         StackFollows(nodes, of, calls, was), FrameFollows(nodes, of, f, open),
         f.step = calls[Len(calls)].step, f.role = calls[Len(calls)].role
  PROVE  StackFollows(nodes, of, [calls EXCEPT ![Len(calls)] = f], open)
<1> DEFINE other == [calls EXCEPT ![Len(calls)] = f]
<1>1. Len(calls) \in 1..Len(calls) /\ Len(calls) \in Nat
  BY SeqFacts
<1>2. /\ Len(other) = Len(calls) /\ other[Len(calls)] = f
      /\ \A i \in 1..Len(calls) - 1 : other[i] = calls[i]
  <2>1. PICK S : calls \in Seq(S)
    BY DEF IsSeq
  <2>2. calls \in Seq(S \union {f}) /\ f \in S \union {f}
    BY <2>1
  <2> QED BY <1>1, <2>2, ExceptSeq
<1> HIDE DEF other
<1>3. ASSUME NEW i \in 1..Len(other)
      PROVE  FrameFollows(nodes, of, other[i], IF i = Len(other) THEN open ELSE 1)
  <2>1. CASE i = Len(calls)
    BY <1>2, <2>1
  <2>2. CASE i # Len(calls)
    <3>1. i \in 1..Len(calls) - 1 /\ i \in 1..Len(calls)
      BY <1>1, <1>2, <2>2
    <3>2. FrameFollows(nodes, of, calls[i], IF i = Len(calls) THEN was ELSE 1)
      BY <3>1 DEF StackFollows
    <3> QED BY <1>2, <2>2, <3>1, <3>2
  <2> QED BY <2>1, <2>2
<1>4. ASSUME NEW i \in 1..Len(other) - 1
      PROVE  CalledBy(of, other[i + 1], other[i])
  <2>1. CalledBy(of, calls[i + 1], calls[i]) /\ other[i] = calls[i]
    BY <1>2 DEF StackFollows
  <2>2. other[i + 1].step = calls[i + 1].step /\ other[i + 1].role = calls[i + 1].role
    <3>1. CASE i + 1 = Len(calls)
      BY <1>2, <3>1
    <3>2. CASE i + 1 # Len(calls)
      <4>1. i + 1 \in 1..Len(calls) - 1
        BY <1>1, <1>2, <3>2
      <4> QED BY <1>2, <4>1
    <3> QED BY <3>1, <3>2
  <2> QED BY <2>1, <2>2 DEF CalledBy
<1>5. StackFollows(nodes, of, other, open)
  BY <1>3, <1>4 DEF StackFollows
<1> QED BY <1>5 DEF other

\* A child more has become a primitive.
LEMMA ReturnedMore ==
  ASSUME NEW nodes, NEW of, NEW s, NEW done, NEW back, IsSeq(done), Returned(nodes, of, s, done),
         Len(done) + 1 <= Len(of[s]),
         back.role = of[s][Len(done) + 1].role,
         IsBuilt(nodes, back.node, of[s][Len(done) + 1].step, NameOf(s, of[s][Len(done) + 1]))
  PROVE  Returned(nodes, of, s, Append(done, back)) /\ Len(Append(done, back)) = Len(done) + 1
<1>1. /\ IsSeq(Append(done, back)) /\ Len(Append(done, back)) = Len(done) + 1 /\ Len(done) \in Nat
      /\ \A j \in 1..Len(done) : Append(done, back)[j] = done[j]
      /\ Append(done, back)[Len(done) + 1] = back
  BY SeqAppend, SeqFacts
<1> DEFINE more == Append(done, back)
<1> HIDE DEF more
<1>2. ASSUME NEW j \in 1..Len(more)
      PROVE  /\ more[j].role = of[s][j].role
             /\ IsBuilt(nodes, more[j].node, of[s][j].step, NameOf(s, of[s][j]))
  <2>1. j \in 1..Len(done) \/ j = Len(done) + 1
    BY <1>1 DEF more
  <2>2. CASE j \in 1..Len(done)
    <3>1. more[j] = done[j]
      BY <1>1, <2>2 DEF more
    <3> QED BY <2>2, <3>1 DEF Returned
  <2>3. CASE j = Len(done) + 1
    <3>1. more[j] = back
      BY <1>1, <2>3 DEF more
    <3> QED BY <2>3, <3>1
  <2> QED BY <2>1, <2>2, <2>3
<1> QED BY <1>1, <1>2 DEF Returned, more

LEMMA SameChildren == config' = config => ChildrenOf' = ChildrenOf /\ \A child : IsChild(child)' <=> IsChild(child)
<1> SUFFICES ASSUME config' = config
             PROVE  ChildrenOf' = ChildrenOf /\ \A child : IsChild(child)' <=> IsChild(child)
  OBVIOUS
<1>1. StepIds' = StepIds
  BY DEF StepIds
<1>2. step_index' = step_index
  BY <1>1 DEF step_index
<1>3. \A s : Children(s)' = Children(s)
  BY <1>1, <1>2 DEF Children, BranchSteps, CaseSteps, NestedSteps, Branch
<1> QED BY <1>3 DEF ChildrenOf, IsChild
-----------------------------------------------------------------------------
(* The shape of the tree: at the start and after every step *)

LEMMA InitTreeInv == FactoryInit => TreeInv
<1> SUFFICES ASSUME FactoryInit PROVE TreeInv
  OBVIOUS
<1>1. /\ config \in Seq(StepConfigs) /\ stage = "validating"
      /\ stack = <<>> /\ heap = <<>> /\ steps = <<>>
  BY FactoryAssumption DEF FactoryInit
<1>2. Len(stack) = 0 /\ Len(heap) = 0 /\ Len(steps) = 0 /\ Len(config) \in Nat
  BY <1>1
<1> QED BY <1>1, <1>2 DEF TreeInv, TopFollows, StackFollows, AtTop

\* Nothing but the stack changes when a call is made.
LEMMA CallTree ==
  ASSUME FactoryInv, TreeInv, stage = "building", NEW outer, NEW child, NEW wraps,
         IsSeq(outer), StackFollows(heap, ChildrenOf, outer, 1), AtTop(outer, config, steps),
         Len(outer) = 0 => Len(steps) < Len(config) /\ child.step = config[Len(steps) + 1],
         Len(outer) >= 1 => CalledBy(ChildrenOf, child, outer[Len(outer)]),
         IsChild(child), Call(outer, child, wraps)
  PROVE  TreeInv'
<1> DEFINE frame == [step |-> child.step, role |-> child.role, wraps |-> wraps,
                     todo |-> Children(child.step), done |-> <<>>]
<1>1. UNCHANGED <<config, step_executor, heap, steps>>
  BY DEF Call
<1>2. /\ stage' # stage => stack' = stack /\ stage' \in {"ValidationError", "RecursionError"}
      /\ stage' = stage => /\ stack' = Append(outer, frame)
                           /\ child.role = "nested" => StepConfigValid(child.step)
  BY DEF Call
<1>3. ChildrenOf' = ChildrenOf
  BY <1>1, SameChildren
<1>4. config \in Seq(StepConfigs) /\ \A i \in 1..Len(config) : StepConfigValid(config[i])
  BY DEF TreeInv
<1>5. StackFollows(heap, ChildrenOf, stack', 0) /\ AtTop(stack', config, steps)
  <2>1. CASE stage' # stage
    BY <1>2, <2>1 DEF TreeInv
  <2>2. CASE stage' = stage
    <3>1. child.step \in StepConfigs /\ StepConfigValid(child.step)
      BY <1>2, <1>4, <2>2 DEF IsChild
    <3>2. /\ ChildrenOf[child.step] = Children(child.step)
          /\ IsSeq(Children(child.step)) /\ Len(Children(child.step)) \in Nat
      BY <1>4, <3>1, ChildrenFacts
    <3>3. /\ frame.step = child.step /\ frame.role = child.role
          /\ frame.todo = Children(child.step) /\ frame.done = <<>>
      OBVIOUS
    <3> HIDE DEF frame
    <3>4. IsSeq(<<>>) /\ Len(<<>>) = 0
      BY EmptyStack DEF StackOK
    <3>5. Returned(heap, ChildrenOf, child.step, <<>>)
      BY <3>2, <3>4 DEF Returned
    <3>6. \A j \in 1..Len(Children(child.step)) : 0 + 0 + j = j
      BY <3>2
    <3>7. FrameFollows(heap, ChildrenOf, frame, 0)
      BY <3>1, <3>2, <3>3, <3>4, <3>5, <3>6 DEF FrameFollows
    <3>8. Len(outer) >= 1 => CalledBy(ChildrenOf, frame, outer[Len(outer)])
      BY <3>3 DEF CalledBy
    <3>9. StackFollows(heap, ChildrenOf, Append(outer, frame), 0)
      BY <3>7, <3>8, PushFollows
    <3>10. AtTop(Append(outer, frame), config, steps)
      <4>1. /\ Len(outer) \in Nat /\ \A i \in 1..Len(outer) : Append(outer, frame)[i] = outer[i]
            /\ Append(outer, frame)[Len(outer) + 1] = frame
        BY SeqAppend, SeqFacts
      <4>2. CASE Len(outer) = 0
        <5>1. Append(outer, frame)[1] = frame
          BY <4>1, <4>2
        <5> QED BY <3>3, <4>2, <5>1 DEF AtTop
      <4>3. CASE Len(outer) # 0
        <5>1. 1 \in 1..Len(outer) /\ Len(outer) >= 1
          BY <4>1, <4>3
        <5> QED BY <4>1, <5>1 DEF AtTop
      <4> QED BY <4>2, <4>3
    <3> QED BY <1>2, <2>2, <3>9, <3>10
  <2> QED BY <2>1, <2>2
<1> HIDE DEF frame
<1>6. stage' \in {"ValidationError", "RecursionError", "building"}
  BY <1>2
<1>7. TopFollows(heap, config, steps)' /\ \A n \in 1..Len(heap') : NodeFollows(heap, ChildrenOf, n)'
  BY <1>1, <1>3 DEF TreeInv
<1> QED BY <1>1, <1>3, <1>4, <1>5, <1>6, <1>7 DEF TreeInv

LEMMA BuildTopTree == FactoryInv /\ TreeInv /\ BuildTop => TreeInv'
<1> SUFFICES ASSUME FactoryInv, TreeInv, BuildTop PROVE TreeInv'
  OBVIOUS
<1> DEFINE child == [step |-> config[Len(steps) + 1], role |-> "top"]
<1>1. stage = "building" /\ Len(steps) < Len(config) /\ Call(<<>>, child, step_executor)
  BY DEF BuildTop
<1>2. IsSeq(<<>>) /\ Len(<<>>) = 0
  BY EmptyStack DEF StackOK
<1>3. StackFollows(heap, ChildrenOf, <<>>, 1) /\ AtTop(<<>>, config, steps)
  BY <1>2 DEF StackFollows, AtTop
<1>4. Len(steps) \in Nat /\ Len(config) \in Nat /\ config \in Seq(StepConfigs)
  BY SeqFacts DEF FactoryInv, TreeInv
<1>5. Len(steps) + 1 \in 1..Len(config)
  BY <1>1, <1>4
<1>6. child.step = config[Len(steps) + 1] /\ config[Len(steps) + 1] \in StepConfigs
  BY <1>4, <1>5
<1> HIDE DEF child
<1>7. IsChild(child)
  BY <1>5, <1>6 DEF IsChild
<1> QED BY <1>1, <1>2, <1>3, <1>6, <1>7, CallTree

LEMMA BuildChildTree == FactoryInv /\ TreeInv /\ BuildChild => TreeInv'
<1> SUFFICES ASSUME FactoryInv, TreeInv, BuildChild PROVE TreeInv'
  OBVIOUS
<1> DEFINE call == Last(stack)
           less == Front(stack)
           advanced == [call EXCEPT !.todo = Tail(@)]
           outer == Append(less, advanced)
           child == Head(call.todo)
<1>1. stage = "building" /\ stack # <<>> /\ call.todo # <<>> /\ Call(outer, child, call.wraps)
  BY DEF BuildChild
<1>2. /\ IsSeq(stack) /\ FrameOK(call, step_executor, 1..Len(heap)) /\ IsSeq(less)
      /\ Len(less) = Len(stack) - 1 /\ Len(less) \in Nat /\ Len(stack) \in Nat
      /\ \A i \in 1..Len(less) : less[i] = stack[i]
      /\ call = stack[Len(stack)]
  BY <1>1, StackPop, SeqFront, SeqFacts DEF FactoryInv, StackOK
<1>3. /\ StackFollows(heap, ChildrenOf, less, 1) /\ FrameFollows(heap, ChildrenOf, call, 0)
      /\ Len(less) >= 1 => CalledBy(ChildrenOf, call, less[Len(less)])
  BY <1>1, <1>2, PopFollows DEF TreeInv
<1>4. PICK s, r, w, t, d : call = [step |-> s, role |-> r, wraps |-> w, todo |-> t, done |-> d]
  BY <1>2 DEF FrameOK
<1>5. advanced = [step |-> s, role |-> r, wraps |-> w, todo |-> Tail(t), done |-> d]
      /\ call.step = s /\ call.role = r /\ call.todo = t /\ call.done = d
  <2>1. call.todo = t /\ call.step = s /\ call.role = r /\ call.done = d
    BY <1>4
  <2> HIDE DEF call
  <2>2. advanced = [call EXCEPT !.todo = Tail(t)]
    BY <2>1
  <2> HIDE DEF advanced
  <2>3. advanced = [step |-> s, role |-> r, wraps |-> w, todo |-> Tail(t), done |-> d]
    BY <1>4, <2>2, SetTodo
  <2> QED BY <2>1, <2>3
<1>6. advanced.step = s /\ advanced.role = r /\ advanced.todo = Tail(t) /\ advanced.done = d
  BY <1>5
<1> HIDE DEF call, less, advanced
<1>7. config \in Seq(StepConfigs) /\ s \in StepConfigs /\ StepConfigValid(s)
  BY <1>3, <1>5 DEF TreeInv, FrameFollows
<1> DEFINE kids == ChildrenOf[s]
<1>8. kids = Children(s) /\ Len(kids) \in Nat /\ \A j \in 1..Len(kids) : IsChild(kids[j])
  BY <1>7, ChildrenFacts
<1> HIDE DEF kids
<1>9. /\ IsSeq(t) /\ Len(t) = Len(kids) - Len(d) - 0 /\ Returned(heap, ChildrenOf, s, d)
      /\ \A j \in 1..Len(t) : t[j] = kids[Len(d) + 0 + j]
      /\ Len(d) \in Nat /\ t # <<>>
  BY <1>1, <1>3, <1>5, SeqFacts DEF FrameFollows, Returned, kids
<1>10. /\ IsSeq(Tail(t)) /\ Len(Tail(t)) = Len(t) - 1 /\ Len(t) \in Nat /\ Len(t) >= 1
       /\ \A j \in 1..Len(t) - 1 : Tail(t)[j] = t[j + 1]
       /\ Head(t) = t[1]
  BY <1>9, SeqTail
<1>11. /\ Len(Tail(t)) = Len(kids) - Len(d) - 1
       /\ \A j \in 1..Len(Tail(t)) : Tail(t)[j] = kids[Len(d) + 1 + j]
       /\ Len(d) + 1 \in 1..Len(kids) /\ Head(t) = kids[Len(d) + 1]
  <2>1. Len(Tail(t)) = Len(kids) - Len(d) - 1 /\ Len(d) + 1 \in 1..Len(kids)
    BY <1>8, <1>9, <1>10
  <2>2. Head(t) = kids[Len(d) + 1]
    <3>1. 1 \in 1..Len(t) /\ Len(d) + 0 + 1 = Len(d) + 1
      BY <1>9, <1>10
    <3> QED BY <1>9, <1>10, <3>1
  <2>3. ASSUME NEW j \in 1..Len(Tail(t)) PROVE Tail(t)[j] = kids[Len(d) + 1 + j]
    <3>1. j \in 1..Len(t) - 1 /\ j + 1 \in 1..Len(t) /\ Len(d) + 0 + (j + 1) = Len(d) + 1 + j
      BY <1>9, <1>10
    <3> QED BY <1>9, <1>10, <3>1
  <2> QED BY <2>1, <2>2, <2>3
<1>12. FrameFollows(heap, ChildrenOf, advanced, 1)
  BY <1>6, <1>7, <1>9, <1>10, <1>11 DEF FrameFollows, kids
<1>13. Len(less) >= 1 => CalledBy(ChildrenOf, advanced, less[Len(less)])
  BY <1>3, <1>5, <1>6 DEF CalledBy
<1>14. /\ IsSeq(outer) /\ Len(outer) = Len(less) + 1 /\ outer[Len(less) + 1] = advanced
       /\ \A i \in 1..Len(less) : outer[i] = less[i]
  BY <1>2, SeqAppend
<1>15. StackFollows(heap, ChildrenOf, outer, 1)
  BY <1>2, <1>3, <1>12, <1>13, PushFollows
<1> HIDE DEF outer
<1>16. AtTop(outer, config, steps)
  <2>1. Len(stack) >= 1 /\ AtTop(stack, config, steps)
    BY <1>2 DEF TreeInv
  <2>2. outer[1].step = stack[1].step
    <3>1. CASE Len(less) = 0
      <4>1. outer[1] = advanced /\ stack[1] = call
        <5>1. Len(less) + 1 = 1 /\ Len(stack) = 1
          BY <1>2, <3>1
        <5>2. outer[1] = advanced
          BY <1>14, <5>1
        <5>3. stack[1] = call
          BY <1>2, <5>1
        <5> QED BY <5>2, <5>3
      <4> QED BY <1>5, <1>6, <4>1
    <3>2. CASE Len(less) # 0
      <4>1. 1 \in 1..Len(less)
        BY <1>2, <3>2
      <4> QED BY <1>2, <1>14, <4>1
    <3> QED BY <3>1, <3>2
  <2> QED BY <2>1, <2>2 DEF AtTop
<1>17. child = kids[Len(d) + 1] /\ IsChild(child)
  BY <1>5, <1>8, <1>11
<1>18. CalledBy(ChildrenOf, child, outer[Len(outer)])
  BY <1>6, <1>11, <1>14, <1>17 DEF CalledBy, kids
<1>19. Len(outer) # 0
  BY <1>2, <1>14
<1> HIDE DEF child
<1> QED BY <1>1, <1>14, <1>15, <1>16, <1>17, <1>18, <1>19, CallTree
\* The primitive takes its place: with the call that is now the innermost, or
\* among the steps of the workflow.
LEMMA FinishTree == FactoryInv /\ TreeInv /\ Finish => TreeInv'
<1> SUFFICES ASSUME FactoryInv, TreeInv, Finish PROVE TreeInv'
  OBVIOUS
<1> DEFINE call == Last(stack)
           outer == Front(stack)
           primitive == [step |-> call.step, name |-> Name(outer, call),
                         children |-> call.done,
                         wrapped |-> call.wraps /\ RunsFunction(call.step)]
           node == Len(heap) + 1
<1>1. /\ stage = "building" /\ stack # <<>> /\ call.todo = <<>> /\ UNCHANGED <<config, step_executor>>
      /\ IF Refusal(call.step) # "none"
           THEN stage' = Refusal(call.step) /\ UNCHANGED <<stack, heap, steps>>
           ELSE /\ heap' = Append(heap, primitive)
                /\ Deliver(outer, call.role, Len(heap'))
                /\ UNCHANGED stage
  BY DEF Finish
<1>2. /\ IsSeq(stack) /\ FrameOK(call, step_executor, 1..Len(heap)) /\ IsSeq(outer)
      /\ StackOK(outer, step_executor, 1..Len(heap))
      /\ Len(outer) = Len(stack) - 1 /\ Len(outer) \in Nat /\ Len(stack) \in Nat
      /\ \A i \in 1..Len(outer) : outer[i] = stack[i]
      /\ call = stack[Len(stack)]
  BY <1>1, StackPop, SeqFront, SeqFacts DEF FactoryInv, StackOK
<1>3. /\ StackFollows(heap, ChildrenOf, outer, 1) /\ FrameFollows(heap, ChildrenOf, call, 0)
      /\ Len(outer) >= 1 => CalledBy(ChildrenOf, call, outer[Len(outer)])
  BY <1>1, <1>2, PopFollows DEF TreeInv
<1>4. primitive.step = call.step /\ primitive.name = Name(outer, call) /\ primitive.children = call.done
  OBVIOUS
<1>5. ChildrenOf' = ChildrenOf
  BY <1>1, SameChildren
<1>6. config \in Seq(StepConfigs) /\ \A i \in 1..Len(config) : StepConfigValid(config[i])
  BY <1>1 DEF TreeInv
<1>7. outer # <<>> <=> Len(outer) >= 1
  <2>1. outer # <<>> => Len(outer) \in 1..Len(outer)
    BY <1>2, SeqFacts
  <2>2. Len(<<>>) = 0
    OBVIOUS
  <2> HIDE DEF outer
  <2> QED BY <1>2, <2>1, <2>2
<1>8. outer # <<>> => Last(outer) = outer[Len(outer)]
  BY DEF Last
<1> HIDE DEF call, outer, primitive
<1>9. CASE Refusal(call.step) # "none"
  <2>1. stage' = Refusal(call.step) /\ UNCHANGED <<stack, heap, steps, config>>
    BY <1>1, <1>9
  <2>2. Refusal(call.step) \notin {"validating", "building", "built"}
    BY <1>9 DEF Refusal
  <2> QED BY <1>5, <1>6, <2>1, <2>2 DEF TreeInv
<1>10. CASE Refusal(call.step) = "none"
  <2>1. /\ heap' = Append(heap, primitive) /\ Deliver(outer, call.role, Len(heap'))
        /\ stage' = stage
    BY <1>1, <1>10
  <2>2. /\ IsSeq(heap') /\ Len(heap') = node /\ Len(heap) \in Nat
        /\ \A n \in 1..Len(heap) : heap'[n] = heap[n]
        /\ heap'[node] = primitive
    BY <2>1, SeqAppend, SeqFacts DEF FactoryInv
  <2>3. StackFollows(heap', ChildrenOf, outer, 1)
    BY <1>2, <1>3, <2>2, StillFollows
  <2>4. IsBuilt(heap', node, call.step, Name(outer, call))
    BY <1>4, <2>2 DEF IsBuilt
  <2>5. ASSUME NEW n \in 1..Len(heap') PROVE NodeFollows(heap', ChildrenOf, n)
    <3>1. n \in 1..Len(heap) \/ n = node
      BY <2>2
    <3>2. CASE n \in 1..Len(heap)
      <4>1. heap'[n] = heap[n] /\ NodeFollows(heap, ChildrenOf, n)
        BY <2>2, <3>2 DEF TreeInv
      <4> DEFINE children == heap[n].children
      <4>2. Returned(heap, ChildrenOf, heap[n].step, children) /\ IsSeq(children)
            /\ \A j \in 1..Len(children) : children[j].node \in 1..n - 1
        BY <4>1 DEF NodeFollows, Returned
      <4>3. Delivered(children, 1..Len(heap))
        <5>1. 1..n - 1 \subseteq 1..Len(heap)
          BY <2>2, <3>2
        <5> QED BY <4>2, <5>1 DEF Delivered
      <4> HIDE DEF children
      <4>4. Returned(heap', ChildrenOf, heap[n].step, children)
        BY <2>2, <4>2, <4>3, StillReturned
      <4> QED BY <4>1, <4>4 DEF NodeFollows, children
    <3>3. CASE n = node
      <4> DEFINE done == call.done
      <4>1. Delivered(done, 1..Len(heap)) /\ IsSeq(done) /\ Len(done) \in Nat
        BY <1>2, SeqFacts DEF FrameOK, Delivered
      <4>2. /\ call.step \in StepConfigs /\ StepConfigValid(call.step)
            /\ Returned(heap, ChildrenOf, call.step, done)
            /\ Len(call.todo) = Len(ChildrenOf[call.step]) - Len(done) - 0
        BY <1>3 DEF FrameFollows
      <4>3. Len(ChildrenOf[call.step]) \in Nat /\ Len(call.todo) = 0
        BY <1>1, <1>6, <4>2, ChildrenFacts
      <4> HIDE DEF done
      <4>4. Len(done) = Len(ChildrenOf[call.step])
        BY <4>1, <4>2, <4>3
      <4>5. Returned(heap', ChildrenOf, call.step, done)
        BY <2>2, <4>1, <4>2, StillReturned
      <4>6. \A j \in 1..Len(done) : done[j].node \in 1..n - 1
        BY <2>2, <3>3, <4>1 DEF Delivered
      <4>7. heap'[n].step = call.step /\ heap'[n].children = done
        BY <1>4, <2>2, <3>3 DEF done
      <4> QED BY <4>2, <4>4, <4>5, <4>6, <4>7 DEF NodeFollows
    <3> QED BY <3>1, <3>2, <3>3
  <2>6. TopFollows(heap', config, steps)
    <3>1. TopFollows(heap, config, steps) /\ \A i \in 1..Len(steps) : steps[i] \in 1..Len(heap)
      BY DEF TreeInv, FactoryInv
    <3> QED BY <2>2, <3>1 DEF TopFollows, IsBuilt
  <2>7. TopFollows(heap', config, steps') /\ StackFollows(heap', ChildrenOf, stack', 0)
        /\ AtTop(stack', config, steps')
    <3>1. CASE outer = <<>>
      <4>1. steps' = Append(steps, Len(heap')) /\ stack' = <<>>
        BY <2>1, <3>1 DEF Deliver
      <4>2. /\ Len(steps') = Len(steps) + 1 /\ Len(steps) \in Nat
            /\ \A i \in 1..Len(steps) : steps'[i] = steps[i]
            /\ steps'[Len(steps) + 1] = node
        BY <2>2, <4>1, SeqAppend, SeqFacts DEF FactoryInv
      <4>3. Len(stack) = 1 /\ call = stack[1]
        BY <1>2, <1>7, <3>1
      <4>4. Len(steps) < Len(config) /\ call.step = config[Len(steps) + 1]
        BY <4>3 DEF TreeInv, AtTop
      <4>5. Name(outer, call) = call.step.step
        BY <3>1 DEF Name
      <4>6. IsBuilt(heap', node, config[Len(steps) + 1], config[Len(steps) + 1].step)
        BY <2>4, <4>4, <4>5
      <4>7. Len(config) \in Nat
        BY <1>6
      <4>8. TopFollows(heap', config, steps')
        <5>1. Len(steps') <= Len(config)
          BY <4>2, <4>4, <4>7
        <5>2. ASSUME NEW i \in 1..Len(steps')
              PROVE  IsBuilt(heap', steps'[i], config[i], config[i].step)
          <6>1. i \in 1..Len(steps) \/ i = Len(steps) + 1
            BY <4>2
          <6> QED BY <2>6, <4>2, <4>6, <6>1 DEF TopFollows
        <5> QED BY <5>1, <5>2 DEF TopFollows
      <4>9. Len(stack') = 0
        BY <4>1
      <4> QED BY <4>8, <4>9 DEF StackFollows, AtTop
    <3>2. CASE outer # <<>>
      <4> DEFINE back == [role |-> call.role, node |-> Len(heap')]
                 last == outer[Len(outer)]
                 caller == [last EXCEPT !.done = Append(@, back)]
      <4>1. stack' = [outer EXCEPT ![Len(outer)] = caller] /\ steps' = steps
        BY <2>1, <3>2 DEF Deliver
      <4>2. Len(outer) \in 1..Len(outer) /\ Len(outer) >= 1
        BY <1>2, <1>7, <3>2
      <4>3. FrameOK(last, step_executor, 1..Len(heap))
        BY <1>2, <4>2 DEF StackOK
      <4>4. FrameFollows(heap', ChildrenOf, last, 1)
        <5>1. FrameFollows(heap', ChildrenOf, outer[Len(outer)], IF Len(outer) = Len(outer) THEN 1 ELSE 1)
          BY <2>3, <4>2 DEF StackFollows
        <5> QED BY <5>1
      <4>5. CalledBy(ChildrenOf, call, last)
        BY <1>3, <4>2
      <4>6. Name(outer, call) = IF last.step.type = "Router" THEN call.role ELSE call.step.step
        BY <1>8, <3>2 DEF Name
      <4>7. PICK s, r, t, d : last = [step |-> s, role |-> r, wraps |-> step_executor,
                                      todo |-> t, done |-> d]
        BY <4>3 DEF FrameOK
      <4>8. last.step = s /\ last.role = r /\ last.todo = t /\ last.done = d
        BY <4>7
      <4> HIDE DEF last
      <4>9. caller = [step |-> s, role |-> r, wraps |-> step_executor,
                      todo |-> t, done |-> Append(d, back)]
        <5> HIDE DEF back
        <5>1. caller = [last EXCEPT !.done = Append(d, back)]
          BY <4>8
        <5> HIDE DEF caller
        <5> QED BY <4>7, <5>1, SetDone
      <4>10. caller.step = s /\ caller.role = r /\ caller.todo = t /\ caller.done = Append(d, back)
        BY <4>9
      <4>11. back.role = call.role /\ back.node = node
        BY <2>2
      <4> HIDE DEF caller, back
      <4> DEFINE kids == ChildrenOf[s]
      <4>12. /\ s \in StepConfigs /\ StepConfigValid(s) /\ Returned(heap', ChildrenOf, s, d)
             /\ IsSeq(d) /\ IsSeq(t) /\ Len(t) = Len(kids) - Len(d) - 1
             /\ \A j \in 1..Len(t) : t[j] = kids[Len(d) + 1 + j]
        BY <4>4, <4>8 DEF FrameFollows, Returned
      <4>13. /\ Len(d) + 1 <= Len(kids) /\ call.step = kids[Len(d) + 1].step
             /\ call.role = kids[Len(d) + 1].role
        BY <4>5, <4>8 DEF CalledBy
      <4>14. Len(kids) \in Nat /\ Len(d) \in Nat /\ Len(t) \in Nat
        BY <1>6, <4>12, ChildrenFacts, SeqFacts
      <4>15. Name(outer, call) = NameOf(s, kids[Len(d) + 1])
        BY <4>6, <4>8, <4>13 DEF NameOf
      <4>16. IsBuilt(heap', back.node, kids[Len(d) + 1].step, NameOf(s, kids[Len(d) + 1]))
        BY <2>4, <4>11, <4>13, <4>15
      <4>17. Returned(heap', ChildrenOf, s, Append(d, back)) /\ Len(Append(d, back)) = Len(d) + 1
        BY <4>11, <4>12, <4>13, <4>16, ReturnedMore
      <4> HIDE DEF kids
      <4>18. /\ Len(t) = Len(kids) - Len(Append(d, back)) - 0
             /\ \A j \in 1..Len(t) : t[j] = kids[Len(Append(d, back)) + 0 + j]
        <5>1. Len(t) = Len(kids) - Len(Append(d, back)) - 0
          BY <4>12, <4>14, <4>17
        <5>2. \A j \in 1..Len(t) : Len(Append(d, back)) + 0 + j = Len(d) + 1 + j
          BY <4>14, <4>17
        <5> QED BY <4>12, <5>1, <5>2
      <4>19. FrameFollows(heap', ChildrenOf, caller, 0)
        BY <4>10, <4>12, <4>17, <4>18 DEF FrameFollows, kids
      <4>20. StackFollows(heap', ChildrenOf, stack', 0)
        <5>1. caller.step = outer[Len(outer)].step /\ caller.role = outer[Len(outer)].role
          BY <4>8, <4>10 DEF last
        <5> QED BY <1>2, <2>3, <3>2, <4>1, <4>19, <5>1, SetFollows
      <4>21. AtTop(stack', config, steps)
        <5>1. Len(stack) >= 1 /\ AtTop(stack, config, steps)
          BY <1>2, <4>2 DEF TreeInv
        <5>2. stack'[1].step = stack[1].step
          <6>1. PICK S : outer \in Seq(S)
            BY <1>2 DEF IsSeq
          <6>2. outer \in Seq(S \union {caller}) /\ caller \in S \union {caller}
            BY <6>1
          <6>3. \A i \in 1..Len(outer) : stack'[i] = IF i = Len(outer) THEN caller ELSE outer[i]
            BY <4>1, <4>2, <6>2, ExceptSeq
          <6>4. 1 \in 1..Len(outer)
            BY <1>2, <4>2
          <6>5. CASE Len(outer) = 1
            <7>1. stack'[1] = caller /\ stack[1] = last
              BY <1>2, <6>3, <6>4, <6>5 DEF last
            <7> QED BY <4>8, <4>10, <7>1
          <6>6. CASE Len(outer) # 1
            BY <1>2, <6>3, <6>4, <6>6
          <6> QED BY <6>5, <6>6
        <5> QED BY <5>1, <5>2 DEF AtTop
      <4> QED BY <2>6, <4>1, <4>20, <4>21
    <3> QED BY <3>1, <3>2
  <2> QED BY <1>1, <1>5, <1>6, <2>1, <2>5, <2>7 DEF TreeInv
<1> QED BY <1>9, <1>10

LEMMA NextTreeInv == FactoryInv /\ TreeInv /\ [FactoryNext]_factoryVars => TreeInv'
<1> SUFFICES ASSUME FactoryInv, TreeInv, [FactoryNext]_factoryVars PROVE TreeInv'
  OBVIOUS
<1>1. CASE Validate
  <2>1. /\ UNCHANGED <<config, stack, heap, steps>> /\ stage' \in {"building", "ValidationError"}
        /\ stage' = "building" => \A i \in DOMAIN config : StepConfigValid(config[i])
    BY <1>1 DEF Validate
  <2>2. ChildrenOf' = ChildrenOf
    BY <2>1, SameChildren
  <2>3. config \in Seq(StepConfigs) /\ DOMAIN config = 1..Len(config)
    BY DEF TreeInv
  <2> QED BY <2>1, <2>2, <2>3 DEF TreeInv
<1>2. CASE BuildTop
  BY <1>2, BuildTopTree
<1>3. CASE BuildChild
  BY <1>3, BuildChildTree
<1>4. CASE Finish
  BY <1>4, FinishTree
<1>5. CASE Built
  <2>1. /\ UNCHANGED <<config, stack, heap, steps>> /\ stage = "building" /\ stage' = "built"
        /\ Len(steps) = Len(config)
    BY <1>5 DEF Built
  <2>2. ChildrenOf' = ChildrenOf
    BY <2>1, SameChildren
  <2> QED BY <2>1, <2>2 DEF TreeInv
<1>6. CASE UNCHANGED factoryVars
  <2>1. UNCHANGED <<config, stack, heap, steps, stage>>
    BY <1>6 DEF factoryVars
  <2>2. ChildrenOf' = ChildrenOf
    BY <2>1, SameChildren
  <2> QED BY <2>1, <2>2 DEF TreeInv
<1> QED BY <1>1, <1>2, <1>3, <1>4, <1>5, <1>6 DEF FactoryNext

LEMMA SpecTreeInv == FactorySpec => [](FactoryInv /\ TreeInv)
<1>1. FactoryInit => FactoryInv /\ TreeInv
  BY InitFactoryInv, InitTreeInv
<1>2. FactoryInv /\ TreeInv /\ [FactoryNext]_factoryVars => (FactoryInv /\ TreeInv)'
  BY NextFactoryInv, NextTreeInv
<1> QED BY <1>1, <1>2, PTL DEF FactorySpec

-----------------------------------------------------------------------------
(* What is being built was validated *)

\* What is being built was validated, and only a full stack ends the recursion.
LimitInv ==
  /\ config \in Configs
  /\ stage \in {"building", "built", "RecursionError"} => StepsIntegrity
  /\ stage = "RecursionError" => Len(stack) = RecursionLimit

LEMMA SameIntegrity == config' = config => (StepsIntegrity' <=> StepsIntegrity)
  BY DEF StepsIntegrity, StepIds

LEMMA CallLimit ==
  ASSUME LimitInv, stage = "building", NEW outer, NEW child, NEW wraps,
         Len(outer) = RecursionLimit => Len(stack) = RecursionLimit,
         Call(outer, child, wraps)
  PROVE  LimitInv'
<1>1. config' = config
  BY DEF Call
<1>2. stage' = "RecursionError" => stack' = stack /\ Len(outer) = RecursionLimit
  BY DEF Call
<1>3. StepsIntegrity' /\ config' \in Configs
  BY <1>1, SameIntegrity DEF LimitInv
<1> QED BY <1>2, <1>3 DEF LimitInv

LEMMA NextLimitInv ==
  FactoryInv /\ LimitInv /\ [FactoryNext]_factoryVars => LimitInv'
<1> SUFFICES ASSUME FactoryInv, LimitInv, [FactoryNext]_factoryVars PROVE LimitInv'
  OBVIOUS
<1>1. CASE Validate
  <2>1. config' = config /\ stage' \in {"building", "ValidationError"}
        /\ (stage' = "building" => StepsIntegrity)
    BY <1>1 DEF Validate
  <2> QED BY <2>1, SameIntegrity DEF LimitInv
<1>2. CASE BuildTop
  <2>1. stage = "building"
        /\ Call(<<>>, [step |-> config[Len(steps) + 1], role |-> "top"], step_executor)
    BY <1>2 DEF BuildTop
  <2>2. Len(<<>>) # RecursionLimit
    BY FactoryAssumption
  <2> QED BY <2>1, <2>2, CallLimit
<1>3. CASE BuildChild
  <2> DEFINE call == Last(stack)
             advanced == [call EXCEPT !.todo = Tail(@)]
             outer == Append(Front(stack), advanced)
  <2>1. stage = "building" /\ stack # <<>> /\ Call(outer, Head(call.todo), call.wraps)
    BY <1>3 DEF BuildChild
  <2>2. IsSeq(Front(stack)) /\ Len(Front(stack)) = Len(stack) - 1 /\ Len(stack) - 1 \in Nat /\ Len(stack) \in Nat
    BY <2>1, SeqFront, SeqFacts DEF FactoryInv, StackOK
  <2> HIDE DEF advanced
  <2>3. Len(outer) = Len(stack)
    BY <2>2, SeqAppend
  <2> HIDE DEF outer, call
  <2> QED BY <2>1, <2>3, CallLimit
<1>4. CASE Finish
  <2>1. config' = config /\ stage = "building"
    BY <1>4 DEF Finish
  <2>2. stage' # "RecursionError"
    BY <1>4 DEF Finish, Refusal
  <2> QED BY <2>1, <2>2, SameIntegrity DEF LimitInv
<1>5. CASE Built
  <2>1. config' = config /\ stage = "building" /\ stage' = "built"
    BY <1>5 DEF Built
  <2> QED BY <2>1, SameIntegrity DEF LimitInv
<1>6. CASE UNCHANGED factoryVars
  <2>1. UNCHANGED <<config, stage, stack>>
    BY <1>6 DEF factoryVars
  <2> QED BY <2>1, SameIntegrity DEF LimitInv
<1> QED BY <1>1, <1>2, <1>3, <1>4, <1>5, <1>6 DEF FactoryNext

LEMMA SpecLimitInv == FactorySpec => [](FactoryInv /\ TreeInv /\ LimitInv)
<1>1. FactoryInit => LimitInv
  BY DEF FactoryInit, LimitInv
<1> QED BY <1>1, SpecTreeInv, NextLimitInv, PTL DEF FactorySpec

-----------------------------------------------------------------------------
(* The shape of the tree: the theorems *)

\* What a primitive that is on the heap holds.
LEMMA NodeHolds ==
  ASSUME TreeInv, FactoryInv, NEW n \in DOMAIN heap
  PROVE  LET s == heap[n].step
             children == heap[n].children
             kids == Children(s)
         IN  /\ s \in StepConfigs /\ StepConfigValid(s)
             /\ DOMAIN children = 1..Len(kids) /\ Len(kids) \in Nat
             /\ DOMAIN kids = 1..Len(kids)
             /\ \A j \in 1..Len(kids) :
                  /\ children[j].role = kids[j].role
                  /\ heap[children[j].node].step = kids[j].step
                  /\ heap[children[j].node].name = NameOf(s, kids[j])
                  /\ children[j].node \in 1..n - 1
<1> DEFINE s == heap[n].step
           children == heap[n].children
           kids == Children(s)
<1>1. NodeFollows(heap, ChildrenOf, n) /\ n \in 1..Len(heap)
  BY SeqFacts DEF TreeInv, FactoryInv
<1>2. /\ s \in StepConfigs /\ StepConfigValid(s) /\ Returned(heap, ChildrenOf, s, children)
      /\ Len(children) = Len(ChildrenOf[s])
      /\ \A j \in 1..Len(children) : children[j].node \in 1..n - 1
  BY <1>1 DEF NodeFollows
<1>3. ChildrenOf[s] = kids /\ IsSeq(kids) /\ Len(kids) \in Nat
  BY <1>2, ChildrenFacts DEF TreeInv
<1>4. DOMAIN kids = 1..Len(kids) /\ DOMAIN children = 1..Len(children)
  BY <1>2, <1>3, SeqFacts DEF Returned
<1> HIDE DEF s, children, kids
<1>5. \A j \in 1..Len(kids) :
        /\ children[j].role = kids[j].role
        /\ heap[children[j].node].step = kids[j].step
        /\ heap[children[j].node].name = NameOf(s, kids[j])
  BY <1>2, <1>3 DEF Returned, IsBuilt
<1> QED BY <1>2, <1>3, <1>4, <1>5 DEF s, children, kids

LEMMA RouterFollows ==
  ASSUME TreeInv, FactoryInv, NEW n \in DOMAIN heap, heap[n].step.type = "Router"
  PROVE  LET s == heap[n].step
             children == heap[n].children
             Child(i) == heap[children[i].node]
         IN  {[key |-> Child(i).name, ref |-> Child(i).step.step] : i \in DOMAIN children}
               = {c \in ToSet(s.cases) : c.ref \in StepIds}
<1> DEFINE s == heap[n].step
           children == heap[n].children
           kids == Children(s)
           Child(i) == heap[children[i].node]
           R(c) == [key |-> c.key, ref |-> c.ref]
           E(i) == [step |-> step_index[s.cases[i].ref], role |-> s.cases[i].key]
           Row(i) == [key |-> Child(i).name, ref |-> Child(i).step.step]
<1>1. /\ s \in StepConfigs /\ DOMAIN children = 1..Len(kids) /\ DOMAIN kids = 1..Len(kids)
      /\ \A j \in 1..Len(kids) : /\ heap[children[j].node].step = kids[j].step
                                 /\ heap[children[j].node].name = NameOf(s, kids[j])
  BY NodeHolds
<1>2. kids = CaseSteps(s) /\ s.type = "Router"
  BY DEF Children
<1> HIDE DEF s, children, kids
<1>3. \A j \in 1..Len(kids) : Row(j) = [key |-> kids[j].role, ref |-> kids[j].step.step]
  BY <1>1, <1>2 DEF NameOf
<1>4. /\ \A e : e \in ToSet(kids) <=> \E i \in 1..Len(s.cases) : s.cases[i].ref \in StepIds /\ e = E(i)
      /\ \A e \in ToSet(kids) : \A i \in 1..Len(s.cases) :
           e = E(i) /\ s.cases[i].ref \in StepIds => e.role = s.cases[i].key /\ e.step.step = s.cases[i].ref
  <2>1. config \in Seq(StepConfigs)
    BY DEF TreeInv
  <2>2. \A e : e \in ToSet(kids) <=> \E i \in 1..Len(s.cases) : s.cases[i].ref \in StepIds /\ e = E(i)
    BY <1>1, <1>2, <2>1, CaseFacts
  <2>3. \A e \in ToSet(kids) : \A i \in 1..Len(s.cases) :
          e = E(i) /\ s.cases[i].ref \in StepIds => e.role = s.cases[i].key /\ e.step.step = s.cases[i].ref
    BY <1>1, <1>2, <2>1, CaseFacts
  <2> QED BY <2>2, <2>3
<1>5. DOMAIN s.cases = 1..Len(s.cases) /\ \A i \in 1..Len(s.cases) :
        s.cases[i] = [key |-> s.cases[i].key, ref |-> s.cases[i].ref]
  <2>1. PICK q \in Seq({R(c) : c \in ToSet(s.cases)}) : q = s.cases
    BY <1>1, Candidates
  <2>2. DOMAIN q = 1..Len(q) /\ \A i \in 1..Len(q) : q[i] \in {R(c) : c \in ToSet(s.cases)}
    OBVIOUS
  <2>3. ASSUME NEW i \in 1..Len(q) PROVE q[i] = [key |-> q[i].key, ref |-> q[i].ref]
    <3>1. PICK c \in ToSet(s.cases) : q[i] = R(c)
      BY <2>2
    <3>2. R(c).key = c.key /\ R(c).ref = c.ref
      OBVIOUS
    <3> QED BY <3>1, <3>2
  <2> QED BY <2>1, <2>2, <2>3
<1> HIDE DEF E, Row, R
<1>6. ASSUME NEW j \in 1..Len(kids)
      PROVE  Row(j) \in {c \in ToSet(s.cases) : c.ref \in StepIds}
  <2>1. kids[j] \in ToSet(kids)
    BY <1>1 DEF ToSet
  <2>2. PICK i \in 1..Len(s.cases) : s.cases[i].ref \in StepIds /\ kids[j] = E(i)
    BY <1>4, <2>1
  <2>3. Row(j) = s.cases[i]
    BY <1>3, <1>4, <1>5, <2>1, <2>2
  <2>4. s.cases[i] \in ToSet(s.cases)
    BY <1>5 DEF ToSet
  <2> QED BY <2>2, <2>3, <2>4
<1>7. ASSUME NEW c \in ToSet(s.cases), c.ref \in StepIds
      PROVE  \E j \in 1..Len(kids) : c = Row(j)
  <2>1. PICK i \in 1..Len(s.cases) : c = s.cases[i]
    BY <1>5 DEF ToSet
  <2>2. E(i) \in ToSet(kids)
    BY <1>4, <1>7, <2>1
  <2>3. PICK j \in 1..Len(kids) : kids[j] = E(i)
    BY <1>1, <2>2 DEF ToSet
  <2>4. kids[j].role = s.cases[i].key /\ kids[j].step.step = s.cases[i].ref
    BY <1>4, <1>7, <2>1, <2>2, <2>3
  <2>5. Row(j) = [key |-> s.cases[i].key, ref |-> s.cases[i].ref]
    BY <1>3, <2>4
  <2> QED BY <1>5, <2>1, <2>5
<1>8. {Row(i) : i \in DOMAIN children} = {c \in ToSet(s.cases) : c.ref \in StepIds}
  BY <1>1, <1>6, <1>7
<1> QED BY <1>8 DEF s, children, Row

\* The branches a step names that are steps of the workflow.
NamedSteps(s) ==
  {b \in {[key |-> "then", ref |-> s.if_true], [key |-> "else", ref |-> s.if_false]}
     : b.ref \in StepIds}

LEMMA ConditionFollows ==
  ASSUME TreeInv, FactoryInv, NEW n \in DOMAIN heap, heap[n].step.type = "Condition"
  PROVE  LET s == heap[n].step
             children == heap[n].children
             Child(i) == heap[children[i].node]
             Row(i) == [key |-> children[i].role, ref |-> Child(i).step.step]
         IN  {Row(i) : i \in DOMAIN children} = NamedSteps(s)
<1> DEFINE s == heap[n].step
           children == heap[n].children
           kids == Children(s)
           Child(i) == heap[children[i].node]
           then == [step |-> step_index[s.if_true], role |-> "then"]
           else == [step |-> step_index[s.if_false], role |-> "else"]
           Row(i) == [key |-> children[i].role, ref |-> Child(i).step.step]
           Rows == NamedSteps(s)
<1>1. /\ s \in StepConfigs /\ DOMAIN children = 1..Len(kids) /\ DOMAIN kids = 1..Len(kids)
      /\ \A j \in 1..Len(kids) : /\ children[j].role = kids[j].role
                                 /\ heap[children[j].node].step = kids[j].step
  BY NodeHolds
<1>2. kids = BranchSteps(s)
  BY DEF Children
<1> HIDE DEF s, children, kids
<1>3. \A j \in 1..Len(kids) : Row(j) = [key |-> kids[j].role, ref |-> kids[j].step.step]
  BY <1>1
<1>4. \A e : e \in ToSet(kids) <=> \/ s.if_true \in StepIds /\ e = then
                                   \/ s.if_false \in StepIds /\ e = else
  BY <1>1, <1>2, BranchesFacts DEF TreeInv
<1>5. /\ then.role = "then" /\ else.role = "else"
      /\ s.if_true \in StepIds => then.step.step = s.if_true
      /\ s.if_false \in StepIds => else.step.step = s.if_false
  BY IndexFacts DEF TreeInv
<1> HIDE DEF then, else, Row
<1>6. ASSUME NEW j \in 1..Len(kids) PROVE Row(j) \in Rows
  <2>1. kids[j] \in ToSet(kids)
    BY <1>1 DEF ToSet
  <2>2. CASE s.if_true \in StepIds /\ kids[j] = then
    BY <1>3, <1>5, <2>2 DEF NamedSteps
  <2>3. CASE s.if_false \in StepIds /\ kids[j] = else
    BY <1>3, <1>5, <2>3 DEF NamedSteps
  <2> QED BY <1>4, <2>1, <2>2, <2>3
<1>7. ASSUME NEW r \in Rows PROVE \E j \in 1..Len(kids) : r = Row(j)
  <2>1. CASE r = [key |-> "then", ref |-> s.if_true] /\ s.if_true \in StepIds
    <3>1. PICK j \in 1..Len(kids) : kids[j] = then
      BY <1>1, <1>4, <2>1 DEF ToSet
    <3> QED BY <1>3, <1>5, <2>1, <3>1
  <2>2. CASE r = [key |-> "else", ref |-> s.if_false] /\ s.if_false \in StepIds
    <3>1. PICK j \in 1..Len(kids) : kids[j] = else
      BY <1>1, <1>4, <2>2 DEF ToSet
    <3> QED BY <1>3, <1>5, <2>2, <3>1
  <2> QED BY <2>1, <2>2 DEF NamedSteps
<1>8. {Row(i) : i \in DOMAIN children} = Rows
  BY <1>1, <1>6, <1>7
<1> QED BY <1>8 DEF s, children, Row

\* No step of the workflow has None for its id, and the references of its own
\* steps were validated.
LEMMA NoRefIsNoStep == TreeInv => NoRef \notin StepIds
<1> SUFFICES ASSUME TreeInv PROVE NoRef \notin StepIds
  OBVIOUS
<1>1. config \in Seq(StepConfigs)
  BY DEF TreeInv
<1>2. \A i \in DOMAIN config : config[i] \in StepConfigs
  BY <1>1
<1> QED BY <1>2, FactoryAssumption DEF StepIds

LEMMA BranchesAreSteps ==
  ASSUME LimitInv, stage = "built", NEW s \in ToSet(config)
  PROVE  BranchRefs(s) \subseteq StepIds
  BY DEF LimitInv, StepsIntegrity, ToSet

\* A Router has the choices it names that are steps of the workflow, and those
\* are all it names if it is a step of the workflow itself.
LEMMA RouterChoices ==
  ASSUME TreeInv, FactoryInv, LimitInv, stage = "built",
         NEW n \in DOMAIN heap, heap[n].step.type = "Router"
  PROVE  LET s == heap[n].step
         IN  /\ ChoicesBuilt(n) \subseteq ChoicesNamed(s)
             /\ s \in ToSet(config) => ChoicesNamed(s) \subseteq ChoicesBuilt(n)
<1> DEFINE s == heap[n].step
           children == heap[n].children
<1>1. ChoicesBuilt(n) = {c \in ToSet(s.cases) : c.ref \in StepIds}
  BY RouterFollows DEF ChoicesBuilt, ToSet
<1>2. NoRef \notin StepIds
  BY NoRefIsNoStep
<1> HIDE DEF s
<1>3. ChoicesBuilt(n) \subseteq ChoicesNamed(s)
  BY <1>1, <1>2 DEF ChoicesNamed
<1>4. ASSUME s \in ToSet(config), NEW c \in ChoicesNamed(s) PROVE c.ref \in StepIds
  <2>1. c.ref \in BranchRefs(s)
    BY DEF ChoicesNamed, BranchRefs, ToSet
  <2> QED BY <1>4, <2>1, BranchesAreSteps
<1>5. s \in ToSet(config) => ChoicesNamed(s) \subseteq ChoicesBuilt(n)
  BY <1>1, <1>4 DEF ChoicesNamed
<1> QED BY <1>3, <1>5 DEF s

\* And likewise a Condition and its branches.
LEMMA ConditionBranches ==
  ASSUME TreeInv, FactoryInv, LimitInv, stage = "built",
         NEW n \in DOMAIN heap, heap[n].step.type = "Condition"
  PROVE  LET s == heap[n].step
         IN  /\ BranchesBuilt(n) \subseteq BranchesNamed(s)
             /\ s \in ToSet(config) => BranchesNamed(s) \subseteq BranchesBuilt(n)
<1> DEFINE s == heap[n].step
           children == heap[n].children
           Row(i) == [key |-> children[i].role, ref |-> heap[children[i].node].step.step]
<1>1. {Row(i) : i \in DOMAIN children} = NamedSteps(s)
  BY ConditionFollows
<1>2. \A i \in DOMAIN children : children[i].role \in {"then", "else"}
  <2>1. ASSUME NEW i \in DOMAIN children PROVE children[i].role \in {"then", "else"}
    <3>1. Row(i) \in NamedSteps(s)
      BY <1>1, <2>1
    <3> HIDE DEF s, children
    <3>2. Row(i).key \in {"then", "else"}
      BY <3>1 DEF NamedSteps
    <3> QED BY <3>2
  <2> QED BY <2>1
<1>3. BranchesBuilt(n) = {Row(i) : i \in DOMAIN children}
  BY <1>2 DEF BranchesBuilt, ToSet
<1>4. NoRef \notin StepIds
  BY NoRefIsNoStep
<1> HIDE DEF s, children, Row
<1>5. BranchesBuilt(n) \subseteq BranchesNamed(s)
  BY <1>1, <1>3, <1>4 DEF NamedSteps, BranchesNamed
<1>6. ASSUME s \in ToSet(config), NEW b \in BranchesNamed(s) PROVE b.ref \in StepIds
  <2>1. b.ref \in BranchRefs(s)
    BY DEF BranchesNamed, BranchRefs
  <2> QED BY <1>6, <2>1, BranchesAreSteps
<1>7. s \in ToSet(config) => BranchesNamed(s) \subseteq BranchesBuilt(n)
  BY <1>1, <1>3, <1>6 DEF NamedSteps, BranchesNamed
<1> QED BY <1>5, <1>7 DEF s

LEMMA TreeFollows == FactoryInv /\ TreeInv /\ LimitInv => TreeFollowsConfig
<1> SUFFICES ASSUME FactoryInv, TreeInv, LimitInv, stage = "built" PROVE
      /\ [i \in DOMAIN steps |-> heap[steps[i]].step] = config
      /\ \A i \in DOMAIN steps : heap[steps[i]].name = config[i].step
      /\ \A n \in DOMAIN heap :
           LET s == heap[n].step
               children == heap[n].children
               Child(i) == heap[children[i].node]
           IN  /\ s.type = "Router" =>
                    /\ ChoicesBuilt(n) \subseteq ChoicesNamed(s)
                    /\ s \in ToSet(config) => ChoicesNamed(s) \subseteq ChoicesBuilt(n)
               /\ s.type = "Condition" =>
                    /\ BranchesBuilt(n) \subseteq BranchesNamed(s)
                    /\ s \in ToSet(config) => BranchesNamed(s) \subseteq BranchesBuilt(n)
               /\ s.type \notin {"Router", "Condition"} =>
                    [i \in DOMAIN children |-> Child(i).step] = s.steps
               /\ s.type # "Router" => \A i \in DOMAIN children : Child(i).name = Child(i).step.step
  BY DEF TreeFollowsConfig
<1>1. /\ config \in Seq(StepConfigs) /\ Len(steps) = Len(config) /\ DOMAIN steps = 1..Len(config)
      /\ \A i \in 1..Len(config) : /\ heap[steps[i]].step = config[i]
                                   /\ heap[steps[i]].name = config[i].step
  BY SeqFacts DEF TreeInv, FactoryInv, TopFollows, IsBuilt
<1>2. [i \in DOMAIN steps |-> heap[steps[i]].step] = config
  BY <1>1
<1>3. ASSUME NEW n \in DOMAIN heap, heap[n].step.type \notin {"Router", "Condition"}
      PROVE  [i \in DOMAIN heap[n].children |-> heap[heap[n].children[i].node].step] = heap[n].step.steps
  <2> DEFINE s == heap[n].step
             children == heap[n].children
             kids == Children(s)
  <2>1. /\ s \in StepConfigs /\ DOMAIN children = 1..Len(kids)
        /\ \A j \in 1..Len(kids) : heap[children[j].node].step = kids[j].step
    BY NodeHolds
  <2>2. kids = NestedSteps(s)
    BY <1>3 DEF Children
  <2> HIDE DEF s, children, kids
  <2>3. Len(kids) = Len(s.steps) /\ \A i \in 1..Len(s.steps) : kids[i].step = s.steps[i]
    BY <2>1, <2>2, NestedFacts
  <2>4. PICK q \in Seq(StepConfigs) : q = s.steps
    BY <2>1, Candidates
  <2>5. q = [i \in 1..Len(q) |-> q[i]]
    OBVIOUS
  <2>6. [i \in DOMAIN children |-> heap[children[i].node].step] = s.steps
    BY <2>1, <2>3, <2>4, <2>5
  <2> QED BY <2>6 DEF s, children
<1>4. ASSUME NEW n \in DOMAIN heap, heap[n].step.type # "Router", NEW i \in DOMAIN heap[n].children
      PROVE  heap[heap[n].children[i].node].name = heap[heap[n].children[i].node].step.step
  <2> DEFINE s == heap[n].step
             children == heap[n].children
             kids == Children(s)
  <2>1. /\ DOMAIN children = 1..Len(kids)
        /\ \A j \in 1..Len(kids) : /\ heap[children[j].node].step = kids[j].step
                                   /\ heap[children[j].node].name = NameOf(s, kids[j])
    BY NodeHolds
  <2>2. s.type # "Router" /\ i \in DOMAIN children
    BY <1>4
  <2> HIDE DEF s, children, kids
  <2>3. heap[children[i].node].name = heap[children[i].node].step.step
    BY <2>1, <2>2 DEF NameOf
  <2> QED BY <2>3 DEF children
<1> QED BY <1>1, <1>2, <1>3, <1>4, RouterChoices, ConditionBranches

\* The workflow that is built has the steps of its configuration, each of them
\* with every branch and every choice it names wherever it is built, and every
\* group its nested steps; a step nested in a group has no branch but those it
\* names.
THEOREM TreeIsConfigured == FactorySpec => []TreeFollowsConfig
  BY SpecLimitInv, TreeFollows, PTL

-----------------------------------------------------------------------------
(* No cycle is built *)

\* A branch of a validated step is a step of the workflow built before it.
LEMMA BranchIsBuilt ==
  ASSUME TreeInv, FactoryInv, NEW n \in DOMAIN heap,
         NEW id \in StepIds, id \in BranchRefs(heap[n].step)
  PROVE  \E m \in 1..n - 1 : m \in DOMAIN heap /\ heap[m].step = step_index[id]
<1> DEFINE s == heap[n].step
           children == heap[n].children
           kids == Children(s)
<1>1. /\ s \in StepConfigs /\ StepConfigValid(s) /\ Len(kids) \in Nat /\ DOMAIN kids = 1..Len(kids)
      /\ \A j \in 1..Len(kids) : /\ heap[children[j].node].step = kids[j].step
                                 /\ children[j].node \in 1..n - 1
  BY NodeHolds
<1>2. DOMAIN heap = 1..Len(heap) /\ Len(heap) \in Nat
  BY SeqFacts DEF FactoryInv
<1>3. \A m \in 1..n - 1 : m \in DOMAIN heap
  BY <1>2
<1>4. id \in BranchRefs(s)
  OBVIOUS
<1>5. kids = Children(s)
  OBVIOUS
<1> HIDE DEF s, children, kids
<1> SUFFICES \E j \in 1..Len(kids) : kids[j].step = step_index[id]
  BY <1>1, <1>3
<1> SUFFICES \E e \in ToSet(kids) : e.step = step_index[id]
  BY <1>1 DEF ToSet
<1>6. CASE id \in {s.if_true, s.if_false} \ {NoRef}
  <2>1. s.type = "Condition"
    BY <1>1, <1>6 DEF StepConfigValid
  <2>2. kids = BranchSteps(s)
    BY <1>5, <2>1 DEF Children
  <2>3. \A e : e \in ToSet(kids) <=>
              \/ s.if_true \in StepIds /\ e = [step |-> step_index[s.if_true], role |-> "then"]
              \/ s.if_false \in StepIds /\ e = [step |-> step_index[s.if_false], role |-> "else"]
    BY <1>1, <2>2, BranchesFacts DEF TreeInv
  <2>4. CASE id = s.if_true
    <3>1. [step |-> step_index[s.if_true], role |-> "then"] \in ToSet(kids)
      BY <2>3, <2>4
    <3> QED BY <2>4, <3>1
  <2>5. CASE id = s.if_false
    <3>1. [step |-> step_index[s.if_false], role |-> "else"] \in ToSet(kids)
      BY <2>3, <2>5
    <3> QED BY <2>5, <3>1
  <2> QED BY <1>6, <2>4, <2>5
<1>7. CASE \E i \in DOMAIN s.cases : id = s.cases[i].ref
  <2>1. PICK i \in DOMAIN s.cases : id = s.cases[i].ref
    BY <1>7
  <2>2. DOMAIN s.cases = 1..Len(s.cases) /\ s.cases # <<>>
    <3>1. PICK q : q \in Seq({[key |-> c.key, ref |-> c.ref] : c \in ToSet(s.cases)}) /\ q = s.cases
      BY <1>1, Candidates
    <3>2. DOMAIN q = 1..Len(q) /\ i \in DOMAIN q
      BY <2>1, <3>1
    <3>3. q # <<>>
      BY <3>2
    <3> QED BY <3>1, <3>2, <3>3
  <2>3. s.type = "Router"
    BY <1>1, <2>2 DEF StepConfigValid
  <2>4. kids = CaseSteps(s)
    BY <1>5, <2>3 DEF Children
  <2>5. [step |-> step_index[s.cases[i].ref], role |-> s.cases[i].key] \in ToSet(kids)
    BY <1>1, <2>1, <2>2, <2>4, CaseFacts DEF TreeInv
  <2> QED BY <2>1, <2>5
<1> QED BY <1>4, <1>6, <1>7 DEF BranchRefs

-----------------------------------------------------------------------------
(* What a step branches to, through the steps nested in it *)

\* The equation of BuiltRefs.
Refs(f, s) ==
  BranchRefs(s) \union
    IF s.type = "Condition" THEN {} ELSE UNION {f[s.steps[i]] : i \in DOMAIN s.steps}

LEMMA NestedDeeper ==
  ASSUME NEW s \in StepConfigs
  PROVE  /\ MaxNesting \in Nat /\ Nesting[s] \in 0..MaxNesting
         /\ \A i \in DOMAIN s.steps :
              s.steps[i] \in StepConfigs /\ Nesting[s.steps[i]] \in Nat /\ Nesting[s.steps[i]] < Nesting[s]
<1>1. PICK q \in Seq(StepConfigs) : q = s.steps
  BY Candidates
<1>2. \A i \in DOMAIN q : q[i] \in StepConfigs
  OBVIOUS
<1>3. MaxNesting \in Nat /\ \A r \in StepConfigs : Nesting[r] \in 0..MaxNesting
  BY FactoryAssumption
<1>4. \A i \in DOMAIN s.steps : Nesting[s.steps[i]] < Nesting[s]
  BY FactoryAssumption
<1> QED BY <1>1, <1>2, <1>3, <1>4

\* A step branches where its own branches and those of its nested steps go: the
\* recursion is defined since nothing is nested without end.
LEMMA RefsAre == \A s \in StepConfigs : BuiltRefs[s] = Refs(BuiltRefs, s)
<1> DEFINE Upto(n, f) == \A s \in StepConfigs : Nesting[s] < n => f[s] = Refs(f, s)
           More(f) == [s \in StepConfigs |-> Refs(f, s)]
           T == {n \in Nat : \E f : Upto(n, f)}
<1>1. 0 \in T
  <2>1. Upto(0, <<>>)
    BY NestedDeeper
  <2> QED BY <2>1
<1>2. ASSUME NEW f, NEW n \in Nat, Upto(n, f) PROVE Upto(n + 1, More(f))
  <2> SUFFICES ASSUME NEW s \in StepConfigs, Nesting[s] < n + 1
               PROVE  More(f)[s] = Refs(More(f), s)
    OBVIOUS
  <2>1. \A i \in DOMAIN s.steps : s.steps[i] \in StepConfigs /\ Nesting[s.steps[i]] < n
    BY NestedDeeper
  <2>2. \A i \in DOMAIN s.steps : More(f)[s.steps[i]] = f[s.steps[i]]
    <3> SUFFICES ASSUME NEW i \in DOMAIN s.steps PROVE More(f)[s.steps[i]] = f[s.steps[i]]
      OBVIOUS
    <3> DEFINE t == s.steps[i]
    <3>1. t \in StepConfigs /\ f[t] = Refs(f, t)
      BY <2>1, <1>2
    <3> HIDE DEF t
    <3>2. More(f)[t] = Refs(f, t)
      BY <3>1
    <3> QED BY <3>1, <3>2 DEF t
  <2>3. More(f)[s] = Refs(f, s)
    OBVIOUS
  <2> HIDE DEF More
  <2> QED BY <2>2, <2>3 DEF Refs
<1>3. MaxNesting + 1 \in T
  <2>1. \A n \in Nat : n \in T => n + 1 \in T
    <3> HIDE DEF Upto, More
    <3> QED BY <1>2
  <2>2. MaxNesting + 1 \in Nat
    BY FactoryAssumption
  <2> HIDE DEF T
  <2> QED BY <1>1, <2>1, <2>2, Induction
<1>4. PICK f : Upto(MaxNesting + 1, f)
  BY <1>3
<1>5. \A s \in StepConfigs : f[s] = Refs(f, s)
  BY <1>4, NestedDeeper
<1> DEFINE g == More(f)
           Solves(h) == h = [s \in StepConfigs |-> Refs(h, s)]
<1>6. \A s \in StepConfigs : g[s] = f[s] /\ Refs(g, s) = Refs(f, s)
  <2>1. \A s \in StepConfigs : g[s] = f[s]
    BY <1>5
  <2> HIDE DEF g
  <2>2. \A s \in StepConfigs : \A i \in DOMAIN s.steps : g[s.steps[i]] = f[s.steps[i]]
    BY <2>1, NestedDeeper
  <2> QED BY <2>1, <2>2 DEF Refs
<1>7. Solves(g)
  <2>1. g = [s \in StepConfigs |-> Refs(f, s)]
    OBVIOUS
  <2> HIDE DEF g
  <2> QED BY <1>6, <2>1
<1>8. BuiltRefs = CHOOSE h : Solves(h)
  BY Zenon DEF BuiltRefs, Refs
<1> HIDE DEF g, Solves
<1>9. Solves(BuiltRefs)
  BY <1>7, <1>8
<1> QED BY <1>9 DEF Solves

\* So is what the steps nested in it branch to.
LEMMA RefIsBuilt ==
  ASSUME TreeInv, FactoryInv, NEW n \in DOMAIN heap,
         NEW id \in StepIds, id \in BuiltRefs[heap[n].step]
  PROVE  \E m \in 1..n - 1 : m \in DOMAIN heap /\ heap[m].step = step_index[id]
<1> DEFINE Before(k) == \E m \in 1..k - 1 : m \in DOMAIN heap /\ heap[m].step = step_index[id]
           T == {k \in DOMAIN heap : id \in BuiltRefs[heap[k].step] /\ ~Before(k)}
<1>1. DOMAIN heap = 1..Len(heap) /\ Len(heap) \in Nat
  BY SeqFacts DEF FactoryInv
<1> SUFFICES ASSUME T # {} PROVE FALSE
  OBVIOUS
<1>2. PICK k \in T : \A j \in T : k <= j
  <2>1. T \in SUBSET Nat
    BY <1>1
  <2> HIDE DEF T
  <2> QED BY <2>1, LeastNatural
<1> DEFINE s == heap[k].step
           children == heap[k].children
           kids == Children(s)
<1>3. /\ s \in StepConfigs /\ StepConfigValid(s)
      /\ \A j \in 1..Len(kids) : /\ heap[children[j].node].step = kids[j].step
                                 /\ children[j].node \in 1..k - 1
  BY <1>2, NodeHolds
<1>4. k \in DOMAIN heap /\ id \in BuiltRefs[s] /\ ~Before(k) /\ kids = Children(s)
  BY <1>2
<1>5. id \notin BranchRefs(s)
  BY <1>4, BranchIsBuilt
<1> HIDE DEF s, children, kids
<1>6. PICK i \in DOMAIN s.steps : s.type # "Condition" /\ id \in BuiltRefs[s.steps[i]]
  BY <1>3, <1>4, <1>5, RefsAre DEF Refs
<1>7. DOMAIN s.steps = 1..Len(s.steps) /\ s.steps # <<>>
  <2>1. PICK q \in Seq(StepConfigs) : q = s.steps
    BY <1>3, Candidates
  <2>2. DOMAIN q = 1..Len(q) /\ i \in DOMAIN q
    BY <1>6, <2>1
  <2>3. q # <<>>
    BY <2>2
  <2> QED BY <2>1, <2>2, <2>3
<1>8. s.type # "Router"
  BY <1>3, <1>7 DEF StepConfigValid
<1>9. kids = NestedSteps(s)
  BY <1>4, <1>6, <1>8 DEF Children
<1>10. i \in 1..Len(kids) /\ kids[i].step = s.steps[i]
  BY <1>3, <1>6, <1>7, <1>9, NestedFacts
<1> DEFINE c == children[i].node
<1>11. heap[c].step = s.steps[i] /\ c \in 1..k - 1
  BY <1>3, <1>10
<1> HIDE DEF c
<1>12. c \in DOMAIN heap /\ id \in BuiltRefs[heap[c].step] /\ c < k
  BY <1>1, <1>4, <1>6, <1>11
<1>13. c \notin T
  <2> HIDE DEF T
  <2>1. k \in Nat /\ c \in Nat
    BY <1>1, <1>4, <1>12
  <2> QED BY <1>2, <1>12, <2>1
<1>14. Before(c)
  BY <1>12, <1>13
<1>15. PICK m \in 1..c - 1 : m \in DOMAIN heap /\ heap[m].step = step_index[id]
  BY <1>14
<1>16. m \in 1..k - 1
  BY <1>1, <1>4, <1>12, <1>15
<1> QED BY <1>4, <1>15, <1>16

-----------------------------------------------------------------------------
(* Without a cycle the steps have ranks *)

\* Every step of A branches into A only, to steps of a lower rank.
Ranks(A, rank) ==
  /\ rank \in [A -> 0..Cardinality(A) - 1]
  /\ \A id \in A : \A ref \in BuiltRefs[step_index[id]] \intersect StepIds :
       ref \in A /\ rank[ref] < rank[id]

LEMMA StepIdsFinite ==
  ASSUME config \in Seq(StepConfigs)
  PROVE  IsFiniteSet(StepIds) /\ Cardinality(StepIds) <= Len(config)
<1> DEFINE f == [i \in 1..Len(config) |-> config[i].step]
<1>1. DOMAIN config = 1..Len(config) /\ Len(config) \in Nat
  OBVIOUS
<1>2. StepIds = {config[i].step : i \in 1..Len(config)}
  BY <1>1 DEF StepIds
<1>3. f \in Surjection(1..Len(config), StepIds)
  BY <1>2 DEF Surjection
<1>4. IsFiniteSet(1..Len(config)) /\ Cardinality(1..Len(config)) = Len(config)
  BY <1>1, FS_Interval
<1> QED BY <1>3, <1>4, FS_Surjection

\* One step more may be ranked above the others: one that branches to them only.
LEMMA RankMore ==
  ASSUME NEW A \in SUBSET StepIds, IsFiniteSet(A), NEW rank, Ranks(A, rank),
         NEW id \in StepIds \ A, BuiltRefs[step_index[id]] \intersect StepIds \subseteq A
  PROVE  \E more : Ranks(A \union {id}, more)
<1> DEFINE B == A \union {id}
           n == Cardinality(A)
           more == [x \in B |-> IF x \in A THEN rank[x] ELSE n]
<1>1. n \in Nat /\ Cardinality(B) = n + 1
  BY FS_CardinalityType, FS_AddElement
<1>2. \A x \in A : more[x] = rank[x] /\ rank[x] \in 0..n - 1 /\ x \in B
  BY DEF Ranks
<1>3. more[id] = n /\ more = [x \in B |-> more[x]]
  OBVIOUS
<1>4. \A x \in B : x \in A \/ x = id
  OBVIOUS
<1> HIDE DEF B, n, more
<1>5. more \in [B -> 0..Cardinality(B) - 1]
  <2>1. \A x \in B : more[x] \in 0..n
    BY <1>1, <1>2, <1>3, <1>4
  <2>2. Cardinality(B) - 1 = n
    BY <1>1
  <2> QED BY <1>3, <2>1, <2>2
<1>6. ASSUME NEW x \in B, NEW ref \in BuiltRefs[step_index[x]] \intersect StepIds
      PROVE  ref \in B /\ more[ref] < more[x]
  <2>1. CASE x \in A
    <3>1. ref \in A /\ rank[ref] < rank[x]
      BY <2>1, <1>6 DEF Ranks
    <3> QED BY <1>2, <2>1, <3>1
  <2>2. CASE x = id
    <3>1. ref \in A
      BY <2>2, <1>6
    <3> QED BY <1>1, <1>2, <1>3, <2>2, <3>1
  <2> QED BY <1>4, <2>1, <2>2
<1>7. Ranks(B, more)
  BY <1>5, <1>6 DEF Ranks
<1> QED BY <1>7 DEF B

LEMMA RanksExist ==
  ASSUME config \in Seq(StepConfigs), ~Cyclic
  PROVE  \E rank : Ranks(StepIds, rank)
<1> DEFINE Ranked(n) == \E A \in SUBSET StepIds : \E rank : Cardinality(A) = n /\ Ranks(A, rank)
           T == {n \in Nat : n <= Cardinality(StepIds) => Ranked(n)}
<1>1. IsFiniteSet(StepIds) /\ Cardinality(StepIds) \in Nat
  BY StepIdsFinite, FS_CardinalityType
<1>2. 0 \in T
  <2>1. Cardinality({}) = 0 /\ {} \in SUBSET StepIds
    BY FS_EmptySet
  <2>2. Ranks({}, [x \in {} |-> 0])
    BY DEF Ranks
  <2>3. Ranked(0)
    BY <2>1, <2>2
  <2> HIDE DEF Ranked
  <2> QED BY <2>3
<1>3. ASSUME NEW n \in Nat, n \in T, n + 1 <= Cardinality(StepIds) PROVE Ranked(n + 1)
  <2>1. Ranked(n)
    <3> HIDE DEF Ranked
    <3> QED BY <1>1, <1>3
  <2>2a. PICK A \in SUBSET StepIds : \E rank : Cardinality(A) = n /\ Ranks(A, rank)
    BY <2>1
  <2>2. PICK rank : Cardinality(A) = n /\ Ranks(A, rank)
    BY <2>2a
  <2>3. IsFiniteSet(A) /\ A # StepIds
    BY <1>1, <1>3, <2>2, FS_Subset
  <2>4. PICK id \in StepIds \ A : BuiltRefs[step_index[id]] \intersect (StepIds \ A) = {}
    <3>1. StepIds \ A \in SUBSET StepIds /\ StepIds \ A # {}
      BY <2>3
    <3> QED BY <3>1 DEF Cyclic
  <2>5. PICK more : Ranks(A \union {id}, more)
    <3>1. BuiltRefs[step_index[id]] \intersect StepIds \subseteq A
      BY <2>4
    <3> QED BY <2>2, <2>3, <3>1, RankMore
  <2>6. Cardinality(A \union {id}) = n + 1 /\ A \union {id} \in SUBSET StepIds
    BY <2>2, <2>3, <2>4, FS_AddElement
  <2> QED BY <2>5, <2>6
<1>4. Ranked(Cardinality(StepIds))
  <2>1. \A n \in Nat : n \in T => n + 1 \in T
    <3> SUFFICES ASSUME NEW n \in Nat, n \in T, n + 1 <= Cardinality(StepIds) PROVE Ranked(n + 1)
      <4> HIDE DEF Ranked
      <4> QED OBVIOUS
    <3> HIDE DEF Ranked
    <3> QED BY <1>3
  <2>2. Cardinality(StepIds) \in T
    <3> HIDE DEF T
    <3> QED BY <1>1, <1>2, <2>1, Induction
  <2> HIDE DEF Ranked
  <2> QED BY <1>1, <2>2
<1>5a. PICK A \in SUBSET StepIds : \E rank : Cardinality(A) = Cardinality(StepIds) /\ Ranks(A, rank)
  BY <1>4
<1>5. PICK rank : Cardinality(A) = Cardinality(StepIds) /\ Ranks(A, rank)
  BY <1>5a
<1>6. A = StepIds
  BY <1>1, <1>5, FS_Subset
<1> QED BY <1>5, <1>6

-----------------------------------------------------------------------------
(* No cycle is built *)

LEMMA CyclesEnd == FactoryInv /\ TreeInv => CyclesAreRefused
<1> SUFFICES ASSUME FactoryInv, TreeInv, stage = "built",
                    NEW ids \in SUBSET StepIds, ids # {},
                    \A id \in ids : BuiltRefs[step_index[id]] \intersect ids # {}
             PROVE  FALSE
  BY DEF CyclesAreRefused, Cyclic
<1> DEFINE T == {n \in DOMAIN heap : \E id \in ids : heap[n].step = step_index[id]}
<1>1. DOMAIN heap = 1..Len(heap) /\ Len(heap) \in Nat
  BY SeqFacts DEF FactoryInv
<1>2. T # {}
  <2>1. PICK id \in ids : id \in StepIds
    OBVIOUS
  <2>2. PICK i \in 1..Len(config) : step_index[id] = config[i]
    BY <2>1, IndexFacts DEF TreeInv
  <2>3. Len(steps) = Len(config) /\ steps[i] \in DOMAIN heap /\ heap[steps[i]].step = config[i]
    BY <1>1, <2>2 DEF TreeInv, FactoryInv, TopFollows, IsBuilt
  <2> QED BY <2>1, <2>2, <2>3
<1>3. T \in SUBSET Nat
  BY <1>1
<1>4. PICK n \in T : \A m \in T : n <= m
  <2> HIDE DEF T
  <2> QED BY <1>2, <1>3, LeastNatural
<1>5. PICK id \in ids : heap[n].step = step_index[id]
  BY <1>4
<1>6. PICK next \in ids : next \in BuiltRefs[heap[n].step]
  BY <1>5
<1>7. PICK m \in 1..n - 1 : m \in DOMAIN heap /\ heap[m].step = step_index[next]
  <2>1. n \in DOMAIN heap /\ next \in StepIds
    BY <1>4
  <2> QED BY <1>6, <2>1, RefIsBuilt
<1>8. m \in T
  BY <1>7
<1> QED BY <1>1, <1>4, <1>7, <1>8

\* No configuration whose branches form a cycle is ever built, whatever the
\* recursion limit: a primitive is constructed only after the primitives it
\* branches to.
THEOREM NoCycleIsBuilt == FactorySpec => []CyclesAreRefused
  BY SpecTreeInv, CyclesEnd, PTL

-----------------------------------------------------------------------------
(* How deep the calls nest *)

\* What a call builds by recursion is nested in its step or branched to by it.
LEMMA ChildIs ==
  ASSUME config \in Seq(StepConfigs), NEW s \in StepConfigs, NEW j \in 1..Len(Children(s))
  PROVE  LET t == Children(s)[j].step
         IN  \/ s.type # "Condition" /\ \E i \in DOMAIN s.steps : t = s.steps[i]
             \/ \E ref \in BranchRefs(s) \intersect StepIds : t = step_index[ref]
<1>1. IsSeq(Children(s)) /\ Children(s)[j] \in ToSet(Children(s))
  <2>1. IsSeq(Children(s))
    BY ChildrenFacts
  <2>2. DOMAIN Children(s) = 1..Len(Children(s))
    BY <2>1, SeqFacts
  <2> QED BY <2>1, <2>2 DEF ToSet
<1>2. PICK e : e = Children(s)[j] /\ e \in ToSet(Children(s))
  BY <1>1
<1>3. CASE s.type = "Condition"
  <2>1. Children(s) = BranchSteps(s)
    BY <1>3 DEF Children
  <2>2. \/ s.if_true \in StepIds /\ e = [step |-> step_index[s.if_true], role |-> "then"]
        \/ s.if_false \in StepIds /\ e = [step |-> step_index[s.if_false], role |-> "else"]
    BY <1>2, <2>1, BranchesFacts
  <2>3. NoRef \notin StepIds
    BY FactoryAssumption DEF StepIds
  <2>4. CASE s.if_true \in StepIds /\ e = [step |-> step_index[s.if_true], role |-> "then"]
    <3>1. s.if_true \in BranchRefs(s) /\ e.step = step_index[s.if_true]
      BY <2>3, <2>4 DEF BranchRefs
    <3> QED BY <1>2, <2>4, <3>1
  <2>5. CASE s.if_false \in StepIds /\ e = [step |-> step_index[s.if_false], role |-> "else"]
    <3>1. s.if_false \in BranchRefs(s) /\ e.step = step_index[s.if_false]
      BY <2>3, <2>5 DEF BranchRefs
    <3> QED BY <1>2, <2>5, <3>1
  <2> QED BY <2>2, <2>4, <2>5
<1>4. CASE s.type = "Router"
  <2>1. Children(s) = CaseSteps(s)
    BY <1>4 DEF Children
  <2>2. PICK i \in 1..Len(s.cases) :
          s.cases[i].ref \in StepIds /\ e = [step |-> step_index[s.cases[i].ref], role |-> s.cases[i].key]
    <3>1. \A x : x \in ToSet(CaseSteps(s)) <=>
            \E i \in 1..Len(s.cases) : /\ s.cases[i].ref \in StepIds
                                       /\ x = [step |-> step_index[s.cases[i].ref], role |-> s.cases[i].key]
      BY CaseFacts, Zenon
    <3>2. e \in ToSet(CaseSteps(s))
      BY <1>2, <2>1
    <3> QED BY <3>1, <3>2
  <2>3. s.cases[i].ref \in BranchRefs(s)
    <3>1. PICK q : q \in Seq({[key |-> c.key, ref |-> c.ref] : c \in ToSet(s.cases)}) /\ q = s.cases
      BY Candidates
    <3>2. DOMAIN q = 1..Len(q)
      BY <3>1
    <3>3. s.cases[i].ref # NoRef
      BY <2>2, FactoryAssumption DEF StepIds
    <3> QED BY <2>2, <3>1, <3>2, <3>3 DEF BranchRefs
  <2>4. e.step = step_index[s.cases[i].ref]
    BY <2>2
  <2> QED BY <1>2, <2>2, <2>3, <2>4
<1>5. CASE s.type # "Condition" /\ s.type # "Router"
  <2>1. Children(s) = NestedSteps(s)
    BY <1>5 DEF Children
  <2>2. j \in 1..Len(s.steps) /\ e.step = s.steps[j]
    BY <1>2, <2>1, NestedFacts
  <2>3. j \in DOMAIN s.steps
    <3>1. PICK q : q \in Seq(StepConfigs) /\ q = s.steps
      BY Candidates
    <3>2. DOMAIN q = 1..Len(q)
      BY <3>1
    <3> QED BY <2>2, <3>1, <3>2
  <2> QED BY <1>2, <1>5, <2>2, <2>3
<1> QED BY <1>3, <1>4, <1>5

LEMMA TimesMore ==
  ASSUME NEW q \in Nat, NEW p \in Nat, q < p, NEW w \in Nat
  PROVE  q * w \in Nat /\ p * w \in Nat /\ q * w + w <= p * w
<1>1. PICK r \in Nat : p = q + 1 + r
  <2>1. p - q - 1 \in Nat /\ p = q + 1 + (p - q - 1)
    OBVIOUS
  <2> QED BY <2>1
<1>2. p * w = q * w + w + r * w
  BY <1>1
<1>3. q * w \in Nat /\ r * w \in Nat
  OBVIOUS
<1> QED BY <1>2, <1>3

\* Where every chain of branches ends, the calls are no deeper than the steps are
\* many, each with all that is nested in it: a call of a nested step is one level
\* further in, and a call of a branch is at a step of a lower rank.
LEMMA CallsAreBounded ==
  ASSUME TreeInv, FactoryInv, StepsIntegrity, ~Cyclic
  PROVE  Len(stack) <= Len(config) * (MaxNesting + 1)
<1>1. config \in Seq(StepConfigs) /\ Len(config) \in Nat
  BY DEF TreeInv
<1>2. Len(stack) \in Nat /\ DOMAIN stack = 1..Len(stack)
  BY SeqFacts DEF FactoryInv, StackOK
<1>3. PICK rank : Ranks(StepIds, rank)
  BY <1>1, RanksExist
<1>4. PICK N \in Nat : N = Cardinality(StepIds) /\ N <= Len(config)
  BY <1>1, StepIdsFinite, FS_CardinalityType
<1>5. PICK w \in Nat : w = MaxNesting + 1
  BY FactoryAssumption
<1>6. \A s \in StepConfigs : Nesting[s] \in Nat /\ Nesting[s] + 1 <= w
  BY <1>5, NestedDeeper
<1> DEFINE Above(s, p) == \A ref \in BuiltRefs[s] \intersect StepIds : rank[ref] < p
           Deep(i) == \E p \in Nat : /\ p < N /\ Above(stack[i].step, p)
                                     /\ p * w + Nesting[stack[i].step] + i <= N * w
<1>7. ASSUME NEW id \in StepIds
      PROVE  rank[id] \in Nat /\ rank[id] < N /\ Above(step_index[id], rank[id])
  BY <1>3, <1>4 DEF Ranks
<1>8. \A i \in 1..Len(stack) : stack[i].step \in StepConfigs
  BY DEF TreeInv, StackFollows, FrameFollows
<1>9. Len(stack) >= 1 => Deep(1)
  <2> SUFFICES ASSUME Len(stack) >= 1 PROVE Deep(1)
    OBVIOUS
  <2>1. PICK k \in 1..Len(config) : stack[1].step = config[k]
    <3>1. Len(steps) < Len(config) /\ stack[1].step = config[Len(steps) + 1] /\ Len(steps) \in Nat
      BY SeqFacts DEF TreeInv, AtTop, FactoryInv
    <3>2. Len(steps) + 1 \in 1..Len(config)
      BY <1>1, <3>1
    <3> QED BY <3>1, <3>2
  <2> DEFINE id == config[k].step
  <2>2. id \in StepIds /\ step_index[id] = config[k]
    <3>1. DOMAIN config = 1..Len(config)
      BY <1>1
    <3>2. id \in StepIds
      BY <3>1 DEF StepIds
    <3>3. \A j \in DOMAIN config : config[j].step = id => j = k
      BY <2>1, <3>1 DEF StepsIntegrity
    <3>4. (CHOOSE j \in DOMAIN config : config[j].step = id) = k
      BY <2>1, <3>1, <3>3
    <3> QED BY <3>2, <3>4 DEF step_index
  <2>3. PICK p \in Nat : p < N /\ Above(stack[1].step, p)
    <3> HIDE DEF id, Above
    <3>1. rank[id] \in Nat /\ rank[id] < N /\ Above(step_index[id], rank[id])
      BY <2>2, <1>7
    <3> QED BY <2>1, <2>2, <3>1
  <2>4. p * w \in Nat /\ N * w \in Nat /\ p * w + w <= N * w
    BY <2>3, <1>4, TimesMore
  <2>5. Nesting[stack[1].step] \in Nat /\ Nesting[stack[1].step] + 1 <= w
    BY <1>2, <1>6, <1>8
  <2>6. p * w + Nesting[stack[1].step] + 1 <= N * w
    <3>1. PICK a \in Nat, b \in Nat, m \in Nat : a = p * w /\ b = N * w /\ m = Nesting[stack[1].step]
      BY <2>4, <2>5
    <3>2. a + w <= b /\ m + 1 <= w
      BY <2>4, <2>5, <3>1
    <3>3. a + m + 1 <= b
      BY <3>2
    <3> QED BY <3>1, <3>3
  <2> HIDE DEF Above
  <2> QED BY <2>3, <2>6
<1>10. ASSUME NEW i \in Nat, i >= 1, i + 1 <= Len(stack), Deep(i)
       PROVE  Deep(i + 1)
  <2> DEFINE s == stack[i].step
             t == stack[i + 1].step
  <2>1. s \in StepConfigs /\ t \in StepConfigs
    BY <1>2, <1>8, <1>10
  <2>2. PICK p \in Nat : p < N /\ Above(s, p) /\ p * w + Nesting[s] + i <= N * w
    BY <1>10
  <2>3. \/ s.type # "Condition" /\ \E j \in DOMAIN s.steps : t = s.steps[j]
        \/ \E ref \in BranchRefs(s) \intersect StepIds : t = step_index[ref]
    <3>1. CalledBy(ChildrenOf, stack[i + 1], stack[i]) /\ FrameFollows(heap, ChildrenOf, stack[i], 1)
      <4> HIDE DEF Deep, s, t
      <4>1. i \in 1..Len(stack) - 1 /\ i \in 1..Len(stack) /\ i # Len(stack)
        <5>1. PICK n \in Nat : n = Len(stack)
          BY <1>2
        <5>2. i >= 1 /\ i + 1 <= n
          BY <1>10, <5>1
        <5>3. i \in 1..n - 1 /\ i \in 1..n /\ i # n
          BY <5>2
        <5> QED BY <5>1, <5>3
      <4>2. StackFollows(heap, ChildrenOf, stack, 0)
        BY DEF TreeInv
      <4> QED BY <4>1, <4>2 DEF StackFollows
    <3>2. ChildrenOf[s] = Children(s) /\ Len(Children(s)) \in Nat
      BY <1>1, <2>1, ChildrenFacts
    <3>3. Len(stack[i].done) \in Nat
      BY <3>1, SeqFacts DEF FrameFollows, Returned
    <3>4. PICK at : at = Len(stack[i].done) + 1
      OBVIOUS
    <3>5. at \in 1..Len(Children(s)) /\ t = Children(s)[at].step
      BY <3>1, <3>2, <3>3, <3>4 DEF CalledBy
    <3> HIDE DEF s, t
    <3> QED BY <1>1, <2>1, <3>5, ChildIs
  <2> HIDE DEF s, t
  <2>4. CASE s.type # "Condition" /\ \E j \in DOMAIN s.steps : t = s.steps[j]
    <3>1. PICK j \in DOMAIN s.steps : t = s.steps[j]
      BY <2>4
    <3>2. BuiltRefs[t] \subseteq BuiltRefs[s]
      BY <2>1, <2>4, <3>1, RefsAre DEF Refs
    <3>3. Nesting[t] \in Nat /\ Nesting[s] \in Nat /\ Nesting[t] < Nesting[s]
      BY <2>1, <3>1, NestedDeeper
    <3>4. Above(t, p)
      BY <2>2, <3>2
    <3>5. p * w \in Nat /\ N * w \in Nat
      BY <2>2, <1>4, TimesMore
    <3>6. p * w + Nesting[t] + (i + 1) <= N * w
      BY <2>2, <3>3, <3>5
    <3> HIDE DEF Above
    <3> QED BY <2>2, <3>4, <3>6 DEF t
  <2>5. CASE \E ref \in BranchRefs(s) \intersect StepIds : t = step_index[ref]
    <3>1. PICK ref \in BranchRefs(s) \intersect StepIds : t = step_index[ref]
      BY <2>5
    <3>2. ref \in BuiltRefs[s]
      BY <2>1, <3>1, RefsAre DEF Refs
    <3>3. PICK q \in Nat : q = rank[ref] /\ q < N /\ Above(t, q)
      <4> HIDE DEF Above
      <4>1. rank[ref] \in Nat /\ rank[ref] < N /\ Above(step_index[ref], rank[ref])
        BY <3>1, <1>7
      <4> QED BY <3>1, <4>1
    <3>4. q < p
      BY <2>2, <3>1, <3>2, <3>3
    <3>5. q * w \in Nat /\ p * w \in Nat /\ q * w + w <= p * w /\ N * w \in Nat
      BY <2>2, <3>3, <3>4, <1>4, TimesMore
    <3>6. Nesting[t] \in Nat /\ Nesting[t] + 1 <= w /\ Nesting[s] \in Nat
      BY <2>1, <1>6
    <3>7. q * w + Nesting[t] + (i + 1) <= N * w
      <4>1. PICK a \in Nat, b \in Nat, c \in Nat, m \in Nat, k \in Nat :
              a = q * w /\ b = p * w /\ c = N * w /\ m = Nesting[t] /\ k = Nesting[s]
        BY <3>5, <3>6
      <4>2. a + w <= b /\ m + 1 <= w /\ b + k + i <= c
        BY <2>2, <3>5, <3>6, <4>1
      <4>3. a + m + (i + 1) <= c
        BY <4>2
      <4> QED BY <4>1, <4>3
    <3> HIDE DEF Above
    <3> QED BY <3>3, <3>7 DEF t
  <2> QED BY <2>3, <2>4, <2>5
<1> HIDE DEF Deep
<1> DEFINE T == {n \in Nat : n + 1 <= Len(stack) => Deep(n + 1)}
<1>11. 0 \in T /\ \A n \in Nat : n \in T => n + 1 \in T
  <2>1. 0 \in T
    BY <1>9
  <2>2. ASSUME NEW n \in Nat, n \in T, (n + 1) + 1 <= Len(stack) PROVE Deep((n + 1) + 1)
    <3>1. n + 1 \in Nat /\ n + 1 >= 1 /\ n + 1 <= Len(stack)
      BY <1>2, <2>2
    <3>2. Deep(n + 1)
      BY <2>2, <3>1
    <3> QED BY <1>10, <2>2, <3>1, <3>2
  <2> QED BY <2>1, <2>2
<1>12. \A n \in Nat : n \in T
  <2> HIDE DEF T
  <2> QED BY <1>11, Induction
<1>13. Len(stack) <= N * w
  <2>1. N * w \in Nat
    BY <1>4, <1>5
  <2>2. CASE Len(stack) = 0
    BY <2>1, <2>2
  <2>3. CASE Len(stack) # 0
    <3>1. PICK n \in Nat : Len(stack) = n + 1
      <4>1. Len(stack) - 1 \in Nat /\ Len(stack) = (Len(stack) - 1) + 1
        BY <1>2, <2>3
      <4> QED BY <4>1
    <3>2. Deep(n + 1)
      BY <1>12, <3>1
    <3>3. PICK p \in Nat : p * w + Nesting[stack[n + 1].step] + (n + 1) <= N * w
      BY <3>2 DEF Deep
    <3>4. Nesting[stack[n + 1].step] \in Nat
      BY <1>2, <1>6, <1>8, <3>1
    <3>5. p * w \in Nat
      BY <1>5
    <3> QED BY <2>1, <3>1, <3>3, <3>4, <3>5
  <2> QED BY <2>2, <2>3
<1>14. N * w <= Len(config) * w
  <2>1. CASE N = Len(config)
    BY <2>1, <1>1, <1>4, <1>5
  <2>2. CASE N < Len(config)
    <3>1. N * w + w <= Len(config) * w /\ N * w \in Nat /\ Len(config) * w \in Nat
      BY <2>2, <1>1, <1>4, <1>5, TimesMore
    <3> QED BY <3>1, <1>5
  <2> QED BY <2>1, <2>2, <1>1, <1>4
<1>15. N * w \in Nat /\ Len(config) * w \in Nat
  BY <1>1, <1>4, <1>5
<1> QED BY <1>2, <1>5, <1>13, <1>14, <1>15

\* A validated configuration whose branches form no cycle never exhausts the
\* recursion, through whatever groups and however often a step is shared; and one
\* whose branches do is never built.
THEOREM OnlyCyclesExhaust ==
  ASSUME LimitSuffices
  PROVE  FactorySpec => []EndsUnlessCyclic
<1>1. FactoryInv /\ TreeInv /\ LimitInv => EndsUnlessCyclic
  <2> SUFFICES ASSUME FactoryInv, TreeInv, LimitInv PROVE EndsUnlessCyclic
    OBVIOUS
  <2>1. CyclesAreRefused
    BY CyclesEnd
  <2>2. ASSUME stage = "RecursionError", ~Cyclic PROVE FALSE
    <3>1. StepsIntegrity /\ Len(stack) = RecursionLimit /\ config \in Configs
      BY <2>2 DEF LimitInv
    <3>2. RecursionLimit <= Len(config) * (MaxNesting + 1)
      BY <2>2, <3>1, CallsAreBounded
    <3>3. Len(config) * (MaxNesting + 1) < RecursionLimit
      BY <3>1 DEF LimitSuffices
    <3>4. PICK n \in Nat : n = Len(config) * (MaxNesting + 1)
      <4>1. Len(config) \in Nat /\ MaxNesting + 1 \in Nat
        BY FactoryAssumption DEF TreeInv
      <4> QED BY <4>1
    <3>5. RecursionLimit \in Nat
      BY FactoryAssumption
    <3> QED BY <3>2, <3>3, <3>4, <3>5
  <2> QED BY <2>1, <2>2 DEF EndsUnlessCyclic
<1> QED BY <1>1, SpecLimitInv, PTL
=============================================================================
