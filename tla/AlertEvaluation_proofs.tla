----------------------- MODULE AlertEvaluation_proofs -----------------------
(***************************************************************************)
(* Proofs about AlertEvaluation, for every number of connections and       *)
(* evaluation threads, every rule list and every sequence of edits: an     *)
(* evaluation is made against one list of rules, and no line escapes the   *)
(* counters.                                                               *)
(***************************************************************************)
EXTENDS AlertEvaluation, FiniteSetTheorems, SequenceTheorems, TLAPS

\* The rules and the actions that can ever run.
AllRules == {StartRules[i] : i \in DOMAIN StartRules} \cup NewRules
AllBodies == {StartActions[n] : n \in DOMAIN StartActions} \cup {NewBody}
ActionMaps == UNION {[N -> AllBodies] : N \in SUBSET DOMAIN StartActions}
Executions == {rule.name : rule \in AllRules} \X AllBodies

Contexts ==
  [pc : {"idle", "parse", "evaluate", "finish"}, line : Lines \cup BadLines \cup {NoLine},
   next : Nat \ {0}, matched : SUBSET Nat, executed : Seq(Executions),
   rules : Seq(AllRules), actions : ActionMaps]

ReceiverStates ==
  [Receivers -> [pc : {"idle", "push", "count"}, line : Lines \cup BadLines \cup {NoLine}]]

\* Only a receiver about to push has a line at hand.
ShapeInv ==
  /\ rules \in Seq(AllRules) /\ actions \in ActionMaps
  /\ evaluationQueue \in Seq(Lines \cup BadLines) /\ Len(evaluationQueue) <= QueueSize
  /\ receiver \in ReceiverStates
  /\ \A r \in Receivers : receiver[r].pc = "push" => receiver[r].line \in Lines \cup BadLines
  /\ evaluator \in [Evaluators -> Contexts]
  /\ received \in 0..MaxLines /\ edits \in 0..MaxEdits
  /\ queuedLinesCount \in Nat /\ droppedInQueue \in Nat /\ badFormatLines \in Nat
  /\ processedLines \in Nat /\ rulesActivated \in Nat

\* The executions of the matched rules up to now, in order.
RanSoFar(matched, rs, acts, executed) ==
  LET E == {i \in matched : Runs(rs, acts, i)}
  IN  /\ Len(executed) = Cardinality(E)
      /\ \A i \in E :
           executed[Cardinality({j \in E : j <= i})] = <<rs[i].name, acts[rs[i].actionId]>>

\* Where an evaluation stands: against the rules and actions that ran when it
\* began, which still run, it has activated every match before the next rule,
\* and none of them stopped it.
Underway(x) ==
  /\ x.line \in Lines
  /\ x.rules = rules /\ x.actions = actions
  /\ x.next <= Len(x.rules) + 1
  /\ x.matched = {i \in Matching(x.line, x.rules) : i < x.next}
  /\ \A i \in x.matched : ~StopsWith(x.rules[i], x.actions)
  /\ RanSoFar(x.matched, x.rules, x.actions, x.executed)

Judged(x) ==
  /\ x.matched = Activated(x.line, x.rules, x.actions)
  /\ RanSoFar(x.matched, x.rules, x.actions, x.executed)

Fresh(x) == x.next = 1 /\ x.matched = {} /\ x.executed = <<>>

LoopInv ==
  \A e \in Evaluators :
    LET x == evaluator[e]
    IN  /\ x.pc \in {"idle", "parse"} => Fresh(x)
        /\ x.pc = "evaluate" => Underway(x)
        /\ x.pc = "finish" => Judged(x)
-----------------------------------------------------------------------------
(* Rule lists and actions.                                                   *)

\* A line's matching rules are positions of the list.
LEMMA ActivatedPositions ==
  ASSUME NEW rs \in Seq(AllRules), NEW line, NEW acts
  PROVE  Activated(line, rs, acts) \subseteq 1..Len(rs)
BY DEF Activated, Matching

\* The lists that the edits give.
LEMMA EditsAreRules ==
  ASSUME NEW rs \in Seq(AllRules)
  PROVE  /\ \A rule \in NewRules : InsertRule(rs, 0, rule) \in Seq(AllRules)
         /\ \A pos \in 0..Len(rs) - 1 : EraseRule(rs, pos) \in Seq(AllRules)
         /\ \A pos \in 0..Len(rs) - 2 : SwapWithNext(rs, pos) \in Seq(AllRules)
<1>1. /\ Len(rs) \in Nat /\ NewRules \subseteq AllRules
      /\ \A i \in 1..Len(rs) : rs[i] \in AllRules
  BY DEF AllRules
<1>2. ASSUME NEW m \in Nat \ {0}, NEW n \in Int, n <= Len(rs)
      PROVE  SubSeq(rs, m, n) \in Seq(AllRules)
  BY <1>1, <1>2, SubSeqProperties
<1>3. ASSUME NEW rule \in NewRules PROVE InsertRule(rs, 0, rule) \in Seq(AllRules)
  <2>1. Append(rs, rule) \in Seq(AllRules) /\ <<rule>> \in Seq(AllRules)
    BY <1>1
  <2>2. SubSeq(rs, 1, 0) \in Seq(AllRules) /\ SubSeq(rs, 0 + 1, Len(rs)) \in Seq(AllRules)
    BY <1>1, <1>2
  <2>3. (SubSeq(rs, 1, 0) \o <<rule>>) \o SubSeq(rs, 0 + 1, Len(rs)) \in Seq(AllRules)
    BY <2>1, <2>2, ConcatProperties
  <2>. QED BY <2>1, <2>3 DEF InsertRule
<1>4. ASSUME NEW pos \in 0..Len(rs) - 1 PROVE EraseRule(rs, pos) \in Seq(AllRules)
  <2>1. SubSeq(rs, 1, pos) \in Seq(AllRules) /\ SubSeq(rs, pos + 2, Len(rs)) \in Seq(AllRules)
    BY <1>1, <1>2
  <2>. QED BY <2>1, ConcatProperties DEF EraseRule
<1>5. ASSUME NEW pos \in 0..Len(rs) - 2 PROVE SwapWithNext(rs, pos) \in Seq(AllRules)
  <2>1. rs[pos + 1] \in AllRules /\ rs[pos + 2] \in AllRules
    BY <1>1
  <2>2. pos + 1 \in 1..Len(rs) /\ pos + 2 \in 1..Len(rs)
    BY <1>1
  <2>. QED BY <2>1, <2>2 DEF SwapWithNext
<1>. QED BY <1>3, <1>4, <1>5

\* An action map is a function from some of the names to bodies.
LEMMA ActionMapsMembers ==
  ASSUME NEW N \in SUBSET DOMAIN StartActions, NEW f \in [N -> AllBodies]
  PROVE  f \in ActionMaps
BY DEF ActionMaps

\* The actions that the edits give.
LEMMA EditsAreActions ==
  ASSUME NEW acts \in ActionMaps, NEW name \in DOMAIN acts
  PROVE  /\ WithAction(acts, name, NewBody) \in ActionMaps
         /\ WithoutAction(acts, name) \in ActionMaps
<1>1. /\ DOMAIN acts \in SUBSET DOMAIN StartActions
      /\ \A n \in DOMAIN acts : acts[n] \in AllBodies
  BY DEF ActionMaps
<1>2. WithAction(acts, name, NewBody) \in [DOMAIN acts -> AllBodies]
  BY <1>1 DEF WithAction, AllBodies
<1>3. WithoutAction(acts, name) \in [DOMAIN acts \ {name} -> AllBodies]
  BY <1>1 DEF WithoutAction
<1>. QED BY <1>1, <1>2, <1>3, ActionMapsMembers
-----------------------------------------------------------------------------
(* The shape.                                                                *)

\* A thread at rest.
LEMMA IdleIsContext == IdleEvaluator \in Contexts
<1>1. [n \in {} |-> n] \in [{} -> AllBodies] /\ {} \in SUBSET DOMAIN StartActions
  OBVIOUS
<1>2. [n \in {} |-> n] \in ActionMaps
  BY <1>1, ActionMapsMembers
<1>3. <<>> \in Seq(Executions) /\ <<>> \in Seq(AllRules) /\ {} \in SUBSET Nat
  BY EmptySeq
<1>. QED BY <1>2, <1>3 DEF IdleEvaluator, Contexts

\* Nothing waits at first, and what runs is what was given.
LEMMA ShapeInit == Init => ShapeInv
<1> SUFFICES ASSUME Init PROVE ShapeInv
  OBVIOUS
<1>1. StartRules \in Seq(AllRules)
  <2>1. {StartRules[i] : i \in DOMAIN StartRules} \subseteq AllRules
    BY DEF AllRules
  <2>. QED BY <2>1, EvaluationAssumption, SeqMonotonic
<1>2. StartActions \in ActionMaps
  <2>1. StartActions \in [DOMAIN StartActions -> AllBodies]
    BY EvaluationAssumption DEF AllBodies
  <2>. QED BY <2>1, ActionMapsMembers
<1>3. IdleEvaluator \in Contexts
  BY IdleIsContext
<1>4. Len(evaluationQueue) <= QueueSize /\ evaluationQueue \in Seq(Lines \cup BadLines)
  BY EvaluationAssumption DEF Init
<1>5. evaluator \in [Evaluators -> Contexts] /\ receiver \in ReceiverStates
      /\ \A r \in Receivers : receiver[r].pc = "idle"
  BY <1>3 DEF Init, ReceiverStates
<1>. QED BY <1>1, <1>2, <1>4, <1>5, EvaluationAssumption DEF Init, ShapeInv

\* The receivers' steps keep the shape.
LEMMA ShapeReceives ==
  ASSUME ShapeInv, NEW r \in Receivers,
         ReceiverStep(r) \/ (\E line \in Lines \cup BadLines : ReceiveLine(r, line))
  PROVE  ShapeInv'
<1> USE DEF ShapeInv, countVars
<1>1. ASSUME NEW line \in Lines \cup BadLines, ReceiveLine(r, line) PROVE ShapeInv'
  BY <1>1, EvaluationAssumption DEF ReceiveLine, ReceiverStates
<1>2. CASE PushLine(r)
  <2>1. receiver[r].line \in Lines \cup BadLines /\ Len(evaluationQueue) < QueueSize
    BY <1>2 DEF PushLine, HasRoom
  <2>2. evaluationQueue' \in Seq(Lines \cup BadLines) /\ Len(evaluationQueue') <= QueueSize
    BY <1>2, <2>1, EvaluationAssumption DEF PushLine
  <2>3. receiver' \in ReceiverStates
        /\ \A q \in Receivers : receiver'[q].pc = "push" => receiver'[q].line \in Lines \cup BadLines
    BY <1>2 DEF PushLine, ReceiverStates
  <2>. QED BY <1>2, <2>2, <2>3 DEF PushLine
<1>3. CASE DropLine(r)
  BY <1>3 DEF DropLine, ReceiverStates
<1>4. CASE CountQueued(r)
  BY <1>4 DEF CountQueued, ReceiverStates
<1>. QED BY <1>1, <1>2, <1>3, <1>4 DEF ReceiverStep

\* Applying a rule to a thread's context gives a context.
LEMMA RuleContexts ==
  ASSUME ShapeInv, NEW x \in Contexts, x.next <= Len(rules)
  PROVE  AfterRule(x) \in Contexts
<1>1. /\ x.next \in 1..Len(rules) /\ x.next + 1 \in Nat \ {0}
      /\ x.matched \cup {x.next} \in SUBSET Nat /\ Len(rules) \in Nat
  BY DEF Contexts, ShapeInv
<1>2. rules[x.next] \in AllRules
  BY <1>1 DEF ShapeInv
<1>3. ASSUME rules[x.next].actionId \in DOMAIN actions
      PROVE  Append(x.executed, <<rules[x.next].name, actions[rules[x.next].actionId]>>) \in Seq(Executions)
  <2>1. actions[rules[x.next].actionId] \in AllBodies
    BY <1>3 DEF ShapeInv, ActionMaps
  <2>2. <<rules[x.next].name, actions[rules[x.next].actionId]>> \in Executions
    BY <1>2, <2>1 DEF Executions
  <2>. QED BY <2>2 DEF Contexts
<1>. QED BY <1>1, <1>3 DEF AfterRule, Contexts

\* The evaluation threads' steps keep the shape.
LEMMA ShapeEvaluates ==
  ASSUME ShapeInv, NEW e \in Evaluators, EvaluatorStep(e)
  PROVE  ShapeInv'
<1> USE DEF countVars
<1>1. evaluator[e] \in Contexts /\ IdleEvaluator \in Contexts
  BY IdleIsContext DEF ShapeInv
<1>2. ASSUME NEW y \in Contexts, evaluator' = [evaluator EXCEPT ![e] = y],
             UNCHANGED <<rules, actions, receiver, received, edits, queuedLinesCount, droppedInQueue>>,
             evaluationQueue' = evaluationQueue
             \/ (evaluationQueue # <<>> /\ evaluationQueue' = Tail(evaluationQueue)),
             badFormatLines' \in Nat, processedLines' \in Nat, rulesActivated' \in Nat
      PROVE  ShapeInv'
  <2>1. evaluator' \in [Evaluators -> Contexts]
    BY <1>2 DEF ShapeInv
  <2>2. evaluationQueue' \in Seq(Lines \cup BadLines) /\ Len(evaluationQueue') <= QueueSize
    <3>1. CASE evaluationQueue' = evaluationQueue
      BY <3>1 DEF ShapeInv
    <3>2. CASE evaluationQueue # <<>> /\ evaluationQueue' = Tail(evaluationQueue)
      <4>1. PICK q \in Seq(Lines \cup BadLines) : q = evaluationQueue /\ Len(q) <= QueueSize
        BY DEF ShapeInv
      <4>2. Tail(q) \in Seq(Lines \cup BadLines) /\ Len(Tail(q)) = Len(q) - 1 /\ Len(q) \in Nat
        BY <3>2, <4>1, HeadTailProperties
      <4>. QED BY <3>2, <4>1, <4>2, EvaluationAssumption
    <3>. QED BY <1>2, <3>1, <3>2
  <2>. QED BY <1>2, <2>1, <2>2 DEF ShapeInv
<1>3. CASE PopLine(e)
  <2>1. Head(evaluationQueue) \in Lines \cup BadLines
    BY <1>3 DEF PopLine, ShapeInv
  <2>2. [evaluator[e] EXCEPT !.pc = "parse", !.line = Head(evaluationQueue)] \in Contexts
    BY <1>1, <2>1 DEF Contexts
  <2>. QED BY <1>2, <1>3, <2>2 DEF PopLine, ShapeInv
<1>4. CASE ParseFails(e)
  BY <1>1, <1>2, <1>4 DEF ParseFails, AfterBadLine, ShapeInv
<1>5. CASE BeginEvaluation(e)
  <2>1. [evaluator[e] EXCEPT !.pc = "evaluate", !.rules = rules, !.actions = actions] \in Contexts
    BY <1>1 DEF Contexts, ShapeInv
  <2>. QED BY <1>2, <1>5, <2>1 DEF BeginEvaluation, ShapeInv
<1>6. CASE EvaluateRule(e)
  <2>1. evaluator' = [evaluator EXCEPT ![e] = AfterRule(evaluator[e])]
    BY <1>6 DEF EvaluateRule
  <2>2. AfterRule(evaluator[e]) \in Contexts
    BY <1>1, <1>6, RuleContexts DEF EvaluateRule
  <2>. QED BY <1>2, <1>6, <2>1, <2>2 DEF EvaluateRule, ShapeInv
<1>7. CASE EndOfRules(e)
  <2>1. [evaluator[e] EXCEPT !.pc = "finish"] \in Contexts
    BY <1>1 DEF Contexts
  <2>. QED BY <1>2, <1>7, <2>1 DEF EndOfRules, ShapeInv
<1>8. CASE FinishEvaluation(e)
  BY <1>1, <1>2, <1>8 DEF FinishEvaluation, ProcessedAfter, ShapeInv
<1>. QED BY <1>3, <1>4, <1>5, <1>6, <1>7, <1>8 DEF EvaluatorStep

\* The edits keep the shape, and are made while no thread is in the loop.
LEMMA ShapeEdits ==
  ASSUME ShapeInv, AdminStep
  PROVE  ShapeInv' /\ NoReaders
         /\ UNCHANGED <<evaluationQueue, receiver, evaluator, received, countVars>>
<1> USE DEF ShapeInv, countVars
<1>1. ASSUME NEW rs \in Seq(AllRules), NEW acts \in ActionMaps, Edit(rs, acts)
      PROVE  ShapeInv' /\ NoReaders
             /\ UNCHANGED <<evaluationQueue, receiver, evaluator, received, countVars>>
  BY <1>1, EvaluationAssumption DEF Edit
<1>2. ASSUME NEW rule \in NewRules, AddRule(rule)
      PROVE  \E rs \in Seq(AllRules), acts \in ActionMaps : Edit(rs, acts)
  BY <1>2, EditsAreRules DEF AddRule
<1>3. ASSUME NEW pos \in Positions, RemoveRule(pos) \/ RuleUp(pos)
      PROVE  \E rs \in Seq(AllRules), acts \in ActionMaps : Edit(rs, acts)
  <2>1. CASE RemoveRule(pos)
    BY <2>1, EditsAreRules DEF RemoveRule, Positions
  <2>2. CASE RuleUp(pos)
    <3>1. pos - 1 \in 0..Len(rules) - 2
      BY <2>2 DEF RuleUp, Positions
    <3>. QED BY <2>2, <3>1, EditsAreRules DEF RuleUp
  <2>. QED BY <1>3, <2>1, <2>2
<1>4. ASSUME NEW name \in DOMAIN actions, EditAction(name) \/ RemoveAction(name)
      PROVE  \E rs \in Seq(AllRules), acts \in ActionMaps : Edit(rs, acts)
  BY <1>4, EditsAreActions DEF EditAction, RemoveAction
<1>. QED BY <1>1, <1>2, <1>3, <1>4 DEF AdminStep

\* Every step keeps the shape.
LEMMA ShapeNext == ShapeInv /\ [Next]_vars => ShapeInv'
<1> SUFFICES ASSUME ShapeInv, [Next]_vars PROVE ShapeInv'
  OBVIOUS
<1>1. CASE UNCHANGED vars
  BY <1>1 DEF vars, countVars, ShapeInv
<1>. QED BY <1>1, ShapeReceives, ShapeEvaluates, ShapeEdits DEF Next, AllQuiet
-----------------------------------------------------------------------------
(* One evaluation.                                                           *)

\* Executing one more action, for a rule behind all the others, keeps the
\* executions in order; so does a rule that executes none.
LEMMA OneMoreRan ==
  ASSUME NEW n \in Nat, NEW m \in SUBSET (1..n), NEW rs, NEW acts,
         NEW executed \in Seq(Executions), RanSoFar(m, rs, acts, executed)
  PROVE  /\ ~Runs(rs, acts, n + 1) => RanSoFar(m \cup {n + 1}, rs, acts, executed)
         /\ \A x \in Executions :
              Runs(rs, acts, n + 1) /\ x = <<rs[n + 1].name, acts[rs[n + 1].actionId]>>
              => RanSoFar(m \cup {n + 1}, rs, acts, Append(executed, x))
<1>1. PICK E : E = {i \in m : Runs(rs, acts, i)}
  OBVIOUS
<1>2. /\ E \in SUBSET (1..n) /\ IsFiniteSet(E)
      /\ Len(executed) = Cardinality(E) /\ Cardinality(E) \in Nat
      /\ \A i \in E : executed[Cardinality({j \in E : j <= i})] = <<rs[i].name, acts[rs[i].actionId]>>
  <2>1. E \in SUBSET (1..n)
    BY <1>1
  <2>2. IsFiniteSet(E)
    <3>1. 1 \in Int /\ n \in Int
      OBVIOUS
    <3>2. IsFiniteSet(1..n)
      BY <3>1, FS_Interval
    <3>. QED BY <2>1, <3>2, FS_Subset
  <2>3. Cardinality(E) \in Nat
    BY <2>2, FS_CardinalityType
  <2>. QED BY <1>1, <2>1, <2>2, <2>3 DEF RanSoFar
<1>3. ASSUME ~Runs(rs, acts, n + 1) PROVE RanSoFar(m \cup {n + 1}, rs, acts, executed)
  <2>1. {i \in m \cup {n + 1} : Runs(rs, acts, i)} = E
    BY <1>1, <1>3
  <2>. QED BY <1>2, <2>1 DEF RanSoFar
<1>4. ASSUME NEW x \in Executions, Runs(rs, acts, n + 1),
             x = <<rs[n + 1].name, acts[rs[n + 1].actionId]>>
      PROVE  RanSoFar(m \cup {n + 1}, rs, acts, Append(executed, x))
  <2>1. PICK F : F = E \cup {n + 1}
    OBVIOUS
  <2>2. {i \in m \cup {n + 1} : Runs(rs, acts, i)} = F
    BY <1>1, <1>4, <2>1
  <2>a. \A j \in E : j \in Int /\ j < n + 1
    <3>1. E \in SUBSET (1..n)
      BY <1>2
    <3>. QED BY <3>1
  <2>3. Cardinality(F) = Cardinality(E) + 1
    <3>1. n + 1 \notin E /\ IsFiniteSet(E)
      BY <1>2, <2>a
    <3>. QED BY <2>1, <3>1, FS_AddElement
  <2>4. /\ Len(Append(executed, x)) = Len(executed) + 1 /\ Append(executed, x)[Len(executed) + 1] = x
        /\ \A c \in 1..Len(executed) : Append(executed, x)[c] = executed[c]
    OBVIOUS
  <2>5. ASSUME NEW i \in F
        PROVE  Append(executed, x)[Cardinality({j \in F : j <= i})] = <<rs[i].name, acts[rs[i].actionId]>>
    <3>1. CASE i = n + 1
      <4>1. {j \in F : j <= i} = F
        <5>1. \A j \in E : j <= n + 1
          BY <2>a
        <5>2. \A j \in F : j <= i
          BY <2>1, <3>1, <5>1
        <5>. QED BY <5>2
      <4>. QED BY <1>2, <1>4, <2>3, <2>4, <3>1, <4>1
    <3>2. CASE i \in E
      <4>1. PICK R : R = {j \in E : j <= i}
        OBVIOUS
      <4>2. {j \in F : j <= i} = R /\ R \in SUBSET E /\ R # {}
        BY <1>2, <2>1, <3>2, <4>1
      <4>3. Cardinality(R) \in 1..Cardinality(E)
        <5>1. IsFiniteSet(R) /\ Cardinality(R) <= Cardinality(E)
          BY <1>2, <4>2, FS_Subset
        <5>2. Cardinality(R) \in Nat /\ Cardinality(R) # 0
          BY <4>2, <5>1, FS_CardinalityType, FS_EmptySet
        <5>. QED BY <1>2, <5>1, <5>2
      <4>4. executed[Cardinality(R)] = <<rs[i].name, acts[rs[i].actionId]>>
        BY <1>2, <3>2, <4>1
      <4>. QED BY <1>2, <2>4, <4>2, <4>3, <4>4
    <3>. QED BY <2>1, <3>1, <3>2
  <2>. QED BY <1>2, <2>2, <2>3, <2>4, <2>5 DEF RanSoFar
<1>. QED BY <1>3, <1>4

\* When no match before rule n stops the evaluation, they are all activated,
\* and if n is a match that does, none behind it is.
LEMMA ActivatedUpTo ==
  ASSUME NEW rs \in Seq(AllRules), NEW line, NEW acts, NEW n \in Nat,
         \A i \in Matching(line, rs) : i < n => ~StopsWith(rs[i], acts)
  PROVE  /\ \A i \in Matching(line, rs) : i <= n => i \in Activated(line, rs, acts)
         /\ n \in Matching(line, rs) /\ StopsWith(rs[n], acts)
            => Activated(line, rs, acts) = {i \in Matching(line, rs) : i <= n}
<1>1. Matching(line, rs) \subseteq Nat
  BY DEF Matching
<1>2. \A i \in Matching(line, rs) : i <= n => i \in Activated(line, rs, acts)
  BY <1>1 DEF Activated
<1>3. ASSUME n \in Matching(line, rs), StopsWith(rs[n], acts)
      PROVE  Activated(line, rs, acts) \subseteq {i \in Matching(line, rs) : i <= n}
  BY <1>1, <1>3 DEF Activated
<1>. QED BY <1>2, <1>3

\* The fields of a context after a rule.
LEMMA AfterRuleFields ==
  ASSUME NEW x \in Contexts
  PROVE  LET y == AfterRule(x)
             rule == rules[x.next]
             hit == rule.name \in Matches[x.line]
         IN  /\ y.line = x.line /\ y.rules = x.rules /\ y.actions = x.actions
             /\ y.next = x.next + 1
             /\ y.matched = IF hit THEN x.matched \cup {x.next} ELSE x.matched
             /\ y.pc = IF hit /\ Stops(rule) THEN "finish" ELSE x.pc
             /\ y.executed = IF hit /\ Executes(rule) /\ rule.actionId \in DOMAIN actions
                               THEN Append(x.executed, <<rule.name, actions[rule.actionId]>>)
                               ELSE x.executed
BY DEF AfterRule, Contexts

\* Looking at the next rule takes an evaluation on, or to its end.
LEMMA RuleStep ==
  ASSUME ShapeInv, NEW x \in Contexts, Underway(x), x.pc = "evaluate", x.next <= Len(rules)
  PROVE  LET y == AfterRule(x)
         IN  /\ y.pc = "evaluate" => Underway(y)
             /\ y.pc = "finish" => Judged(y)
             /\ y.pc \in {"evaluate", "finish"}
<1>1. PICK y : y = AfterRule(x)
  OBVIOUS
<1>2. PICK i \in 1..Len(rules) : i = x.next
  BY DEF Contexts, ShapeInv
<1>3. PICK rs \in Seq(AllRules) : rs = rules
  BY DEF ShapeInv
<1>4. PICK line : line = x.line
  OBVIOUS
<1>5. PICK acts : acts = actions
  OBVIOUS
<1>6. /\ x.line = line /\ x.rules = rs /\ x.actions = acts /\ x.next = i /\ line \in Lines
      /\ i \in DOMAIN rs /\ i \in Nat \ {0} /\ Len(rs) \in Nat /\ i <= Len(rs)
      /\ x.matched = {j \in Matching(line, rs) : j < i}
      /\ \A j \in x.matched : ~StopsWith(rs[j], acts)
      /\ RanSoFar(x.matched, rs, acts, x.executed)
  BY <1>2, <1>3, <1>4, <1>5 DEF Underway
<1>7. /\ y.line = line /\ y.rules = rs /\ y.actions = acts /\ y.next = i + 1
      /\ y.matched = IF i \in Matching(line, rs) THEN x.matched \cup {i} ELSE x.matched
      /\ y.pc = IF i \in Matching(line, rs) /\ StopsWith(rs[i], acts) THEN "finish" ELSE "evaluate"
      /\ y.executed = IF i \in Matching(line, rs) /\ Runs(rs, acts, i)
                        THEN Append(x.executed, <<rs[i].name, acts[rs[i].actionId]>>)
                        ELSE x.executed
  <2>1. rs[i].name \in Matches[line] <=> i \in Matching(line, rs)
    BY <1>6 DEF Matching
  <2>2. Stops(rules[i]) <=> StopsWith(rs[i], acts)
    BY <1>3, <1>5 DEF Stops, StopsWith
  <2>. QED BY <1>1, <1>3, <1>5, <1>6, <2>1, <2>2, AfterRuleFields DEF Runs
<1>8. Matching(line, rs) \subseteq Nat
  BY DEF Matching
<1>9. y.matched = {j \in Matching(line, rs) : j < i + 1}
  BY <1>6, <1>7, <1>8
<1>10. RanSoFar(y.matched, rs, acts, y.executed)
  <2>1. CASE i \notin Matching(line, rs)
    BY <1>6, <1>7, <2>1
  <2>2. CASE i \in Matching(line, rs)
    <3>1. PICK n \in Nat : i = n + 1
      <4>1. i - 1 \in Nat /\ i = (i - 1) + 1
        BY <1>6
      <4>. QED BY <4>1
    <3>2. x.matched \in SUBSET (1..n)
      BY <1>6, <3>1 DEF Matching
    <3>3. x.executed \in Seq(Executions)
      BY DEF Contexts
    <3>4. CASE ~Runs(rs, acts, n + 1)
      <4>1. RanSoFar(x.matched \cup {n + 1}, rs, acts, x.executed)
        BY <1>6, <3>2, <3>3, <3>4, OneMoreRan
      <4>. QED BY <1>7, <2>2, <3>1, <3>4, <4>1
    <3>5. CASE Runs(rs, acts, n + 1)
      <4>1. PICK a : a = <<rs[i].name, acts[rs[i].actionId]>>
        OBVIOUS
      <4>2. a \in Executions
        <5>1. acts[rs[i].actionId] \in AllBodies
          BY <1>5, <3>1, <3>5 DEF Runs, ShapeInv, ActionMaps
        <5>. QED BY <1>6, <4>1, <5>1 DEF Executions
      <4>3. RanSoFar(x.matched \cup {n + 1}, rs, acts, Append(x.executed, a))
        <5>1. a = <<rs[n + 1].name, acts[rs[n + 1].actionId]>> /\ RanSoFar(x.matched, rs, acts, x.executed)
          BY <1>6, <3>1, <4>1
        <5>. QED BY <3>2, <3>3, <3>5, <4>2, <5>1, OneMoreRan
      <4>. QED BY <1>7, <2>2, <3>1, <3>5, <4>1, <4>3
    <3>. QED BY <3>4, <3>5
  <2>. QED BY <2>1, <2>2
<1>11. y.pc = "evaluate" => Underway(y)
  <2>1. ASSUME y.pc = "evaluate", NEW j \in y.matched PROVE ~StopsWith(rs[j], acts)
    BY <1>6, <1>7, <2>1
  <2>. QED BY <1>3, <1>5, <1>6, <1>7, <1>9, <1>10, <2>1 DEF Underway
<1>12. y.pc = "finish" => Judged(y)
  <2>1. SUFFICES ASSUME i \in Matching(line, rs), StopsWith(rs[i], acts) PROVE Judged(y)
    BY <1>7
  <2>2. \A j \in Matching(line, rs) : j < i => ~StopsWith(rs[j], acts)
    BY <1>6
  <2>3. Activated(line, rs, acts) = {j \in Matching(line, rs) : j <= i}
    BY <1>6, <2>1, <2>2, ActivatedUpTo
  <2>4. y.matched = Activated(line, rs, acts)
    BY <1>6, <1>8, <1>9, <2>3
  <2>. QED BY <1>7, <1>10, <2>4 DEF Judged
<1>. QED BY <1>1, <1>7, <1>11, <1>12

\* At the end of the list every match was activated.
LEMMA EndOfList ==
  ASSUME NEW x \in Contexts, Underway(x), x.next > Len(x.rules)
  PROVE  Judged(x)
<1>1. PICK rs \in Seq(AllRules) : rs = x.rules
  BY DEF Contexts
<1>2. /\ Len(rs) \in Nat /\ x.next \in Nat /\ x.next = Len(rs) + 1
      /\ x.matched = {j \in Matching(x.line, rs) : j < x.next}
      /\ \A j \in x.matched : ~StopsWith(rs[j], x.actions)
  BY <1>1 DEF Underway, Contexts
<1>3. Matching(x.line, rs) \subseteq 1..Len(rs)
  BY DEF Matching
<1>4. x.matched = Matching(x.line, rs)
  BY <1>2, <1>3
<1>5. \A j \in Matching(x.line, rs) : j < x.next => ~StopsWith(rs[j], x.actions)
  BY <1>2
<1>6. \A j \in Matching(x.line, rs) : j <= x.next => j \in Activated(x.line, rs, x.actions)
  BY <1>2, <1>5, ActivatedUpTo
<1>7. Activated(x.line, rs, x.actions) = Matching(x.line, rs)
  BY <1>2, <1>3, <1>6 DEF Activated
<1>. QED BY <1>1, <1>4, <1>7 DEF Judged, Underway

\* An evaluation begins before the first rule.
LEMMA BeginsUnderway ==
  ASSUME NEW x, x.line \in Lines, x.rules = rules, x.actions = actions, Fresh(x), ShapeInv
  PROVE  Underway(x)
<1>1. Len(x.rules) \in Nat /\ Matching(x.line, x.rules) \subseteq 1..Len(x.rules)
  BY DEF Matching, ShapeInv
<1>2. RanSoFar(x.matched, x.rules, x.actions, x.executed)
  <2>1. {i \in x.matched : Runs(x.rules, x.actions, i)} = {} /\ Len(x.executed) = 0
    BY DEF Fresh
  <2>2. Cardinality({}) = 0
    BY FS_EmptySet
  <2>. QED BY <2>1, <2>2 DEF RanSoFar
<1>. QED BY <1>1, <1>2 DEF Underway, Fresh

\* Every step keeps the evaluations that are under way to their rules: an edit
\* is only made when there is none.
LEMMA LoopNext == ShapeInv /\ LoopInv /\ [Next]_vars => LoopInv'
<1> SUFFICES ASSUME ShapeInv, LoopInv, [Next]_vars PROVE LoopInv'
  OBVIOUS
<1>1. ASSUME evaluator' = evaluator, UNCHANGED <<rules, actions>> \/ NoReaders
      PROVE  LoopInv'
  BY <1>1 DEF LoopInv, NoReaders, Underway, Fresh, Judged
<1>2. CASE AdminStep
  BY <1>1, <1>2, ShapeEdits
<1>3. ASSUME NEW e \in Evaluators, NEW y \in Contexts,
             evaluator' = [evaluator EXCEPT ![e] = y], UNCHANGED <<rules, actions>>,
             y.pc \in {"idle", "parse"} => Fresh(y),
             y.pc = "evaluate" => Underway(y),
             y.pc = "finish" => Judged(y)
      PROVE  LoopInv'
  <2>1. evaluator'[e] = y /\ \A f \in Evaluators \ {e} : evaluator'[f] = evaluator[f]
    BY <1>3 DEF ShapeInv
  <2>. QED BY <1>3, <2>1 DEF LoopInv, Underway, Fresh, Judged
<1>4. ASSUME NEW e \in Evaluators, EvaluatorStep(e) PROVE LoopInv'
  <2>1. evaluator[e] \in Contexts
    BY DEF ShapeInv
  <2>2. UNCHANGED <<rules, actions>>
    BY <1>4 DEF EvaluatorStep, PopLine, ParseFails, BeginEvaluation, EvaluateRule, EndOfRules,
                FinishEvaluation
  <2>3. CASE PopLine(e)
    <3>1. PICK y : y = [evaluator[e] EXCEPT !.pc = "parse", !.line = Head(evaluationQueue)]
      OBVIOUS
    <3>2. y \in Contexts
      <4>1. Head(evaluationQueue) \in Lines \cup BadLines
        BY <2>3 DEF PopLine, ShapeInv
      <4>. QED BY <2>1, <3>1, <4>1 DEF Contexts
    <3>3. y.pc = "parse" /\ Fresh(y)
      <4>1. Fresh(evaluator[e])
        BY <2>3 DEF PopLine, LoopInv
      <4>. QED BY <2>1, <3>1, <4>1 DEF Fresh, Contexts
    <3>. QED BY <1>3, <2>2, <2>3, <3>1, <3>2, <3>3 DEF PopLine
  <2>4. IdleEvaluator \in Contexts /\ IdleEvaluator.pc = "idle" /\ Fresh(IdleEvaluator)
    BY IdleIsContext DEF IdleEvaluator, Fresh
  <2>5. CASE ParseFails(e) \/ FinishEvaluation(e)
    BY <1>3, <2>2, <2>4, <2>5 DEF ParseFails, FinishEvaluation, AfterBadLine
  <2>6. CASE BeginEvaluation(e)
    <3>1. PICK y : y = [evaluator[e] EXCEPT !.pc = "evaluate", !.rules = rules, !.actions = actions]
      OBVIOUS
    <3>2. y \in Contexts
      BY <2>1, <3>1 DEF Contexts, ShapeInv
    <3>3. Fresh(evaluator[e]) /\ evaluator[e].line \in Lines
      BY <2>6 DEF BeginEvaluation, LoopInv
    <3>4. /\ y.pc = "evaluate" /\ y.line = evaluator[e].line /\ y.rules = rules /\ y.actions = actions
          /\ y.next = evaluator[e].next /\ y.matched = evaluator[e].matched
          /\ y.executed = evaluator[e].executed
      BY <2>1, <3>1 DEF Contexts
    <3>5. Fresh(y)
      BY <3>3, <3>4 DEF Fresh
    <3>6. Underway(y)
      BY <3>3, <3>4, <3>5, BeginsUnderway
    <3>. QED BY <1>3, <2>2, <2>6, <3>1, <3>2, <3>4, <3>6 DEF BeginEvaluation
  <2>7. CASE EvaluateRule(e)
    <3>1. PICK y : y = AfterRule(evaluator[e])
      OBVIOUS
    <3>2. Underway(evaluator[e]) /\ evaluator[e].pc = "evaluate" /\ evaluator[e].next <= Len(rules)
      BY <2>7 DEF EvaluateRule, LoopInv
    <3>3. /\ y \in Contexts /\ y.pc \in {"evaluate", "finish"}
          /\ y.pc = "evaluate" => Underway(y)
          /\ y.pc = "finish" => Judged(y)
      BY <2>1, <3>1, <3>2, RuleStep, RuleContexts
    <3>4. y.pc \notin {"idle", "parse"}
      BY <3>3
    <3>. QED BY <1>3, <2>2, <2>7, <3>1, <3>3, <3>4 DEF EvaluateRule
  <2>8. CASE EndOfRules(e)
    <3>1. PICK y : y = [evaluator[e] EXCEPT !.pc = "finish"]
      OBVIOUS
    <3>2. /\ y \in Contexts /\ y.pc = "finish" /\ y.line = evaluator[e].line
          /\ y.rules = evaluator[e].rules /\ y.actions = evaluator[e].actions
          /\ y.matched = evaluator[e].matched /\ y.executed = evaluator[e].executed
      BY <2>1, <3>1 DEF Contexts
    <3>3. Judged(evaluator[e])
      <4>1. Underway(evaluator[e]) /\ evaluator[e].next > Len(rules)
        BY <2>8 DEF EndOfRules, LoopInv
      <4>. QED BY <2>1, <4>1, EndOfList DEF Underway
    <3>4. Judged(y)
      BY <3>2, <3>3 DEF Judged
    <3>. QED BY <1>3, <2>2, <2>8, <3>1, <3>2, <3>4 DEF EndOfRules
  <2>. QED BY <1>4, <2>3, <2>5, <2>6, <2>7, <2>8 DEF EvaluatorStep
<1>5. ASSUME NEW r \in Receivers,
             ReceiverStep(r) \/ (\E line \in Lines \cup BadLines : ReceiveLine(r, line))
      PROVE  LoopInv'
  BY <1>1, <1>5 DEF ReceiverStep, ReceiveLine, PushLine, DropLine, CountQueued
<1>6. CASE UNCHANGED vars
  BY <1>1, <1>6 DEF vars
<1>. QED BY <1>2, <1>4, <1>5, <1>6 DEF Next, AllQuiet

\* No thread has anything at hand at first.
LEMMA LoopInit == Init => LoopInv
BY DEF Init, LoopInv, IdleEvaluator, Fresh

\* Shape and evaluations, in every state.
LEMMA LoopInvariant == Spec => [](ShapeInv /\ LoopInv)
BY ShapeInit, ShapeNext, LoopInit, LoopNext, PTL DEF Spec

\* A line is judged by one list of rules and one set of actions, however long
\* the programs that its evaluation executes take and whatever is edited.
THEOREM OneListInForce == Spec => []OneListPerLine
<1>1. LoopInv => OneListPerLine
  BY DEF LoopInv, Judged, RanSoFar, OneListPerLine, RanInOrder
<1>2. ShapeInv /\ LoopInv => OneListPerLine
  BY <1>1
<1>. QED BY <1>2, LoopInvariant, PTL

\* Type correctness of the evaluation.
THEOREM TypeCorrect == Spec => []TypeOK
<1>1. ASSUME ShapeInv, LoopInv PROVE TypeOK
  <2>1. ASSUME NEW e \in Evaluators
        PROVE  /\ evaluator[e].pc \in {"idle", "parse", "evaluate", "finish"}
               /\ evaluator[e].line \in Lines \cup BadLines \cup {NoLine}
               /\ evaluator[e].matched \subseteq 1..Len(evaluator[e].rules)
    <3>1. PICK x \in Contexts : x = evaluator[e]
      BY <1>1 DEF ShapeInv
    <3>2. x.pc \in {"idle", "parse", "evaluate", "finish"} /\ x.line \in Lines \cup BadLines \cup {NoLine}
          /\ x.rules \in Seq(AllRules)
      BY DEF Contexts
    <3>3. x.matched \subseteq 1..Len(x.rules)
      <4>1. CASE x.pc \in {"idle", "parse"}
        BY <1>1, <3>1, <4>1 DEF LoopInv, Fresh
      <4>2. CASE x.pc = "evaluate"
        <5>1. x.matched \subseteq Matching(x.line, x.rules)
          BY <1>1, <3>1, <4>2 DEF LoopInv, Underway
        <5>. QED BY <3>2, <5>1 DEF Matching
      <4>3. CASE x.pc = "finish"
        BY <1>1, <3>1, <3>2, <4>3, ActivatedPositions DEF LoopInv, Judged
      <4>. QED BY <3>2, <4>1, <4>2, <4>3
    <3>. QED BY <3>1, <3>2, <3>3
  <2>. QED BY <1>1, <2>1 DEF ShapeInv, ReceiverStates, TypeOK
<1>2. ShapeInv /\ LoopInv => TypeOK
  BY <1>1
<1>. QED BY <1>2, LoopInvariant, PTL
-----------------------------------------------------------------------------
(* The counters.                                                             *)

\* One if the state x is in S, and how many threads of T are in a state of S.
IsIn(x, S) == IF x \in S THEN 1 ELSE 0
CountIn(T, f, S) == Cardinality({s \in T : f[s].pc \in S})

\* When one member of a finite set changes state, the number of those in a set
\* of states changes by it alone.
LEMMA OneMoves ==
  ASSUME NEW T, IsFiniteSet(T), NEW t \in T, NEW f, NEW g, NEW S,
         \A s \in T \ {t} : g[s].pc = f[s].pc
  PROVE  /\ CountIn(T, f, S) \in Nat
         /\ CountIn(T, g, S) = CountIn(T, f, S) - IsIn(f[t].pc, S) + IsIn(g[t].pc, S)
<1>1. PICK R : R = {s \in T \ {t} : f[s].pc \in S}
  OBVIOUS
<1>2. R \in SUBSET T /\ t \notin R
  BY <1>1
<1>3. IsFiniteSet(R)
  BY <1>2, FS_Subset
<1>4. Cardinality(R) \in Nat /\ Cardinality(R \cup {t}) = Cardinality(R) + 1
  BY <1>2, <1>3, FS_CardinalityType, FS_AddElement
<1>5. PICK A, B : A = {s \in T : f[s].pc \in S} /\ B = {s \in T : g[s].pc \in S}
  OBVIOUS
<1>6. A = (IF f[t].pc \in S THEN R \cup {t} ELSE R) /\ B = (IF g[t].pc \in S THEN R \cup {t} ELSE R)
  BY <1>1, <1>5
<1>7. Cardinality(A) = Cardinality(R) + IsIn(f[t].pc, S)
  <2>1. CASE f[t].pc \in S
    BY <1>4, <1>6, <2>1 DEF IsIn
  <2>2. CASE f[t].pc \notin S
    BY <1>4, <1>6, <2>2 DEF IsIn
  <2>. QED BY <2>1, <2>2
<1>8. Cardinality(B) = Cardinality(R) + IsIn(g[t].pc, S)
  <2>1. CASE g[t].pc \in S
    BY <1>4, <1>6, <2>1 DEF IsIn
  <2>2. CASE g[t].pc \notin S
    BY <1>4, <1>6, <2>2 DEF IsIn
  <2>. QED BY <2>1, <2>2
<1>9. IsIn(f[t].pc, S) \in 0..1 /\ IsIn(g[t].pc, S) \in 0..1
  BY DEF IsIn
<1>. QED BY <1>4, <1>5, <1>7, <1>8, <1>9 DEF CountIn

\* How a receiver's step moves the counts of receivers, and a thread's step
\* those of the threads.
LEMMA ReceiverMoves ==
  ASSUME ShapeInv, NEW r \in Receivers, NEW y, receiver' = [receiver EXCEPT ![r] = y], NEW S
  PROVE  Pending(S) \in Nat
         /\ Pending(S)' = Pending(S) - IsIn(receiver[r].pc, S) + IsIn(y.pc, S)
<1>1. receiver'[r] = y /\ \A q \in Receivers \ {r} : receiver'[q].pc = receiver[q].pc
  BY DEF ShapeInv, ReceiverStates
<1>2. PICK f, g : f = receiver /\ g = receiver'
  OBVIOUS
<1>a. IsFiniteSet(Receivers) /\ \A q \in Receivers \ {r} : g[q].pc = f[q].pc
  BY <1>1, <1>2, EvaluationAssumption
<1>3. /\ CountIn(Receivers, f, S) \in Nat
      /\ CountIn(Receivers, g, S) = CountIn(Receivers, f, S) - IsIn(f[r].pc, S) + IsIn(g[r].pc, S)
  BY <1>a, OneMoves
<1>. QED BY <1>1, <1>2, <1>3 DEF Pending, CountIn

\* The same for a thread that evaluates.
LEMMA EvaluatorMoves ==
  ASSUME ShapeInv, NEW e \in Evaluators, NEW y, evaluator' = [evaluator EXCEPT ![e] = y], NEW S
  PROVE  At(S) \in Nat
         /\ At(S)' = At(S) - IsIn(evaluator[e].pc, S) + IsIn(y.pc, S)
<1>1. evaluator'[e] = y /\ \A q \in Evaluators \ {e} : evaluator'[q].pc = evaluator[q].pc
  BY DEF ShapeInv
<1>2. PICK f, g : f = evaluator /\ g = evaluator'
  OBVIOUS
<1>a. IsFiniteSet(Evaluators) /\ \A q \in Evaluators \ {e} : g[q].pc = f[q].pc
  BY <1>1, <1>2, EvaluationAssumption
<1>3. /\ CountIn(Evaluators, f, S) \in Nat
      /\ CountIn(Evaluators, g, S) = CountIn(Evaluators, f, S) - IsIn(f[e].pc, S) + IsIn(g[e].pc, S)
  BY <1>a, OneMoves
<1>. QED BY <1>1, <1>2, <1>3 DEF At, CountIn

\* Counts of threads are numbers, and do not change while no thread moves.
LEMMA CountsAreNumbers ==
  ASSUME NEW S
  PROVE  Pending(S) \in Nat /\ At(S) \in Nat
<1>1. {r \in Receivers : receiver[r].pc \in S} \in SUBSET Receivers
      /\ {e \in Evaluators : evaluator[e].pc \in S} \in SUBSET Evaluators
  OBVIOUS
<1>. QED BY <1>1, EvaluationAssumption, FS_Subset, FS_CardinalityType DEF Pending, At

\* While no thread moves, their numbers stay.
LEMMA StillCounts ==
  ASSUME NEW S
  PROVE  /\ receiver' = receiver => Pending(S)' = Pending(S)
         /\ evaluator' = evaluator => At(S)' = At(S)
BY DEF Pending, At

\* One thread goes to another state.
ReceiverTo(r, y) == receiver' = [receiver EXCEPT ![r] = y]
EvaluatorTo(e, y) == evaluator' = [evaluator EXCEPT ![e] = y]

\* The numbers of threads at each stage change by the thread that steps.
LEMMA LinesNext == ShapeInv /\ LinesAddUp /\ [Next]_vars => LinesAddUp'
<1> SUFFICES ASSUME ShapeInv, LinesAddUp, [Next]_vars PROVE LinesAddUp'
  OBVIOUS
<1> DEFINE push == Pending({"push"})
           count == Pending({"count"})
           judged == At({"parse", "evaluate", "finish"})
<1>1. /\ push \in Nat /\ count \in Nat /\ judged \in Nat /\ received \in Nat
      /\ Len(evaluationQueue) \in Nat /\ queuedLinesCount \in Nat /\ droppedInQueue \in Nat
      /\ badFormatLines \in Nat /\ processedLines \in Nat
  BY CountsAreNumbers DEF ShapeInv
<1>2. /\ received = push + droppedInQueue + Len(evaluationQueue) + judged
                      + badFormatLines + processedLines
      /\ queuedLinesCount + count = received - push - droppedInQueue
  BY DEF LinesAddUp
<1>3. ASSUME /\ received' = push' + droppedInQueue' + Len(evaluationQueue)' + judged'
                      + badFormatLines' + processedLines'
             /\ queuedLinesCount' + count' = received' - push' - droppedInQueue'
      PROVE  LinesAddUp'
  BY <1>3 DEF LinesAddUp
<1>4. /\ receiver' = receiver => push' = push /\ count' = count
      /\ evaluator' = evaluator => judged' = judged
  BY StillCounts
<1>5. ASSUME NEW r \in Receivers, NEW y, ReceiverTo(r, y)
      PROVE  /\ push' = push - IsIn(receiver[r].pc, {"push"}) + IsIn(y.pc, {"push"})
             /\ count' = count - IsIn(receiver[r].pc, {"count"}) + IsIn(y.pc, {"count"})
  BY <1>5, ReceiverMoves DEF ReceiverTo
<1>6. ASSUME NEW e \in Evaluators, NEW y, EvaluatorTo(e, y)
      PROVE  judged' = judged - IsIn(evaluator[e].pc, {"parse", "evaluate", "finish"})
                              + IsIn(y.pc, {"parse", "evaluate", "finish"})
  BY <1>6, EvaluatorMoves DEF EvaluatorTo
<1> HIDE DEF push, count, judged
<1> USE DEF countVars
<1>7. ASSUME NEW r \in Receivers, NEW line \in Lines \cup BadLines, ReceiveLine(r, line)
      PROVE  LinesAddUp'
  <2>1. push' = push + 1 /\ count' = count
    <3>1. PICK y : y = [pc |-> "push", line |-> line]
      OBVIOUS
    <3>2. ReceiverTo(r, y) /\ receiver[r].pc = "idle" /\ y.pc = "push"
      BY <1>7, <3>1 DEF ReceiveLine, ReceiverTo
    <3>. QED BY <1>1, <1>5, <3>2 DEF IsIn
  <2>. QED BY <1>1, <1>2, <1>3, <1>4, <1>7, <2>1 DEF ReceiveLine
<1>8. ASSUME NEW r \in Receivers, PushLine(r) PROVE LinesAddUp'
  <2>1. push' = push - 1 /\ count' = count + 1
    <3>1. PICK y : y = [pc |-> "count", line |-> NoLine]
      OBVIOUS
    <3>2. ReceiverTo(r, y) /\ receiver[r].pc = "push" /\ y.pc = "count"
      BY <1>8, <3>1 DEF PushLine, ReceiverTo
    <3>. QED BY <1>1, <1>5, <3>2 DEF IsIn
  <2>2. Len(evaluationQueue)' = Len(evaluationQueue) + 1
    BY <1>8 DEF PushLine, ShapeInv
  <2>. QED BY <1>1, <1>2, <1>3, <1>4, <1>8, <2>1, <2>2 DEF PushLine
<1>9. ASSUME NEW r \in Receivers, DropLine(r) PROVE LinesAddUp'
  <2>1. push' = push - 1 /\ count' = count
    <3>1. PICK y : y = [pc |-> "idle", line |-> NoLine]
      OBVIOUS
    <3>2. ReceiverTo(r, y) /\ receiver[r].pc = "push" /\ y.pc = "idle"
      BY <1>9, <3>1 DEF DropLine, ReceiverTo
    <3>. QED BY <1>1, <1>5, <3>2 DEF IsIn
  <2>. QED BY <1>1, <1>2, <1>3, <1>4, <1>9, <2>1 DEF DropLine
<1>10. ASSUME NEW r \in Receivers, CountQueued(r) PROVE LinesAddUp'
  <2>1. PICK y : y = [receiver[r] EXCEPT !.pc = "idle"]
    OBVIOUS
  <2>2. y.pc = "idle" /\ ReceiverTo(r, y) /\ receiver[r].pc = "count"
    BY <1>10, <2>1 DEF CountQueued, ShapeInv, ReceiverStates, ReceiverTo
  <2>3. push' = push /\ count' = count - 1
    BY <1>1, <1>5, <2>2 DEF IsIn
  <2>. QED BY <1>1, <1>2, <1>3, <1>4, <1>10, <2>3 DEF CountQueued
<1>11. ASSUME NEW e \in Evaluators, PopLine(e) PROVE LinesAddUp'
  <2>1. PICK y : y = [evaluator[e] EXCEPT !.pc = "parse", !.line = Head(evaluationQueue)]
    OBVIOUS
  <2>2. y.pc = "parse" /\ EvaluatorTo(e, y) /\ evaluator[e].pc = "idle"
    BY <1>11, <2>1 DEF PopLine, ShapeInv, Contexts, EvaluatorTo
  <2>3. judged' = judged + 1
    BY <1>1, <1>6, <2>2 DEF IsIn
  <2>4. Len(evaluationQueue)' = Len(evaluationQueue) - 1
    BY <1>11 DEF PopLine, ShapeInv
  <2>. QED BY <1>1, <1>2, <1>3, <1>4, <1>11, <2>3, <2>4 DEF PopLine
<1>12. ASSUME NEW e \in Evaluators, ParseFails(e) PROVE LinesAddUp'
  <2>1. judged' = judged - 1
    <3>1. EvaluatorTo(e, IdleEvaluator) /\ evaluator[e].pc = "parse" /\ IdleEvaluator.pc = "idle"
      BY <1>12 DEF ParseFails, AfterBadLine, IdleEvaluator, EvaluatorTo
    <3>. QED BY <1>1, <1>6, <3>1 DEF IsIn
  <2>. QED BY <1>1, <1>2, <1>3, <1>4, <1>12, <2>1 DEF ParseFails
<1>13. ASSUME NEW e \in Evaluators, FinishEvaluation(e) PROVE LinesAddUp'
  <2>1. judged' = judged - 1
    <3>1. EvaluatorTo(e, IdleEvaluator) /\ evaluator[e].pc = "finish" /\ IdleEvaluator.pc = "idle"
      BY <1>13 DEF FinishEvaluation, IdleEvaluator, EvaluatorTo
    <3>. QED BY <1>1, <1>6, <3>1 DEF IsIn
  <2>. QED BY <1>1, <1>2, <1>3, <1>4, <1>13, <2>1 DEF FinishEvaluation, ProcessedAfter
<1>14. ASSUME NEW e \in Evaluators, BeginEvaluation(e) \/ EvaluateRule(e) \/ EndOfRules(e)
       PROVE  LinesAddUp'
  <2>1. evaluator[e] \in Contexts
    BY DEF ShapeInv
  <2>2. PICK y : /\ evaluator' = [evaluator EXCEPT ![e] = y]
                 /\ y.pc \in {"evaluate", "finish"}
                 /\ evaluator[e].pc \in {"parse", "evaluate"}
    <3>1. CASE BeginEvaluation(e)
      <4>1. [evaluator[e] EXCEPT !.pc = "evaluate", !.rules = rules, !.actions = actions].pc = "evaluate"
        BY <2>1 DEF Contexts
      <4>. QED BY <3>1, <4>1 DEF BeginEvaluation
    <3>2. CASE EvaluateRule(e)
      <4>1. AfterRule(evaluator[e]).pc \in {"evaluate", "finish"}
        BY <2>1, <3>2, AfterRuleFields DEF EvaluateRule
      <4>. QED BY <3>2, <4>1 DEF EvaluateRule
    <3>3. CASE EndOfRules(e)
      <4>1. [evaluator[e] EXCEPT !.pc = "finish"].pc = "finish"
        BY <2>1 DEF Contexts
      <4>. QED BY <3>3, <4>1 DEF EndOfRules
    <3>. QED BY <1>14, <3>1, <3>2, <3>3
  <2>3. judged' = judged
    <3>1. EvaluatorTo(e, y)
      BY <2>2 DEF EvaluatorTo
    <3>. QED BY <1>1, <1>6, <2>2, <3>1 DEF IsIn
  <2>. QED BY <1>1, <1>2, <1>3, <1>4, <1>14, <2>3 DEF BeginEvaluation, EvaluateRule, EndOfRules
<1>15. ASSUME \/ AdminStep \/ UNCHANGED vars PROVE LinesAddUp'
  <2>1. UNCHANGED <<evaluationQueue, receiver, evaluator, received, countVars>>
    BY <1>15, ShapeEdits DEF vars
  <2>. QED BY <1>1, <1>2, <1>3, <1>4, <2>1
<1>. QED BY <1>7, <1>8, <1>9, <1>10, <1>11, <1>12, <1>13, <1>14, <1>15
         DEF Next, ReceiverStep, EvaluatorStep, AllQuiet

\* Nothing was received and nothing is counted at first.
LEMMA LinesInit == Init => LinesAddUp
<1> SUFFICES ASSUME Init PROVE LinesAddUp
  OBVIOUS
<1>1. /\ {r \in Receivers : receiver[r].pc \in {"push"}} = {}
      /\ {r \in Receivers : receiver[r].pc \in {"count"}} = {}
      /\ {e \in Evaluators : evaluator[e].pc \in {"parse", "evaluate", "finish"}} = {}
  BY DEF Init, IdleEvaluator
<1>2. Pending({"push"}) = 0 /\ Pending({"count"}) = 0 /\ At({"parse", "evaluate", "finish"}) = 0
  BY <1>1, FS_EmptySet DEF Pending, At
<1>. QED BY <1>2 DEF Init, LinesAddUp

\* No line escapes the counters that the statistics call reports, nor is one
\* counted twice.
THEOREM NoLineUncounted == Spec => []LinesAddUp
BY LinesInit, LinesNext, LoopInvariant, PTL DEF Spec
=============================================================================
