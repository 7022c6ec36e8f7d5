-------------------------- MODULE AlertEvaluation --------------------------
(***************************************************************************)
(* uanlz_alert, from a JSON line of an input connection to the actions the *)
(* rules execute: TCPLineProcessor, the evaluation queue and its threads,  *)
(* and Rules::evaluate against rules and actions that RPC calls change.    *)
(*                                                                         *)
(* evaluate holds mtRules shared from the first rule to the last, over the *)
(* fork and wait of every program it executes; a call that edits holds it  *)
(* exclusively.  evaluator[e].rules and .actions are history: what was     *)
(* running when the evaluation began.  MaxLines and MaxEdits bound the     *)
(* model.                                                                  *)
(***************************************************************************)
EXTENDS RuleEngine, Integers, FiniteSets

CONSTANTS
  Receivers,    \* input connection threads
  Evaluators,   \* Filters.Threads
  Lines,        \* lines that are JSON
  BadLines,     \* lines that are not
  Matches,      \* per line: the names of the rules whose filter it satisfies
  StartRules,   \* the rules and the actions at the start
  StartActions,
  NewRules,     \* rules that calls may add
  NewBody,      \* the body that EditAction gives
  QueueSize,    \* Filters.QueueSize
  MaxLines,     \* bound: lines received in a behaviour
  MaxEdits      \* bound: edits in a behaviour

ASSUME EvaluationAssumption ==
  /\ IsFiniteSet(Receivers) /\ IsFiniteSet(Evaluators)
  /\ Lines \cap BadLines = {}
  /\ StartRules \in Seq({StartRules[i] : i \in DOMAIN StartRules})
  /\ StartActions = [n \in DOMAIN StartActions |-> StartActions[n]]
  /\ QueueSize \in Nat \ {0} /\ MaxLines \in Nat /\ MaxEdits \in Nat

VARIABLES
  rules, actions,     \* what is running
  evaluationQueue,    \* lines that wait
  receiver,           \* connection threads
  evaluator,          \* evaluation threads
  received,           \* lines received so far
  edits,              \* edits so far
  queuedLinesCount, droppedInQueue, badFormatLines, processedLines, rulesActivated

countVars == <<queuedLinesCount, droppedInQueue, badFormatLines, processedLines, rulesActivated>>
vars == <<rules, actions, evaluationQueue, receiver, evaluator, received, edits, countVars>>

NoLine == "none"
IdleEvaluator ==
  [pc |-> "idle", line |-> NoLine, next |-> 1, matched |-> {}, executed |-> <<>>,
   rules |-> <<>>, actions |-> [n \in {} |-> n]]

Init ==
  /\ rules = StartRules /\ actions = StartActions
  /\ evaluationQueue = <<>>
  /\ receiver = [r \in Receivers |-> [pc |-> "idle", line |-> NoLine]]
  /\ evaluator = [e \in Evaluators |-> IdleEvaluator]
  /\ received = 0 /\ edits = 0
  /\ queuedLinesCount = 0 /\ droppedInQueue = 0 /\ badFormatLines = 0
  /\ processedLines = 0 /\ rulesActivated = 0
-----------------------------------------------------------------------------
(* A connection thread: processParsedLine, pushElementOnEvaluationQueue.     *)

ReceiveLine(r, line) ==
  /\ received < MaxLines
  /\ receiver[r].pc = "idle"
  /\ received' = received + 1
  /\ receiver' = [receiver EXCEPT ![r] = [pc |-> "push", line |-> line]]
  /\ UNCHANGED <<rules, actions, evaluationQueue, evaluator, edits, countVars>>

\* Mutant.  One line more than the limit.
RoomForOneMore == Len(evaluationQueue) <= QueueSize

HasRoom == Len(evaluationQueue) < QueueSize

PushLine(r) ==
  /\ receiver[r].pc = "push"
  /\ HasRoom
  /\ evaluationQueue' = Append(evaluationQueue, receiver[r].line)
  /\ receiver' = [receiver EXCEPT ![r] = [pc |-> "count", line |-> NoLine]]
  /\ UNCHANGED <<rules, actions, evaluator, received, edits, countVars>>

\* The queue stayed full for QueueMaxPushWaitTimeInMS.
DropLine(r) ==
  /\ receiver[r].pc = "push"
  /\ ~HasRoom
  /\ droppedInQueue' = droppedInQueue + 1
  /\ receiver' = [receiver EXCEPT ![r] = [pc |-> "idle", line |-> NoLine]]
  /\ UNCHANGED <<rules, actions, evaluationQueue, evaluator, received, edits,
                 queuedLinesCount, badFormatLines, processedLines, rulesActivated>>

\* Counted after the push: the line may be evaluated by now.
CountQueued(r) ==
  /\ receiver[r].pc = "count"
  /\ queuedLinesCount' = queuedLinesCount + 1
  /\ receiver' = [receiver EXCEPT ![r].pc = "idle"]
  /\ UNCHANGED <<rules, actions, evaluationQueue, evaluator, received, edits,
                 droppedInQueue, badFormatLines, processedLines, rulesActivated>>
-----------------------------------------------------------------------------
(* An evaluation thread: threadEvaluation, evaluate.                         *)

PopLine(e) ==
  /\ evaluator[e].pc = "idle"
  /\ evaluationQueue # <<>>
  /\ evaluator' = [evaluator EXCEPT ![e] =
                     [@ EXCEPT !.pc = "parse", !.line = Head(evaluationQueue)]]
  /\ evaluationQueue' = Tail(evaluationQueue)
  /\ UNCHANGED <<rules, actions, receiver, received, edits, countVars>>

\* Mutant.  The thread does not go on after a line that is no JSON.
ThreadEnds == [IdleEvaluator EXCEPT !.pc = "ended"]

AfterBadLine == IdleEvaluator

ParseFails(e) ==
  /\ evaluator[e].pc = "parse"
  /\ evaluator[e].line \in BadLines
  /\ badFormatLines' = badFormatLines + 1
  /\ evaluator' = [evaluator EXCEPT ![e] = AfterBadLine]
  /\ UNCHANGED <<rules, actions, evaluationQueue, receiver, received, edits,
                 queuedLinesCount, droppedInQueue, processedLines, rulesActivated>>

\* The line is JSON: the shared lock is taken.
BeginEvaluation(e) ==
  /\ evaluator[e].pc = "parse"
  /\ evaluator[e].line \in Lines
  /\ evaluator' = [evaluator EXCEPT ![e] =
                     [@ EXCEPT !.pc = "evaluate", !.rules = rules, !.actions = actions]]
  /\ UNCHANGED <<rules, actions, evaluationQueue, receiver, received, edits, countVars>>

\* Whether an activated rule is the last one: an ABORT is, and an EXECANDABORT
\* whose action was found and executed.
Stops(rule) ==
  \/ rule.action = "ABORT"
  \/ rule.action = "EXECANDABORT" /\ rule.actionId \in DOMAIN actions

\* What the thread has at hand once its next rule was looked at.
AfterRule(x) ==
  LET i == x.next
      rule == rules[i]
  IN  IF rule.name \notin Matches[x.line] THEN [x EXCEPT !.next = i + 1]
      ELSE [x EXCEPT
        !.matched = @ \cup {i},
        !.executed = IF Executes(rule) /\ rule.actionId \in DOMAIN actions
                       THEN Append(@, <<rule.name, actions[rule.actionId]>>) ELSE @,
        !.pc = IF Stops(rule) THEN "finish" ELSE @,
        !.next = i + 1]

\* One rule of the loop; the program it executes has ended when it is left.
EvaluateRule(e) ==
  /\ evaluator[e].pc = "evaluate" /\ evaluator[e].next <= Len(rules)
  /\ evaluator' = [evaluator EXCEPT ![e] = AfterRule(@)]
  /\ UNCHANGED <<rules, actions, evaluationQueue, receiver, received, edits, countVars>>

EndOfRules(e) ==
  /\ evaluator[e].pc = "evaluate" /\ evaluator[e].next > Len(rules)
  /\ evaluator' = [evaluator EXCEPT ![e].pc = "finish"]
  /\ UNCHANGED <<rules, actions, evaluationQueue, receiver, received, edits, countVars>>

\* Mutant.  A line that activates no rule is not counted.
ProcessedIfActivated(e) == processedLines + (IF evaluator[e].matched = {} THEN 0 ELSE 1)

ProcessedAfter(e) == processedLines + 1

\* evaluate returned: the lock is released, the counters follow.
FinishEvaluation(e) ==
  /\ evaluator[e].pc = "finish"
  /\ rulesActivated' = rulesActivated + (IF evaluator[e].matched = {} THEN 0 ELSE 1)
  /\ processedLines' = ProcessedAfter(e)
  /\ evaluator' = [evaluator EXCEPT ![e] = IdleEvaluator]
  /\ UNCHANGED <<rules, actions, evaluationQueue, receiver, received, edits,
                 queuedLinesCount, droppedInQueue, badFormatLines>>
-----------------------------------------------------------------------------
(* RPC calls that edit, under the exclusive lock.                            *)

\* Mutant.  Edits do not wait for evaluations.
NobodyLooks == TRUE

NoReaders == \A e \in Evaluators : evaluator[e].pc # "evaluate"

Edit(newRules, newActions) ==
  /\ edits < MaxEdits
  /\ NoReaders
  /\ edits' = edits + 1
  /\ rules' = newRules /\ actions' = newActions
  /\ UNCHANGED <<evaluationQueue, receiver, evaluator, received, countVars>>

Positions == 0..Len(rules) - 1

AddRule(rule) == Accepts(rule, actions) /\ Edit(InsertRule(rules, 0, rule), actions)
RemoveRule(pos) == Edit(EraseRule(rules, pos), actions)
RuleUp(pos) == pos # 0 /\ Edit(SwapWithNext(rules, pos - 1), actions)
EditAction(name) == Edit(rules, WithAction(actions, name, NewBody))
RemoveAction(name) == Edit(rules, WithoutAction(actions, name))

AdminStep ==
  \/ \E rule \in NewRules : AddRule(rule)
  \/ \E pos \in Positions : RemoveRule(pos) \/ RuleUp(pos)
  \/ \E name \in DOMAIN actions : EditAction(name) \/ RemoveAction(name)

ReceiverStep(r) == PushLine(r) \/ DropLine(r) \/ CountQueued(r)

EvaluatorStep(e) ==
  \/ PopLine(e) \/ ParseFails(e) \/ BeginEvaluation(e) \/ EvaluateRule(e)
  \/ EndOfRules(e) \/ FinishEvaluation(e)

\* The bounds are reached and every thread waits: no deadlock.
AllQuiet ==
  /\ received = MaxLines /\ evaluationQueue = <<>>
  /\ \A r \in Receivers : receiver[r].pc = "idle"
  /\ \A e \in Evaluators : evaluator[e].pc = "idle"
  /\ UNCHANGED vars

Next ==
  \/ \E r \in Receivers : ReceiverStep(r) \/ \E line \in Lines \cup BadLines : ReceiveLine(r, line)
  \/ \E e \in Evaluators : EvaluatorStep(e)
  \/ AdminStep
  \/ AllQuiet

Spec == Init /\ [][Next]_vars

\* The threads are scheduled and the programs that actions execute end.
Fairness ==
  /\ \A r \in Receivers : WF_vars(ReceiverStep(r))
  /\ \A e \in Evaluators : WF_vars(EvaluatorStep(e))

FairSpec == Spec /\ Fairness
-----------------------------------------------------------------------------
\* The shape of every variable.
TypeOK ==
  /\ evaluationQueue \in Seq(Lines \cup BadLines) /\ Len(evaluationQueue) <= QueueSize
  /\ receiver \in [Receivers -> [pc : {"idle", "push", "count"},
                                 line : Lines \cup BadLines \cup {NoLine}]]
  /\ \A e \in Evaluators :
       /\ evaluator[e].pc \in {"idle", "parse", "evaluate", "finish"}
       /\ evaluator[e].line \in Lines \cup BadLines \cup {NoLine}
       /\ evaluator[e].matched \subseteq 1..Len(evaluator[e].rules)
  /\ received \in 0..MaxLines /\ edits \in 0..MaxEdits
  /\ {queuedLinesCount, droppedInQueue, badFormatLines, processedLines, rulesActivated} \subseteq Nat

\* What one evaluation against fixed rules and actions does: a matching rule is
\* activated when no rule before it matched and stopped, and those of the
\* activated that name an action execute it, in order.
StopsWith(rule, acts) ==
  rule.action = "ABORT" \/ (rule.action = "EXECANDABORT" /\ rule.actionId \in DOMAIN acts)
Matching(line, rs) == {i \in DOMAIN rs : rs[i].name \in Matches[line]}
Activated(line, rs, acts) ==
  {i \in Matching(line, rs) : \A j \in Matching(line, rs) : j < i => ~StopsWith(rs[j], acts)}
Runs(rs, acts, i) == Executes(rs[i]) /\ rs[i].actionId \in DOMAIN acts
RanInOrder(line, rs, acts, executed) ==
  LET E == {i \in Activated(line, rs, acts) : Runs(rs, acts, i)}
  IN  /\ Len(executed) = Cardinality(E)
      /\ \A i \in E :
           executed[Cardinality({j \in E : j <= i})] = <<rs[i].name, acts[rs[i].actionId]>>

\* A line is judged by one list of rules and one set of actions, those that ran
\* when its evaluation began, however long the programs it executes take and
\* whatever is edited meanwhile.
OneListPerLine ==
  \A e \in Evaluators :
    LET x == evaluator[e]
    IN  x.pc = "finish" =>
          /\ x.matched = Activated(x.line, x.rules, x.actions)
          /\ RanInOrder(x.line, x.rules, x.actions, x.executed)

At(S) == Cardinality({e \in Evaluators : evaluator[e].pc \in S})
Pending(S) == Cardinality({r \in Receivers : receiver[r].pc \in S})

\* Every line received is at its connection, in the queue, at an evaluation
\* thread, or counted once as dropped, bad or processed; and the queued lines
\* are counted except by the threads that are about to.
LinesAddUp ==
  /\ received = Pending({"push"}) + droppedInQueue + Len(evaluationQueue)
                  + At({"parse", "evaluate", "finish"}) + badFormatLines + processedLines
  /\ queuedLinesCount + Pending({"count"}) = received - Pending({"push"}) - droppedInQueue

\* All that was received is evaluated, refused as bad or dropped some day.
EveryLineJudged ==
  [](\A n \in 1..MaxLines :
       received >= n => <>(droppedInQueue + badFormatLines + processedLines >= n))

\* rule-add.html offers EXECANDABORT as "Execute Action And Abort Next Rules
\* Evaluation": no rule is activated after one of these.
AbortsNextRules ==
  \A e \in Evaluators :
    \A i, j \in evaluator[e].matched :
      i < j => evaluator[e].rules[i].action # "EXECANDABORT"
=============================================================================
