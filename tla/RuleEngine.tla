----------------------------- MODULE RuleEngine -----------------------------
(***************************************************************************)
(* uanlz_alert's lists of rules and actions as data: what the operations   *)
(* of Filters::Rules compute under the lock.                               *)
(*                                                                         *)
(* A rule is the JSON object it was made from, reduced to                  *)
(*   [name, action, actionId, compiles]                                    *)
(* where compiles says whether JSONEval accepts its filter.  The actions   *)
(* are a function from names to bodies (path and arguments).  Positions    *)
(* are the code's: from 0.                                                 *)
(***************************************************************************)
EXTENDS Subsequences

Executes(rule) == rule.action \in {"EXEC", "EXECANDABORT"}

\* _addRule refuses a rule whose filter does not compile or whose action is
\* not there at that moment.  An action kind that is unknown is accepted.
Accepts(rule, actions) ==
  /\ rule.compiles
  /\ Executes(rule) => rule.actionId \in DOMAIN actions

InsertRule(rules, pos, rule) ==
  IF pos >= Len(rules) THEN Append(rules, rule)
  ELSE SubSeq(rules, 1, pos) \o <<rule>> \o SubSeq(rules, pos + 1, Len(rules))

ReplaceRule(rules, pos, rule) == [rules EXCEPT ![pos + 1] = rule]

EraseRule(rules, pos) == SubSeq(rules, 1, pos) \o SubSeq(rules, pos + 2, Len(rules))

SwapWithNext(rules, pos) ==
  [rules EXCEPT ![pos + 1] = rules[pos + 2], ![pos + 2] = rules[pos + 1]]

\* reloadRules adds the rules of the file one by one.  Position i is never
\* before the end of what was accepted so far: each accepted one is appended.
LoadRules(file, actions) == Chosen(file, {i \in DOMAIN file : Accepts(file[i], actions)})

WithAction(actions, name, body) ==
  [n \in DOMAIN actions \cup {name} |-> IF n = name THEN body ELSE actions[n]]

WithoutAction(actions, name) == [n \in DOMAIN actions \ {name} |-> actions[n]]
=============================================================================
