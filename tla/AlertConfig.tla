---------------------------- MODULE AlertConfig ----------------------------
(***************************************************************************)
(* uanlz_alert's configuration: the running rules and actions, their       *)
(* "modified" flags, rules.json and actions.json, the RPC calls that edit, *)
(* save and reload them, and the restarts of the daemon.                   *)
(*                                                                         *)
(* Calls run on the threads of the RPC connector.  One that edits is one   *)
(* step: it holds mtRules exclusively.  A save is many: it reads what is   *)
(* running, compares it with the file, opens the file (which empties it),  *)
(* writes and closes it, reloads it and clears the flag, and only the      *)
(* first and the reload hold the lock.  An empty file is no JSON: reading  *)
(* it throws, nothing catches, the daemon ends and systemd starts it again.*)
(***************************************************************************)
EXTENDS RuleEngine

CONSTANTS
  Admins,        \* RPC threads
  RuleSet,       \* rules the calls may carry
  ActionNames,   \* names of actions
  Bodies,        \* bodies of actions
  WrittenRules,  \* lists that control.WriteRulesFileConfig may bring,
  WrittenActions,\* and maps that control.WriteActionsFileConfig may bring
  Torn,          \* a file that was opened for writing and not written yet
  MaxRules       \* bound: running rules

\* The lists and the maps of actions that the calls can make.
RuleLists == {rs \in Seq(RuleSet) : Len(rs) <= MaxRules}
ActionMaps == UNION {[N -> Bodies] : N \in SUBSET ActionNames}

ASSUME ConfigAssumption ==
  /\ \A rule \in RuleSet :
       /\ rule.action \in {"EXEC", "EXECANDABORT", "ABORT", "OTHER"}
       /\ rule.actionId \in ActionNames /\ rule.compiles \in BOOLEAN
  /\ WrittenRules \subseteq RuleLists /\ WrittenActions \subseteq ActionMaps
  /\ Torn \notin Seq(RuleSet) /\ Torn \notin ActionMaps
  /\ MaxRules \in Nat \ {0}

VARIABLES
  up,        \* the daemon runs
  rules,     \* Rules::rules
  actions,   \* Rules::actions
  modified,  \* bRulesModified, bActionsModified
  file,      \* rules.json, actions.json
  admin      \* RPC threads: where each is, what it saves

vars == <<up, rules, actions, modified, file, admin>>

Kinds == {"rules", "actions"}
NoActions == [n \in {} |-> n]
Idle == [pc |-> "idle", kind |-> "rules", config |-> <<>>]
Running(k) == IF k = "rules" THEN rules ELSE actions

Init ==
  /\ up = FALSE
  /\ rules = <<>> /\ actions = NoActions
  /\ modified = [k \in Kinds |-> FALSE]
  /\ \E n \in ActionNames, b \in Bodies :
       \E fs \in {<<>>} \cup {<<rule>> : rule \in RuleSet} :
         file = [rules |-> fs, actions |-> WithAction(NoActions, n, b)]
  /\ admin = [t \in Admins |-> Idle]

Ready(t) == up /\ admin[t].pc = "idle"
-----------------------------------------------------------------------------
(* The calls that edit what is running.                                      *)

\* Mutant.  Moving a rule does not count as a modification.
MoveUnnoticed == modified

MarkMoved == [modified EXCEPT !["rules"] = TRUE]

EditRules(t, newRules, newModified) ==
  /\ Ready(t)
  /\ rules' = newRules
  /\ modified' = newModified
  /\ UNCHANGED <<up, actions, file, admin>>

MarkRules == [modified EXCEPT !["rules"] = TRUE]

AddRule(t, pos, rule) ==
  /\ Len(rules) < MaxRules
  /\ Accepts(rule, actions)
  /\ EditRules(t, InsertRule(rules, pos, rule), MarkRules)

EditRule(t, pos, rule) ==
  /\ pos < Len(rules)
  /\ Accepts(rule, actions)
  /\ EditRules(t, ReplaceRule(rules, pos, rule), MarkRules)

RemoveRule(t, pos) ==
  /\ pos < Len(rules)
  /\ EditRules(t, EraseRule(rules, pos), MarkRules)

\* The first rule cannot go up nor the last one down; the call says true.
RuleUp(t, pos) ==
  /\ pos < Len(rules) /\ pos # 0
  /\ EditRules(t, SwapWithNext(rules, pos - 1), MarkMoved)

RuleDown(t, pos) ==
  /\ pos < Len(rules) /\ pos # Len(rules) - 1
  /\ EditRules(t, SwapWithNext(rules, pos), MarkMoved)

EditActions(t, newActions) ==
  /\ Ready(t)
  /\ actions' = newActions
  /\ modified' = [modified EXCEPT !["actions"] = TRUE]
  /\ UNCHANGED <<up, rules, file, admin>>

AddAction(t, name, body) ==
  /\ name \notin DOMAIN actions
  /\ EditActions(t, WithAction(actions, name, body))

EditAction(t, name, body) ==
  /\ name \in DOMAIN actions
  /\ EditActions(t, WithAction(actions, name, body))

\* The rules that refer to the action stay.
RemoveAction(t, name) ==
  /\ name \in DOMAIN actions
  /\ EditActions(t, WithoutAction(actions, name))
-----------------------------------------------------------------------------
(* Reading a file, and the end of the daemon.                                *)

\* The process is gone: only the files are left.
Die ==
  /\ up' = FALSE
  /\ rules' = <<>> /\ actions' = NoActions
  /\ modified' = [k \in Kinds |-> FALSE]
  /\ admin' = [t \in Admins |-> Idle]
  /\ UNCHANGED file

\* Mutant.  The rules of the file are added to those that run.
LoadOnTop == rules \o LoadRules(file["rules"], actions)

LoadedRules == LoadRules(file["rules"], actions)

\* reloadRules, reloadActions: what runs is replaced by what the file says.
Reload(k) ==
  /\ IF k = "rules"
       THEN rules' = LoadedRules /\ UNCHANGED actions
       ELSE actions' = file["actions"] /\ UNCHANGED rules
  /\ modified' = [modified EXCEPT ![k] = FALSE]
  /\ UNCHANGED <<up, file>>

ReloadCall(t, k) ==
  /\ Ready(t)
  /\ IF file[k] = Torn THEN Die
     ELSE Reload(k) /\ UNCHANGED admin

\* stats.ReadRulesFileConfig, stats.ReadActionsFileConfig: no state changes,
\* unless the file is torn: nothing catches the exception.
ReadFileConfig(t, k) ==
  /\ Ready(t)
  /\ IF file[k] = Torn THEN Die ELSE UNCHANGED vars

\* A kill, a restart by systemctl, or the exit that control.ReloadApp starts:
\* it waits two seconds and for nobody.
Stop == up /\ Die

\* systemd starts the daemon again: first the actions, then the rules.  While
\* a file is torn every start ends in the same exception.
Start ==
  /\ ~up
  /\ IF Torn \in {file[k] : k \in Kinds}
       THEN UNCHANGED vars
       ELSE /\ up' = TRUE
            /\ actions' = file["actions"]
            /\ rules' = LoadRules(file["rules"], file["actions"])
            /\ UNCHANGED <<modified, file, admin>>
-----------------------------------------------------------------------------
(* writeRulesFileConfig and writeActionsFileConfig.                          *)

Goes(t, pc) == [admin EXCEPT ![t].pc = pc]

\* control.SaveRunningRules, control.SaveRunningActions: reads what is running.
SaveRunning(t, k) ==
  /\ Ready(t)
  /\ admin' = [admin EXCEPT ![t] = [pc |-> "compare", kind |-> k, config |-> Running(k)]]
  /\ UNCHANGED <<up, rules, actions, modified, file>>

\* control.WriteRulesFileConfig and WriteActionsFileConfig: the call brings the
\* configuration.  No page of the web interface uses them.
WriteFileConfig(t, k, config) ==
  /\ Ready(t)
  /\ admin' = [admin EXCEPT ![t] = [pc |-> "compare", kind |-> k, config |-> config]]
  /\ UNCHANGED <<up, rules, actions, modified, file>>

\* An unchanged file is not written.  A file with the same actions in another
\* order is not equal, nor is an empty list (or no file) always the null that
\* an empty list is saved as.
Compare(t) ==
  LET k == admin[t].kind
  IN  /\ admin[t].pc = "compare"
      /\ \/ file[k] = Torn /\ Die
         \/ /\ file[k] = admin[t].config
            /\ modified' = [modified EXCEPT ![k] = FALSE]
            /\ admin' = [admin EXCEPT ![t] = Idle]
            /\ UNCHANGED <<up, rules, actions, file>>
         \/ /\ file[k] # Torn
            /\ \/ file[k] # admin[t].config
               \/ k = "actions" \/ admin[t].config = <<>>
            /\ admin' = Goes(t, "open")
            /\ UNCHANGED <<up, rules, actions, modified, file>>

\* Mutant.  A file that could be opened and not written is left as it is.
GivesUpAfterOpening(t) == [admin EXCEPT ![t] = Idle]

\* The thread once the file is open.
Opened(t) == Goes(t, "write")

\* Opening for writing empties the file, or fails and the call says false.
Open(t) ==
  /\ admin[t].pc = "open"
  /\ \/ /\ file' = [file EXCEPT ![admin[t].kind] = Torn]
        /\ admin' = Opened(t)
     \/ /\ admin' = [admin EXCEPT ![t] = Idle]
        /\ UNCHANGED file
  /\ UNCHANGED <<up, rules, actions, modified>>

WriteAndClose(t) ==
  /\ admin[t].pc = "write"
  /\ file' = [file EXCEPT ![admin[t].kind] = admin[t].config]
  /\ admin' = Goes(t, "reload")
  /\ UNCHANGED <<up, rules, actions, modified>>

ReloadWritten(t) ==
  /\ admin[t].pc = "reload"
  /\ IF file[admin[t].kind] = Torn THEN Die
     ELSE Reload(admin[t].kind) /\ admin' = Goes(t, "clear")

ClearFlag(t) ==
  /\ admin[t].pc = "clear"
  /\ modified' = [modified EXCEPT ![admin[t].kind] = FALSE]
  /\ admin' = [admin EXCEPT ![t] = Idle]
  /\ UNCHANGED <<up, rules, actions, file>>

Edit(t) ==
  \/ \E pos \in 0..MaxRules :
       \/ \E rule \in RuleSet : AddRule(t, pos, rule) \/ EditRule(t, pos, rule)
       \/ RemoveRule(t, pos) \/ RuleUp(t, pos) \/ RuleDown(t, pos)
  \/ \E name \in ActionNames :
       \/ \E body \in Bodies : AddAction(t, name, body) \/ EditAction(t, name, body)
       \/ RemoveAction(t, name)

Save(t) ==
  \/ \E k \in Kinds : SaveRunning(t, k) \/ ReloadCall(t, k) \/ ReadFileConfig(t, k)
  \/ \E config \in WrittenRules : WriteFileConfig(t, "rules", config)
  \/ \E config \in WrittenActions : WriteFileConfig(t, "actions", config)
  \/ Compare(t) \/ Open(t) \/ WriteAndClose(t) \/ ReloadWritten(t) \/ ClearFlag(t)

Next ==
  \/ Stop \/ Start
  \/ \E t \in Admins : Edit(t) \/ Save(t)

Spec == Init /\ [][Next]_vars
-----------------------------------------------------------------------------
\* What may be running, or saved, of each kind.
Configs(k) == IF k = "rules" THEN RuleLists ELSE ActionMaps

\* The shape of every variable; a daemon that is down has nothing in memory.
TypeOK ==
  /\ up \in BOOLEAN
  /\ rules \in RuleLists /\ actions \in ActionMaps
  /\ modified \in [Kinds -> BOOLEAN]
  /\ file = [k \in Kinds |-> file[k]]
  /\ \A k \in Kinds : file[k] = Torn \/ file[k] \in Configs(k)
  /\ admin = [t \in Admins |-> [pc |-> admin[t].pc, kind |-> admin[t].kind, config |-> admin[t].config]]
  /\ \A t \in Admins :
       /\ admin[t].pc \in {"idle", "compare", "open", "write", "reload", "clear"}
       /\ admin[t].kind \in Kinds
       /\ admin[t].config \in Configs(admin[t].kind)
  /\ ~up => rules = <<>> /\ actions = NoActions /\ \A t \in Admins : admin[t] = Idle

IsSubSeq(s, r) ==
  \E D \in SUBSET DOMAIN r :
    \E f \in [1..Len(s) -> D] :
      /\ \A i, j \in 1..Len(s) : i < j => f[i] < f[j]
      /\ \A i \in 1..Len(s) : s[i] = r[f[i]]

NothingFlagged == up /\ ~modified["rules"] /\ ~modified["actions"] /\ \A t \in Admins : Ready(t)

\* What a restart at this moment would run.
AfterRestart == LoadRules(file["rules"], file["actions"])

\* While the web pages show no "has not been saved to disk" and no call is in
\* progress, a restart brings back the same actions and every running rule
\* whose action still exists, in the same order.
UnflaggedSurvivesRestart ==
  NothingFlagged =>
    /\ file["actions"] = actions
    /\ IsSubSeq(LoadRules(rules, actions), AfterRestart)

\* A file without contents is only ever met while a thread of the running
\* daemon is about to write it: the saves of several threads may overlap, but
\* none leaves a torn file behind, and a daemon that found one never got up.
TornOnlyWhileWriting ==
  up => \A k \in Kinds :
          file[k] = Torn => \E t \in Admins : admin[t].pc = "write" /\ admin[t].kind = k
=============================================================================
