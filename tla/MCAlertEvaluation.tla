------------------------- MODULE MCAlertEvaluation -------------------------
(* Small instances of AlertEvaluation for TLC.                               *)
EXTENDS AlertEvaluation

Rule(name, action, id) == [name |-> name, action |-> action, actionId |-> id, compiles |-> TRUE]

MCStartRules ==
  <<Rule("watch", "EXEC", "mail"), Rule("stop", "EXECANDABORT", "page"), Rule("last", "EXEC", "mail")>>
MCStartActions == [mail |-> "m1", page |-> "p1"]
MCNewRules == {Rule("mute", "ABORT", "mail")}
MCMatches == [all |-> {"watch", "stop", "last", "mute"}, some |-> {"last"}]
=============================================================================
