--------------------------- MODULE MCAlertConfig ---------------------------
(* Small instances of AlertConfig for TLC.                                   *)
EXTENDS AlertConfig

Rule(name, action, id) == [name |-> name, action |-> action, actionId |-> id, compiles |-> TRUE]

MCRules == {Rule("exec1", "EXEC", "a1"), Rule("abort", "ABORT", "a1")}
MCBadRules ==
  MCRules \cup {Rule("exec2", "EXECANDABORT", "a2"), [Rule("bad", "EXEC", "a1") EXCEPT !.compiles = FALSE]}
=============================================================================
