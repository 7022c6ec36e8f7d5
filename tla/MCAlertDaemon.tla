---------------------------- MODULE MCAlertDaemon ----------------------------
(* Small instances of AlertDaemon for TLC.                                   *)
EXTENDS AlertDaemon, TLC

Abort == [name |-> "abort", action |-> "ABORT", actionId |-> "a1", compiles |-> TRUE]

MCRules == {Abort}
MCWrittenRules == {<<>>}
MCWrittenActions == {NoActions}
MCSymmetry == Permutations(Admins) \cup Permutations(InputIds)
=============================================================================
