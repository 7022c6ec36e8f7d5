\* Two RPC threads: calls on rules, actions and inputs overlap, the daemon stops anywhere.
SPECIFICATION DaemonSpec
CONSTANTS
  Admins = {t1, t2}
  RuleSet <- MCRules
  ActionNames = {"a1"}
  Bodies = {"b1"}
  WrittenRules <- MCWrittenRules
  WrittenActions <- MCWrittenActions
  Torn = Torn
  MaxRules = 1
  Missing = Missing
  InputIds = {i1, i2}
  MaxInputs = 2
SYMMETRY MCSymmetry
INVARIANTS
  InputsTypeOK
  UnflaggedInputsRun
  AnswersHold
  TornOnlyWhileWriting
  InputsTornOnlyWhileWriting
