\* Two RPC threads: a save and an edit at the same time.
SPECIFICATION Spec
CONSTANTS
  Admins = {t1, t2}
  RuleSet <- MCRules
  ActionNames = {"a1"}
  Bodies = {"b1"}
  WrittenRules = {}
  WrittenActions = {}
  Torn = Torn
  MaxRules = 2
INVARIANT UnflaggedSurvivesRestart
