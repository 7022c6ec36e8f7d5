\* One RPC thread; rules that do not compile or refer to either action.
SPECIFICATION Spec
CONSTANTS
  Admins = {t1}
  RuleSet <- MCBadRules
  ActionNames = {"a1", "a2"}
  Bodies = {"b1", "b2"}
  WrittenRules = {}
  WrittenActions = {}
  Torn = Torn
  MaxRules = 2
INVARIANTS
  TypeOK
  UnflaggedSurvivesRestart
