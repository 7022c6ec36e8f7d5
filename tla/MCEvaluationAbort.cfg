\* The action of an EXECANDABORT rule is removed.
SPECIFICATION Spec
CONSTANTS
  Receivers = {r1, r2}
  Evaluators = {e1, e2}
  Lines = {"all", "some"}
  BadLines = {"bad"}
  Matches <- MCMatches
  StartRules <- MCStartRules
  StartActions <- MCStartActions
  NewRules <- MCNewRules
  NewBody = "new"
  QueueSize = 1
  MaxLines = 3
  MaxEdits = 2
INVARIANT AbortsNextRules
