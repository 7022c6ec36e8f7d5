\* Two connections, two evaluation threads, a queue of one, three lines, one edit, fair threads.
SPECIFICATION FairSpec
CONSTANTS
  Receivers = {r1, r2}
  Evaluators = {e1, e2}
  Lines = {"all", "some"}
  BadLines = {"bad"}
  Matches <- MCMatches
  StartRules <- MCStartRules
  StartActions <- MCStartActions
  NewRules <- MCNewRules
  NewBody = "new"
  QueueSize = 1
  MaxLines = 3
  MaxEdits = 1
INVARIANTS
  TypeOK
  OneListPerLine
  LinesAddUp
PROPERTY EveryLineJudged
