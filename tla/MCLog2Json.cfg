\* One connection, one distribution thread, one output with a queue of one that may
\* never connect, one marker; in heuristic mode every line ends its event.
SPECIFICATION PipeFairSpec
CONSTANTS
  GC = GC
  Free = Free
  NoHost = NoHost
  Hosts = {h1}
  EventIds = {e1}
  Types = {"PROCTITLE"}
  EndTypes = {"PROCTITLE"}
  Receivers = {r1}
  Workers = {w1}
  QueueSize = 1
  MaxAge = 0
  AgeModulus = 256
  ConfigTexts = {"true", "0"}
  ClockSteps = {1}
  MaxLines = 3
  MaxClock = 2
  LastArrival = 1
  NumOutputs = 1
  MaxItems = 1
  MaxMarkers = 1
  MaxBreaks = 0
INVARIANTS
  PipeTypeOK
  TextsAreWhole
  LinesInOrderAtHosts
PROPERTY EveryLineSettles
