\* The config text "false". One connection, one distribution thread; time goes on after the last arrival.
SPECIFICATION Spec
CONSTANTS
  h1 = h1
  h2 = h2
  e1 = e1
  e2 = e2
  r1 = r1
  r2 = r2
  w1 = w1
  w2 = w2
  GC = GC
  Free = Free
  NoHost = NoHost
  Hosts = {h1}
  EventIds = {e1, e2}
  Types = {"SYSCALL", "PROCTITLE"}
  EndTypes = {"PROCTITLE"}
  Receivers = {r1}
  Workers = {w1}
  QueueSize = 1
  MaxAge = 0
  AgeModulus = 256
  ConfigTexts = {"true", "false", "0"}
  ClockSteps = {1}
  MaxLines = 3
  MaxClock = 2
  LastArrival = 1
INVARIANT FalseMeansHeuristic
