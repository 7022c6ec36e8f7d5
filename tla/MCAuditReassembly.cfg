\* Two connections, two distribution threads, a queue of one.
SPECIFICATION Spec
CONSTANTS
  h1 = h1
  h2 = h2
  e1 = e1
  e2 = e2
  r1 = r1
  r2 = r2
  w1 = w1
  w2 = w2
  GC = GC
  Free = Free
  NoHost = NoHost
  Hosts = {h1, h2}
  EventIds = {e1, e2}
  Types = {"SYSCALL", "PROCTITLE"}
  EndTypes = {"PROCTITLE"}
  Receivers = {r1, r2}
  Workers = {w1, w2}
  QueueSize = 1
  MaxAge = 0
  AgeModulus = 256
  ConfigTexts = {"true", "0"}
  ClockSteps = {1}
  MaxLines = 3
  MaxClock = 2
  LastArrival = 2
SYMMETRY MCSymmetry
INVARIANTS
  TypeOK
  SingleOwner
  EveryLineOnce
  FragmentsBelongTogether
  SplitOnlyWhenDone
  StatsAddUp
PROPERTIES
  QueuedEventsAreFrozen
  ImplementsCustody
