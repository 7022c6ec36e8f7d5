\* Two distribution threads, two outputs with queues of one, two broken connections;
\* only the distribution threads are fair.
SPECIFICATION FairSpec
CONSTANTS
  Free = Free
  Workers = {w1, w2}
  NumOutputs = 2
  MaxItems = 1
  MaxValues = 2
  MaxBreaks = 2
INVARIANTS
  TypeOK
  OneOrder
  InOrderOnceOrLost
  OutputStatsAddUp
PROPERTIES
  EveryPopEnds
  ImplementsBroadcast
