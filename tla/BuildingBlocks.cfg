SPECIFICATION BlocksSpec
CONSTANTS
  Interval = 2
  WheelSize = 3
  Durations = {1, 6}
  Times = {0, 1, 4, 7, 8}
  Intervals = {2, 3}
  TimerIds = 64
  MaxTimers = 3
  Capacity = 4
  MaxDepth = 3
  Bits = 4
  NanosPerSecond = 3
  Latencies = {0, 3, 15}
  MaxSamples = 10
INVARIANTS
  TypeOK
  NothingLost
  BoundaryTimersOnTime
  LateByAtMostOneRevolution
  PoolsNeverAlias
  OccupiedHoldsObject
  PoolsCountsAgree
  NothingSurvivesThePool
  HistogramDescribesRecorded
  PercentilesNameBuckets
