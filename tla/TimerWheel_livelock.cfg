SPECIFICATION FairSpec
CONSTANTS
  Interval = 2
  WheelSize = 2
  Durations = {1}
  Times = {0, 5}
  Intervals = {1, 4}
  TimerIds = 3
  MaxTimers = 1
PROPERTY
  EveryTickReturns
