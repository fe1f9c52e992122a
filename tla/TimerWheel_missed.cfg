SPECIFICATION Spec
CONSTANTS
  Interval = 2
  WheelSize = 2
  Durations = {1, 4}
  Times = {0, 1, 3, 5}
  Intervals = {2}
  TimerIds = 64
  MaxTimers = 2
PROPERTY
  ExpiredTimersFire
