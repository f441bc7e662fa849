SPECIFICATION ScheduleSpec
CONSTANTS
  Worker = {w1}
  FullHour = {5, 25}
  DigestTime = {5}
  RestOfDay = 40
  Interval = 6
  MaxTurn = 2
  MaxFailures = 0
  MaxTime = 32
INVARIANT EveryHourIsServed
CHECK_DEADLOCK FALSE
