SPECIFICATION ScheduleSpec
CONSTANTS
  Worker = {w1, w2}
  FullHour = {2, 6, 10}
  DigestTime = {2}
  RestOfDay = 10
  Interval = 2
  MaxTurn = 2
  MaxFailures = 1
  MaxTime = 12
SYMMETRY SameWorkers
INVARIANTS OnePassPerWindow DailyDigestIsCut
CHECK_DEADLOCK FALSE
