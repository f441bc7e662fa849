SPECIFICATION Spec
CONSTANTS
  w1 = w1
  w2 = w2
  r1 = r1
  Worker = {w1, w2}
  Request = {r1}
  Upload = {2}
  TimeOfDay = {1}
  Policies <- OnePolicy
  FirstTime = 1
  TicksPerDay = 3
  DaysPerWeek = 1
  DaysPerMonth = 3
  Start = 4
  MaxTime = 5
  Written <- WrittenBefore
  MaxEvents = 2
  Activities <- EveryActivity
INVARIANTS OneBackupPerSlot ProtectionHolds EveryPeriodIsCovered
PROPERTIES SweepSparesTheNewest DueBackupIsWritten
CHECK_DEADLOCK FALSE
