SPECIFICATION HistorySpec
CONSTANTS
  Worker = {w1, w2}
  Scheduler = {w1, w2}
  Direct = {}
  Update = {s1}
  u1 = u1
  User <- MCUser
  recipientOf <- MCRecipientOf
  MaxAttempts = 2
  MaxHour = 2
  DayLength = 2
  DigestHour = 1
  Retention = 0
  Environment = {"crash", "db", "slow_pass", "prune", "reject"}
  None = None
SYMMETRY SameWorkers
INVARIANTS ExclusiveDelivery ParkedUpdatesHaveADigest MailedOnce
PROPERTIES OutcomesAreFinal
