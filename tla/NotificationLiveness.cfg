SPECIFICATION FairHistorySpec
CONSTANTS
  Worker = {w1}
  Scheduler = {w1}
  Direct = {}
  Update = {s1}
  u1 = u1
  User <- MCUser
  recipientOf <- MCRecipientOf
  MaxAttempts = 2
  MaxHour = 1
  DayLength = 2
  DigestHour = 1
  Retention = 1
  Environment = {"reject", "late_error", "mail_off", "toggle"}
  None = None
PROPERTIES ImplementsLedger EveryEventIsSettled NoUpdateStaysParked
