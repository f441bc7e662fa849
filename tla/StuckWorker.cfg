SPECIFICATION MCSpec
CONSTANTS
  Admin = {a1}
  Mail = {m1}
  Notice = {n1}
  Kinds = {"account_update", "password_reset"}
  TypedUrl <- MCTypedUrl
  TypedFrom <- MCTypedFrom
  EnvUrl <- MCBadEnvUrl
  EnvFrom <- MCEnvFrom
  StoredBefore <- MCStoredBefore
  MaxSaves = 1
  MaxAttempts = 3
  Faults = {"db", "late_error", "crash", "retention"}
  None = None
CHECK_DEADLOCK FALSE
PROPERTY SavedUrlIsTried
