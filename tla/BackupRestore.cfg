SPECIFICATION DbSpec
CONSTANTS
  a = a
  b = b
  c = c
  src = src
  nil = nil
  Email = {a, b}
  Source = {src}
  Nil = nil
  MaxId = 5
  FirstUsers <- TwoUsers
  FirstProjects <- TwoProjects
  FirstTasks <- TwoTasks
  MaxChanges = 2
  MaxRestores = 2
  Scopes = {"full", "projects", "users"}
INVARIANTS MailedAgainOnlyByRestore
PROPERTIES QuietBackupRestores PartialRestoresSpareOthers
CHECK_DEADLOCK FALSE
