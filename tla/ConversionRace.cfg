SPECIFICATION Spec
CONSTANTS
  Session = {s1, s2}
  Project = {p1, p2}
  Task = {t1, t2}
  Statuses = {"not_started", "in_progress", "done"}
  Titles = {"other"}
  Operations = {"createTask", "createProject", "convertProjectToTask"}
  None = None
PROPERTY ArchivingDropsNoTasks
CHECK_DEADLOCK FALSE
