SPECIFICATION MCSpec
CONSTANTS
  Session = {s1, s2}
  Project = {p1, p2}
  Task = {t1, t2}
  Statuses = {"not_started", "in_progress", "done"}
  Titles = {"Unassigned", "other"}
  Operations = {"createTask", "archiveTasks", "copyTasks", "bulkUpdateTasks", "updateTask",
                "convertTaskToProject", "createProject", "updateProject",
                "convertProjectToTask", "deleteProject"}
  Overlapping = {"createTask", "archiveTasks", "updateTask", "createProject",
                 "convertTaskToProject", "deleteProject"}
  None = None
SYMMETRY SameIds
INVARIANT SequencesStayConsistent
PROPERTIES SoloRequestsRepairRollups
CHECK_DEADLOCK FALSE
