SPECIFICATION MCSpec
CONSTANTS
  Project = {1, 2, 3}
  Task = {1, 2, 3, 4}
  User = {"u", "v"}
  Term = {"x", "y"}
  View = {"saved"}
  Nil = Nil
  Owner <- MCOwner
  Assignee <- MCAssignee
  Priority <- MCPriority
  ProjectHits <- MCProjectHits
  TaskHits <- MCTaskHits
  Unassigned = 2
  Tables <- MCTables
  Groupings = {"owner", "status"}
  Sortings <- MCSortings
  StatusFilters <- MCStatusFilters
  AssigneeFilters <- MCAssigneeFilters
  Activities <- MCActivities
  Others = {"updateTask", "createTask", "deleteProject"}
  MaxActs <- MCMaxActs
INVARIANTS RevealShowsTheMatch SavedViewRoundTrips EffectsSettle
PROPERTIES BulkTouchesOpenProjects
CHECK_DEADLOCK FALSE
