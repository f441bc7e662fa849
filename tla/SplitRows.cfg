SPECIFICATION Spec
CONSTANTS
  Worker = {w1}
  Admin = {a1}
  Job = {1}
  Key <- MCKey
  File <- MCSplitFile
  External <- MCExternal
  ProjectsBefore <- MCProjectsBefore
  TasksBefore <- MCTasksBefore
  Actions = {"add"}
  Faults = {}
  None = None
INVARIANTS SplitRowsStayGrouped
CHECK_DEADLOCK FALSE
