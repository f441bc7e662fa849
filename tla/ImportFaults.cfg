SPECIFICATION FairSpec
CONSTANTS
  Worker = {w1}
  Admin = {a1}
  Job = {1}
  Key <- MCKey
  File <- MCMixedFile
  External <- MCExternal
  ProjectsBefore <- MCProjectsBefore
  TasksBefore <- MCTasksBefore
  Actions = {"add", "ignore"}
  Faults = {"transaction", "call", "crash"}
  None = None
PROPERTIES EveryJobIsSettled
CHECK_DEADLOCK FALSE
