SPECIFICATION MCSpec
CONSTANTS
  Worker = {w1, w2}
  Admin = {a1, a2}
  Job = {1, 2}
  Key <- MCKey
  File <- MCFile
  External <- MCExternal
  ProjectsBefore <- MCProjectsBefore
  TasksBefore <- MCTasksBefore
  Actions = {"add", "ignore"}
  Faults = {"transaction", "call", "crash"}
  None = None
SYMMETRY Alike
INVARIANTS TakenJobsAreHeld GroupsStayTogether EffectsAreAccountedFor
PROPERTIES SettledJobsStay
CHECK_DEADLOCK FALSE
