SPECIFICATION Spec
CONSTANTS
  none = none
  None <- none
  Fold <- MCFold
  Importer = "me"
  Mailable = {"u", "v"}
  Defaults = {"w"}
  Files <- MCFiles
  Tables <- MCTables
  Known = {{"me", "u"}, {"me"}}
  Mappings <- MCMappings
  Actions = {"add", "ignore"}
  MaxImports = 2
  MaxChanges = 1
INVARIANTS PreviewHolds ChangesWereShown ReimportCreatesNothing
CHECK_DEADLOCK FALSE
