SPECIFICATION MCSpec
CONSTANTS
  b1 = b1
  b2 = b2
  plain = plain
  chosen = chosen
  nil = nil
  Tab = {b1, b2}
  Task = {1, 2, 3}
  Todo = {1, 2}
  Config = {plain, chosen}
  Default = plain
  Nil = nil
  FirstTasks = 2
  FirstTodos = 1
  MaxActs = 3
  MaxOthers = 2
  Activities <- Users
INVARIANTS OrderIsAsDropped ChangesAreHighlighted
PROPERTIES TabsCatchUp ConfigIsShared
CHECK_DEADLOCK FALSE
