SPECIFICATION PageSpec
CONSTANTS
  Tasks = {t1, t2, t3}
  Columns = {todo, done}
  None = None
  Turn <- EnumOrder
  First = todo
  MaxQueue = 0
SYMMETRY Symmetry
INVARIANTS CopyFollowsBoard
PROPERTIES UndoneIsUndone
CHECK_DEADLOCK FALSE
