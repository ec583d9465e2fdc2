SPECIFICATION Spec
CONSTANTS
  Tasks = {t1, t2, t3}
  Columns = {todo, done}
  Users = {u1}
  Requests = {q1, q2}
  Inputs <- Requested
  Assignable = t1
  First = todo
  Second = done
  Unset = Unset
CONSTRAINT PeopleBound
SYMMETRY Symmetry
INVARIANTS RequestsTakeEffect StraysOverlapped
PROPERTIES ImplementsBoard ColumnChangesAreAsked
CHECK_DEADLOCK FALSE
