\* Two rows, two processes, up to two copies of a message; the task as api/tasks.py registers it.
CONSTANTS
  Row = {r1, r2}
  Process = {p1, p2}
  NoRow = NoRow
  MaxCopies = 2
  TaskRegistered = FALSE
\* When every row has been handled nothing is left to do.
CHECK_DEADLOCK FALSE
SPECIFICATION LiveSpec
PROPERTIES
  WorkerMarksSent
