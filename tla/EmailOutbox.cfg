\* Two rows, three processes, up to three copies of a message.
CONSTANTS
  Row = {r1, r2}
  Process = {p1, p2, p3}
  NoRow = NoRow
  MaxCopies = 3
  TaskRegistered = TRUE
\* When every row has been handled nothing is left to do.
CHECK_DEADLOCK FALSE
SPECIFICATION LiveSpec
INVARIANTS
  MessagesHaveRows
  QueuedRowsAreOnTheirWay
PROPERTIES
  OnlyOvertakenProcessesResend
  QueuedIsSentOrLost
