\* Two accounts, two API workers, a reset link that may be used twice.
CONSTANTS
  User = {u1, u2}
  Worker = {w1, w2}
  NoUser = NoUser
  MaxTokens = 2
  MaxResets = 1
  MaxPasswords = 2
SPECIFICATION Spec
SYMMETRY SymUsersWorkers
INVARIANTS
  OnlyOvertakenSessionsOutliveReset
PROPERTIES
  ImplementsLedger
