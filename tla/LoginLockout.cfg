\* One account, three API workers, a lock after two failures.
CONSTANTS
  User = {u1}
  Worker = {w1, w2, w3}
  NoUser = NoUser
  MaxFailures = 2
  LockTerm = 2
SPECIFICATION LiveSpec
INVARIANTS
  LockFollowsCount
  LateGuessesBounded
PROPERTIES
  OnlyOvertakenLoginsPassALock
  LocksEnd
