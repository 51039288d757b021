\* Two windows of three ticks and the start of a third, two ticks to the second, two workers.
CONSTANTS
  Worker = {w1, w2}
  Window = 3
  MaxRequests = 2
  Second = 2
  MaxTime = 6
SPECIFICATION Spec
SYMMETRY SymWorkers
INVARIANTS
  TypeOK
  WindowIsLimited
  RetryAfterIsExact
