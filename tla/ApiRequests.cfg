\* Fewer processes than requests in a window.
CONSTANTS
  Worker = {w1, w2}
  Window = 2
  MaxRequests = 3
  Tenant = {t1, t2}
  Self = t1
  NoTenant = NoTenant
  NoProcess = NoProcess
  MaxServed = 2
SPECIFICATION ApiSpec
INVARIANTS
  UnexpiringCounterIsSmall
  AtMostTwiceTheMaximum
PROPERTIES
  CountersRunOut
  RefusalsAreEarned
  CountersFallOnlyAcrossProcesses
