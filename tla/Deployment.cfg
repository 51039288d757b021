\* Two terminals, one droplet, the A record of @, an older record and *.
SPECIFICATION LiveSpec
CONSTANTS
  Plan <- PlanApex
  Runner = {r1, r2}
  Other = {"star"}
  Cleaned = {"@"}
  MaxDroplets = 1
  MaxOld = 1
  MaxRecords = 2
  MaxHead = 2
INVARIANTS
  DuplicatesComeFromRaces
PROPERTIES
  ScriptsEnd
  DeployOwnsTheNames
