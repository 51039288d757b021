SPECIFICATION Spec
CONSTANTS
  Plan <- MCPlan
  Runner = {r1}
  Other = {"star"}
  Cleaned = {"@", "www"}
  MaxDroplets = 2
  MaxOld = 2
  MaxRecords = 6
  MaxHead = 2
PROPERTIES
  UpdateServesTheBranch
