CONSTANTS
  Callers = {c1, c2}
  Queries = {1, 2}
  Columns <- MCColumns
  Refers <- MCRefers
  Keys <- MCKeys
  Metrics = {"revenue"}
  Uses <- MCUses
  Values = {"cheap"}
  Owner <- MCOwner
  Experiences = {"top"}
  Assets <- MCAssets
  Policies <- MCPolicies
  Requests <- MCRequests
  Selectors <- MCSelectors
  Limit = 1
  MaxContext = 1
  TTL = 2
  MaxTime = 3
  MaxCalls = 2
  MaxEdits = 1
  Edited <- MCEdited
  MaxRoleEpoch = 2
  MaxChanges = 2
  c1 = c1
  c2 = c2
SPECIFICATION RecallSpec
SYMMETRY Exchangeable
CHECK_DEADLOCK FALSE
INVARIANTS
  ShownIsAllowed
  ContextIsSound
  CacheExpires
  NoCircularWait
PROPERTIES
  SavingKeepsResources
