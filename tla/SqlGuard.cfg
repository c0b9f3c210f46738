CONSTANTS
  Tables <- MCTables
  Columns <- MCColumns
  Policies <- MCPolicies
  Statements <- MCStatements
  MaxEdits = 1
SPECIFICATION GuardSpec
CHECK_DEADLOCK FALSE
INVARIANTS
  AdmittedReadsAllowed
  NarrowingHidesNothing
  ConditionsBind
