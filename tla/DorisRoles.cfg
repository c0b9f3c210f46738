CONSTANTS
  Roles = {analyst, auditor}
  Admins = {a1}
  Queries = {q1}
  Assets = {table, name}
  Columns = {name}
  Policies = {own_rows}
  MaxEpoch = 3
  MaxFaults = 1
  analyst = analyst
  auditor = auditor
  a1 = a1
  q1 = q1
  table = table
  name = name
  own_rows = own_rows
SPECIFICATION Spec
SYMMETRY Exchangeable
CHECK_DEADLOCK FALSE
INVARIANTS
  CurrentExperienceAllowed
  StoresAgreeAtRest
PROPERTIES
  FailureIsUndone
