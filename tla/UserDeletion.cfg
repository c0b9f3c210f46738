CONSTANTS
  Users = {ann, bob}
  Members = {bob}
  Founder = ann
  MaxVersion = 1
  MaxTokens = 2
  Workers = {w1, w2}
  MaxMessages = 1
  MaxFaults = 1
  ann = ann
  bob = bob
  w1 = w1
  w2 = w2
SPECIFICATION Spec
CHECK_DEADLOCK FALSE
INVARIANTS
  AdministratorRemains
  CompletedLeavesNothing
PROPERTIES
  DeadFamiliesStayDead
  DeletionCompletes
