CONSTANTS
  Replicas = {p1, p2}
  MaxFaults = 3
SPECIFICATION MigrationSpec
CHECK_DEADLOCK FALSE
INVARIANTS
  SchemaTypeOK
  ServesOnFullSchema
  LeftoverOnlyWhenRaced
PROPERTIES
  EveryProcessServes
