CONSTANTS
  Requests = {head, acl}
  Heads = {head}
  Lengths <- MCLengths
  MaxBatch = 3
  BulkConcurrency = 2
  Slots = 2
SPECIFICATION FairSpec
CHECK_DEADLOCK FALSE
INVARIANTS
  TypeOK
  CallsBounded
  QuietAfterReply
PROPERTIES
  ImplementsBulkOp
  EveryRequestAnswered
