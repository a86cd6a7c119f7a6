SPECIFICATION FairSpec
CONSTANTS
  Request <- MCRequest
  Garbage = Garbage
  Transaction <- MCTransaction
  Content <- MCContent
  ModelUuid <- MCModelUuid
  Disk <- MCDisk
  NoRow = NoRow
  NoModel = NoModel
  MaxMessages = 2
  MaxBatch = 2
  MaxFailures = 1
  MaxRuns = 1
  t1 = t1
  t2 = t2
  v1 = v1
  v2 = v2
  ma = ma
  mb = mb
  mc = mc
  empty = empty
INVARIANTS
  TypeOK
  VerdictFromOwnRule
  VerdictAfterSave
  NothingVanishes
  VerdictFromOwnModel
  AnswersInOrder
PROPERTIES
  FirstRowStays
  EveryRequestServed
  Implements
