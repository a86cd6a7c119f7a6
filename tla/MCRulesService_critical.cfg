SPECIFICATION Spec
CONSTANTS
  Request <- MCRequest
  Garbage = Garbage
  Transaction <- MCTransaction
  Content <- MCContent
  ModelUuid <- MCModelUuid
  Disk <- MCDisk
  NoRow = NoRow
  NoModel = NoModel
  MaxMessages = 2
  MaxBatch = 2
  MaxFailures = 0
  MaxRuns = 0
  t1 = t1
  t2 = t2
  v1 = v1
  v2 = v2
  ma = ma
  mb = mb
  mc = mc
  empty = empty
INVARIANT
  CriticalStopsProfile
