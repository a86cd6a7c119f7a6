SPECIFICATION FairSpec
CONSTANTS
  Uuid <- MCUuid
  Name <- MCName
  Rule <- MCRule
  Transaction <- MCTransaction
  Profile <- OnePushProfile
  TransactionOf <- MCTransactionOf
  Free = Free
  NoProfile = NoProfile
  u1 = u1
  u2 = u2
  c1 = c1
  c2 = c2
  ua = ua
  ub = ub
  na = na
  nb = nb
  r1 = r1
  r2 = r2
  r3 = r3
  tx = tx
  Push = {u1}
  Call = {c1, c2}
  Feed <- OnePushFeed
  MaxFailures = 1
  MaxRestarts = 1
INVARIANTS
  TypeOK
  RequestsInOrder
  NothingMissingUnlogged
PROPERTIES
  LockersServed
  DispatchEnds
