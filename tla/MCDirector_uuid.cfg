SPECIFICATION Spec
CONSTANTS
  Uuid <- MCUuid
  Name <- MCName
  Rule <- MCRule
  Transaction <- MCTransaction
  Profile <- MCProfile
  TransactionOf <- MCTransactionOf
  Free = Free
  NoProfile = NoProfile
  u1 = u1
  u2 = u2
  c1 = c1
  c2 = c2
  ua = ua
  ub = ub
  na = na
  nb = nb
  r1 = r1
  r2 = r2
  r3 = r3
  tx = tx
  Push = {u1}
  Call = {c1}
  Feed <- OnePushFeed
  MaxFailures = 0
  MaxRestarts = 0
INVARIANT
  RequestsCarryProfileUuid
