SPECIFICATION Spec
CONSTANTS
  Posted <- MCPosted
  Columns <- MCColumns
  Limit = 3
  Day = 4
  Hour = 2
  Year = 2
  NoTransaction = NoTransaction
  t1 = t1
  t2 = t2
  t3 = t3
  t4 = t4
  t5 = t5
  t6 = t6
  a = a
  b = b
INVARIANTS
  TypeOK
  StatsOfNewestRows
  PlainHistoryIsEarlier
  FeaturesOfThePost
