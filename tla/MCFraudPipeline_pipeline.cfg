SPECIFICATION FairSpec
CONSTANTS
  Call <- MCCall
  Body <- MCBody
  Profile <- MCProfile
  Version <- MCVersion
  Verdict = {"FRAUD"}
  NoView = NoView
  MaxPushes = 2
  MaxFaults = 2
  c1 = c1
  c2 = c2
  c3 = c3
INVARIANTS
  TypeOK
  ResultsTraceable
  OneResultPerRule
  ReadMeansJudged
PROPERTIES
  AcceptedIsJudged
