SPECIFICATION FairSpec
CONSTANTS
  Push <- MCPush
  Profile <- MCProfile
  Rule <- MCRule
  ProfileOf <- MCProfileOf
  Present <- MCPresent
  Selected <- MCSelected
  NoProfile = NoProfile
  Gone = Gone
  MaxEdits = 1
  MaxDeaths = 1
  u1 = u1
  u2 = u2
  p = p
  q = q
  r1 = r1
  r2 = r2
INVARIANTS
  TypeOK
  SuccessIsComplete
  ReportedIsSent
  LastSuccessStands
PROPERTIES
  EveryPushEnds
