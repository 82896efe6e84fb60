SPECIFICATION SafeSpec
CONSTANTS
  t1 = t1
  t2 = t2
  t3 = t3
  zero = zero
  d1 = d1
  none = none
  c1 = c1
  c2 = c2
  Team <- MCTeam
  NoTeam = zero
  Day <- MCDay
  Ref <- MCRef
  NoRef = none
  Caller = {c1}
  Scope <- SyncScope
  Debt <- MCDebt
  Amount = {2, 3}
  MaxChange = 2
  MaxPost = 0
  MaxFail = 0
  MaxLog = 4
INVARIANTS
  LegacyTruth
