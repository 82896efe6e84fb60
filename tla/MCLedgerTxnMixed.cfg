SPECIFICATION Spec
CONSTANTS
  t1 = t1
  t2 = t2
  zero = zero
  p1 = p1
  p2 = p2
  none = none
  s1 = s1
  s2 = s2
  s3 = s3
  free = free
  Team <- MCTeam
  NoTeam = zero
  Day <- MCDay
  Ref <- MCRef
  NoRef = none
  PaymentId <- MCPaymentId
  Free = free
  Session <- ThreeSessions
  Request <- MixedRequests
  MaxTxn = 4
SYMMETRY SessionSymmetry
INVARIANTS
  DailyNeverContended
  DeadlockNeedsMixedOrder
PROPERTIES
  Serializable
CHECK_DEADLOCK FALSE
