SPECIFICATION FlowSpec
CONSTANTS
  t1 = t1
  t2 = t2
  t3 = t3
  zero = zero
  o1 = o1
  o2 = o2
  o3 = o3
  p1 = p1
  none = none
  Team <- MCTeam
  NoTeam = zero
  Day = {1, 2}
  Unit = {1}
  teams <- MCTeams
  PaymentId = {p1}
  Ref <- MCRef
  NoRef = none
  PostKind = {}
  PostAmount = {}
  PayAmount = {3}
  MaxLog = 7
  OrderRow <- MCOrderRow
  RestockRow <- MCNone
  ProblemRow <- MCNone
  SubmissionRow <- MCNone
  EventDay <- MCEventDay
  Threshold = {1, 2}
  LimitSet <- MCLimitSet
  PayPair <- MCPayPair
  MaxFlight = 2
  MaxSets = 1
  Request <- MCRequest
INVARIANTS
  DebtBounded
  TimelineMissesOnlyLate
  ListAddsUp
  PagesCover
CHECK_DEADLOCK FALSE
