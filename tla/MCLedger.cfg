SPECIFICATION Spec
CONSTANTS
  t1 = t1
  t2 = t2
  zero = zero
  p1 = p1
  p2 = p2
  none = none
  Team <- MCPair
  NoTeam = zero
  Day = {1, 2}
  Unit = {1, 2}
  teams <- NoTeams
  PaymentId <- MCPaymentId
  Ref <- MCRef
  NoRef = none
  PostKind = {"UNSPECIFIED", "ADJUSTMENT"}
  PostAmount = {0, 1}
  PayAmount = {2}
  MaxLog = 3
SYMMETRY Symmetry
INVARIANTS
  TypeOK
  MirrorBooks
  LogReplays
  DailySpansLog
  PaymentsBookedOnce
  TimelineIsLogReplay
  
  PaymentsAgree
PROPERTIES
  SettlementExact
CHECK_DEADLOCK FALSE
