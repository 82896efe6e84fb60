SPECIFICATION SafeSpec
CONSTANTS
  t1 = t1
  t2 = t2
  t3 = t3
  zero = zero
  d1 = d1
  d2 = d2
  o1 = o1
  none = none
  h1 = h1
  h2 = h2
  Team <- MCTeam
  NoTeam = zero
  Day <- MCDay
  Ref <- MCRef
  NoRef = none
  OrderRow <- MCOrderRow
  RestockRow <- MCRestockRow
  ProblemRow <- MCProblemRow
  SubmissionRow <- MCSubmissionRow
  Message <- PaidMessage
  Handler <- MCHandler
  Clock <- MCClock
  MaxCrash = 1
INVARIANTS
  PayableNeverPositive
