SPECIFICATION MCSpec
CONSTANTS
  p1 = p1
  p2 = p2
  a = a
  b = b
  none = none
  Caller = {p1, p2}
  Team = {a, b}
  NoTeam = none
  Threshold = {0, 2}
  Debt = {0, 1, 2}
  MaxCalls = 3
  Client = {p1, p2}
  Creditor = {a}
  Debtor = {b}
  NoDebtor = none
  Limit = {0, 2}
  MaxUnpaid = 2
  MaxChanges = 3
INVARIANTS
  TypeOK
  OneRule
  AnswerFollowsRules
PROPERTIES
  RulesFollowCalls
  EverySetReturns
  CacheCatchesUp
CHECK_DEADLOCK FALSE
