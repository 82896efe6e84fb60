SPECIFICATION MCSpec
CONSTANTS
  t1 = t1
  t2 = t2
  x1 = x1
  none = none
  Pair <- MCPair
  Tx = {x1}
  NoTx = none
  Amount = {1, 2}
  MaxInvoice = 3
  MaxSubmit = 2
  MaxReadjust = 2
  MaxCalls = 1
  MaxBuilders = 4
INVARIANTS
  TypeOK
  SubmissionExclusive
  PaidByItsSubmission
  AdjustedOnce
  DecidedOnce
  JoinsSound
PROPERTIES
  ReadjustReachesAmount
CHECK_DEADLOCK FALSE
