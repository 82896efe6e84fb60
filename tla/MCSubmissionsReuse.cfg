SPECIFICATION MCSpec
CONSTANTS
  t1 = t1
  t2 = t2
  x1 = x1
  none = none
  Pair <- MCPair
  Tx = {x1}
  NoTx = none
  Amount = {1, 2}
  MaxInvoice = 3
  MaxSubmit = 2
  MaxReadjust = 2
  MaxCalls = 2
  MaxBuilders = 1
INVARIANTS
  DecidedOnce
CHECK_DEADLOCK FALSE
