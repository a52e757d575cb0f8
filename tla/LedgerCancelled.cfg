CONSTANTS
  Requests = {r1, r2, r3}
  Ops = {"record", "cancel", "send"}
  Amounts = {1, 2}
  Keys = {k1}
  NoKey = NoKey
  Discounts = {1}
  Total = 2
  ItemsTotal = 2
  SerialTx = TRUE
  NoRow = NoRow
SPECIFICATION Spec
SYMMETRY Symmetry
CHECK_DEADLOCK FALSE
PROPERTY CancelledIsFinal
