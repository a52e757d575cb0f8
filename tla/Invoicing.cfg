CONSTANTS
  Tenants = {t1, t2}
  Invoices = {i1, i2}
  Editors = {e1}
  Orders <- SomeOrders
  Rates = {0, 25}
  Discounts = {20}
  VAT = 25
  Unit = 16
  Suffixes = {s1}
  MaxNumbers = 2
  NoRow = NoRow
SPECIFICATION Spec
SYMMETRY Symmetry
CHECK_DEADLOCK FALSE
INVARIANTS SoundIsDeclared
PROPERTIES NumbersAreSequential
