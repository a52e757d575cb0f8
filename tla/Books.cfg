SPECIFICATION BooksSpec
CONSTANTS
  i1 = i1
  i2 = i2
  p1 = p1
  p2 = p2
  r1 = r1
  r2 = r2
  NoRow = NoRow
  ClientOf <- OwnClient
  Invoices = {i1, i2}
  Payments = {p1, p2}
  Totals = {200, 300}
  Amounts = {100, 300}
  Start = 2
  Day = 2
  LongAgo = 1
  MaxNow = 4
  MaxEvents = 3
  ExpenseIDs = {e1}
  Attachments = {a1}
  Requests = {r1, r2}
  Dates = {6, 8, 12}
  Statuses = {"pending", "approved", "paid"}
  FirstDay = 8
  Month = 4
  MonthLength = 2
  Months = 2
  LastDay = 9
  Tenant = t1
  ClientIDs = {c1}
  Bills = {b1}
  Receipts = {q1, q2}
INVARIANTS OutstandingAgrees RevenueAgrees StatementsChain PaidIsReceived PagesAddUp
INVARIANTS ExpensesAddUp EditsTakeNothingBack
SYMMETRY Symmetry
CHECK_DEADLOCK FALSE
