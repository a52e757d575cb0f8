SPECIFICATION JobsSpec
CONSTANTS
  Tenants = {t1, t2}
  Workers = {w1, w2}
  Requests = {r1}
  MaxActors = 2
  MaxDay = 1
  MaxEvents = 1
  None = None
  Invoices = {i1}
  Senders = {w1}
  Day = 2
  DueAt = 1
  Notice = 1
  Intervals = {1}
  MaxHour = 4
  MaxCrashes = 1
  Items = {n1, n2}
  Silent = {n2}
  MaxRetries = 2
  MaxRequeues = 1
  NoItem = NoItem
  Replicas = {w1, w2}
  MaxEdits = 1
  MaxFailures = 1
  Visitors = {v1, v2, v3}
  Before = before
  NoRow = NoRow
  Events = {e1, e2}
  Ids = {1, 2}
  Last = 3
  Wishes <- Wished
INVARIANTS SendsAreBounded NothingTwice WishesAreKept
PROPERTIES StoredIsTried DueIsServed
CHECK_DEADLOCK FALSE
