SPECIFICATION AccessSpec
CONSTANTS
  Requests = {r1, r2, r3}
  Before = before
  MaxAttempts = 2
  MaxResets = 3
  MaxFaults = 1
  None = None
  Clients = {c1}
  Callers = {k1, k2}
  Rate = 4
  AuthRate = 2
  SensitiveRate = 2
  WebhookRate = 3
  Window = 2
  Hour = 3
  Columns = {phone, pin}
  Texts = {empty, digits, a}
  Empty = empty
  Decodable = {empty, digits}
  Members = {m1, m2, m3}
  Asked = {"admin", "manager"}
  MaxRuns = 1
  Ids = {1, 2, 3}
  Invoices = {i1}
INVARIANTS SessionsMatchPassword TokensServeOnce AccessIsSound
PROPERTIES OnlyStaleSavesUndo EveryoneIsAnswered RowsChangeByRight
CHECK_DEADLOCK FALSE
