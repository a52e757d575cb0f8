CONSTANTS
  Requests = {r1, r2}
  Ops = {"send", "submit", "retry", "sync", "all", "edit", "pay"}
  Databases = {"sqlite", "postgres"}
  Answers = {"ok", "lost", "down"}
  MaxRetries = 2
  MaxCrashes = 1
  NoItem = NoItem
SPECIFICATION FairSpec
CHECK_DEADLOCK FALSE
INVARIANTS CheckHoldsDuringCall SendsAreBounded
PROPERTIES ICNsAreLostOnlyBy QueueDrains
