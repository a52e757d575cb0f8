CONSTANTS
  Callers = {c1, c2, c3}
  FailureThreshold = 3
  SuccessThreshold = 2
  RecoveryTimeout = 2
  Actors = {a1}
  Eager = {a1}
  Requests = {r1, r2}
  Probes = {r1}
  PoolSize = 1
  MaxChanges = 1
  Versions = {1, 2, 3}
  Statements = {1, 2}
  Guarded <- Asking
  Refused <- NotTaken
  Replicas = {p1, p2}
  MaxRestarts = 2
  Pages = {1, 2}
  Retained = 2
  MaxCommits = 2
  MaxCopies = 3
  Invoices = {i1}
  Expenses = {e1}
  Names = {n1, n2}
  MaxFailures = 1
  MaxCrashes = 1
  NoRow = NoRow
SPECIFICATION PlatformSpec
PROPERTIES ClosesOnlyOnEvidence HealthyServiceRecovers AnswersAndStops
INVARIANT ReplicaIsSound
CHECK_DEADLOCK FALSE
