SPECIFICATION TenantSpec
CONSTANTS
  Tenants = {t1, t2}
  Requests = {r1, r2}
  Workers = {w1}
  Plans = {basic}
  Limit <- Limits
  basic = basic
  PageSize = 1
  MaxCrashes = 1
  NoRow = NoRow
  Forms = {f1, f2}
  Before = before
  Replicas = {n1}
  Addresses = {e1}
  Companies = {c1}
  Codes = {x1, x2}
  Savers = {s1, s2}
  MaxFailures = 1
  Deliveries = {d1, d2}
  Checkouts = {k1}
  Asked = {"growth", "enterprise"}
INVARIANTS LimitHolds OrphansHaveACause PaymentsAreRecorded
PROPERTIES CancellationsStand DriftHasACause DueIsSuspended SettingsStand
CHECK_DEADLOCK FALSE
