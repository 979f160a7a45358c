SPECIFICATION Spec
CONSTANTS
  c1 = c1
  c2 = c2
  c3 = c3
  s1 = s1
  s2 = s2
  s3 = s3
  ta = ta
  tb = tb
  Sessions = {s1, s2, s3}
  Calls = {c1, c2, c3}
  TenantOf <- MCTenantOf
  MaxRetries = 2
  ListCap = 1
  IssueCap = 1
  LineLength = 200
  AmountTolerance = 100
  KnownAirlines = {"AI"}
  Scenarios <- MCScenarios
CHECK_DEADLOCK FALSE
INVARIANTS BooksTrue ReportsComplete
PROPERTIES ReportsOfTurn
