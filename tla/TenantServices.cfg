SPECIFICATION Spec
CONSTANTS
  ta = ta
  tb = tb
  Tenants = {ta, tb}
  Turns = {u1, u2}
  Admins = {a1, a2}
  Rates = {1, 2}
  DefaultRates <- MCDefaults
  Fallback <- MCFallback
  TokenBudgets = {1}
  TurnTokens = 1
  Minute = 1
  Hour = 2
  Day = 4
  MaxEntries = 1
  MaxBuilt = 4
  Scenarios <- MCScenarios
  Payloads <- MCPayloads
CHECK_DEADLOCK FALSE
INVARIANTS QuotasHeld RegistriesSound
PROPERTIES OthersKept
