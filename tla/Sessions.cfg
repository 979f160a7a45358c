SPECIFICATION SessionsSpec
CONSTANTS
  c1 = c1
  c2 = c2
  r1 = r1
  r2 = r2
  Callers = {c1, c2}
  Submits = {r1, r2}
  AccessTtl = 2
  ResetTtl = 1
  RefreshTtl = 3
  Skew = 1
  Setups <- MCSetups
  MaxPairs = 3
  MaxClock = 2
CHECK_DEADLOCK FALSE
INVARIANTS HeldTokenLive EndedForGood
PROPERTIES CallsReturn
