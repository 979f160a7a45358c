SPECIFICATION KeySpec
CONSTANTS
  k1 = k1
  k2 = k2
  c1 = c1
  c2 = c2
  r1 = r1
  r2 = r2
  u2 = u2
  u3 = u3
  UserIds = {u1, u2, u3}
  InviteIds = {i1}
  Emails = {e1, e2, e3}
  Requests = {r1, r2}
  Founder = u1
  FounderEmail = e1
  None = None
  InviteTtl = 1
  VerifyTtl = 1
  SkipVerification = FALSE
  Workloads <- MCWorkloads
  KeyIds = {k1, k2}
  KeyCalls = {c1, c2}
  Prefixes = {p1, p2}
  KeyTtl = 1
  MaxSecret = 2
  MaxNow = 1
SYMMETRY Symmetry
CHECK_DEADLOCK FALSE
INVARIANTS Membership ProofsSound KeysSound
