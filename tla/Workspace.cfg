SPECIFICATION Spec
CONSTANTS
  Tenants = {ta, tb}
  Requests = {q1, q2}
  Readers = {r1}
  Addresses = {k1, k2}
  RateLimit = 1
  RateWindow = 2
  LimiterCap = 1
  Tools = {"tool", "other"}
  Times = {2, 3, 4}
  Filters <- MCFilters
  PageSize = 1
  ExportMax = 2
  Budgets <- MCBudgets
  Callers = {c1, c2}
  Drafts <- MCDrafts
  Patches <- MCPatches
  EnquiryFilters <- MCEnquiryFilters
  Titles = {"x", "y"}
CHECK_DEADLOCK FALSE
INVARIANTS ListingsTrue RecordsSound
PROPERTIES RecordsKept
