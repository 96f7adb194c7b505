CONSTANTS
  Requests = {r1}
  Workers = {w1}
  Quotas = {0, 2}
  Audits = {a1}
  Profiles <- SubscriptionProfile
  InitUser = 3
  InitRemain = 3
  SubTotal = 2
  Overflow = TRUE
  UnlimitedToken = FALSE
  TrustQuota = 2
  MaxBalance = 10
  ChainDepth = 2
  Resets = TRUE
  MaxFaults = 1
  MaxVersion = 3
SPECIFICATION Spec
INVARIANTS RefundFits
CHECK_DEADLOCK FALSE
