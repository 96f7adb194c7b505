CONSTANTS
  Requests = {r1}
  Workers = {w1, w2}
  Quotas = {0, 2}
  Audits = {a1, a2}
  Profiles <- TwoProfiles
  InitUser = 3
  InitRemain = 3
  SubTotal = 2
  Overflow = TRUE
  UnlimitedToken = FALSE
  TrustQuota = 2
  MaxBalance = 10
  ChainDepth = 2
  Resets = FALSE
  MaxFaults = 2
  MaxVersion = 3
SPECIFICATION FairSpec
INVARIANTS SnapshotFresh
PROPERTIES RefundIntentApplied
CHECK_DEADLOCK FALSE
