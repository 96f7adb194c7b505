CONSTANTS
  Requests = {r1, r2}
  Workers = {w1}
  Quotas = {0, 2}
  Audits = {a1}
  Profiles <- TwoProfiles
  InitUser = 3
  InitRemain = 3
  SubTotal = 2
  Overflow = TRUE
  UnlimitedToken = FALSE
  TrustQuota = 2
  MaxBalance = 10
  ChainDepth = 2
  Resets = TRUE
  MaxFaults = 0
  MaxVersion = 4
SPECIFICATION Spec
INVARIANTS ChargesMatchBalances
SYMMETRY RequestSymmetry
CHECK_DEADLOCK FALSE
