CONSTANTS
  Requests = {r1, r2}
  Workers = {w1}
  Quotas = {0, 2}
  Audits = {a1}
  Profiles <- AllProfiles
  InitUser = 3
  InitRemain = 3
  SubTotal = 2
  Overflow = TRUE
  UnlimitedToken = FALSE
  TrustQuota = 2
  MaxBalance = 10
  ChainDepth = 2
  Resets = FALSE
  MaxFaults = 1
  MaxVersion = 3
SPECIFICATION Spec
INVARIANTS TypeOK TokenConserved LifecycleAgreement DispatchedNotRefunded ChargesMatchBalances RefundFits
PROPERTIES StepConserves TerminalIsFinal HeldUsageOnlyReviewed OverdraftOnlyBySettlement
SYMMETRY RequestSymmetry
CHECK_DEADLOCK FALSE
