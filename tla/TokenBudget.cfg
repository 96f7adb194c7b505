CONSTANTS
  Requests = {r1, r2}
  Admins = {a1}
  Reviewers = {v1, v2}
  Bounds <- TwoBounds
  Usages <- TwoUsages
  Fees = {1}
  Policies <- TwoPolicies
  ChatContext = 2
  MaxTokenBudget = 6
  MaxRevision = 1
  MaxFaults = 1
SPECIFICATION Spec
INVARIANTS TypeOK PendingAgreement CalledNeverReleased DecisionMatchesSettlement CleanExitResolves
PROPERTIES ImplementsMeter
SYMMETRY ActorSymmetry
CHECK_DEADLOCK FALSE
