CONSTANTS
  Requests = {r1, r2}
  Admins = {a1}
  Reviewers = {v1}
  Bounds <- TwoBounds
  Usages <- ThreeUsages
  Fees = {1}
  Policies <- ThreePolicies
  ChatContext = 2
  MaxTokenBudget = 6
  MaxRevision = 5
  MaxFaults = 0
SPECIFICATION Spec
INVARIANTS LimitRespected PolicyReadIsCurrent
SYMMETRY ActorSymmetry
CHECK_DEADLOCK FALSE
