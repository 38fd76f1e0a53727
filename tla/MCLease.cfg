SPECIFICATION LeaseFairSpec
CONSTANTS
  o1 = o1
  o2 = o2
  o3 = o3
  Operators = {o1, o2, o3}
  Namespace <- ThreeNamespaces
  Nobody = "nobody"
  LeaseDuration = 2
  ClaimLimit = 1
  WorkLimit = 2
INVARIANTS
  OneOperatorAtATime
PROPERTIES
  TakeoverOnlyAfterExpiry
  SurvivorTakesOver
