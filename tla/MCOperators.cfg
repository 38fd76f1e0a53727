SPECIFICATION MCSpec
CONSTANTS
  o1 = o1
  o2 = o2
  Operators = {o1, o2}
  Namespace <- OwnNamespace
  Nobody = "nobody"
  LeaseDuration = 1
  ClaimLimit = 1
  WorkLimit = 1
  Specs = {"a", "b"}
  Refused = {}
  TokenSpecs = {}
  OwnKeySpecs = {}
  Keys = {"k1", "k2"}
  ProbeAnswers <- Never
  MaxChanges = 2
  Absent = "absent"
  Applied = "applied"
  None = None
  Declared <- MCDeclared
  Objects = {"a", "b"}
  MaxTouches = 2
INVARIANT
  RotationAlwaysReachesEngine
PROPERTIES
  KeyIsStable
  StatusTellsDeployment
SYMMETRY Interchangeable
