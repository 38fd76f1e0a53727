SPECIFICATION FairSpec
CONSTANTS
  o1 = o1
  o2 = o2
  Operators = {o1}
  Namespace <- OwnNamespace
  Nobody = "nobody"
  LeaseDuration = 1
  ClaimLimit = 1
  WorkLimit = 1
  Specs = {"a", "b", "bad"}
  Refused = {"bad"}
  TokenSpecs = {"b"}
  OwnKeySpecs = {"b"}
  Keys = {"k1", "k2"}
  ProbeAnswers <- Always
  MaxChanges = 3
  Absent = "absent"
  Applied = "applied"
INVARIANTS
  FinalizerCoversObjects
PROPERTIES
  NothingLeftBehind
  Converges
  DeletionCompletes
