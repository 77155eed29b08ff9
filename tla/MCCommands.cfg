SPECIFICATION Spec
CONSTANTS
  Proc = {"p1", "p2"}
  Location = {"l1"}
  Snap = {"s1", "s2"}
  Data = {"a", "b"}
  None = "none"
  Own = "own"
  Bad = "bad"
  Tree <- MCTree
  DestPath <- MCDestPath
  Parent <- MCParent
  Protected = {"k"}
  Plans <- MCPlans
  MaxRot = 1
  MaxAborts = 1
INVARIANTS ManifestsBacked OwnFilesSurvive HistoryIsAChain
PROPERTIES CheckoutExact CacheClaimsHold
CHECK_DEADLOCK FALSE
