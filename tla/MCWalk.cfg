CONSTANTS
  Names = {"a", "f", "l", "git", "proc"}
  Blocks = {"x", "y"}
  Contents <- MCContents
  MmapThreshold = 2
  Scenes <- MCScenes
  Requests <- MCRequests
  MaxLinks = 2
  RefDepth = 4
  MaxEdits = 1
SPECIFICATION Spec
INVARIANTS QuiescentExact EntriesWitnessed DiffExact
PROPERTY WalkEnds
