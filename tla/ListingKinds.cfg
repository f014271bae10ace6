SPECIFICATION Spec
CONSTANTS
  a = a
  Base = {a, b}
  MaxUnder = 1
  MaxDepth = 1
  Byte = {x}
  Zero = Zero
  MaxSize = 1
  Slot = {s1}
  MaxFh = 1
  MaxStored = 3
  MaxDirs = 0
  MaxFaults = 0
  FuseOps <- Overwriting
  Seeds <- OneFile
  OtherPaths <- NoPaths
  NoHash = NoHash
  Missing = Missing
  NoAnswer = NoAnswer
INVARIANTS
  ListingAgrees
