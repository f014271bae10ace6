SPECIFICATION Spec
CONSTANTS
  a = a
  Base = {a, b}
  MaxUnder = 2
  MaxDepth = 2
  Byte = {x}
  Zero = Zero
  MaxSize = 0
  Slot = {s1}
  MaxFh = 1
  MaxStored = 3
  MaxDirs = 2
  MaxFaults = 0
  FuseOps <- Naming
  Seeds <- PlainPaths
  OtherPaths <- PlainPaths
  NoHash = NoHash
  Missing = Missing
  NoAnswer = NoAnswer
SYMMETRY BaseSymmetry
INVARIANTS
  NamesListed
  StoredFilesReachable
  NamesUnambiguous
  ReaddirAgrees
PROPERTIES
  DirectoriesStay
