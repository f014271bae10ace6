SPECIFICATION Spec
CONSTANTS
  a = a
  Base = {a, b}
  MaxUnder = 1
  MaxDepth = 1
  Byte = {x}
  Zero = Zero
  MaxSize = 2
  Slot = {s1, s2}
  MaxFh = 1
  MaxStored = 2
  MaxDirs = 1
  MaxFaults = 1
  FuseOps <- Everything
  Seeds <- TopFiles
  OtherPaths <- TopFiles
  NoHash = NoHash
  Missing = Missing
  NoAnswer = NoAnswer
SYMMETRY FuseSymmetry
CONSTRAINTS
  OwnHandles
  InodesKept
  NoAlias
INVARIANTS
  FuseTypeOK
  BuffersOwned
PROPERTIES
  ReleaseCommits
  OnlyWrittenFilesChange
  RenameKeepsContent
