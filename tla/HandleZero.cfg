SPECIFICATION Spec
CONSTANTS
  a = a
  Base = {a, b}
  MaxUnder = 0
  MaxDepth = 1
  Byte = {x}
  Zero = Zero
  MaxSize = 1
  Slot = {s1, s2}
  MaxFh = 1
  MaxStored = 3
  MaxDirs = 0
  MaxFaults = 0
  FuseOps <- Handles
  Seeds <- TopFiles
  OtherPaths <- NoPaths
  NoHash = NoHash
  Missing = Missing
  NoAnswer = NoAnswer
PROPERTIES
  OnlyWrittenFilesChange
