SPECIFICATION CliFairSpec
CONSTANTS
  b1 = b1
  b2 = b2
  cli = cli
  peer = peer
  Byte <- Bytes
  Arg <- Args
  Path <- ValidArgs
  OtherPaths <- OnlyA
  Names <- NamesUsed
  Depth = 2
  Content <- Contents
  Hash <- Contents
  Buffer = {1, 2}
  Commands <- AllCommands
  Proc = {cli, peer}
  User = cli
  Ops <- CliOps
  Folders = {}
  MaxUuid = 2
  MaxBatch = 1
  MaxKeep = 1
  Seeded = 0
  MaxFaults = 1
  NoHash = NoHash
INVARIANTS
  CliTypeOK
  GetExact
  ListIsFolderListing
PROPERTIES
  GetFailsOnlyWhenGone
  InfoBounds
  CommandsExit
