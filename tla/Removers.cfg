SPECIFICATION FairSpec
CONSTANTS
  NoHash = NoHash
  NoAnswer = NoAnswer
  x1 = x1
  x2 = x2
  p1 = p1
  p2 = p2
  Path = {x1, x2}
  Hash = {h1, h2}
  Folders <- TwoFolders
  Proc = {p1, p2}
  Ops <- Removals
  MaxUuid = 2
  MaxKeep = 1
  Seeded = 2
  MaxFaults = 0
INVARIANTS
  NoOrphan
PROPERTIES
  CallsReturn
  Reclaimed
