SPECIFICATION Spec
CONSTANTS
  NoHash = NoHash
  NoAnswer = NoAnswer
  x1 = x1
  x2 = x2
  p1 = p1
  p2 = p2
  Path = {x1}
  Hash = {h1, h2}
  Folders <- OneFolder
  Proc = {p1, p2}
  Ops <- TrimOnly
  MaxUuid = 3
  MaxKeep = 1
  Seeded = 3
  MaxFaults = 0
PROPERTIES
  TrimKeepsNewest
