SPECIFICATION Spec
CONSTANTS
  NoHash = NoHash
  NoAnswer = NoAnswer
  x1 = x1
  x2 = x2
  p1 = p1
  p2 = p2
  Path = {x1}
  Hash = {h1}
  Folders <- OneFolder
  Proc = {p1, p2}
  Ops <- AddAndRemove
  MaxUuid = 2
  MaxKeep = 1
  Seeded = 1
  MaxFaults = 0
INVARIANTS
  NoDangling
