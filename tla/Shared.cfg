SPECIFICATION SerializedSpec
CONSTANTS
  NoHash = NoHash
  NoAnswer = NoAnswer
  x1 = x1
  x2 = x2
  p1 = p1
  p2 = p2
  Path = {x1, x2}
  Hash = {h1, h2}
  Folders <- OneFolder
  Proc = {p1, p2}
  Ops <- AllAndAdds
  MaxUuid = 4
  MaxKeep = 1
  Seeded = 2
  MaxFaults = 1
SYMMETRY DataSymmetry
INVARIANTS
  NoDangling
  NoOrphan
  Consistent
PROPERTIES
  TrimKeepsNewest
  ReadsAnswer
  CallsShrink
