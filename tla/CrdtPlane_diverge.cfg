SPECIFICATION SystemSpec
CONSTANTS
  doc = doc
  f = f
  g = g
  v1 = v1
  v2 = v2
  Peers = {1, 2}
  DocKeys = {doc}
  FamilyKeys = {f, g}
  Registered = {1}
  Values = {v1, v2}
  MaxWall = 2
  MaxLogical = 3
  MaxUpdates = 3
  MaxFrames = 1
  Parts = {"plane"}
INVARIANTS EqualLogsAgree
CHECK_DEADLOCK FALSE
SYMMETRY Symmetry
