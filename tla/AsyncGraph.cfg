SPECIFICATION SystemSpec
CONSTANTS
  s1 = s1
  s2 = s2
  a = a
  b = b
  e1 = e1
  r1 = r1
  w1 = w1
  None = None
  Sources = {s1, s2}
  Slots = {a, b}
  Effects = {}
  Readers = {r1}
  Settlers = {}
  Reads <- Diamond
  MaxWrites = 2
  MaxSpawns = 2
  MaxMishaps = 1
  Peers = {1, 2, 3}
  Ttls = {1, 2}
  MaxTime = 4
  MaxFence = 4
  Capacity = 2
  Ballots = {"x", "y"}
  Parts = {"graph", "lease", "gate", "streams", "timeout", "barrier", "calls", "members", "chart"}
INVARIANTS NothingStale WaitersAreServed OneAuthority  ClocksAreKept ChartsStayLegal
CHECK_DEADLOCK FALSE
