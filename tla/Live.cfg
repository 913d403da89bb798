SPECIFICATION FairSystemSpec
CONSTANTS
  s1 = s1
  s2 = s2
  a = a
  b = b
  e1 = e1
  r1 = r1
  w1 = w1
  None = None
  Sources = {s1}
  Slots = {a}
  Effects = {e1}
  Readers = {r1}
  Settlers = {w1}
  Reads <- Single
  MaxWrites = 2
  MaxSpawns = 4
  MaxMishaps = 0
  Peers = {1, 2, 3}
  Ttls = {1, 2}
  MaxTime = 4
  MaxFence = 4
  Capacity = 2
  Ballots = {"x", "y"}
  Parts = {"sync", "graph", "pump", "work", "mutex"}
PROPERTIES StreamsDeliver GraphProgresses QueuesProgress
CHECK_DEADLOCK FALSE
