SPECIFICATION Spec
CONSTANTS
  Peers = {a, b}
  Producers = {a}
  MaxEpoch = 1
  MaxFaults = 1
  MaxRestarts = 0
INVARIANTS NothingLost
