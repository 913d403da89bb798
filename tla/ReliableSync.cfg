SPECIFICATION Spec
CONSTANTS
  Peers = {a, b}
  Producers = {a, b}
  MaxEpoch = 2
  MaxFaults = 2
  MaxRestarts = 1
INVARIANTS Safety RetainedUntilCovered
PROPERTIES PrefixSpec
SYMMETRY Symmetry
