SPECIFICATION FairSystemSpec
CONSTANTS
  k1 = k1
  v1 = v1
  v2 = v2
  None = None
  Unminted = Unminted
  Dirty = Dirty
  SnapshotReader = SnapshotReader
  GenerationReader = GenerationReader
  Keys = {k1}
  Values = {v1, v2}
  Epochs = {0, 1}
  Generations = {0, 1}
  Parts = {"core", "link", "tail", "replay", "identities", "projections", "outbox", "arena", "region"}
INVARIANTS Safety ReadersCoherent BlobsResolve StorageKeeps RebuiltIsRight
PROPERTIES RegisterSpec IntentBecomesDurable NothingRunsBack
CHECK_DEADLOCK FALSE
