SPECIFICATION SystemSpec
CONSTANTS
  src = src
  sel = sel
  a = a
  b = b
  c = c
  watch = watch
  copy = copy
  Sources = {src, sel}
  Slots = {a, b, c}
  Effects = {watch, copy}
  Values = {0, 1}
  Body <- Program
  MaxReads = 4
  MaxDisposals = 1
  Parts = {"graph", "map", "list", "tree", "arena", "mutex", "shared"}
INVARIANTS CacheIsFresh CallsGetOn EffectsAreCurrent EdgesMirror CollectionsAgree  SharedStateAgrees
PROPERTIES WritesAreNarrow
CHECK_DEADLOCK FALSE
