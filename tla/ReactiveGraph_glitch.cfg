SPECIFICATION SystemSpec
CONSTANTS
  src = src
  sel = sel
  a = a
  b = b
  c = c
  watch = watch
  copy = copy
  Sources = {src}
  Slots = {a, b, c}
  Effects = {}
  Values = {0, 1}
  Body <- Backwards
  MaxReads = 2
  MaxDisposals = 0
  Parts = {"graph"}
INVARIANTS CacheIsFresh
CHECK_DEADLOCK FALSE
