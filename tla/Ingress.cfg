SPECIFICATION SystemSpec
CONSTANTS
  k1 = k1
  p1 = p1
  p2 = p2
  r1 = r1
  r2 = r2
  w1 = w1
  w2 = w2
  Nil = Nil
  Gone = Gone
  Keys = {k1}
  ReorderWindow = 2
  HighWater = 1
  Horizon = 1
  ReceiptCapacity = 1
  Overflows = {"block", "dropOldest", "conflate"}
  OpenRaises = FALSE
  MaxGen = 1
  MaxSeq = 3
  MaxNow = 2
  MaxErrors = 1
  TransportKind = "event_channel"
  MaxLosses = 2
  Parts = {"core", "cells", "queue", "topic", "work", "commands", "replica", "room"}
INVARIANTS AdmissionSound  QueuesKeep MessagesAgree
PROPERTIES NothingIsTakenBack ReadersInformed
CHECK_DEADLOCK FALSE
