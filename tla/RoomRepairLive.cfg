CONSTANTS
  Conns = {c1, c2}
  None = None
  MaxRoomEpoch = 2
  MaxSessionEpoch = 3
  Fingerprints = {f1}
  Snapshots = {s1}
  Digests = {d1, d2}
  ClientCaps <- AllScheduled
  Handoffs = {FALSE}
  Timeouts = {"pin"}
  MaxFrame = 1
  MaxFuture = 1
  PauseLead = 0
  LocalLead = 0
  InputDelay = 0
  HashInterval = 1
  MaxAttempts = 1
SPECIFICATION LiveRoomSpec
PROPERTY RepairEnds
CHECK_DEADLOCK FALSE
