SPECIFICATION Spec
CONSTANTS
  Ids = {s1, s2}
  Bodies = {x}
  MaxChunks = 2
  Repair = 1
  Uses <- SmallUses
  MaxConn = 3
  MaxTid = 2
SYMMETRY Interchangeable
CHECK_DEADLOCK FALSE
INVARIANTS DeliveredWhole TransferFitsRound OutlivesOnlyTakeover
PROPERTIES GrantsReachTheirPlayer
