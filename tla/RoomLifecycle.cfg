CONSTANTS
  Conns = {c1, c2}
  None = None
  MaxRoomEpoch = 3
  MaxSessionEpoch = 3
SPECIFICATION Spec
CHECK_DEADLOCK FALSE
INVARIANTS CapabilityBinding NoOrphanSlot
PROPERTIES AbandonedRoomIsRemoved RecoveryIsBounded
