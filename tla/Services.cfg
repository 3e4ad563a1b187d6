SPECIFICATION Live
CONSTANTS
  QueueCap = 2
  BatchSize = 2
  MaxRecords = 4
  Hashes = {"h1", "h2"}
  Uses <- MCUses
  NoDeclaration = "none"
  Requests = {r1, r2}
  Keys = {k1}
  ClientKinds = {"desktop", "android"}
  Codes = {c1}
  Window = 3
  Delay = 1
  Limits <- MCLimits
  V5Enabled = TRUE
  Minimum <- MCMinimum
  Answers <- MCAnswers
  Plans <- MCPlans
  NoRoom = NoRoom
  Rooms <- MCRooms
  Freshness = 1
  LastTick = 2
  NewRounds = 1
  Absent = Absent
CHECK_DEADLOCK FALSE
INVARIANTS ServicesTypeOK LossesAreCounted  WindowLimited 
PROPERTIES   DelayCoversPaths
