SPECIFICATION LobbySpec
CONSTANTS
  Conns = {c1, c2, c3, c4}
  Guests = {g1, g2}
  HostSubject = host
  NumPlayers = 2
  ClientCaps = {{"started"}, {}}
  Voices = {FALSE}
  IdleTimeout = FALSE
  None = None
  MaxEpoch = 10
  MaxProposals = 2
SYMMETRY Interchangeable
CHECK_DEADLOCK FALSE
INVARIANTS OneMembership ReportsBelongToOccupant ReturnSawItsLaunch
PROPERTY EpochCoversView
