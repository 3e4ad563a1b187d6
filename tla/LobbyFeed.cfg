SPECIFICATION FeedSpec
CONSTANTS
  Conns = {c1, c2, c3}
  Followed = c1
  Guests = {g1}
  HostSubject = host
  NumPlayers = 2
  ClientCaps = {{"relay", "started"}}
  Voices = {TRUE}
  IdleTimeout = TRUE
  None = None
  MaxEpoch = 5
  MaxProposals = 1
  Watchers = {w}
  Actives <- FollowedOrWatcher
  MaxRelays = 1
  Cap = 2
SYMMETRY Interchangeable
CHECK_DEADLOCK FALSE
INVARIANTS ShowsCurrentLobby 
PROPERTIES RemovalIsTerminal
