SPECIFICATION LiveLobbySpec
CONSTANTS
  Conns = {c1, c2, c3}
  Guests = {g1, g2}
  HostSubject = host
  NumPlayers = 2
  ClientCaps = {{"relay"}}
  Voices = {TRUE}
  IdleTimeout = TRUE
  None = None
  MaxEpoch = 5
  MaxProposals = 2
CHECK_DEADLOCK FALSE
PROPERTIES GrantsAreCurrent IdleLobbyIsRemoved
