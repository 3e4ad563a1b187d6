------------------------------ MODULE LobbyFeed ------------------------------
(***************************************************************************)
(* A lobby together with the sockets that follow it: the lobby sessions,   *)
(* which read the lobby's event channel, and the directory sessions, which *)
(* read the registry's channel of public_lobbies notices.  Every operation *)
(* of Lobby sends its events and its notice in the same critical section.  *)
(*                                                                         *)
(* A channel keeps its last Cap events; a receiver that falls further      *)
(* behind is told so and goes on with the oldest event kept.  A behaviour  *)
(* follows the sockets of one Active set; the others read at once.         *)
(***************************************************************************)
EXTENDS Lobby, Sequences

CONSTANTS Watchers,  \* sockets of the public lobby directory
          Actives,   \* sets of sockets a behaviour may follow
          MaxRelays, \* bound: relay requests
          Cap        \* LOBBY_EVENT_CHANNEL_CAPACITY, PUBLIC_LOBBY_EVENT_CHANNEL_CAPACITY

ASSUME LobbyFeedConstants ==
  /\ Cap \in Nat \ {0} /\ MaxRelays \in Nat
  /\ Watchers \cap Conns = {} /\ Actives \subseteq SUBSET (Conns \cup Watchers)

VARIABLES
  phase,    \* of a followed socket: new, subscribed, joined, loop, over; else "none"
  inbox,    \* lobby session: events it has still to read
  missed,   \* its receiver lost events it was not told of yet
  seen,     \* its client: lobby epoch of the last view it was sent
  warned,   \* its client was told eventLagged since its last view
  expelled, \* history: connections that remove_player took out of their slot
  notices,  \* directory session: notices it has still to read
  dir       \* its client: the last listing it was sent

lobbyReaders == <<inbox, missed, seen, warned>>
watchers == <<notices, dir>>
readers == <<phase, lobbyReaders, watchers>>
feedVars == <<lobbyVars, readers, expelled>>

\* public_summary of a lobby with Public visibility; public_lobbies leaves the others out.
PublicCapacity == 2
Listing ==
  LET occupied == {p \in Players : subj[p] # None}
  IN  IF /\ present /\ status \in {"Open", "GameSelected"}
         /\ Cardinality(occupied) < PublicCapacity /\ conn[Host] # None
      THEN [status |-> status, players |-> Cardinality(occupied), game |-> selected]
      ELSE None

FeedInit ==
  /\ LobbyInit
  /\ \E active \in Actives :
       phase = [x \in Conns \cup Watchers |-> IF x \in active THEN "new" ELSE "none"]
  /\ inbox = [c \in Conns |-> << >>]
  /\ missed = [c \in Conns |-> FALSE]
  /\ seen = [c \in Conns |-> 0]
  /\ warned = [c \in Conns |-> FALSE]
  /\ expelled = {}
  /\ notices = [w \in Watchers |-> 0]
  /\ dir = [w \in Watchers |-> None]

-----------------------------------------------------------------------------
(* Sending                                                                 *)

\* Mutant of Receivers: sockets subscribe when their loop begins.
ReceiversLate == {x \in Conns \cup Watchers : phase[x] = "loop"}
\* The receivers of both channels: subscribe_lobby, subscribe_public_lobbies.
Receivers == {x \in Conns \cup Watchers : phase[x] \in {"subscribed", "joined", "loop"}}

StateChanged == [kind |-> "state", to |-> Conns, epoch |-> epoch']
Returned == [kind |-> "returned", to |-> Conns, epoch |-> epoch']
Chat == [kind |-> "chat", to |-> Conns, epoch |-> 0]
LobbyClosed == [kind |-> "closed", to |-> Conns, epoch |-> epoch']
PlayerRemoved(c) == [kind |-> "removed", to |-> {c}, epoch |-> epoch']
Granted(c) == [kind |-> "grant", to |-> {c}, epoch |-> 0]

\* A receiver keeps the newest Cap events.
Kept(s) == IF Len(s) > Cap THEN SubSeq(s, Len(s) - Cap + 1, Len(s)) ELSE s

\* Sends the events es of one operation in order.
Sends(es) ==
  /\ inbox' = [c \in Conns |-> IF c \in Receivers THEN Kept(inbox[c] \o es) ELSE inbox[c]]
  /\ missed' = [c \in Conns |-> missed[c] \/ (c \in Receivers /\ Len(inbox[c]) + Len(es) > Cap)]

\* Mutant of Notifies: nobody is told of a lobby that can no longer be joined.
NotifiesOfJoinable ==
  notices' = [w \in Watchers |-> IF w \in Receivers /\ notices[w] < Cap /\ Listing' # None
                                 THEN notices[w] + 1 ELSE notices[w]]
\* emit_public_lobbies_changed
Notifies ==
  notices' = [w \in Watchers |-> IF w \in Receivers /\ notices[w] < Cap THEN notices[w] + 1
                                 ELSE notices[w]]

Quiet == UNCHANGED <<inbox, missed, notices>>
\* Only an operation of c itself moves what its client was sent.
Rest == UNCHANGED <<phase, seen, warned, expelled, dir>>

-----------------------------------------------------------------------------
(* A lobby session                                                         *)

\* handle_websocket_lobby_session subscribes first.
SubscribeLobby(c) ==
  /\ present /\ phase[c] = "new" /\ stage[c] = "new"
  /\ phase' = [phase EXCEPT ![c] = "subscribed"]
  /\ UNCHANGED <<lobbyVars, lobbyReaders, watchers, expelled>>

\* The join is refused: send_lobby_upgrade_error.
JoinRefused(c) ==
  /\ phase[c] = "subscribed"
  /\ phase' = [phase EXCEPT ![c] = "over"]
  /\ UNCHANGED <<lobbyVars, lobbyReaders, watchers, expelled>>

\* The join of a session: LobbyJoined will carry the view of the join.
JoinSession(c) ==
  /\ phase[c] \in {"none", "subscribed"}
  /\ Sends(<<StateChanged>>) /\ Notifies
  /\ phase' = [phase EXCEPT ![c] = IF @ = "none" THEN @ ELSE "joined"]
  /\ seen' = [seen EXCEPT ![c] = IF phase[c] = "none" THEN @ ELSE epoch']
  /\ UNCHANGED <<warned, expelled, dir>>

\* connect_lobby
Connects(c) ==
  (\E s \in Subjects, k \in ClientCaps : ConnectLobby(c, s, k)) /\ JoinSession(c)

\* reconnect_lobby_player
Reconnects(c) ==
  /\ \E s \in Subjects, k \in ClientCaps, p \in Players, t \in Conns :
       ReconnectLobbyPlayer(c, s, p, t, k)
  /\ JoinSession(c)

\* join_lobby, over HTTP
Joins(c) ==
  /\ phase[c] = "none"
  /\ \E s \in Subjects, k \in ClientCaps : JoinLobby(c, s, k)
  /\ Sends(<<StateChanged>>) /\ Notifies /\ Rest

\* LobbyJoined was sent.
EnterLoop(c) ==
  /\ phase[c] = "joined" /\ stage[c] = "open"
  /\ phase' = [phase EXCEPT ![c] = "loop"]
  /\ UNCHANGED <<lobbyVars, lobbyReaders, watchers, expelled>>

\* The session ends: its client closed, a write failed, or a terminal event was sent.
Disconnects(c) ==
  /\ Disconnect(c)
  /\ IF epoch' # epoch THEN Sends(<<StateChanged>>) /\ Notifies ELSE Quiet
  /\ phase' = [phase EXCEPT ![c] = IF @ = "none" THEN @ ELSE "over"]
  /\ UNCHANGED <<seen, warned, expelled, dir>>

\* Mutant of EndsSession: removal is shown like any other event.
EndsOnClose(e) == e.kind = "closed"
\* LobbyClosed and PlayerRemoved are the last message of a session.
EndsSession(e) == e.kind \in {"closed", "removed"}

\* handle_lobby_event of one event; events for other sockets are skipped.
ReadEvent(c) ==
  /\ phase[c] = "loop" /\ Listening(c) /\ ~missed[c] /\ inbox[c] # << >>
  /\ inbox' = [inbox EXCEPT ![c] = Tail(@)]
  /\ LET e == Head(inbox[c])
         mine == c \in e.to
         view == mine /\ e.kind \notin {"chat", "grant"}
     IN  /\ phase' = IF mine /\ EndsSession(e) THEN [phase EXCEPT ![c] = "over"] ELSE phase
         /\ seen' = IF view THEN [seen EXCEPT ![c] = e.epoch] ELSE seen
         /\ warned' = IF view THEN [warned EXCEPT ![c] = FALSE] ELSE warned
  /\ UNCHANGED <<lobbyVars, missed, watchers, expelled>>

\* RecvError::Lagged: the client is told and the session goes on.
ReadLag(c) ==
  /\ phase[c] = "loop" /\ Listening(c) /\ missed[c]
  /\ missed' = [missed EXCEPT ![c] = FALSE]
  /\ warned' = [warned EXCEPT ![c] = TRUE]
  /\ UNCHANGED <<lobbyVars, phase, inbox, seen, watchers, expelled>>

-----------------------------------------------------------------------------
(* The operations of the lobby, with what each of them sends               *)

\* Sessions that handle messages: handle_lobby_message.
Attends(c) == phase[c] \in {"none", "loop"}

Removes(c, p) ==
  /\ RemovePlayer(c, epoch, p)
  /\ Sends(IF conn[p] # None THEN <<PlayerRemoved(conn[p]), StateChanged>> ELSE <<StateChanged>>)
  /\ Notifies
  /\ expelled' = expelled \cup ({conn[p]} \ {None})
  /\ UNCHANGED <<phase, seen, warned, dir>>

\* What most operations send: the new state, and a notice to the directory or none.
Announced == Sends(<<StateChanged>>) /\ Notifies /\ Rest
Unannounced == Sends(<<StateChanged>>) /\ UNCHANGED notices /\ Rest

Selects(c) == SelectGame(c) /\ Announced
RequestsLaunch(c) == RequestGameLaunch(c) /\ Announced
Publishes(c) == PublishGameRoom(c) /\ Announced
SetsReadiness(c, p) == (\E r \in BOOLEAN : SetGameReadiness(c, p, r)) /\ Unannounced
Starts(c, p) == MarkGameplayStarted(c, p, epoch) /\ Unannounced

Leaves(c) == (HostLeaves(c) \/ \E p \in Players : GuestLeaves(c, p)) /\ Announced

Comeback(c, p) ==
  /\ ReturnToLobby(c, p, epoch)
  /\ Sends(<<Returned, StateChanged>>) /\ Notifies /\ Rest

\* send_lobby_chat
Chats(c, p) == ReportActivity(c, p) /\ Sends(<<Chat>>) /\ UNCHANGED notices /\ Rest
\* record_lobby_activity, and a refreshed voice token: nothing is sent to the others.
Reports(c, p) == ReportActivity(c, p) /\ Quiet /\ Rest

PreparesRelay(c, p) ==
  /\ Cardinality(intents \cup grants) < MaxRelays
  /\ PrepareRelay(c, p) /\ Quiet /\ Rest

\* grant_lobby_rom_relay_transfer, grant_lobby_startup_state_relay_transfer
GrantsRelay(i) ==
  /\ GrantRelay(i)
  /\ IF RelayCurrent(i) THEN Sends(<<Granted(i.sender), Granted(i.receiver)>>)
                        ELSE UNCHANGED <<inbox, missed>>
  /\ UNCHANGED notices /\ Rest

AnswersRelay(i) == GrantsRelay(i) \/ (RelayFails(i) /\ Quiet /\ Rest)

Expires == ExpireIdleLobbies /\ Sends(<<LobbyClosed>>) /\ Notifies /\ Rest

TimePasses == (IdlePasses \/ \E r \in removals : VoiceRemoval(r)) /\ Quiet /\ Rest

-----------------------------------------------------------------------------
(* A directory session                                                     *)

\* handle_public_lobbies_websocket_session subscribes, then sends a first snapshot.
Watch(w) ==
  /\ phase[w] = "new"
  /\ phase' = [phase EXCEPT ![w] = "subscribed"]
  /\ UNCHANGED <<lobbyVars, lobbyReaders, watchers, expelled>>

FirstSnapshot(w) ==
  /\ phase[w] = "subscribed"
  /\ phase' = [phase EXCEPT ![w] = "joined"]
  /\ dir' = [dir EXCEPT ![w] = Listing]
  /\ UNCHANGED <<lobbyVars, lobbyReaders, notices, expelled>>

WatchLoop(w) ==
  /\ phase[w] = "joined"
  /\ phase' = [phase EXCEPT ![w] = "loop"]
  /\ UNCHANGED <<lobbyVars, lobbyReaders, watchers, expelled>>

\* A notice, or the news that some were lost: the listing is read again.
ReadNotice(w) ==
  /\ phase[w] = "loop" /\ notices[w] > 0
  /\ notices' = [notices EXCEPT ![w] = @ - 1]
  /\ dir' = [dir EXCEPT ![w] = Listing]
  /\ UNCHANGED <<lobbyVars, lobbyReaders, phase, expelled>>

Unwatch(w) ==
  /\ phase[w] \in {"joined", "loop"}
  /\ phase' = [phase EXCEPT ![w] = "over"]
  /\ UNCHANGED <<lobbyVars, lobbyReaders, watchers, expelled>>

-----------------------------------------------------------------------------

Session(c) ==
  \/ SubscribeLobby(c) \/ JoinRefused(c) \/ Connects(c) \/ Reconnects(c) \/ Joins(c) \/ EnterLoop(c)
  \/ Disconnects(c) \/ ReadEvent(c) \/ ReadLag(c)

Operation(c) ==
  /\ Attends(c)
  /\ \/ Leaves(c) \/ Selects(c) \/ RequestsLaunch(c) \/ Publishes(c)
     \/ \E p \in Players : \/ Removes(c, p) \/ SetsReadiness(c, p) \/ Starts(c, p)
                           \/ Comeback(c, p) \/ Chats(c, p) \/ Reports(c, p)
                           \/ PreparesRelay(c, p)

FeedNext ==
  \/ \E c \in Conns : Session(c) \/ Operation(c)
  \/ \E i \in intents : AnswersRelay(i)
  \/ Expires \/ TimePasses
  \/ \E w \in Watchers :
       Watch(w) \/ FirstSnapshot(w) \/ WatchLoop(w) \/ ReadNotice(w) \/ Unwatch(w)

FeedSpec == FeedInit /\ [][FeedNext]_feedVars

-----------------------------------------------------------------------------
(* Properties                                                              *)

\* Types; a receiver never holds more than the channel keeps (broadcast::channel).
FeedTypeOK ==
  /\ phase \in [Conns \cup Watchers -> {"none", "new", "subscribed", "joined", "loop", "over"}]
  /\ \A c \in Conns : Len(inbox[c]) <= Cap /\ seen[c] \in 0 .. epoch
  /\ missed \in [Conns -> BOOLEAN] /\ warned \in [Conns -> BOOLEAN]
  /\ expelled \subseteq Conns
  /\ notices \in [Watchers -> 0 .. Cap]

\* The channels keep within their capacity, and a client that has read all its events
\* shows the lobby as it is, or was told it missed some: no operation changes the lobby without an event, and the subscription that precedes
\* the join leaves no change in between (emit_state_changed, handle_websocket_lobby_session).
ShowsCurrentLobby ==
  FeedTypeOK /\ \A c \in Conns :
    phase[c] = "loop" /\ inbox[c] = << >> /\ ~missed[c] => seen[c] = epoch \/ warned[c]

\* A lobby that a drained directory lists can be joined as listed; what it may lack is a
\* lobby that set_game_readiness took out of its game (emit_public_lobbies_changed).
ListedIsCurrent ==
  \A w \in Watchers : phase[w] = "loop" /\ notices[w] = 0 => dir[w] \in {Listing, None}

\* A removal waits in the inbox of the removed player's session and leaves it in one of two
\* ways: it is read, which ends the session, or newer events push it out and the session will
\* be told so (emit_player_removed, handle_lobby_event).
AwaitsRemoval(c) == \E i \in DOMAIN inbox[c] : inbox[c][i].kind = "removed" /\ c \in inbox[c][i].to
RemovalIsTerminal ==
  [][\A c \in Conns :
       /\ c \in expelled' \ expelled /\ c \in Receivers => AwaitsRemoval(c)' \/ missed'[c]
       /\ AwaitsRemoval(c) /\ ~AwaitsRemoval(c)' => phase'[c] = "over" \/ missed'[c]]_feedVars
=============================================================================
