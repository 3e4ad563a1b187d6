-------------------------------- MODULE Lobby --------------------------------
(***************************************************************************)
(* One persistent lobby: who sits in its slots, the proposed game, the     *)
(* launch of a child game room and the return from it, file-relay grants   *)
(* and the voice room.  A registry operation holds the registry lock, so   *)
(* it is one action.  A relay request is two, with the call of the broker  *)
(* in between; calls of the voice broker run in tasks of their own.        *)
(*                                                                         *)
(* A resume token is named by the connection whose join issued it.  The    *)
(* status of a slot follows from its subject and connection.  A proposal   *)
(* is the number of proposals made so far, so it is never reused.          *)
(***************************************************************************)
EXTENDS Integers, FiniteSets

CONSTANTS Conns,        \* connection ids: of sockets, and of joins over HTTP
          Guests,       \* verified identities of guests
          HostSubject,  \* the identity that created the lobby
          NumPlayers,   \* MAX_LOBBY_PLAYERS
          ClientCaps,   \* capability sets that clients report
          Voices,       \* whether a voice room may be attached at creation
          IdleTimeout,  \* whether the idle timeout may pass
          None,
          MaxEpoch,     \* bound: lobby epoch up to which clients act
          MaxProposals  \* bound: game proposals

ASSUME LobbyConstants ==
  /\ None \notin Conns /\ None \notin Guests /\ HostSubject # None /\ HostSubject \notin Guests
  /\ NumPlayers \in Nat \ {0}
  /\ ClientCaps \subseteq SUBSET {"started", "relay"}
  /\ Voices \subseteq BOOLEAN /\ IdleTimeout \in BOOLEAN
  /\ MaxEpoch \in Nat /\ MaxProposals \in Nat

Players == 1 .. NumPlayers
Host == 1
Subjects == Guests \cup {HostSubject}

VARIABLES
  present,     \* the registry holds the lobby
  status,      \* LobbyStatus
  epoch,       \* lobby_epoch
  idle,        \* the idle timeout has passed since the last meaningful activity
  voice,       \* a voice room is attached
  subj, conn, tok, caps,                \* LobbyPlayerSlot
  selected,    \* selected_game: its proposal, 0 for none
  ready,       \* game_readiness by player
  launch,      \* pending_launch
  lastReturn,  \* last_return
  stage,       \* socket tasks: "new", "open", "http" (never a socket) or "gone"
  owner,       \* identity that connected with this id
  intents,     \* relay requests that wait for the file broker
  grants,      \* history: relay requests that were granted
  removals,    \* spawned calls that remove a participant from the voice room
  closes       \* number of spawned calls that close the voice room

header == <<present, status, epoch, idle, voice>>
slots == <<subj, conn, tok, caps>>
game == <<selected, ready, launch, lastReturn>>
sockets == <<stage, owner>>
calls == <<intents, grants, removals, closes>>
lobbyVars == <<header, slots, game, sockets, calls>>

Readiness == [proposal : Nat, subject : Subjects, ready : BOOLEAN]
Launches == [proposal : Nat, status : {"Preparing", "Ready", "Playing"},
             started : SUBSET (Players \X Subjects), at : Nat]
Intents == [sender : Conns, to : Players, receiver : Conns, subject : Subjects, proposal : Nat]
Returns == [proposal : Nat, saw : Nat, launchedAt : Nat]

ASSUME NoneIsNoRow == None \notin Readiness /\ None \notin Launches /\ None \notin Returns

HeaderOK ==
  /\ present \in BOOLEAN /\ idle \in BOOLEAN /\ voice \in BOOLEAN
  /\ status \in {"Open", "GameSelected", "InGame", "Closed"}
  /\ epoch \in Nat

SlotsOK ==
  /\ subj \in [Players -> Subjects \cup {None}]
  /\ conn \in [Players -> Conns \cup {None}]
  /\ tok \in [Players -> Conns \cup {None}]
  /\ caps \in [Players -> SUBSET {"started", "relay"}]
  /\ stage \in [Conns -> {"new", "open", "http", "gone"}]
  /\ owner \in [Conns -> Subjects \cup {None}]

GameOK ==
  /\ selected \in Nat
  /\ ready \in [Players -> Readiness \cup {None}]
  /\ launch \in Launches \cup {None}
  /\ lastReturn \in Returns \cup {None}

CallsOK ==
  /\ intents \subseteq Intents /\ grants \subseteq Intents
  /\ removals \subseteq Players \X Subjects
  /\ closes \in Nat

\* Each part of the lobby has the type that its struct (Lobby, LobbyPlayerSlot,
\* LobbyGameLaunchView) or task gives it.
LobbyTypeOK == HeaderOK /\ SlotsOK /\ GameOK /\ CallsOK

\* create_lobby: the host's first connection id has no socket.
LobbyInit ==
  /\ present = TRUE /\ epoch = 1 /\ idle = FALSE /\ voice \in Voices
  /\ selected \in {0, 1}
  /\ status = IF selected = 0 THEN "Open" ELSE "GameSelected"
  /\ \E c \in Conns, k \in ClientCaps :
       /\ subj = [p \in Players |-> IF p = Host THEN HostSubject ELSE None]
       /\ conn = [p \in Players |-> IF p = Host THEN c ELSE None]
       /\ tok = conn
       /\ caps = [p \in Players |-> IF p = Host THEN k ELSE {}]
       /\ stage = [d \in Conns |-> IF d = c THEN "http" ELSE "new"]
       /\ owner = [d \in Conns |-> IF d = c THEN HostSubject ELSE None]
  /\ ready = [p \in Players |-> None] /\ launch = None /\ lastReturn = None
  /\ intents = {} /\ grants = {} /\ removals = {} /\ closes = 0

-----------------------------------------------------------------------------
(* Helpers of lobby.rs.                                                    *)

\* bump; bump_with_activity, bounded because clients may act for ever
Bump == epoch' = epoch + 1 /\ UNCHANGED idle
BumpWithActivity == epoch < MaxEpoch /\ epoch' = epoch + 1 /\ idle' = FALSE

\* The socket task of c handles messages: it runs and does not wait for the file broker.
Listening(c) == stage[c] = "open" /\ \A i \in intents : i.sender # c

\* player_index_for_connection
Speaks(c, p) == present /\ Listening(c) /\ conn[p] = c

\* slot.occupy
Occupy(p, s, c, t, k) ==
  /\ subj' = [subj EXCEPT ![p] = s]
  /\ conn' = [conn EXCEPT ![p] = c]
  /\ tok' = [tok EXCEPT ![p] = t]
  /\ caps' = [caps EXCEPT ![p] = k]

\* LobbyPlayerSlot::empty
VacateSlot(p) ==
  /\ subj' = [subj EXCEPT ![p] = None]
  /\ conn' = [conn EXCEPT ![p] = None]
  /\ tok' = [tok EXCEPT ![p] = None]
  /\ caps' = [caps EXCEPT ![p] = {}]

\* Mutant of DropReadiness: the row of a player who goes is kept.
DropReadinessNot(p) == UNCHANGED ready

DropReadiness(p) == ready' = [ready EXCEPT ![p] = None]

\* The status of a lobby in setup.
SetupStatus == IF selected # 0 THEN "GameSelected" ELSE "Open"

Connected == {p \in Players : subj[p] # None /\ conn[p] # None}
ConnectedReady == \A p \in Connected : ready[p] # None /\ ready[p].proposal = selected /\ ready[p].ready

\* Where join_or_refresh_player puts s: its own slot, else the first empty one.
\* Mutant of SlotsFor: a refresh does not look for the subject's own slot.
SlotsForNewcomer(s) == {p \in Players : subj[p] = None}

SlotsFor(s) ==
  IF \E p \in Players : subj[p] = s
  THEN {p \in Players : subj[p] = s}
  ELSE {p \in Players : subj[p] = None}

Joinable == present /\ status # "Closed"

-----------------------------------------------------------------------------
(* Membership.                                                             *)

\* join_or_refresh_player: connection c of subject s, with a fresh token
JoinOrRefresh(c, s, k) ==
  /\ Joinable
  /\ stage[c] = "new"
  /\ \E p \in SlotsFor(s) :
       /\ \A q \in SlotsFor(s) : p <= q
       /\ Occupy(p, s, c, c, k)
  /\ owner' = [owner EXCEPT ![c] = s]
  /\ BumpWithActivity
  /\ UNCHANGED <<present, status, voice, game, calls>>

\* connect_lobby, from the lobby socket
ConnectLobby(c, s, k) == JoinOrRefresh(c, s, k) /\ stage' = [stage EXCEPT ![c] = "open"]

\* join_lobby, over HTTP
JoinLobby(c, s, k) == JoinOrRefresh(c, s, k) /\ stage' = [stage EXCEPT ![c] = "http"]

\* reconnect_player, with token t issued to s
ReconnectLobbyPlayer(c, s, p, t, k) ==
  /\ Joinable
  /\ stage[c] = "new"
  /\ owner[t] = s
  /\ subj[p] = s /\ tok[p] = t
  /\ Occupy(p, s, c, t, k)
  /\ owner' = [owner EXCEPT ![c] = s]
  /\ stage' = [stage EXCEPT ![c] = "open"]
  /\ BumpWithActivity
  /\ UNCHANGED <<present, status, voice, game, calls>>

\* Mutant of Disconnect: the change of the roster gets no epoch.
DisconnectWithoutBump(c) ==
  /\ Listening(c)
  /\ stage' = [stage EXCEPT ![c] = "gone"]
  /\ conn' = [p \in Players |-> IF present /\ conn[p] = c THEN None ELSE conn[p]]
  /\ UNCHANGED <<header, subj, tok, caps, game, owner, calls>>

\* The socket ends, for any reason, and disconnect_lobby runs.
Disconnect(c) ==
  /\ Listening(c)
  /\ stage' = [stage EXCEPT ![c] = "gone"]
  /\ IF present /\ \E p \in Players : conn[p] = c
     THEN conn' = [p \in Players |-> IF conn[p] = c THEN None ELSE conn[p]] /\ Bump
     ELSE UNCHANGED <<conn, epoch, idle>>
  /\ UNCHANGED <<present, status, voice, subj, tok, caps, game, owner, calls>>

\* close, and the cleanup of the voice room that both callers do
Close ==
  /\ status' = "Closed" /\ launch' = None
  /\ conn' = [p \in Players |-> None]
  /\ Bump
  /\ voice' = FALSE /\ closes' = IF voice THEN closes + 1 ELSE closes
  /\ UNCHANGED <<subj, tok, caps, selected, ready, lastReturn>>

\* leave of the host
HostLeaves(c) ==
  /\ Speaks(c, Host)
  /\ Close
  /\ UNCHANGED <<present, sockets, intents, grants, removals>>

\* leave of a guest
GuestLeaves(c, p) ==
  /\ p # Host /\ Speaks(c, p)
  /\ VacateSlot(p) /\ DropReadiness(p)
  /\ launch' = None
  /\ status' = SetupStatus
  /\ BumpWithActivity
  /\ UNCHANGED <<present, voice, selected, lastReturn, sockets, calls>>

\* remove_player, asked for in epoch e
RemovePlayer(c, e, p) ==
  /\ e = epoch
  /\ Speaks(c, Host)
  /\ status \notin {"Closed", "InGame"} /\ launch = None
  /\ p # Host /\ subj[p] # None
  /\ VacateSlot(p) /\ DropReadiness(p)
  /\ status' = SetupStatus
  /\ removals' = IF voice THEN removals \cup {<<p, subj[p]>>} ELSE removals
  /\ BumpWithActivity
  /\ UNCHANGED <<present, voice, selected, launch, lastReturn, sockets, intents, grants, closes>>

-----------------------------------------------------------------------------
(* The proposed game, its launch and the return from it.                   *)

ClearForProposal == launch' = None /\ ready' = [p \in Players |-> None]

\* select_game
SelectGame(c) ==
  /\ Speaks(c, Host)
  /\ selected < MaxProposals
  /\ selected' = selected + 1
  /\ ClearForProposal
  /\ lastReturn' = None
  /\ status' = "GameSelected"
  /\ BumpWithActivity
  /\ UNCHANGED <<present, voice, slots, sockets, calls>>

\* set_game_readiness
SetGameReadiness(c, p, r) ==
  /\ Speaks(c, p)
  /\ selected # 0
  /\ ready' = [ready EXCEPT ![p] = [proposal |-> selected, subject |-> subj[p], ready |-> r]]
  /\ launch' = None
  /\ status' = "GameSelected"
  /\ BumpWithActivity
  /\ UNCHANGED <<present, voice, slots, selected, lastReturn, sockets, calls>>

\* request_game_launch
RequestGameLaunch(c) ==
  /\ Speaks(c, Host)
  /\ selected # 0
  /\ ConnectedReady
  /\ launch' = [proposal |-> selected, status |-> "Preparing", started |-> {}, at |-> epoch + 1]
  /\ lastReturn' = None
  /\ status' = "InGame"
  /\ BumpWithActivity
  /\ UNCHANGED <<present, voice, slots, selected, ready, sockets, calls>>

\* publish_game_room; a second publication sets the launch back to Ready
PublishGameRoom(c) ==
  /\ Speaks(c, Host)
  /\ launch # None /\ launch.proposal = selected
  /\ launch' = [launch EXCEPT !.status = "Ready"]
  /\ status' = "InGame"
  /\ BumpWithActivity
  /\ UNCHANGED <<present, voice, slots, selected, ready, lastReturn, sockets, calls>>

\* mark_gameplay_started, reported in epoch e; mark_player_started
MarkGameplayStarted(c, p, e) ==
  /\ Speaks(c, p)
  /\ "started" \in caps[p]
  /\ e = epoch
  /\ \A q \in Connected : "started" \in caps[q]
  /\ launch # None /\ launch.proposal = selected
  /\ launch.status = "Ready"
  /\ \A r \in launch.started : r[1] # p
  /\ LET started == launch.started \cup {<<p, subj[p]>>}
     IN  launch' = [launch EXCEPT !.started = started,
                                  !.status = IF \A q \in Connected : \E r \in started : r[1] = q
                                             THEN "Playing" ELSE "Ready"]
  /\ status' = "InGame"
  /\ BumpWithActivity
  /\ UNCHANGED <<present, voice, slots, selected, ready, lastReturn, sockets, calls>>

\* Mutant of ReturnApplies: the epoch of the report is not compared.
ReturnAppliesToAny(e) == launch # None /\ launch.proposal = selected

ReturnApplies(e) == e = epoch /\ launch # None /\ launch.proposal = selected

\* return_to_lobby, reported in epoch e.  A repeated report changes nothing.
ReturnToLobby(c, p, e) ==
  /\ Speaks(c, p)
  /\ ReturnApplies(e)
  /\ lastReturn' = [proposal |-> launch.proposal, saw |-> e, launchedAt |-> launch.at]
  /\ ready' = [q \in Players |-> None]
  /\ launch' = None
  /\ status' = SetupStatus
  /\ BumpWithActivity
  /\ UNCHANGED <<present, voice, slots, selected, sockets, calls>>

\* send_lobby_chat and record_lobby_activity
ReportActivity(c, p) ==
  /\ Speaks(c, p)
  /\ idle' = FALSE
  /\ UNCHANGED <<present, status, epoch, voice, slots, game, sockets, calls>>

-----------------------------------------------------------------------------
(* File relay, voice broker and expiry.                                    *)

\* prepare_rom_relay_transfer and prepare_startup_state_relay_transfer; the task then
\* waits for the broker
PrepareRelay(c, p) ==
  /\ Speaks(c, Host)
  /\ conn[p] # None
  /\ "relay" \in caps[Host] /\ "relay" \in caps[p]
  /\ selected # 0
  /\ intents' = intents \cup {[sender |-> c, to |-> p, receiver |-> conn[p],
                               subject |-> subj[p], proposal |-> selected]}
  /\ idle' = FALSE
  /\ UNCHANGED <<present, status, epoch, voice, slots, game, sockets, grants, removals, closes>>

\* Mutant of RelayCurrent: the lobby is not looked at again.
RelayCurrentBeforeWait(i) == present

\* require_rom_relay_transfer_current, require_startup_state_relay_transfer_current
RelayCurrent(i) ==
  /\ present
  /\ selected = i.proposal
  /\ conn[Host] = i.sender /\ conn[i.to] = i.receiver

\* The broker answers: the grants are sent, or the request is refused.
GrantRelay(i) ==
  /\ i \in intents
  /\ intents' = intents \ {i}
  /\ grants' = IF RelayCurrent(i) THEN grants \cup {i} ELSE grants
  /\ UNCHANGED <<header, slots, game, sockets, removals, closes>>

\* The broker fails or times out.
RelayFails(i) ==
  /\ i \in intents
  /\ intents' = intents \ {i}
  /\ UNCHANGED <<header, slots, game, sockets, grants, removals, closes>>

\* The spawned call of cleanup_lobby_voice_participant reaches the broker.
VoiceRemoval(r) ==
  /\ r \in removals
  /\ removals' = removals \ {r}
  /\ UNCHANGED <<header, slots, game, sockets, intents, grants, closes>>

\* The idle timeout passes.
IdlePasses ==
  /\ IdleTimeout
  /\ present /\ ~idle
  /\ idle' = TRUE
  /\ UNCHANGED <<present, status, epoch, voice, slots, game, sockets, calls>>

\* Mutant of Idle: a lobby with a game is never idle.
IdleOutsideGame == idle /\ status = "Open"

\* is_meaningfully_idle
Idle == idle /\ status # "Closed"

\* expire_idle_lobbies
ExpireIdleLobbies ==
  /\ present /\ Idle
  /\ Close
  /\ present' = FALSE
  /\ UNCHANGED <<sockets, intents, grants, removals>>

-----------------------------------------------------------------------------

Joining ==
  \E c \in Conns, s \in Subjects, k \in ClientCaps :
    \/ ConnectLobby(c, s, k)
    \/ JoinLobby(c, s, k)
    \/ \E p \in Players, t \in Conns : ReconnectLobbyPlayer(c, s, p, t, k)

Going ==
  \E c \in Conns :
    \/ Disconnect(c)
    \/ HostLeaves(c)
    \/ \E p \in Players :
         \/ GuestLeaves(c, p)
         \/ \E e \in 1 .. epoch : RemovePlayer(c, e, p)

Gaming ==
  \E c \in Conns :
    \/ SelectGame(c)
    \/ RequestGameLaunch(c)
    \/ PublishGameRoom(c)
    \/ \E p \in Players :
         \/ \E r \in BOOLEAN : SetGameReadiness(c, p, r)
         \/ \E e \in 1 .. epoch : MarkGameplayStarted(c, p, e) \/ ReturnToLobby(c, p, e)
         \/ ReportActivity(c, p)
         \/ PrepareRelay(c, p)

Background ==
  \/ \E i \in intents : GrantRelay(i) \/ RelayFails(i)
  \/ \E r \in removals : VoiceRemoval(r)
  \/ IdlePasses
  \/ ExpireIdleLobbies

LobbyNext == Joining \/ Going \/ Gaming \/ Background

LobbySpec == LobbyInit /\ [][LobbyNext]_lobbyVars

\* The expiration task is an interval task and the idle time is a clock reading.
LiveLobbySpec == LobbySpec /\ WF_lobbyVars(IdlePasses) /\ WF_lobbyVars(ExpireIdleLobbies)

-----------------------------------------------------------------------------
(* Properties.                                                             *)

\* A subject has one slot, a connection one slot, and connection and token of a slot were
\* given to its subject; an empty slot keeps neither.  The first slot is the host's
\* (join_or_refresh_player, reconnect_player, leave, remove_player).
OneMembership ==
  /\ subj[Host] = HostSubject
  /\ \A p \in Players :
       /\ subj[p] = None => conn[p] = None /\ tok[p] = None
       /\ conn[p] # None => owner[conn[p]] = subj[p]
       /\ tok[p] # None => owner[tok[p]] = subj[p]
       /\ \A q \in Players : p # q => /\ subj[p] # None => subj[p] # subj[q]
                                      /\ conn[p] # None => conn[p] # conn[q]

\* A launch is pending exactly while the lobby is in a game, it launches the selected game,
\* and every readiness row is about the selected game: what players agreed to is what is
\* launched (select_game, set_game_readiness, return_to_lobby, leave).
LaunchMatchesSelection ==
  /\ launch # None <=> status = "InGame"
  /\ launch # None => launch.proposal = selected
  /\ status \in {"GameSelected", "InGame"} => selected # 0
  /\ \A p \in Players : ready[p] # None => ready[p].proposal = selected

\* Readiness and start reports are those of the player who sits in the slot now: a new
\* guest never inherits them from the guest before (leave, remove_player).
ReportsBelongToOccupant ==
  /\ \A p \in Players : ready[p] # None => ready[p].subject = subj[p]
  /\ launch # None => \A r \in launch.started : subj[r[1]] = r[2]

\* The lobby a client can see does not change without a new epoch, and a step takes at most
\* one: a report of the current epoch was made about the current lobby (bump).
SeenLobby == <<status, subj, Connected, caps, selected, ready, launch>>
EpochCoversView ==
  [][/\ epoch' \in {epoch, epoch + 1}
     /\ SeenLobby' # SeenLobby => epoch' = epoch + 1]_lobbyVars

\* A closed lobby stays closed, without connections (close, the joins' early returns).
ClosedForGood ==
  [][status = "Closed" => status' = "Closed" /\ Connected' = {}]_lobbyVars

\* A return ends only a launch its sender had seen: a report that was sent before the launch
\* and comes late cannot end it (return_to_lobby).
ReturnSawItsLaunch == lastReturn # None => lastReturn.saw >= lastReturn.launchedAt

\* Grants go to the player they were asked for, from the host who asked, for the selected
\* game, although the lobby may change while the broker is asked (grant_lobby_rom_relay_transfer).
GrantsAreCurrent ==
  [][\A i \in grants' \ grants :
       /\ selected = i.proposal
       /\ conn[Host] = i.sender
       /\ conn[i.to] = i.receiver /\ subj[i.to] = i.subject]_lobbyVars

\* The voice room is closed once, when the lobby closes, and not before
\* (take_voice_room_id_for_cleanup in leave_lobby and expire_idle_lobbies).
VoiceClosedWithLobby ==
  /\ closes <= 1
  /\ closes = 1 => status = "Closed"
  /\ status = "Closed" => ~voice
  /\ ~present => status = "Closed"

\* An open lobby that nobody uses any more is removed (expire_idle_lobbies).
IdleLobbyIsRemoved ==
  (present /\ idle) ~> (~present \/ ~idle \/ status = "Closed")
=============================================================================
