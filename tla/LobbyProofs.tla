----------------------------- MODULE LobbyProofs -----------------------------
(***************************************************************************)
(* Proofs about one lobby, for any number of slots, identities and         *)
(* connections.  There is one lemma for each kind of step: a connection    *)
(* takes a slot, a slot loses its connection, a slot is emptied, the lobby *)
(* closes, the game changes, a call is made or answered.                   *)
(*                                                                         *)
(* Then the lobby with its followers: LobbyFeed only adds to the steps of  *)
(* Lobby, so LobbyInv holds there too, and FeedInv says what every client  *)
(* knows, from the events and notices that still wait for it.              *)
(***************************************************************************)
EXTENDS LobbyFeed, TLAPS

\* A connection id that was not used yet belongs to nobody.
FreshConns == \A c \in Conns : stage[c] = "new" => owner[c] = None

\* No slot of a closed lobby is connected.
ClosedEmpty == status = "Closed" => \A p \in Players : conn[p] = None

\* Launches and returns carry epochs the lobby has had.
SawLaunch == ReturnSawItsLaunch /\ (launch # None => launch.at <= epoch)

\* A relay request names the identity that the receiving connection belongs to.
IntentsOwned == \A i \in intents : owner[i.receiver] = i.subject

\* What is about the slots, about the game, and about the rest.
SlotsInv == OneMembership /\ FreshConns /\ IntentsOwned
GameInv == LaunchMatchesSelection /\ ReportsBelongToOccupant /\ SawLaunch
CloseInv == ClosedEmpty /\ VoiceClosedWithLobby

\* The inductive invariant.
LobbyInv == LobbyTypeOK /\ SlotsInv /\ GameInv /\ CloseInv

-----------------------------------------------------------------------------
(* Facts about states.                                                     *)

\* The host's slot exists and None is no value of the program.
LEMMA ConstantFacts ==
  /\ Host \in Players
  /\ \A c \in Conns : c # None
  /\ \A s \in Subjects : s # None
BY LobbyConstants DEF Host, Players, Subjects

\* The initial lobby of create_lobby satisfies the invariant.
LEMMA InitInv == LobbyInit => LobbyInv
<1> SUFFICES ASSUME LobbyInit PROVE LobbyInv
  OBVIOUS
<1>1. PICK c \in Conns, k \in ClientCaps :
        /\ subj = [p \in Players |-> IF p = Host THEN HostSubject ELSE None]
        /\ conn = [p \in Players |-> IF p = Host THEN c ELSE None]
        /\ tok = conn
        /\ caps = [p \in Players |-> IF p = Host THEN k ELSE {}]
        /\ stage = [d \in Conns |-> IF d = c THEN "http" ELSE "new"]
        /\ owner = [d \in Conns |-> IF d = c THEN HostSubject ELSE None]
  BY DEF LobbyInit
<1>2. HeaderOK /\ GameOK /\ CallsOK
  <2>1. HeaderOK
    BY LobbyConstants, Zenon DEF LobbyInit, HeaderOK
  <2>2. GameOK /\ CallsOK
    BY DEF LobbyInit, GameOK, CallsOK
  <2> QED
    BY <2>1, <2>2
<1>3. SlotsOK
  BY <1>1, LobbyConstants DEF SlotsOK, Subjects
<1>4. SlotsInv
  <2>1. /\ subj[Host] = HostSubject /\ conn[Host] = c /\ tok[Host] = c /\ owner[c] = HostSubject
        /\ \A p \in Players \ {Host} : subj[p] = None /\ conn[p] = None /\ tok[p] = None
    BY <1>1, ConstantFacts
  <2>2. OneMembership
    BY <2>1, LobbyConstants DEF OneMembership
  <2>3. FreshConns /\ IntentsOwned
    BY <1>1 DEF LobbyInit, FreshConns, IntentsOwned
  <2> QED
    BY <2>2, <2>3 DEF SlotsInv
<1>5. GameInv /\ CloseInv
  BY DEF LobbyInit, GameInv, CloseInv, LaunchMatchesSelection, ReportsBelongToOccupant, SawLaunch,
         ReturnSawItsLaunch, ClosedEmpty, VoiceClosedWithLobby
<1> QED
  BY <1>2, <1>3, <1>4, <1>5 DEF LobbyInv, LobbyTypeOK

\* A connection that speaks for a slot shows that the lobby is open and the slot taken.
LEMMA SpeakerFacts ==
  ASSUME LobbyInv, NEW c \in Conns, NEW p \in Players, Speaks(c, p)
  PROVE  status # "Closed" /\ subj[p] \in Subjects
BY ConstantFacts DEF LobbyInv, LobbyTypeOK, SlotsOK, SlotsInv, OneMembership, CloseInv, ClosedEmpty, Speaks

\* Most steps change only the status, the epoch and the idle clock of the header.
LEMMA HeaderStep ==
  ASSUME HeaderOK, UNCHANGED <<present, voice>>, epoch' \in {epoch, epoch + 1}, idle' \in {idle, FALSE},
         status' \in {"Open", "GameSelected", "InGame", "Closed"}
  PROVE  HeaderOK'
<1>1. epoch' \in Nat
  BY DEF HeaderOK
<1>2. idle' \in BOOLEAN
  BY Zenon DEF HeaderOK
<1>3. present' \in BOOLEAN
  BY DEF HeaderOK
<1>4. voice' \in BOOLEAN
  BY DEF HeaderOK
<1> QED
  BY <1>1, <1>2, <1>3, <1>4 DEF HeaderOK

-----------------------------------------------------------------------------
(* Steps that change the slots.                                            *)

\* What the two joins and the reconnect have in common: connection c of subject s takes
\* slot p, which is its own or, if it has none, an empty one.
Takes(c, s, p, t, k) ==
  /\ Joinable /\ stage[c] = "new"
  /\ subj[p] = s \/ (subj[p] = None /\ \A q \in Players : subj[q] # s)
  /\ t = c \/ owner[t] = s
  /\ Occupy(p, s, c, t, k)
  /\ owner' = [owner EXCEPT ![c] = s]
  /\ stage' \in {[stage EXCEPT ![c] = "open"], [stage EXCEPT ![c] = "http"]}
  /\ BumpWithActivity
  /\ UNCHANGED <<present, status, voice, game, calls>>

\* Taking a slot keeps the invariant.
LEMMA TakesStep ==
  ASSUME LobbyInv, NEW c \in Conns, NEW s \in Subjects, NEW p \in Players, NEW t \in Conns,
         NEW k \in ClientCaps, Takes(c, s, p, t, k)
  PROVE  LobbyInv'
<1>1. HeaderOK' /\ GameOK' /\ CallsOK'
  <2>1. HeaderOK'
    <3>1. UNCHANGED <<present, status, voice>> /\ epoch' = epoch + 1 /\ idle' = FALSE
      BY DEF Takes, BumpWithActivity
    <3>2. status' \in {"Open", "GameSelected", "InGame", "Closed"}
      BY <3>1 DEF LobbyInv, LobbyTypeOK, HeaderOK
    <3> QED
      BY <3>1, <3>2, HeaderStep, Zenon DEF LobbyInv, LobbyTypeOK
  <2>2. GameOK' /\ CallsOK'
    BY DEF LobbyInv, LobbyTypeOK, GameOK, CallsOK, Takes, game, calls
  <2> QED
    BY <2>1, <2>2
<1>2. SlotsOK'
  BY LobbyConstants DEF LobbyInv, LobbyTypeOK, SlotsOK, Takes, Occupy
<1>3. OneMembership'
  <2>1. owner[c] = None /\ \A q \in Players : conn[q] # c /\ tok[q] # c
    BY ConstantFacts DEF LobbyInv, LobbyTypeOK, SlotsOK, SlotsInv, OneMembership, FreshConns, Takes
  <2>2. /\ subj'[p] = s /\ conn'[p] = c /\ tok'[p] = t
        /\ \A q \in Players \ {p} : subj'[q] = subj[q] /\ conn'[q] = conn[q] /\ tok'[q] = tok[q]
    BY DEF LobbyInv, LobbyTypeOK, SlotsOK, Takes, Occupy
  <2>3. owner'[c] = s /\ \A d \in Conns \ {c} : owner'[d] = owner[d]
    BY DEF LobbyInv, LobbyTypeOK, SlotsOK, Takes
  <2>4. subj'[Host] = HostSubject
    BY <2>2, ConstantFacts DEF LobbyInv, SlotsInv, OneMembership, Takes, Subjects
  <2>5. ASSUME NEW q \in Players
        PROVE  /\ subj'[q] = None => conn'[q] = None /\ tok'[q] = None
               /\ conn'[q] # None => owner'[conn'[q]] = subj'[q]
               /\ tok'[q] # None => owner'[tok'[q]] = subj'[q]
    BY <2>1, <2>2, <2>3, ConstantFacts
       DEF LobbyInv, LobbyTypeOK, SlotsOK, SlotsInv, OneMembership, Takes
  <2>6. ASSUME NEW q \in Players, NEW r \in Players, q # r
        PROVE  /\ subj'[q] # None => subj'[q] # subj'[r]
               /\ conn'[q] # None => conn'[q] # conn'[r]
    <3>1. subj[q] # None => subj[q] # subj[r]
      BY <2>6 DEF LobbyInv, SlotsInv, OneMembership
    <3>2. conn[q] # None => conn[q] # conn[r]
      BY <2>6 DEF LobbyInv, SlotsInv, OneMembership
    <3>3. subj[p] = s \/ \A x \in Players : subj[x] # s
      BY DEF Takes
    <3>4. CASE q = p
      BY <2>1, <2>2, <2>6, <3>1, <3>3, <3>4, ConstantFacts
    <3>5. CASE r = p
      BY <2>1, <2>2, <2>6, <3>1, <3>3, <3>5, ConstantFacts
    <3>6. CASE q # p /\ r # p
      BY <2>2, <3>1, <3>2, <3>6
    <3> QED
      BY <3>4, <3>5, <3>6
  <2> QED
    BY <2>4, <2>5, <2>6 DEF OneMembership
<1>4. FreshConns'
  BY DEF LobbyInv, LobbyTypeOK, SlotsOK, SlotsInv, FreshConns, Takes
<1>5. IntentsOwned'
  BY ConstantFacts DEF LobbyInv, LobbyTypeOK, SlotsOK, CallsOK, Intents, SlotsInv, IntentsOwned, FreshConns,
     Takes, calls
<1>6. GameInv'
  <2>1. LaunchMatchesSelection' /\ SawLaunch'
    BY DEF LobbyInv, LobbyTypeOK, HeaderOK, GameOK, Launches, GameInv, LaunchMatchesSelection, SawLaunch,
           ReturnSawItsLaunch, Takes, BumpWithActivity, game
  <2>2. ReportsBelongToOccupant'
    BY ConstantFacts DEF LobbyInv, LobbyTypeOK, SlotsOK, GameOK, Launches, Readiness, GameInv,
       ReportsBelongToOccupant, Takes, Occupy, game
  <2> QED
    BY <2>1, <2>2 DEF GameInv
<1>7. CloseInv'
  BY DEF LobbyInv, CloseInv, ClosedEmpty, VoiceClosedWithLobby, Takes, Joinable, calls
<1> QED
  BY <1>1, <1>2, <1>3, <1>4, <1>5, <1>6, <1>7 DEF LobbyInv, LobbyTypeOK, SlotsInv

\* connect_lobby, join_lobby and reconnect_lobby_player keep the invariant.
LEMMA JoiningStep == ASSUME LobbyInv, Joining PROVE LobbyInv'
<1>1. PICK c \in Conns, s \in Subjects, k \in ClientCaps :
        \/ ConnectLobby(c, s, k)
        \/ JoinLobby(c, s, k)
        \/ \E p \in Players, t \in Conns : ReconnectLobbyPlayer(c, s, p, t, k)
  BY DEF Joining
<1>2. CASE ConnectLobby(c, s, k) \/ JoinLobby(c, s, k)
  <2>1. PICK p \in Players : Takes(c, s, p, c, k)
    BY <1>2 DEF ConnectLobby, JoinLobby, JoinOrRefresh, SlotsFor, Takes
  <2> QED
    BY <2>1, TakesStep
<1>3. CASE \E p \in Players, t \in Conns : ReconnectLobbyPlayer(c, s, p, t, k)
  <2>1. PICK p \in Players, t \in Conns : Takes(c, s, p, t, k)
    BY <1>3 DEF ReconnectLobbyPlayer, Takes
  <2> QED
    BY <2>1, TakesStep
<1> QED
  BY <1>1, <1>2, <1>3

\* A socket that ends, the last of its slot or one that was replaced, keeps the invariant.
LEMMA DisconnectStep == ASSUME LobbyInv, NEW c \in Conns, Disconnect(c) PROVE LobbyInv'
<1>1. /\ conn' \in [Players -> Conns \cup {None}] /\ \A p \in Players : conn'[p] \in {conn[p], None}
      /\ epoch' \in {epoch, epoch + 1}
  BY DEF LobbyInv, LobbyTypeOK, SlotsOK, HeaderOK, Disconnect, Bump
<1>2. stage' = [stage EXCEPT ![c] = "gone"]
  BY DEF Disconnect
<1>3. UNCHANGED <<present, status, idle, voice, subj, tok, caps, game, owner, calls>>
  BY DEF Disconnect, Bump
<1>4. HeaderOK'
  <2>1. status' \in {"Open", "GameSelected", "InGame", "Closed"}
    BY <1>3 DEF LobbyInv, LobbyTypeOK, HeaderOK
  <2> QED
    BY <1>1, <1>3, <2>1, HeaderStep DEF LobbyInv, LobbyTypeOK
<1>5. SlotsOK' /\ GameOK' /\ CallsOK'
  BY <1>1, <1>2, <1>3 DEF LobbyInv, LobbyTypeOK, SlotsOK, GameOK, CallsOK, game, calls
<1>6. SlotsInv'
  BY <1>1, <1>2, <1>3, SMTT(30)
     DEF LobbyInv, LobbyTypeOK, SlotsOK, SlotsInv, OneMembership, FreshConns, IntentsOwned, calls
<1>7. GameInv'
  BY <1>1, <1>3 DEF LobbyInv, LobbyTypeOK, HeaderOK, GameOK, Launches, GameInv, LaunchMatchesSelection,
     ReportsBelongToOccupant, SawLaunch, ReturnSawItsLaunch, game
<1>8. CloseInv'
  BY <1>1, <1>3 DEF LobbyInv, CloseInv, ClosedEmpty, VoiceClosedWithLobby, calls
<1> QED
  BY <1>4, <1>5, <1>6, <1>7, <1>8 DEF LobbyInv, LobbyTypeOK

\* Closing an open lobby, removing it from the registry or not, keeps the invariant.
LEMMA CloseStep ==
  ASSUME LobbyInv, status # "Closed", Close, present' \in BOOLEAN,
         UNCHANGED <<sockets, intents, grants, removals>>
  PROVE  LobbyInv'
<1>1. closes = 0
  BY DEF LobbyInv, LobbyTypeOK, CallsOK, CloseInv, VoiceClosedWithLobby
<1>2. closes' \in {0, 1} /\ voice' = FALSE /\ status' = "Closed"
  BY <1>1 DEF Close
<1>3. HeaderOK'
  <2>1. epoch' \in Nat
    BY DEF LobbyInv, LobbyTypeOK, HeaderOK, Close, Bump
  <2>2. idle' \in BOOLEAN
    BY DEF LobbyInv, LobbyTypeOK, HeaderOK, Close, Bump
  <2> QED
    BY <1>2, <2>1, <2>2, Zenon DEF HeaderOK
<1>4. SlotsOK'
  BY DEF LobbyInv, LobbyTypeOK, SlotsOK, Close, sockets
<1>5. GameOK' /\ CallsOK'
  BY <1>2 DEF LobbyInv, LobbyTypeOK, GameOK, CallsOK, Close
<1>6. SlotsInv'
  BY DEF LobbyInv, SlotsInv, OneMembership, FreshConns, IntentsOwned, Close, sockets
<1>7. GameInv'
  BY <1>2 DEF LobbyInv, GameInv, LaunchMatchesSelection, ReportsBelongToOccupant, SawLaunch,
     ReturnSawItsLaunch, Close
<1>8. CloseInv'
  BY <1>2 DEF CloseInv, ClosedEmpty, VoiceClosedWithLobby, Close
<1> QED
  BY <1>3, <1>4, <1>5, <1>6, <1>7, <1>8 DEF LobbyInv, LobbyTypeOK

\* What a guest's leave and a removal have in common.
Vacates(p) ==
  /\ p # Host /\ status # "Closed"
  /\ VacateSlot(p) /\ DropReadiness(p)
  /\ launch' = None
  /\ status' = SetupStatus
  /\ BumpWithActivity
  /\ removals' \subseteq Players \X Subjects
  /\ UNCHANGED <<present, voice, selected, lastReturn, sockets, intents, grants, closes>>

\* Emptying a guest's slot keeps the invariant.
LEMMA VacatesStep == ASSUME LobbyInv, NEW p \in Players, Vacates(p) PROVE LobbyInv'
<1>1. HeaderOK'
  BY HeaderStep, Zenon DEF LobbyInv, LobbyTypeOK, Vacates, BumpWithActivity, SetupStatus
<1>2. SlotsOK'
  BY DEF LobbyInv, LobbyTypeOK, SlotsOK, Vacates, VacateSlot, sockets
<1>3. GameOK' /\ CallsOK'
  BY DEF LobbyInv, LobbyTypeOK, GameOK, CallsOK, Vacates, DropReadiness
<1>4. SlotsInv'
  <2>1. OneMembership'
    BY ConstantFacts DEF LobbyInv, LobbyTypeOK, SlotsOK, SlotsInv, OneMembership, Vacates, VacateSlot, sockets
  <2>2. FreshConns' /\ IntentsOwned'
    BY DEF LobbyInv, SlotsInv, FreshConns, IntentsOwned, Vacates, sockets
  <2> QED
    BY <2>1, <2>2 DEF SlotsInv
<1>5. GameInv'
  <2>1. \A q \in Players : ready'[q] # None => q # p /\ ready'[q] = ready[q] /\ subj'[q] = subj[q]
    BY DEF LobbyInv, LobbyTypeOK, SlotsOK, GameOK, Vacates, VacateSlot, DropReadiness
  <2> QED
    BY <2>1, Zenon DEF LobbyInv, GameInv, LaunchMatchesSelection, ReportsBelongToOccupant, SawLaunch,
                ReturnSawItsLaunch, Vacates, SetupStatus
<1>6. CloseInv'
  BY Zenon DEF LobbyInv, CloseInv, ClosedEmpty, VoiceClosedWithLobby, Vacates, SetupStatus
<1> QED
  BY <1>1, <1>2, <1>3, <1>4, <1>5, <1>6 DEF LobbyInv, LobbyTypeOK

\* disconnect_lobby, leave_lobby and remove_lobby_player keep the invariant.
LEMMA GoingStep == ASSUME LobbyInv, Going PROVE LobbyInv'
<1>1. PICK c \in Conns :
        \/ Disconnect(c)
        \/ HostLeaves(c)
        \/ \E p \in Players : GuestLeaves(c, p) \/ \E e \in 1 .. epoch : RemovePlayer(c, e, p)
  BY DEF Going
<1>2. CASE Disconnect(c)
  BY <1>2, DisconnectStep
<1>3. CASE HostLeaves(c)
  <2>1. status # "Closed"
    BY <1>3, SpeakerFacts, ConstantFacts DEF HostLeaves
  <2>2. present' \in BOOLEAN
    BY <1>3 DEF HostLeaves, LobbyInv, LobbyTypeOK, HeaderOK
  <2> QED
    BY <1>3, <2>1, <2>2, CloseStep DEF HostLeaves
<1>4. ASSUME NEW p \in Players, GuestLeaves(c, p) PROVE LobbyInv'
  <2>1. status # "Closed"
    BY <1>4, SpeakerFacts DEF GuestLeaves
  <2>2. Vacates(p)
    BY <1>4, <2>1 DEF GuestLeaves, Vacates, LobbyInv, LobbyTypeOK, CallsOK, calls
  <2> QED
    BY <2>2, VacatesStep
<1>5. ASSUME NEW p \in Players, NEW e \in 1 .. epoch, RemovePlayer(c, e, p) PROVE LobbyInv'
  <2>1. removals' \subseteq Players \X Subjects
    BY <1>5 DEF RemovePlayer, LobbyInv, LobbyTypeOK, SlotsOK, CallsOK
  <2>2. Vacates(p)
    BY <1>5, <2>1 DEF RemovePlayer, Vacates
  <2> QED
    BY <2>2, VacatesStep
<1> QED
  BY <1>1, <1>2, <1>3, <1>4, <1>5

-----------------------------------------------------------------------------
(* Steps that change the game.                                             *)

\* The six operations on the game change the game, the status and the epoch only.
GameFrame ==
  /\ status' \in {"Open", "GameSelected", "InGame"}
  /\ BumpWithActivity
  /\ UNCHANGED <<present, voice, slots, sockets, calls>>

\* So it is enough to look at the game.
LEMMA GameStep ==
  ASSUME LobbyInv, status # "Closed", GameFrame, GameOK', GameInv'
  PROVE  LobbyInv'
<1>1. HeaderOK'
  BY HeaderStep, Zenon DEF LobbyInv, LobbyTypeOK, GameFrame, BumpWithActivity
<1>2. SlotsOK' /\ CallsOK'
  BY DEF LobbyInv, LobbyTypeOK, SlotsOK, CallsOK, GameFrame, slots, sockets, calls
<1>3. SlotsInv'
  BY DEF LobbyInv, SlotsInv, OneMembership, FreshConns, IntentsOwned, GameFrame, slots, sockets, calls
<1>4. CloseInv'
  BY DEF LobbyInv, CloseInv, ClosedEmpty, VoiceClosedWithLobby, GameFrame, calls
<1> QED
  BY <1>1, <1>2, <1>3, <1>4 DEF LobbyInv, LobbyTypeOK

\* The host proposes a game.
LEMMA SelectGameStep == ASSUME LobbyInv, NEW c \in Conns, SelectGame(c) PROVE LobbyInv'
<1>1. status # "Closed" /\ GameFrame
  BY SpeakerFacts, ConstantFacts DEF SelectGame, GameFrame
<1>2. GameOK'
  BY DEF LobbyInv, LobbyTypeOK, GameOK, SelectGame, ClearForProposal
<1>3. GameInv'
  BY SMTT(30) DEF LobbyInv, LobbyTypeOK, GameOK, GameInv, LaunchMatchesSelection, ReportsBelongToOccupant,
         SawLaunch, ReturnSawItsLaunch, SelectGame, ClearForProposal
<1> QED
  BY <1>1, <1>2, <1>3, GameStep

\* A player reports readiness for the proposed game.
LEMMA SetGameReadinessStep ==
  ASSUME LobbyInv, NEW c \in Conns, NEW p \in Players, NEW r \in BOOLEAN, SetGameReadiness(c, p, r)
  PROVE  LobbyInv'
<1>1. status # "Closed" /\ subj[p] \in Subjects /\ GameFrame
  BY SpeakerFacts DEF SetGameReadiness, GameFrame
<1> DEFINE row == [proposal |-> selected, subject |-> subj[p], ready |-> r]
<1>2. row \in Readiness /\ row.proposal = selected /\ row.subject = subj[p]
  BY <1>1 DEF LobbyInv, LobbyTypeOK, GameOK, Readiness
<1>3. ready' = [ready EXCEPT ![p] = row] /\ launch' = None /\ status' = "GameSelected" /\ selected # 0
  BY DEF SetGameReadiness
<1>4. UNCHANGED <<subj, selected, lastReturn>>
  BY DEF SetGameReadiness, slots
<1> HIDE DEF row
<1>5. GameOK'
  BY <1>2, <1>3, <1>4 DEF LobbyInv, LobbyTypeOK, GameOK
<1>6. GameInv'
  BY <1>2, <1>3, <1>4 DEF LobbyInv, LobbyTypeOK, GameOK, GameInv, LaunchMatchesSelection,
     ReportsBelongToOccupant, SawLaunch, ReturnSawItsLaunch
<1> QED
  BY <1>1, <1>5, <1>6, GameStep

\* The host asks for a launch.
LEMMA RequestGameLaunchStep == ASSUME LobbyInv, NEW c \in Conns, RequestGameLaunch(c) PROVE LobbyInv'
<1>1. status # "Closed" /\ GameFrame
  BY SpeakerFacts, ConstantFacts DEF RequestGameLaunch, GameFrame
<1>2. /\ launch' \in Launches /\ launch' # None
      /\ launch'.proposal = selected /\ launch'.at = epoch + 1 /\ launch'.started = {}
  BY NoneIsNoRow DEF LobbyInv, LobbyTypeOK, HeaderOK, GameOK, Launches, RequestGameLaunch
<1>3. UNCHANGED <<subj, selected, ready>> /\ lastReturn' = None /\ status' = "InGame" /\ selected # 0
  BY DEF RequestGameLaunch, slots
<1>4. epoch' = epoch + 1 /\ epoch \in Nat
  BY DEF RequestGameLaunch, BumpWithActivity, LobbyInv, LobbyTypeOK, HeaderOK
<1>5. GameOK'
  BY <1>2, <1>3 DEF LobbyInv, LobbyTypeOK, GameOK
<1>6. GameInv'
  BY <1>2, <1>3, <1>4 DEF LobbyInv, GameInv, LaunchMatchesSelection, ReportsBelongToOccupant, SawLaunch,
     ReturnSawItsLaunch
<1> QED
  BY <1>1, <1>5, <1>6, GameStep

\* What publish_game_room and mark_gameplay_started have in common: the same launch goes on.
LEMMA LaunchGoesOn ==
  ASSUME LobbyInv, status # "Closed", GameFrame, launch # None, launch' \in Launches,
         launch'.proposal = launch.proposal, launch'.at = launch.at,
         \A r \in launch'.started : subj[r[1]] = r[2],
         status' = "InGame", UNCHANGED <<subj, selected, ready, lastReturn>>
  PROVE  LobbyInv'
<1>1. launch' # None /\ status = "InGame" /\ launch.proposal = selected /\ selected # 0
  BY NoneIsNoRow DEF LobbyInv, GameInv, LaunchMatchesSelection
<1>2. launch'.at <= epoch'
  BY DEF LobbyInv, LobbyTypeOK, HeaderOK, GameOK, Launches, GameInv, SawLaunch, GameFrame, BumpWithActivity
<1>3. GameOK'
  BY DEF LobbyInv, LobbyTypeOK, GameOK
<1>4. GameInv'
  BY <1>1, <1>2 DEF LobbyInv, GameInv, LaunchMatchesSelection, ReportsBelongToOccupant, SawLaunch,
     ReturnSawItsLaunch
<1> QED
  BY <1>3, <1>4, GameStep

\* The host publishes the game room.
LEMMA PublishGameRoomStep == ASSUME LobbyInv, NEW c \in Conns, PublishGameRoom(c) PROVE LobbyInv'
<1>1. status # "Closed" /\ GameFrame
  BY SpeakerFacts, ConstantFacts DEF PublishGameRoom, GameFrame
<1>2. launch # None /\ launch \in Launches
  BY DEF PublishGameRoom, LobbyInv, LobbyTypeOK, GameOK
<1>3. /\ launch' \in Launches
      /\ launch'.proposal = launch.proposal /\ launch'.at = launch.at /\ launch'.started = launch.started
  BY <1>2 DEF PublishGameRoom, Launches
<1>4. \A r \in launch.started : subj[r[1]] = r[2]
  BY <1>2 DEF LobbyInv, GameInv, ReportsBelongToOccupant
<1>5. status' = "InGame" /\ UNCHANGED <<subj, selected, ready, lastReturn>>
  BY DEF PublishGameRoom, slots
<1> QED
  BY <1>1, <1>2, <1>3, <1>4, <1>5, LaunchGoesOn

\* A player reports that its gameplay started.
LEMMA MarkGameplayStartedStep ==
  ASSUME LobbyInv, NEW c \in Conns, NEW p \in Players, NEW e \in 1 .. epoch, MarkGameplayStarted(c, p, e)
  PROVE  LobbyInv'
<1>1. status # "Closed" /\ subj[p] \in Subjects /\ GameFrame
  BY SpeakerFacts DEF MarkGameplayStarted, GameFrame
<1>2. launch # None /\ launch \in Launches
  BY DEF MarkGameplayStarted, LobbyInv, LobbyTypeOK, GameOK
<1> DEFINE reports == launch.started \cup {<<p, subj[p]>>}
<1>3. reports \in SUBSET (Players \X Subjects)
  BY <1>1, <1>2 DEF Launches
<1>4. PICK st \in {"Playing", "Ready"} : launch' = [launch EXCEPT !.started = reports, !.status = st]
  BY Zenon DEF MarkGameplayStarted
<1> HIDE DEF reports
<1>5. /\ launch' \in Launches
      /\ launch'.proposal = launch.proposal /\ launch'.at = launch.at /\ launch'.started = reports
  BY <1>2, <1>3, <1>4, Zenon DEF Launches
<1>6. \A r \in reports : subj[r[1]] = r[2]
  BY <1>2 DEF LobbyInv, GameInv, ReportsBelongToOccupant, reports
<1>7. status' = "InGame" /\ UNCHANGED <<subj, selected, ready, lastReturn>>
  BY DEF MarkGameplayStarted, slots
<1> QED
  BY <1>1, <1>2, <1>5, <1>6, <1>7, LaunchGoesOn

\* A player reports the return to the lobby.
LEMMA ReturnToLobbyStep ==
  ASSUME LobbyInv, NEW c \in Conns, NEW p \in Players, NEW e \in 1 .. epoch, ReturnToLobby(c, p, e)
  PROVE  LobbyInv'
<1>1. status # "Closed" /\ GameFrame
  BY SpeakerFacts DEF ReturnToLobby, GameFrame, SetupStatus
<1>2. launch \in Launches /\ e = epoch /\ launch.at <= epoch
  BY DEF ReturnToLobby, ReturnApplies, LobbyInv, LobbyTypeOK, GameOK, GameInv, SawLaunch
<1>3. lastReturn' \in Returns /\ lastReturn'.saw >= lastReturn'.launchedAt
  BY <1>2 DEF ReturnToLobby, Returns, Launches
<1>4. GameOK'
  BY <1>3 DEF LobbyInv, LobbyTypeOK, GameOK, ReturnToLobby
<1>5. GameInv'
  BY <1>3, Zenon DEF LobbyInv, LobbyTypeOK, GameOK, GameInv, LaunchMatchesSelection, ReportsBelongToOccupant,
         SawLaunch, ReturnSawItsLaunch, ReturnToLobby, SetupStatus
<1> QED
  BY <1>1, <1>4, <1>5, GameStep

-----------------------------------------------------------------------------
(* Steps that change only the idle clock and the calls of the brokers.     *)

CallFrame ==
  /\ idle' \in BOOLEAN
  /\ UNCHANGED <<present, status, epoch, voice, slots, game, sockets, closes>>

\* It is enough to look at the calls.
LEMMA CallStep ==
  ASSUME LobbyInv, CallFrame, intents' \subseteq Intents, grants' \subseteq Intents,
         removals' \subseteq Players \X Subjects, IntentsOwned'
  PROVE  LobbyInv'
<1>1. HeaderOK'
  <2>1. present' \in BOOLEAN /\ voice' \in BOOLEAN
    BY DEF LobbyInv, LobbyTypeOK, HeaderOK, CallFrame
  <2>2. epoch' \in Nat /\ status' \in {"Open", "GameSelected", "InGame", "Closed"}
    BY DEF LobbyInv, LobbyTypeOK, HeaderOK, CallFrame
  <2> QED
    BY <2>1, <2>2 DEF HeaderOK, CallFrame
<1>2. SlotsOK' /\ GameOK' /\ CallsOK'
  BY DEF LobbyInv, LobbyTypeOK, SlotsOK, GameOK, CallsOK, CallFrame, slots, game, sockets
<1>3. SlotsInv'
  BY Zenon DEF LobbyInv, SlotsInv, OneMembership, FreshConns, CallFrame, slots, sockets
<1>4. GameInv'
  BY Zenon DEF LobbyInv, GameInv, LaunchMatchesSelection, ReportsBelongToOccupant, SawLaunch,
         ReturnSawItsLaunch, CallFrame, slots, game
<1>5. CloseInv'
  BY DEF LobbyInv, CloseInv, ClosedEmpty, VoiceClosedWithLobby, CallFrame, slots
<1> QED
  BY <1>1, <1>2, <1>3, <1>4, <1>5 DEF LobbyInv, LobbyTypeOK

\* Activity and the passing of the idle timeout keep the invariant.
LEMMA IdleStep == ASSUME LobbyInv, CallFrame, UNCHANGED calls PROVE LobbyInv'
BY CallStep, Zenon DEF LobbyInv, LobbyTypeOK, CallsOK, SlotsInv, IntentsOwned, CallFrame, calls, sockets

\* A relay request names the connected player's own connection.
LEMMA PrepareRelayStep ==
  ASSUME LobbyInv, NEW c \in Conns, NEW p \in Players, PrepareRelay(c, p) PROVE LobbyInv'
<1> DEFINE i == [sender |-> c, to |-> p, receiver |-> conn[p], subject |-> subj[p], proposal |-> selected]
<1>1. i \in Intents /\ owner[i.receiver] = i.subject
  BY DEF PrepareRelay, LobbyInv, LobbyTypeOK, SlotsOK, GameOK, SlotsInv, OneMembership, Intents
<1>2. intents' = intents \cup {i} /\ UNCHANGED <<grants, removals>> /\ CallFrame
  BY Zenon DEF PrepareRelay, CallFrame
<1> HIDE DEF i
<1> QED
  BY <1>1, <1>2, CallStep DEF LobbyInv, LobbyTypeOK, CallsOK, SlotsInv, IntentsOwned, CallFrame, sockets

\* Answers of the brokers keep the invariant.
LEMMA AnswerStep ==
  ASSUME LobbyInv, UNCHANGED <<header, slots, game, sockets, closes>>, intents' \subseteq intents,
         grants' \subseteq grants \cup intents, removals' \subseteq removals
  PROVE  LobbyInv'
<1>1. CallFrame
  <2>1. idle' \in BOOLEAN
    BY DEF LobbyInv, LobbyTypeOK, HeaderOK, header
  <2> QED
    BY <2>1 DEF CallFrame, header
<1>2. IntentsOwned'
  BY DEF LobbyInv, SlotsInv, IntentsOwned, sockets
<1> QED
  BY <1>1, <1>2, CallStep DEF LobbyInv, LobbyTypeOK, CallsOK

-----------------------------------------------------------------------------
(* The next-state relation.                                                *)

\* The operations on the game and the relay requests keep the invariant.
LEMMA GamingStep == ASSUME LobbyInv, Gaming PROVE LobbyInv'
<1>1. PICK c \in Conns :
        \/ SelectGame(c) \/ RequestGameLaunch(c) \/ PublishGameRoom(c)
        \/ \E p \in Players :
             \/ \E r \in BOOLEAN : SetGameReadiness(c, p, r)
             \/ \E e \in 1 .. epoch : MarkGameplayStarted(c, p, e) \/ ReturnToLobby(c, p, e)
             \/ ReportActivity(c, p)
             \/ PrepareRelay(c, p)
  BY DEF Gaming
<1>2. CASE SelectGame(c) \/ RequestGameLaunch(c) \/ PublishGameRoom(c)
  BY <1>2, SelectGameStep, RequestGameLaunchStep, PublishGameRoomStep
<1>3. ASSUME NEW p \in Players, ReportActivity(c, p) PROVE LobbyInv'
  BY <1>3, IdleStep, Zenon DEF ReportActivity, CallFrame, calls
<1> QED
  BY <1>1, <1>2, <1>3, SetGameReadinessStep, MarkGameplayStartedStep, ReturnToLobbyStep, PrepareRelayStep

\* Answers of the brokers, the idle timeout and the expiry keep the invariant.
LEMMA BackgroundStep == ASSUME LobbyInv, Background PROVE LobbyInv'
<1>1. CASE \E i \in intents : GrantRelay(i) \/ RelayFails(i)
  BY <1>1, AnswerStep DEF GrantRelay, RelayFails
<1>2. CASE \E r \in removals : VoiceRemoval(r)
  BY <1>2, AnswerStep DEF VoiceRemoval
<1>3. CASE IdlePasses
  BY <1>3, IdleStep DEF IdlePasses, CallFrame, calls
<1>4. CASE ExpireIdleLobbies
  BY <1>4, CloseStep, Zenon DEF ExpireIdleLobbies, Idle
<1> QED
  BY <1>1, <1>2, <1>3, <1>4 DEF Background

\* The invariant is inductive.
THEOREM LobbyInvariance == LobbySpec => []LobbyInv
<1>1. LobbyInv /\ [LobbyNext]_lobbyVars => LobbyInv'
  <2>1. ASSUME LobbyInv, LobbyNext PROVE LobbyInv'
    BY <2>1, JoiningStep, GoingStep, GamingStep, BackgroundStep DEF LobbyNext
  <2>2. ASSUME LobbyInv, UNCHANGED lobbyVars PROVE LobbyInv'
    BY <2>2, AnswerStep DEF lobbyVars, calls
  <2> QED
    BY <2>1, <2>2
<1> QED
  BY <1>1, InitInv, PTL DEF LobbySpec

\* A subject and a connection have one slot each, and a slot's connection and token were
\* given to its subject, whatever joins, refreshes, reconnects and removals happen.
THEOREM MembershipIsUnique == LobbySpec => []OneMembership
<1>1. LobbyInv => OneMembership
  BY DEF LobbyInv, SlotsInv
<1> QED
  BY <1>1, LobbyInvariance, PTL

\* What is launched is the selected game, and readiness is about it.
THEOREM LaunchIsOfSelection == LobbySpec => []LaunchMatchesSelection
<1>1. LobbyInv => LaunchMatchesSelection
  BY DEF LobbyInv, GameInv
<1> QED
  BY <1>1, LobbyInvariance, PTL

\* Nobody inherits the readiness or the start report of an earlier occupant of the slot.
THEOREM NoInheritedReports == LobbySpec => []ReportsBelongToOccupant
<1>1. LobbyInv => ReportsBelongToOccupant
  BY DEF LobbyInv, GameInv
<1> QED
  BY <1>1, LobbyInvariance, PTL

\* A report sent before a launch never ends it.
THEOREM LateReturnIsRefused == LobbySpec => []ReturnSawItsLaunch
<1>1. LobbyInv => ReturnSawItsLaunch
  BY DEF LobbyInv, GameInv, SawLaunch
<1> QED
  BY <1>1, LobbyInvariance, PTL

\* The voice room is closed once, with the lobby.
THEOREM VoiceRoomClosedOnce == LobbySpec => []VoiceClosedWithLobby
<1>1. LobbyInv => VoiceClosedWithLobby
  BY DEF LobbyInv, CloseInv
<1> QED
  BY <1>1, LobbyInvariance, PTL

-----------------------------------------------------------------------------
(* Action properties.                                                      *)

\* Every way into a lobby needs an open one, counts as activity and leaves the calls alone.
LEMMA JoiningFrame ==
  ASSUME Joining
  PROVE  Joinable /\ BumpWithActivity /\ UNCHANGED <<present, status, voice, game, calls>>
<1>1. PICK c \in Conns, s \in Subjects, k \in ClientCaps :
        \/ JoinOrRefresh(c, s, k)
        \/ \E p \in Players, t \in Conns : ReconnectLobbyPlayer(c, s, p, t, k)
  BY Zenon DEF Joining, ConnectLobby, JoinLobby
<1>2. CASE JoinOrRefresh(c, s, k)
  BY <1>2, Zenon DEF JoinOrRefresh
<1>3. ASSUME NEW p \in Players, NEW t \in Conns, ReconnectLobbyPlayer(c, s, p, t, k)
      PROVE  Joinable /\ BumpWithActivity /\ UNCHANGED <<present, status, voice, game, calls>>
  BY <1>3, Zenon DEF ReconnectLobbyPlayer
<1> QED
  BY <1>1, <1>2, <1>3, Zenon

\* Every step of the lobby takes at most one epoch, and one that takes none changes nothing
\* that a client sees.
LEMMA EpochStep ==
  ASSUME [LobbyNext]_lobbyVars
  PROVE  epoch' = epoch + 1 \/ (epoch' = epoch /\ SeenLobby' = SeenLobby)
<1> DEFINE Covered == epoch' = epoch + 1 \/ (epoch' = epoch /\ SeenLobby' = SeenLobby)
<1>1. ASSUME Joining PROVE Covered
  BY <1>1, JoiningFrame, Zenon DEF BumpWithActivity
<1>2. ASSUME Going PROVE Covered
  BY <1>2 DEF Going, Disconnect, HostLeaves, Close, GuestLeaves, RemovePlayer, Bump, BumpWithActivity,
     SeenLobby, Connected, game
<1>3. ASSUME Gaming PROVE Covered
  <2>1. ASSUME NEW c \in Conns, SelectGame(c) \/ RequestGameLaunch(c) \/ PublishGameRoom(c) PROVE Covered
    BY <2>1, Zenon DEF SelectGame, RequestGameLaunch, PublishGameRoom, BumpWithActivity
  <2>2. ASSUME NEW c \in Conns, NEW p \in Players, NEW rd \in BOOLEAN, SetGameReadiness(c, p, rd)
        PROVE  Covered
    BY <2>2, Zenon DEF SetGameReadiness, BumpWithActivity
  <2>3. ASSUME NEW c \in Conns, NEW p \in Players, NEW e \in 1 .. epoch,
               MarkGameplayStarted(c, p, e) \/ ReturnToLobby(c, p, e)
        PROVE  Covered
    BY <2>3, Zenon DEF MarkGameplayStarted, ReturnToLobby, BumpWithActivity, SeenLobby, Connected, slots, game
  <2>4. ASSUME NEW c \in Conns, NEW p \in Players, ReportActivity(c, p) \/ PrepareRelay(c, p)
        PROVE  Covered
    BY <2>4, Zenon DEF ReportActivity, PrepareRelay, SeenLobby, Connected, header, slots, game
  <2> QED
    BY <1>3, <2>1, <2>2, <2>3, <2>4, Zenon DEF Gaming
<1>4. ASSUME Background PROVE Covered
  BY <1>4 DEF Background, GrantRelay, RelayFails, VoiceRemoval, IdlePasses, ExpireIdleLobbies, Close, Bump,
     SeenLobby, Connected, header, slots, game
<1>5. ASSUME UNCHANGED lobbyVars PROVE Covered
  BY <1>5, Zenon DEF lobbyVars, header, slots, game, SeenLobby, Connected
<1> QED
  BY <1>1, <1>2, <1>3, <1>4, <1>5, Zenon DEF LobbyNext

\* What a client sees of the lobby does not change without a new epoch.
THEOREM EpochFencesView == LobbySpec => EpochCoversView
<1>1. [LobbyNext]_lobbyVars => [/\ epoch' \in {epoch, epoch + 1}
                                /\ SeenLobby' # SeenLobby => epoch' = epoch + 1]_lobbyVars
  BY EpochStep, Zenon
<1> QED
  BY <1>1, PTL DEF LobbySpec, EpochCoversView

\* A closed lobby is never opened again and nobody gets into it.
THEOREM ClosedStaysClosed == LobbySpec => ClosedForGood
<1> DEFINE Shut == status' = "Closed" /\ Connected' = {}
<1>1. ASSUME LobbyInv, status = "Closed", Joining PROVE FALSE
  <2>1. Joinable
    BY <1>1, JoiningFrame
  <2> QED
    BY <1>1, <2>1, Zenon DEF Joinable
<1>2. ASSUME LobbyInv, status = "Closed", Going PROVE Shut
  <2>1. PICK c \in Conns : Disconnect(c)
    BY <1>2, SpeakerFacts, ConstantFacts DEF Going, HostLeaves, GuestLeaves, RemovePlayer
  <2>2. status' = "Closed" /\ \A p \in Players : conn[p] = None
    BY <1>2, <2>1 DEF Disconnect, LobbyInv, CloseInv, ClosedEmpty
  <2>3. conn' = conn
    BY <2>1, <2>2, ConstantFacts DEF Disconnect
  <2> QED
    BY <2>2, <2>3 DEF Connected
<1>3. ASSUME LobbyInv, status = "Closed", Gaming PROVE FALSE
  BY <1>3, SpeakerFacts, ConstantFacts, Zenon DEF Gaming, SelectGame, RequestGameLaunch, PublishGameRoom,
     SetGameReadiness, MarkGameplayStarted, ReturnToLobby, ReportActivity, PrepareRelay
<1>4. ASSUME LobbyInv, status = "Closed", Background PROVE Shut
  <2>1. status' = "Closed" /\ conn' = conn
    BY <1>4 DEF Background, GrantRelay, RelayFails, VoiceRemoval, IdlePasses, ExpireIdleLobbies, Idle,
       header, slots
  <2> QED
    BY <1>4, <2>1 DEF LobbyInv, CloseInv, ClosedEmpty, Connected
<1>5. LobbyInv /\ [LobbyNext]_lobbyVars => [status = "Closed" => Shut]_lobbyVars
  BY <1>1, <1>2, <1>3, <1>4 DEF LobbyNext
<1> QED
  BY <1>5, LobbyInvariance, PTL DEF LobbySpec, ClosedForGood

\* A relay grant goes to the player it was asked for, although the lobby may have changed
\* while the broker was asked.
THEOREM NoStaleGrant == LobbySpec => GrantsAreCurrent
<1> DEFINE Fits(i) == /\ selected = i.proposal
                      /\ conn[Host] = i.sender
                      /\ conn[i.to] = i.receiver /\ subj[i.to] = i.subject
<1>1. ASSUME LobbyInv, NEW i \in intents, GrantRelay(i), NEW j \in grants' \ grants PROVE Fits(j)
  <2>1. j = i /\ RelayCurrent(i)
    BY <1>1 DEF GrantRelay
  <2>2. i.to \in Players /\ i.receiver \in Conns
    BY <1>1 DEF LobbyInv, LobbyTypeOK, CallsOK, Intents
  <2>3. owner[i.receiver] = i.subject
    BY <1>1 DEF LobbyInv, SlotsInv, IntentsOwned
  <2>4. subj[i.to] = owner[conn[i.to]]
    BY <1>1, <2>1, <2>2, ConstantFacts, Zenon DEF LobbyInv, SlotsInv, OneMembership, RelayCurrent
  <2> QED
    BY <2>1, <2>3, <2>4 DEF RelayCurrent
<1>2. ASSUME LobbyNext, \A i \in intents : ~GrantRelay(i) PROVE grants' = grants
  <2>1. CASE Joining
    BY <2>1, JoiningFrame, Zenon DEF calls
  <2>2. CASE Going
    BY <2>2 DEF Going, Disconnect, HostLeaves, GuestLeaves, RemovePlayer, calls
  <2>3. CASE Gaming
    BY <2>3, Zenon DEF Gaming, SelectGame, RequestGameLaunch, PublishGameRoom, SetGameReadiness,
       MarkGameplayStarted, ReturnToLobby, ReportActivity, PrepareRelay, calls
  <2>4. CASE Background
    BY <1>2, <2>4 DEF Background, RelayFails, VoiceRemoval, IdlePasses, ExpireIdleLobbies, calls
  <2> QED
    BY <1>2, <2>1, <2>2, <2>3, <2>4 DEF LobbyNext
<1>3. LobbyInv /\ [LobbyNext]_lobbyVars => [\A i \in grants' \ grants : Fits(i)]_lobbyVars
  BY <1>1, <1>2
<1> QED
  BY <1>3, LobbyInvariance, PTL DEF LobbySpec, GrantsAreCurrent

-----------------------------------------------------------------------------
(* The lobby with its followers.                                           *)

\* The sockets only watch: every step of LobbyFeed is a step of Lobby or leaves the lobby
\* alone.
LEMMA FeedStepIsLobbyStep ==
  ASSUME epoch \in Nat \ {0}, FeedNext PROVE LobbyNext \/ UNCHANGED lobbyVars
<1>0. epoch \in 1 .. epoch
  OBVIOUS
<1>1. ASSUME NEW c \in Conns, Session(c) PROVE LobbyNext \/ UNCHANGED lobbyVars
  <2>1. CASE Connects(c) \/ Reconnects(c) \/ Joins(c)
    <3>1. Joining
      BY <2>1, Zenon DEF Connects, Reconnects, Joins, Joining
    <3> QED
      BY <3>1 DEF LobbyNext
  <2>2. CASE Disconnects(c)
    BY <2>2, Zenon DEF Disconnects, Going, LobbyNext
  <2>3. CASE SubscribeLobby(c) \/ JoinRefused(c) \/ EnterLoop(c) \/ ReadEvent(c) \/ ReadLag(c)
    BY <2>3, Zenon DEF SubscribeLobby, JoinRefused, EnterLoop, ReadEvent, ReadLag
  <2> QED
    BY <1>1, <2>1, <2>2, <2>3, Zenon DEF Session
<1>2. ASSUME NEW c \in Conns, Operation(c) PROVE LobbyNext
  <2>1. CASE Leaves(c)
    BY <2>1, Zenon DEF Leaves, Going, LobbyNext
  <2>2. CASE Selects(c) \/ RequestsLaunch(c) \/ Publishes(c)
    BY <2>2, Zenon DEF Selects, RequestsLaunch, Publishes, Gaming, LobbyNext
  <2>3. ASSUME NEW p \in Players, Removes(c, p) PROVE LobbyNext
    BY <1>0, <2>3, Zenon DEF Removes, Going, LobbyNext
  <2>4. ASSUME NEW p \in Players, Starts(c, p) \/ Comeback(c, p) PROVE LobbyNext
    BY <1>0, <2>4, Zenon DEF Starts, Comeback, Gaming, LobbyNext
  <2>5. ASSUME NEW p \in Players,
               SetsReadiness(c, p) \/ Chats(c, p) \/ Reports(c, p) \/ PreparesRelay(c, p)
        PROVE  LobbyNext
    BY <2>5, Zenon DEF SetsReadiness, Chats, Reports, PreparesRelay, Gaming, LobbyNext
  <2> QED
    BY <1>2, <2>1, <2>2, <2>3, <2>4, <2>5, Zenon DEF Operation
<1>3. ASSUME NEW i \in intents, AnswersRelay(i) PROVE LobbyNext
  BY <1>3, Zenon DEF AnswersRelay, GrantsRelay, Background, LobbyNext
<1>4. ASSUME Expires \/ TimePasses PROVE LobbyNext
  BY <1>4, Zenon DEF Expires, TimePasses, Background, LobbyNext
<1>5. ASSUME NEW w \in Watchers,
             Watch(w) \/ FirstSnapshot(w) \/ WatchLoop(w) \/ ReadNotice(w) \/ Unwatch(w)
      PROVE  UNCHANGED lobbyVars
  BY <1>5, Zenon DEF Watch, FirstSnapshot, WatchLoop, ReadNotice, Unwatch
<1> QED
  BY <1>1, <1>2, <1>3, <1>4, <1>5, Zenon DEF FeedNext

\* Nothing that is proved of the lobby is lost when its sockets are followed: an operation does
\* to the lobby what it does without them, whatever their channels and loops hold
\* (emit_state_changed, handle_lobby_event).
THEOREM FeedFollowsLobby == FeedSpec => LobbySpec /\ [](epoch \in Nat \ {0})
<1>1. FeedInit => LobbyInit /\ epoch \in Nat \ {0}
  <2>1. FeedInit => LobbyInit /\ epoch = 1
    BY Zenon DEF FeedInit, LobbyInit
  <2> QED
    BY <2>1
<1>2. epoch \in Nat \ {0} /\ [FeedNext]_feedVars => [LobbyNext]_lobbyVars /\ (epoch \in Nat \ {0})'
  <2> SUFFICES ASSUME epoch \in Nat \ {0}, [FeedNext]_feedVars
               PROVE  [LobbyNext]_lobbyVars /\ (epoch \in Nat \ {0})'
    OBVIOUS
  <2>1. [LobbyNext]_lobbyVars
    BY FeedStepIsLobbyStep, Zenon DEF feedVars
  <2>2. epoch' \in {epoch, epoch + 1}
    BY <2>1, EpochStep
  <2> QED
    BY <2>1, <2>2
<1> QED
  BY <1>1, <1>2, PTL DEF FeedSpec, LobbySpec

-----------------------------------------------------------------------------
(* The event channel of a lobby.                                           *)

Kinds == {"state", "returned", "chat", "closed", "removed", "grant"}
Events == [kind : Kinds, to : SUBSET Conns, epoch : Nat]

\* An event that shows the client of c the lobby.
View(c, e) == c \in e.to /\ e.kind \notin {"chat", "grant"}

\* The last view among the events s is of epoch n, or there is none and known says whether
\* the client needs no other.
Informed(c, s, n, known) ==
  \/ \E k \in 1 .. Len(s) : /\ View(c, s[k]) /\ s[k].epoch = n
                            /\ \A j \in (k + 1) .. Len(s) : ~View(c, s[j])
  \/ known /\ \A j \in 1 .. Len(s) : ~View(c, s[j])

Awaits(c, s) == \E i \in 1 .. Len(s) : s[i].kind = "removed" /\ c \in s[i].to

\* How many events a receiver loses that holds n and gets m.
Lost(n, m) == IF n + m > Cap THEN n + m - Cap ELSE 0

LEMMA LostFacts ==
  ASSUME NEW n \in Nat, NEW m \in Nat, n <= Cap
  PROVE  /\ Cap \in Nat \ {0} /\ Lost(n, m) \in Nat /\ Lost(n, m) <= m
         /\ Lost(n, m) = 0 <=> ~(n + m > Cap)
         /\ n + m - Lost(n, m) \in Nat /\ n + m - Lost(n, m) <= Cap
         /\ m > 0 => n + m - Lost(n, m) > 0
BY LobbyFeedConstants DEF Lost

\* The last k events of t.
LEMMA LastOf ==
  ASSUME NEW t \in Seq(Events), NEW k \in Nat, k <= Len(t)
  PROVE  /\ SubSeq(t, Len(t) - k + 1, Len(t)) \in Seq(Events)
         /\ Len(SubSeq(t, Len(t) - k + 1, Len(t))) = k
         /\ \A i \in 1 .. k : SubSeq(t, Len(t) - k + 1, Len(t))[i] = t[Len(t) - k + i]
<1> DEFINE n == Len(t)
<1>0. n \in Nat /\ k <= n
  OBVIOUS
<1>1. n - k + 1 \in 1 .. (n + 1)
  BY <1>0
<1>2. SubSeq(t, n - k + 1, n) = [i \in 1 .. k |-> t[n - k + i]]
  BY <1>0, <1>1
<1>3. \A i \in 1 .. k : n - k + i \in 1 .. n
  BY <1>0
<1>4. [i \in 1 .. k |-> t[n - k + i]] \in Seq(Events)
  BY <1>0, <1>3
<1> QED
  BY <1>2, <1>4

\* What a receiver holds after the events es.
LEMMA KeptFacts ==
  ASSUME NEW s \in Seq(Events), NEW es \in Seq(Events), Len(s) <= Cap, NEW d \in Nat,
         d = Lost(Len(s), Len(es))
  PROVE  /\ Kept(s \o es) \in Seq(Events) /\ Len(Kept(s \o es)) = Len(s) + Len(es) - d
         /\ \A i \in 1 .. Len(Kept(s \o es)) :
              Kept(s \o es)[i] = IF i + d <= Len(s) THEN s[i + d] ELSE es[i + d - Len(s)]
<1>1. PICK n \in Nat, m \in Nat : n = Len(s) /\ m = Len(es)
  OBVIOUS
<1>2. PICK t \in Seq(Events) : t = s \o es
  <2>1. s \o es \in Seq(Events)
    OBVIOUS
  <2> QED
    BY <2>1, Zenon
<1>3. Len(t) = n + m /\ \A i \in 1 .. (n + m) : t[i] = IF i <= n THEN s[i] ELSE es[i - n]
  BY <1>1, <1>2
<1>4. Cap \in Nat \ {0}
  BY LobbyFeedConstants
<1>5. PICK k \in Nat : k = n + m - d /\ k <= n + m
  <2>1. n + m - d \in Nat
    BY <1>1, <1>4 DEF Lost
  <2> QED
    BY <2>1
<1>6. Kept(t) \in Seq(Events) /\ Len(Kept(t)) = k /\ \A i \in 1 .. k : Kept(t)[i] = t[i + d]
  <2>1. CASE n + m > Cap
    <3>1. d = n + m - Cap /\ k = Cap
      BY <1>1, <1>4, <1>5, <2>1 DEF Lost
    <3>2. Kept(t) = SubSeq(t, Len(t) - k + 1, Len(t))
      BY <1>3, <2>1, <3>1 DEF Kept
    <3>3. Kept(t) \in Seq(Events) /\ Len(Kept(t)) = k /\ \A i \in 1 .. k : Kept(t)[i] = t[Len(t) - k + i]
      <4>1. k <= Len(t)
        BY <1>3, <1>5
      <4>2. /\ SubSeq(t, Len(t) - k + 1, Len(t)) \in Seq(Events)
            /\ Len(SubSeq(t, Len(t) - k + 1, Len(t))) = k
            /\ \A i \in 1 .. k : SubSeq(t, Len(t) - k + 1, Len(t))[i] = t[Len(t) - k + i]
        BY <4>1, LastOf
      <4> QED
        BY <3>2, <4>2, Zenon
    <3>4. \A i \in 1 .. k : Len(t) - k + i = i + d
      BY <1>3, <1>4, <3>1
    <3> QED
      BY <3>3, <3>4, Zenon
  <2>2. CASE ~(n + m > Cap)
    <3>1. d = 0 /\ k = n + m
      BY <1>1, <1>5, <2>2 DEF Lost
    <3>2. Kept(t) = t
      BY <1>3, <2>2, Zenon DEF Kept
    <3> QED
      BY <1>3, <3>1, <3>2
  <2> QED
    BY <2>1, <2>2
<1>7. ASSUME NEW i \in 1 .. k PROVE t[i + d] = IF i + d <= n THEN s[i + d] ELSE es[i + d - n]
  <2>1. i + d \in 1 .. (n + m)
    <3>1. k <= n + m - d /\ i \in Nat /\ 1 <= i /\ i <= k
      BY <1>5
    <3> QED
      BY <3>1, SMTT(20)
  <2> QED
    BY <1>3, <2>1, SMTT(20)
<1>8. /\ Kept(t) \in Seq(Events) /\ Len(Kept(t)) = n + m - d
      /\ \A i \in 1 .. Len(Kept(t)) : Kept(t)[i] = IF i + d <= n THEN s[i + d] ELSE es[i + d - n]
  BY <1>5, <1>6, <1>7, Zenon
<1> QED
  BY <1>1, <1>2, <1>8, Zenon

\* How a receiver that held s is left by the events es.
Took(s, es, t) ==
  /\ t \in Seq(Events) /\ Len(t) \in Nat /\ Len(t) <= Cap
  /\ \E d \in Nat :
       /\ d = Lost(Len(s), Len(es)) /\ Len(t) = Len(s) + Len(es) - d /\ d <= Len(es)
       /\ \A i \in 1 .. Len(t) : t[i] = IF i + d <= Len(s) THEN s[i + d] ELSE es[i + d - Len(s)]

LEMMA KeptTook ==
  ASSUME NEW s \in Seq(Events), NEW es \in Seq(Events), Len(s) <= Cap
  PROVE  Took(s, es, Kept(s \o es))
<1>1. Len(s) \in Nat /\ Len(es) \in Nat
  OBVIOUS
<1>2. PICK d \in Nat : d = Lost(Len(s), Len(es)) /\ d <= Len(es)
  BY <1>1, LostFacts
<1>3. /\ Kept(s \o es) \in Seq(Events) /\ Len(Kept(s \o es)) = Len(s) + Len(es) - d
      /\ \A i \in 1 .. Len(Kept(s \o es)) :
           Kept(s \o es)[i] = IF i + d <= Len(s) THEN s[i + d] ELSE es[i + d - Len(s)]
  BY <1>2, KeptFacts, Zenon
<1>4. Len(s) + Len(es) - d \in Nat /\ Len(s) + Len(es) - d <= Cap
  BY <1>1, <1>2, LostFacts
<1> QED
  BY <1>2, <1>3, <1>4, Zenon DEF Took

\* Where the j-th of the l events comes from that a receiver keeps, when it held n, was sent m
\* and lost d.
LEMMA ShiftIn ==
  ASSUME NEW n \in Nat, NEW m \in Nat, NEW d \in Nat, NEW l \in Nat, l = n + m - d, NEW j \in 1 .. l
  PROVE  (j + d <= n => j + d \in 1 .. n) /\ (~(j + d <= n) => j + d - n \in 1 .. m)
OBVIOUS

LEMMA ShiftBack ==
  ASSUME NEW n \in Nat, NEW m \in Nat, NEW d \in Nat, NEW l \in Nat, l = n + m - d, d <= m,
         NEW k \in 1 .. n, d < k
  PROVE  /\ k - d \in 1 .. l /\ (k - d) + d <= n /\ (k - d) + d = k
         /\ \A j \in ((k - d) + 1) .. l : j \in 1 .. l /\ (j + d \in 1 .. n => j + d \in (k + 1) .. n)
OBVIOUS

LEMMA ShiftPast ==
  ASSUME NEW n \in Nat, NEW d \in Nat, NEW l \in Nat, NEW k \in 1 .. n, ~(d < k)
  PROVE  d # 0 /\ \A j \in 1 .. l : j + d \in 1 .. n => j + d \in (k + 1) .. n
OBVIOUS

LEMMA AtMost == \A a, b, c \in Nat : a <= b /\ b <= c => a <= c
OBVIOUS

\* A place of a sequence of events holds an event.
LEMMA EventAt ==
  ASSUME NEW s \in Seq(Events), NEW i \in 1 .. Len(s)
  PROVE  s[i] \in Events
OBVIOUS

\* No number is below zero.
LEMMA ZeroFirst == \A n \in Nat : 0 <= n
OBVIOUS

\* A view at the end of what is sent arrives, and it is the last.
LEMMA ViewArrives ==
  ASSUME NEW s \in Seq(Events), NEW es \in Seq(Events), Len(s) <= Cap, NEW t, Took(s, es, t),
         NEW c, NEW n, NEW known, es # << >>, View(c, es[Len(es)]), es[Len(es)].epoch = n
  PROVE  Informed(c, t, n, known)
<1>1. Len(s) \in Nat /\ Len(es) \in Nat \ {0}
  OBVIOUS
<1>2. PICK d \in Nat : /\ d = Lost(Len(s), Len(es)) /\ Len(t) = Len(s) + Len(es) - d
                       /\ \A i \in 1 .. Len(t) :
                            t[i] = IF i + d <= Len(s) THEN s[i + d] ELSE es[i + d - Len(s)]
  BY DEF Took
<1>3. Len(t) \in Nat /\ Len(t) > 0
  <2>1. Len(es) > 0
    BY <1>1
  <2>2. /\ Len(s) + Len(es) - Lost(Len(s), Len(es)) \in Nat
        /\ Len(s) + Len(es) - Lost(Len(s), Len(es)) > 0
    BY <1>1, <2>1, LostFacts, Zenon
  <2> QED
    BY <1>2, <2>2, Zenon
<1>4. Len(t) \in 1 .. Len(t) /\ ~(Len(t) + d <= Len(s)) /\ Len(t) + d - Len(s) = Len(es)
  <2>1. Len(t) = Len(s) + Len(es) - d
    BY <1>2, Zenon
  <2>2. Len(es) \in Nat /\ Len(es) # 0
    BY <1>1
  <2> QED
    BY <1>1, <1>3, <2>1, <2>2, SMTT(20)
<1>5. t[Len(t)] = es[Len(es)]
  BY <1>2, <1>4
<1>6. \A j \in (Len(t) + 1) .. Len(t) : FALSE
  BY <1>3
<1> QED
  BY <1>4, <1>5, <1>6, Zenon DEF Informed

\* None of the events es is a view for the client of c.
ShowsNothing(c, es) == \A i \in 1 .. Len(es) : ~View(c, es[i])

\* A client that needs no view still needs none, and one that may have lost some is excused.
Excused(known, s, es, after) == known \/ Len(s) + Len(es) > Cap => after

\* Other events leave the client as informed as it was, or the receiver has lost some.
LEMMA OthersArrive ==
  ASSUME NEW s \in Seq(Events), NEW es \in Seq(Events), Len(s) <= Cap, NEW t, Took(s, es, t),
         NEW c, NEW n, NEW known \in BOOLEAN, ShowsNothing(c, es), Informed(c, s, n, known),
         NEW after \in BOOLEAN, Excused(known, s, es, after)
  PROVE  Informed(c, t, n, after)
<1>0. /\ \A i \in 1 .. Len(es) : ~View(c, es[i])
      /\ known \/ Len(s) + Len(es) > Cap => after
  BY Zenon DEF ShowsNothing, Excused
<1> USE <1>0
<1>1. Len(s) \in Nat /\ Len(es) \in Nat
  OBVIOUS
<1>2. PICK d \in Nat : /\ d = Lost(Len(s), Len(es)) /\ d <= Len(es) /\ Len(t) = Len(s) + Len(es) - d
                       /\ \A i \in 1 .. Len(t) :
                            t[i] = IF i + d <= Len(s) THEN s[i + d] ELSE es[i + d - Len(s)]
  BY Zenon DEF Took
<1>3. Len(t) \in Nat
  BY DEF Took
<1>l. Len(t) = Len(s) + Len(es) - d /\ d <= Len(es)
  BY <1>2, Zenon
<1>4. ASSUME NEW j \in 1 .. Len(t)
      PROVE  \/ j + d \in 1 .. Len(s) /\ t[j] = s[j + d]
             \/ ~View(c, t[j])
  <2>1. CASE j + d <= Len(s)
    <3>1. j + d \in 1 .. Len(s)
      BY <1>1, <1>3, <1>l, <2>1, ShiftIn, Zenon
    <3> QED
      BY <1>2, <2>1, <3>1, Zenon
  <2>2. CASE ~(j + d <= Len(s))
    <3>1. j + d - Len(s) \in 1 .. Len(es)
      BY <1>1, <1>3, <1>l, <2>2, ShiftIn, Zenon
    <3>2. t[j] = es[j + d - Len(s)]
      BY <1>2, <2>2, Zenon
    <3> QED
      BY <3>1, <3>2, Zenon
  <2> QED
    BY <2>1, <2>2, Zenon
<1>5. ASSUME NEW k \in 1 .. Len(s), View(c, s[k]), s[k].epoch = n,
             \A j \in (k + 1) .. Len(s) : ~View(c, s[j]), d < k
      PROVE  Informed(c, t, n, after)
  <2>1. /\ k - d \in 1 .. Len(t) /\ (k - d) + d <= Len(s) /\ (k - d) + d = k
        /\ \A j \in ((k - d) + 1) .. Len(t) :
             j \in 1 .. Len(t) /\ (j + d \in 1 .. Len(s) => j + d \in (k + 1) .. Len(s))
    BY <1>1, <1>3, <1>5, <1>l, ShiftBack, Zenon
  <2>2. t[k - d] = s[k]
    BY <1>2, <2>1, Zenon
  <2>3. ASSUME NEW j \in ((k - d) + 1) .. Len(t) PROVE ~View(c, t[j])
    <3>1. j \in 1 .. Len(t) /\ (j + d \in 1 .. Len(s) => j + d \in (k + 1) .. Len(s))
      BY <2>1, Zenon
    <3> QED
      BY <1>4, <1>5, <3>1, Zenon
  <2> QED
    BY <1>5, <2>1, <2>2, <2>3, Zenon DEF Informed
<1>6. ASSUME NEW k \in 1 .. Len(s), \A j \in (k + 1) .. Len(s) : ~View(c, s[j]), ~(d < k)
      PROVE  Informed(c, t, n, after)
  <2>1. Len(s) + Len(es) > Cap
    <3>1. d # 0
      BY <1>1, <1>3, <1>6, ShiftPast, Zenon
    <3>2. d = 0 <=> ~(Len(s) + Len(es) > Cap)
      BY <1>1, <1>2, LostFacts, Zenon
    <3> QED
      BY <3>1, <3>2, Zenon
  <2>2. ASSUME NEW j \in 1 .. Len(t) PROVE ~View(c, t[j])
    <3>1. j + d \in 1 .. Len(s) => j + d \in (k + 1) .. Len(s)
      BY <1>1, <1>3, <1>6, ShiftPast, Zenon
    <3> QED
      BY <1>4, <1>6, <3>1, Zenon
  <2> QED
    BY <2>1, <2>2, Zenon DEF Informed
<1>7. ASSUME known, \A j \in 1 .. Len(s) : ~View(c, s[j])
      PROVE  Informed(c, t, n, after)
  BY <1>4, <1>7, Zenon DEF Informed
<1> QED
  BY <1>5, <1>6, <1>7, Zenon DEF Informed

\* A removal stays in the inbox as long as nothing is lost.
LEMMA RemovalKept ==
  ASSUME NEW s \in Seq(Events), NEW es \in Seq(Events), Len(s) <= Cap, NEW t, Took(s, es, t),
         NEW c, Awaits(c, s) \/ Awaits(c, es), ~(Len(s) + Len(es) > Cap)
  PROVE  Awaits(c, t)
<1>1. Len(s) \in Nat /\ Len(es) \in Nat
  OBVIOUS
<1>2. Lost(Len(s), Len(es)) = 0
  BY <1>1, LostFacts
<1>3. /\ Len(t) = Len(s) + Len(es)
      /\ \A i \in 1 .. Len(t) : t[i] = IF i <= Len(s) THEN s[i] ELSE es[i - Len(s)]
  BY <1>1, <1>2, SMTT(30) DEF Took
<1>4. ASSUME NEW i \in 1 .. Len(s) PROVE i \in 1 .. Len(t) /\ t[i] = s[i]
  BY <1>1, <1>3, SMTT(30)
<1>5. ASSUME NEW i \in 1 .. Len(es) PROVE Len(s) + i \in 1 .. Len(t) /\ t[Len(s) + i] = es[i]
  <2>1. Len(s) + i \in 1 .. Len(t) /\ ~(Len(s) + i <= Len(s)) /\ Len(s) + i - Len(s) = i
    BY <1>1, <1>3
  <2> QED
    BY <1>3, <2>1, SMTT(30)
<1> QED
  BY <1>4, <1>5, Zenon DEF Awaits

-----------------------------------------------------------------------------
(* What the clients of the lobby sessions know.                            *)

Phases == {"none", "new", "subscribed", "joined", "loop", "over"}
Subscribed == {"subscribed", "joined", "loop"}
Served == {"joined", "loop"}

\* The session of c, in phase ph with the events s to read, in a lobby of epoch n: its client
\* was sent epoch sn, missed events (mi) and was told so (wa).
Reads(c, ph, s, n, sn, mi, wa) ==
  /\ Len(s) <= Cap /\ sn <= n
  /\ \A i \in 1 .. Len(s) : s[i].epoch <= n
  /\ ph \in Served => Informed(c, s, n, sn = n \/ wa \/ mi)

PhaseOK == phase \in [Conns \cup Watchers -> Phases]
ReadersOK ==
  /\ inbox \in [Conns -> Seq(Events)] /\ seen \in [Conns -> Nat]
  /\ missed \in [Conns -> BOOLEAN] /\ warned \in [Conns -> BOOLEAN]
ReadersInv ==
  ReadersOK /\ \A c \in Conns : Reads(c, phase[c], inbox[c], epoch, seen[c], missed[c], warned[c])

\* Events that end with a view of epoch n for c, and events that show c nothing.
EndInView(c, es, n) ==
  /\ es # << >> /\ \A i \in 1 .. Len(es) : es[i].epoch <= n
  /\ View(c, es[Len(es)]) /\ es[Len(es)].epoch = n
NoView(c, es) == \A i \in 1 .. Len(es) : es[i].epoch = 0 /\ ~View(c, es[i])

\* A session that is sent a view.
LEMMA ReadsView ==
  ASSUME ReadersInv, NEW c \in Conns, epoch \in Nat, epoch' \in Nat, epoch <= epoch',
         NEW es \in Seq(Events), Took(inbox[c], es, inbox'[c]), EndInView(c, es, epoch'),
         seen'[c] \in {seen[c], epoch'}
  PROVE  Reads(c, phase'[c], inbox'[c], epoch', seen'[c], missed'[c], warned'[c])
<1>0. PICK s \in Seq(Events), t \in Seq(Events), n \in Nat, n2 \in Nat, sn \in Nat, sn2 \in Nat :
        /\ s = inbox[c] /\ t = inbox'[c] /\ n = epoch /\ n2 = epoch' /\ sn = seen[c] /\ sn2 = seen'[c]
        /\ sn2 \in {sn, n2}
  BY DEF ReadersInv, ReadersOK, Took
<1>a. Len(s) <= Cap /\ sn <= n /\ \A i \in 1 .. Len(s) : s[i].epoch <= n
  BY <1>0, Zenon DEF ReadersInv, Reads
<1>b. Took(s, es, t) /\ n <= n2 /\ EndInView(c, es, n2)
  BY <1>0, Zenon
<1>1. Len(t) <= Cap
  BY <1>b DEF Took
<1>2. sn2 <= n2
  <2>1. sn <= n /\ n <= n2 /\ sn2 \in {sn, n2}
    BY <1>0, <1>a, <1>b, Zenon
  <2> QED
    BY <2>1
<1>3. ASSUME NEW i \in 1 .. Len(t) PROVE t[i].epoch <= n2
  <2>1. Len(s) \in Nat /\ Len(es) \in Nat /\ Len(t) \in Nat
    BY SMTT(30)
  <2>2. PICK d \in Nat : /\ Len(t) = Len(s) + Len(es) - d
                         /\ t[i] = IF i + d <= Len(s) THEN s[i + d] ELSE es[i + d - Len(s)]
    BY <1>b DEF Took
  <2>3. CASE i + d <= Len(s)
    <3>1. i + d \in 1 .. Len(s) /\ t[i] = s[i + d]
      BY <2>1, <2>2, <2>3, ShiftIn, Zenon
    <3>2. s[i + d].epoch <= n /\ s[i + d].epoch \in Nat
      <4>1. s[i + d] \in Events
        BY <3>1, EventAt, Zenon
      <4> QED
        BY <1>a, <3>1, <4>1, Zenon DEF Events
    <3>3. n <= n2 /\ t[i] = s[i + d]
      BY <1>b, <3>1, Zenon
    <3> QED
      BY <3>2, <3>3, AtMost, Zenon
  <2>4. CASE ~(i + d <= Len(s))
    <3>1. i + d - Len(s) \in 1 .. Len(es) /\ t[i] = es[i + d - Len(s)]
      BY <2>1, <2>2, <2>4, ShiftIn, Zenon
    <3> QED
      BY <1>b, <3>1, Zenon DEF EndInView
  <2> QED
    BY <2>3, <2>4
<1>4. \A known : Informed(c, t, n2, known)
  BY <1>a, <1>b, ViewArrives DEF EndInView
<1>5. /\ Len(inbox'[c]) <= Cap /\ seen'[c] <= epoch'
      /\ \A i \in 1 .. Len(inbox'[c]) : inbox'[c][i].epoch <= epoch'
  BY <1>0, <1>1, <1>2, <1>3, Zenon
<1>6. \A known : Informed(c, inbox'[c], epoch', known)
  BY <1>0, <1>4, Zenon
<1> QED
  BY <1>5, <1>6, Zenon DEF Reads

\* A session without a receiver is served later, if at all.
LEMMA ReadsNothing ==
  ASSUME NEW c, NEW ph, NEW s \in Seq(Events), NEW n \in Nat, NEW sn \in Nat, NEW mi, NEW wa,
         Reads(c, ph, s, n, sn, mi, wa), NEW n2 \in Nat, n <= n2, NEW ph2, ph2 \notin Served,
         NEW mi2, NEW wa2
  PROVE  Reads(c, ph2, s, n2, sn, mi2, wa2)
<1>1. sn <= n2
  BY DEF Reads
<1>2. ASSUME NEW i \in 1 .. Len(s) PROVE s[i].epoch <= n2
  <2>1. s[i].epoch <= n
    BY Zenon DEF Reads
  <2>2. s[i].epoch \in Nat
    <3>1. s[i] \in Events
      BY EventAt, Zenon
    <3> QED
      BY <3>1 DEF Events
  <2> QED
    BY <2>1, <2>2, AtMost, Zenon
<1> QED
  BY <1>1, <1>2, Zenon DEF Reads

\* Events that are no views, in an epoch that stays.
LEMMA ReadsOthers ==
  ASSUME ReadersInv, NEW c \in Conns, epoch \in Nat, NEW es \in Seq(Events),
         Took(inbox[c], es, inbox'[c]), NoView(c, es), missed'[c] \in BOOLEAN,
         missed'[c] <=> (missed[c] \/ Len(inbox[c]) + Len(es) > Cap)
  PROVE  Reads(c, phase[c], inbox'[c], epoch, seen[c], missed'[c], warned[c])
<1>0. PICK s \in Seq(Events), t \in Seq(Events), n \in Nat, sn \in Nat, mi \in BOOLEAN, wa \in BOOLEAN, mi2 \in BOOLEAN :
        /\ s = inbox[c] /\ t = inbox'[c] /\ n = epoch /\ sn = seen[c]
        /\ mi = missed[c] /\ mi2 = missed'[c] /\ wa = warned[c]
  BY Zenon DEF ReadersInv, ReadersOK, Took
<1>a. Took(s, es, t) /\ (mi2 <=> (mi \/ Len(s) + Len(es) > Cap))
  BY <1>0, Zenon
<1>b. Len(s) <= Cap /\ sn <= n /\ \A i \in 1 .. Len(s) : s[i].epoch <= n
  BY <1>0, Zenon DEF ReadersInv, Reads
<1>c. phase[c] \in Served => Informed(c, s, n, sn = n \/ wa \/ mi)
  BY <1>0, Zenon DEF ReadersInv, Reads
<1>d. Len(t) \in Nat /\ Len(s) \in Nat /\ Len(es) \in Nat
  OBVIOUS
<1>1. Len(t) <= Cap /\ Len(t) \in Nat /\ Len(s) \in Nat /\ Len(es) \in Nat
  BY <1>a, <1>d, Zenon DEF Took
<1>3. ASSUME NEW i \in 1 .. Len(t) PROVE t[i].epoch <= n
  <2>1. PICK d \in Nat : /\ Len(t) = Len(s) + Len(es) - d
                         /\ t[i] = IF i + d <= Len(s) THEN s[i + d] ELSE es[i + d - Len(s)]
    BY <1>a DEF Took
  <2>2. CASE i + d <= Len(s)
    <3>1. i + d \in 1 .. Len(s) /\ t[i] = s[i + d]
      BY <1>d, <2>1, <2>2, ShiftIn, Zenon
    <3> QED
      BY <1>b, <3>1, Zenon
  <2>3. CASE ~(i + d <= Len(s))
    <3>1. i + d - Len(s) \in 1 .. Len(es) /\ t[i] = es[i + d - Len(s)]
      BY <1>d, <2>1, <2>3, ShiftIn, Zenon
    <3>2. t[i].epoch = 0
      BY <3>1, Zenon DEF NoView
    <3> QED
      BY <3>2, ZeroFirst, Zenon
  <2> QED
    BY <2>2, <2>3
<1>4. ASSUME phase[c] \in Served PROVE Informed(c, t, n, sn = n \/ wa \/ mi2)
  <2>1. PICK known \in BOOLEAN : known <=> (sn = n \/ wa \/ mi)
    OBVIOUS
  <2>2. PICK after \in BOOLEAN : after <=> (sn = n \/ wa \/ mi2)
    OBVIOUS
  <2>3. Informed(c, s, n, known)
    BY <1>4, <1>c, <2>1, Zenon DEF Informed
  <2>4. ShowsNothing(c, es)
    BY Zenon DEF NoView, ShowsNothing
  <2>5. Excused(known, s, es, after)
    BY <1>a, <2>1, <2>2, Zenon DEF Excused
  <2>f. Took(s, es, t) /\ Len(s) <= Cap
    BY <1>a, <1>b, Zenon
  <2>6. Informed(c, t, n, after)
    BY <2>3, <2>4, <2>5, <2>f, OthersArrive, ZenonT(40)
  <2> QED
    BY <2>2, <2>6, Zenon DEF Informed
<1> QED
  BY <1>0, <1>1, <1>b, <1>3, <1>4, Zenon DEF Reads

\* Sends reaches the sockets that have subscribed.
LEMMA SendsFacts ==
  ASSUME ReadersInv, NEW es \in Seq(Events), Sends(es)
  PROVE  /\ inbox' \in [Conns -> Seq(Events)] /\ missed' \in [Conns -> BOOLEAN]
         /\ \A c \in Conns :
              /\ c \in Receivers => /\ Took(inbox[c], es, inbox'[c])
                                    /\ missed'[c] <=> (missed[c] \/ Len(inbox[c]) + Len(es) > Cap)
              /\ c \notin Receivers => inbox'[c] = inbox[c] /\ missed'[c] = missed[c]
<1>1. ASSUME NEW c \in Conns
      PROVE  inbox[c] \in Seq(Events) /\ Len(inbox[c]) <= Cap /\ missed[c] \in BOOLEAN
  BY DEF ReadersInv, ReadersOK, Reads
<1>2. ASSUME NEW c \in Conns
      PROVE  /\ inbox'[c] = IF c \in Receivers THEN Kept(inbox[c] \o es) ELSE inbox[c]
             /\ missed'[c] = (missed[c] \/ (c \in Receivers /\ Len(inbox[c]) + Len(es) > Cap))
  BY DEF Sends
<1>3. DOMAIN inbox' = Conns /\ DOMAIN missed' = Conns
  BY DEF Sends
<1>4. ASSUME NEW c \in Conns PROVE Took(inbox[c], es, Kept(inbox[c] \o es))
  BY <1>1, KeptTook, Zenon
<1>5. ASSUME NEW c \in Conns PROVE inbox'[c] \in Seq(Events)
  BY <1>1, <1>2, <1>4, Zenon DEF Took
<1>6. inbox' = [c \in Conns |-> inbox'[c]] /\ missed' = [c \in Conns |-> missed'[c]]
  BY DEF Sends
<1>7. inbox' \in [Conns -> Seq(Events)]
  BY <1>5, <1>6
<1>8. missed' \in [Conns -> BOOLEAN]
  BY DEF Sends
<1>9. ASSUME NEW c \in Conns
      PROVE  /\ c \in Receivers => /\ Took(inbox[c], es, inbox'[c])
                                   /\ missed'[c] <=> (missed[c] \/ Len(inbox[c]) + Len(es) > Cap)
             /\ c \notin Receivers => inbox'[c] = inbox[c] /\ missed'[c] = missed[c]
  <2>1. c \in Receivers => inbox'[c] = Kept(inbox[c] \o es)
    BY <1>2
  <2>2. c \in Receivers => Took(inbox[c], es, inbox'[c])
    BY <1>4, <2>1, Zenon
  <2>3. c \in Receivers => (missed'[c] <=> (missed[c] \/ Len(inbox[c]) + Len(es) > Cap))
    BY <1>2, Zenon
  <2>4. c \notin Receivers => missed'[c] = missed[c]
    BY <1>1, <1>2
  <2>5. c \notin Receivers => inbox'[c] = inbox[c]
    BY <1>2
  <2> QED
    BY <2>2, <2>3, <2>4, <2>5, Zenon
<1> QED
  BY <1>7, <1>8, <1>9, Zenon

\* An operation that changes the lobby ends what it sends with a view for everybody.
Shows(es) ==
  /\ es \in Seq(Events) /\ es # << >> /\ Sends(es)
  /\ \A i \in 1 .. Len(es) : es[i].epoch <= epoch'
  /\ es[Len(es)].epoch = epoch' /\ \A c \in Conns : View(c, es[Len(es)])

LEMMA ShowsStep ==
  ASSUME ReadersInv, PhaseOK, epoch \in Nat, epoch' \in Nat, epoch <= epoch', NEW es, Shows(es),
         \A c \in Conns : phase'[c] \in Served => phase[c] \in Subscribed,
         seen' \in [Conns -> Nat], warned' = warned,
         \A c \in Conns : seen'[c] = seen[c] \/ (c \in Receivers /\ seen'[c] = epoch')
  PROVE  ReadersInv'
<1>0. es \in Seq(Events) /\ Sends(es)
  BY DEF Shows
<1>1. ReadersOK'
  BY <1>0, SendsFacts, Zenon DEF ReadersInv, ReadersOK
<1>2. ASSUME NEW c \in Conns
      PROVE  Reads(c, phase'[c], inbox'[c], epoch', seen'[c], missed'[c], warned'[c])
  <2>1. inbox[c] \in Seq(Events) /\ seen[c] \in Nat
    BY DEF ReadersInv, ReadersOK
  <2>2. Reads(c, phase[c], inbox[c], epoch, seen[c], missed[c], warned[c])
    BY DEF ReadersInv
  <2>3. c \in Receivers <=> phase[c] \in Subscribed
    BY DEF Receivers, Subscribed
  <2>4. CASE c \in Receivers
    <3>1. Took(inbox[c], es, inbox'[c])
      BY <1>0, <2>4, SendsFacts, Zenon
    <3>2. seen'[c] \in {seen[c], epoch'}
      OBVIOUS
    <3>3. EndInView(c, es, epoch')
      BY Zenon DEF Shows, EndInView
    <3> QED
      BY <1>0, <3>1, <3>2, <3>3, ReadsView, Zenon
  <2>5. CASE c \notin Receivers
    <3>1. inbox'[c] = inbox[c] /\ seen'[c] = seen[c]
      BY <1>0, <2>5, SendsFacts, Zenon
    <3>2. phase'[c] \notin Served
      BY <2>3, <2>5
    <3>3. Reads(c, phase'[c], inbox[c], epoch', seen[c], missed'[c], warned'[c])
      BY <2>1, <2>2, <3>2, ReadsNothing, Zenon
    <3> QED
      BY <3>1, <3>3, Zenon
  <2> QED
    BY <2>4, <2>5
<1> QED
  BY <1>1, <1>2, Zenon DEF ReadersInv

\* Chat and grants are no views.
LEMMA TalksStep ==
  ASSUME ReadersInv, epoch \in Nat, epoch' = epoch, NEW es \in Seq(Events), Sends(es),
         \A c \in Conns : NoView(c, es),
         UNCHANGED <<phase, seen, warned>>
  PROVE  ReadersInv'
<1>1. ReadersOK'
  BY SendsFacts, Zenon DEF ReadersInv, ReadersOK
<1>2. ASSUME NEW c \in Conns
      PROVE  Reads(c, phase[c], inbox'[c], epoch, seen[c], missed'[c], warned[c])
  <2>1. inbox[c] \in Seq(Events) /\ seen[c] \in Nat /\ missed[c] \in BOOLEAN /\ warned[c] \in BOOLEAN
    BY DEF ReadersInv, ReadersOK
  <2>2. Reads(c, phase[c], inbox[c], epoch, seen[c], missed[c], warned[c])
    BY DEF ReadersInv
  <2>3. missed'[c] \in BOOLEAN
    BY <1>1 DEF ReadersOK
  <2>4. CASE c \in Receivers
    <3>1. /\ Took(inbox[c], es, inbox'[c])
          /\ missed'[c] <=> (missed[c] \/ Len(inbox[c]) + Len(es) > Cap)
      BY <2>4, SendsFacts, Zenon
    <3>2. NoView(c, es)
      OBVIOUS
    <3> QED
      BY <2>3, <3>1, <3>2, ReadsOthers, Zenon
  <2>5. CASE c \notin Receivers
    <3>1. inbox'[c] = inbox[c] /\ missed'[c] = missed[c]
      BY <2>5, SendsFacts, Zenon
    <3> QED
      BY <2>2, <3>1, Zenon
  <2> QED
    BY <2>4, <2>5
<1> QED
  BY <1>1, <1>2, Zenon DEF ReadersInv

\* Nothing is sent and no session is served that was not.
LEMMA QuietStep ==
  ASSUME ReadersInv, epoch \in Nat, epoch' = epoch, UNCHANGED <<inbox, missed, seen, warned>>,
         \A c \in Conns : phase'[c] \in Served => phase[c] \in Served
  PROVE  ReadersInv'
<1>1. ReadersOK'
  BY DEF ReadersInv, ReadersOK
<1>2. \A c \in Conns : Reads(c, phase'[c], inbox[c], epoch, seen[c], missed[c], warned[c])
  BY Zenon DEF ReadersInv, Reads
<1> QED
  BY <1>1, <1>2, Zenon DEF ReadersInv

\* A receiver takes the oldest event.
LEMMA TailFacts ==
  ASSUME NEW s \in Seq(Events), s # << >>
  PROVE  /\ Tail(s) \in Seq(Events) /\ Len(s) \in Nat \ {0} /\ Len(Tail(s)) = Len(s) - 1
         /\ Head(s) = s[1] /\ s[1] \in Events
         /\ \A i \in 1 .. (Len(s) - 1) : Tail(s)[i] = s[i + 1]
  OBVIOUS

\* What is left to read informs the client as before, once the oldest event is handled.
LEMMA TailInformed ==
  ASSUME NEW s \in Seq(Events), s # << >>, NEW c, NEW n, NEW known \in BOOLEAN, NEW after \in BOOLEAN,
         Informed(c, s, n, known),
         View(c, s[1]) => (s[1].epoch = n => after), ~View(c, s[1]) => (known => after)
  PROVE  Informed(c, Tail(s), n, after)
<1>1. PICK m \in Nat : /\ m = Len(Tail(s)) /\ Len(s) = m + 1 /\ \A i \in 1 .. m : Tail(s)[i] = s[i + 1]
  BY TailFacts
<1>2. ASSUME NEW k \in 1 .. Len(s), View(c, s[k]), s[k].epoch = n,
             \A j \in (k + 1) .. Len(s) : ~View(c, s[j])
      PROVE  Informed(c, Tail(s), n, after)
  <2>1. CASE k = 1
    <3>1. ASSUME NEW j \in 1 .. m PROVE ~View(c, Tail(s)[j])
      <4>1. j + 1 \in (k + 1) .. Len(s)
        BY <1>1, <2>1
      <4> QED
        BY <1>1, <1>2, <4>1, Zenon
    <3> QED
      BY <1>1, <1>2, <2>1, <3>1, Zenon DEF Informed
  <2>2. CASE k # 1
    <3>1. k - 1 \in 1 .. m /\ (k - 1) + 1 = k
      BY <1>1, <2>2
    <3>2. Tail(s)[k - 1] = s[k]
      BY <1>1, <3>1
    <3>3. ASSUME NEW j \in ((k - 1) + 1) .. m PROVE ~View(c, Tail(s)[j])
      <4>1. j \in 1 .. m /\ j + 1 \in (k + 1) .. Len(s)
        BY <1>1, <3>1
      <4> QED
        BY <1>1, <1>2, <4>1, Zenon
    <3> QED
      BY <1>1, <1>2, <3>1, <3>2, <3>3, Zenon DEF Informed
  <2> QED
    BY <2>1, <2>2
<1>3. ASSUME known, \A j \in 1 .. Len(s) : ~View(c, s[j]) PROVE Informed(c, Tail(s), n, after)
  <2>1. 1 \in 1 .. Len(s) /\ \A j \in 1 .. m : j + 1 \in 1 .. Len(s)
    BY <1>1
  <2> QED
    BY <1>1, <1>3, <2>1, Zenon DEF Informed
<1> QED
  BY <1>2, <1>3, Zenon DEF Informed

LEMMA ReadEventStep ==
  ASSUME ReadersInv, PhaseOK, epoch \in Nat, NEW c \in Conns, ReadEvent(c)
  PROVE  ReadersInv'
<1>1. PICK s \in Seq(Events), n \in Nat, sn \in Nat, wa \in BOOLEAN :
        s = inbox[c] /\ n = epoch /\ sn = seen[c] /\ wa = warned[c]
  BY Zenon DEF ReadersInv, ReadersOK
<1>2. s # << >> /\ missed[c] = FALSE /\ phase[c] = "loop" /\ missed' = missed /\ epoch' = epoch
  BY <1>1 DEF ReadEvent, ReadersInv, ReadersOK, lobbyVars, header
<1>3. s[1] \in Events /\ s[1].epoch \in Nat /\ Head(s) = s[1]
  BY <1>2, TailFacts DEF Events
<1>4. inbox' = [inbox EXCEPT ![c] = Tail(s)]
  BY <1>1 DEF ReadEvent
<1>5. /\ seen' = IF View(c, s[1]) THEN [seen EXCEPT ![c] = s[1].epoch] ELSE seen
      /\ warned' = IF View(c, s[1]) THEN [warned EXCEPT ![c] = FALSE] ELSE warned
  BY <1>1, <1>3 DEF ReadEvent, View
<1>6. ReadersOK'
  <2>1. Tail(s) \in Seq(Events)
    BY <1>2, TailFacts
  <2>2. inbox' \in [Conns -> Seq(Events)]
    BY <1>4, <2>1 DEF ReadersInv, ReadersOK
  <2>3. seen' \in [Conns -> Nat]
    BY <1>3, <1>5 DEF ReadersInv, ReadersOK
  <2>4. warned' \in [Conns -> BOOLEAN]
    BY <1>5 DEF ReadersInv, ReadersOK
  <2>5. missed' \in [Conns -> BOOLEAN]
    BY <1>2 DEF ReadersInv, ReadersOK
  <2> QED
    BY <2>2, <2>3, <2>4, <2>5 DEF ReadersOK
<1>7. /\ inbox'[c] = Tail(s)
      /\ seen'[c] = IF View(c, s[1]) THEN s[1].epoch ELSE sn
      /\ warned'[c] = IF View(c, s[1]) THEN FALSE ELSE wa
  BY <1>1, <1>4, <1>5 DEF ReadersInv, ReadersOK
<1>8. ASSUME NEW x \in Conns, x # c
      PROVE  phase'[x] = phase[x] /\ inbox'[x] = inbox[x] /\ seen'[x] = seen[x] /\ warned'[x] = warned[x]
  <2>1. phase' = phase \/ phase' = [phase EXCEPT ![c] = "over"]
    BY Zenon DEF ReadEvent
  <2> QED
    BY <1>4, <1>5, <1>8, <2>1 DEF ReadersInv, ReadersOK, PhaseOK
<1>9. Reads(c, phase'[c], inbox'[c], epoch, seen'[c], missed[c], warned'[c])
  <2>1. Len(s) <= Cap /\ sn <= n /\ \A i \in 1 .. Len(s) : s[i].epoch <= n
    BY <1>1, Zenon DEF ReadersInv, Reads
  <2>2. Informed(c, s, n, sn = n \/ wa)
    <3>1. Informed(c, s, n, sn = n \/ wa \/ missed[c])
      BY <1>1, <1>2, Zenon DEF ReadersInv, Reads, Served
    <3> QED
      BY <1>2, <3>1, Zenon DEF Informed
  <2>3. 1 \in 1 .. Len(s) /\ Len(Tail(s)) <= Cap
    <3>1. Len(s) \in Nat \ {0} /\ Len(Tail(s)) = Len(s) - 1 /\ Cap \in Nat
      BY <1>2, TailFacts, LobbyFeedConstants
    <3>2. Len(s) <= Cap
      BY <2>1, Zenon
    <3> QED
      BY <3>1, <3>2
  <2>4. seen'[c] <= n
    <3>1. s[1].epoch <= n /\ sn <= n
      BY <2>1, <2>3, Zenon
    <3> QED
      BY <1>7, <3>1, Zenon
  <2>5. ASSUME NEW i \in 1 .. Len(Tail(s)) PROVE Tail(s)[i].epoch <= n
    <3>0. Len(s) \in Nat \ {0} /\ i \in 1 .. (Len(s) - 1)
      BY <1>2, TailFacts
    <3>1. i + 1 \in 1 .. Len(s) /\ Tail(s)[i] = s[i + 1]
      BY <1>2, <3>0, TailFacts, SMTT(30)
    <3> QED
      BY <2>1, <3>1, Zenon
  <2>6. PICK known \in BOOLEAN, after \in BOOLEAN :
          (known <=> (sn = n \/ wa)) /\ (after <=> (seen'[c] = n \/ warned'[c]))
    OBVIOUS
  <2>7. Informed(c, s, n, known)
    BY <2>2, <2>6, Zenon DEF Informed
  <2>8. /\ View(c, s[1]) => (s[1].epoch = n => after)
        /\ ~View(c, s[1]) => (known => after)
    BY <1>7, <2>6, Zenon
  <2>9. Informed(c, Tail(s), n, after)
    BY <1>2, <2>7, <2>8, TailInformed
  <2>10. Informed(c, inbox'[c], epoch, seen'[c] = epoch \/ warned'[c] \/ missed[c])
    BY <1>1, <1>7, <2>6, <2>9, Zenon DEF Informed
  <2> QED
    BY <1>1, <1>7, <2>3, <2>4, <2>5, <2>10, Zenon DEF Reads
<1>10. ASSUME NEW x \in Conns
       PROVE  Reads(x, phase'[x], inbox'[x], epoch', seen'[x], missed'[x], warned'[x])
  BY <1>2, <1>8, <1>9, Zenon DEF ReadersInv
<1> QED
  BY <1>6, <1>10, Zenon DEF ReadersInv

LEMMA ReadLagStep ==
  ASSUME ReadersInv, epoch \in Nat, NEW c \in Conns, ReadLag(c)
  PROVE  ReadersInv'
<1>1. /\ UNCHANGED <<phase, inbox, seen>> /\ epoch' = epoch
      /\ missed' = [missed EXCEPT ![c] = FALSE] /\ warned' = [warned EXCEPT ![c] = TRUE]
  BY DEF ReadLag, lobbyVars, header
<1>2. ReadersOK'
  BY <1>1 DEF ReadersInv, ReadersOK
<1>3. ASSUME NEW x \in Conns
      PROVE  \/ missed'[x] = missed[x] /\ warned'[x] = warned[x]
             \/ warned'[x] = TRUE
  BY <1>1 DEF ReadersInv, ReadersOK
<1>4. ASSUME NEW x \in Conns
      PROVE  Reads(x, phase[x], inbox[x], epoch, seen[x], missed'[x], warned'[x])
  <2>1. Reads(x, phase[x], inbox[x], epoch, seen[x], missed[x], warned[x])
    BY DEF ReadersInv
  <2> QED
    BY <1>3, <2>1, Zenon DEF Reads, Informed
<1> QED
  BY <1>1, <1>2, <1>4, Zenon DEF ReadersInv

-----------------------------------------------------------------------------
(* What the clients of the directory sessions know.                        *)

WatchInv ==
  /\ notices \in [Watchers -> 0 .. Cap] /\ dir = [w \in Watchers |-> dir[w]]
  /\ \A w \in Watchers : phase[w] \in Served /\ notices[w] = 0 => dir[w] \in {Listing, None}

\* A notice waits for every directory session.
LEMMA NoticeStep ==
  ASSUME WatchInv, PhaseOK, Notifies, dir' = dir,
         \A w \in Watchers : phase'[w] \in Served => phase[w] \in Subscribed
  PROVE  WatchInv'
<1>1. Cap \in Nat \ {0} /\ \A w \in Watchers : notices[w] \in 0 .. Cap
  BY LobbyFeedConstants DEF WatchInv
<1>2. \A w \in Watchers : notices'[w] \in 0 .. Cap /\ (w \in Receivers => notices'[w] # 0)
  BY <1>1 DEF Notifies
<1>3. notices' \in [Watchers -> 0 .. Cap]
  BY <1>2 DEF Notifies
<1>4. \A w \in Watchers : phase'[w] \in Served => w \in Receivers
  BY DEF Receivers, Subscribed
<1>5. dir' = [w \in Watchers |-> dir'[w]]
  BY DEF WatchInv
<1> QED
  BY <1>2, <1>3, <1>4, <1>5, Zenon DEF WatchInv

\* Without a notice the lobby is listed as before, or it was not listed.
LEMMA SilentStep ==
  ASSUME WatchInv, UNCHANGED <<notices, dir>>, Listing' = Listing \/ Listing = None,
         \A w \in Watchers : phase'[w] \in Served => phase[w] \in Served
  PROVE  WatchInv'
<1>1. notices' \in [Watchers -> 0 .. Cap] /\ dir' = [w \in Watchers |-> dir'[w]]
  BY DEF WatchInv
<1>2. ASSUME NEW w \in Watchers, phase'[w] \in Served, notices'[w] = 0 PROVE dir'[w] \in {Listing', None}
  <2>1. dir[w] \in {Listing, None}
    BY <1>2 DEF WatchInv
  <2> QED
    BY <2>1
<1> QED
  BY <1>1, <1>2, Zenon DEF WatchInv

\* The listing is made of these.
LEMMA ListingFrame ==
  ASSUME UNCHANGED <<present, status, subj, conn, selected>> PROVE Listing' = Listing
BY Zenon DEF Listing

FollowInv == PhaseOK /\ ReadersInv /\ WatchInv

\* Operations that send the new state and a notice, and those that send no notice.
LEMMA AnnouncedStep ==
  ASSUME FollowInv, epoch \in Nat, epoch' = epoch + 1, NEW es, Shows(es), Notifies,
         UNCHANGED <<phase, seen, warned, dir>>
  PROVE  FollowInv'
<1>1. PhaseOK' /\ \A x \in Conns \cup Watchers : phase'[x] \in Served => phase[x] \in Subscribed
  BY DEF FollowInv, PhaseOK, Served, Subscribed
<1>2. epoch' \in Nat /\ epoch <= epoch' /\ seen' \in [Conns -> Nat]
  BY DEF FollowInv, ReadersInv, ReadersOK
<1>3. ReadersInv'
  BY <1>1, <1>2, ShowsStep, Zenon DEF FollowInv
<1>4. WatchInv'
  BY <1>1, NoticeStep, Zenon DEF FollowInv
<1> QED
  BY <1>1, <1>3, <1>4 DEF FollowInv

LEMMA UnannouncedStep ==
  ASSUME FollowInv, epoch \in Nat, epoch' = epoch + 1, NEW es, Shows(es),
         Listing' = Listing \/ Listing = None, UNCHANGED <<phase, seen, warned, dir, notices>>
  PROVE  FollowInv'
<1>1. PhaseOK' /\ \A x \in Conns \cup Watchers : phase'[x] \in Served => phase[x] \in Subscribed
  BY DEF FollowInv, PhaseOK, Served, Subscribed
<1>2. epoch' \in Nat /\ epoch <= epoch' /\ seen' \in [Conns -> Nat]
  BY DEF FollowInv, ReadersInv, ReadersOK
<1>3. ReadersInv'
  BY <1>1, <1>2, ShowsStep, Zenon DEF FollowInv
<1>4. WatchInv'
  BY SilentStep, Zenon DEF FollowInv
<1> QED
  BY <1>1, <1>3, <1>4 DEF FollowInv

\* Steps in which the lobby that is seen and the channels stay as they are.
LEMMA NothingSent ==
  ASSUME FollowInv, epoch \in Nat, epoch' = epoch, UNCHANGED <<inbox, missed, notices, seen, warned, dir>>,
         UNCHANGED <<present, status, subj, conn, selected>>,
         PhaseOK', \A x \in Conns \cup Watchers : phase'[x] \in Served => phase[x] \in Served
  PROVE  FollowInv'
<1>1. ReadersInv'
  BY QuietStep, Zenon DEF FollowInv
<1>2. WatchInv'
  BY SilentStep, ListingFrame, Zenon DEF FollowInv
<1> QED
  BY <1>1, <1>2 DEF FollowInv

\* The events of the operations.
LEMMA StateShown ==
  ASSUME epoch' \in Nat, Sends(<<StateChanged>>) \/ Sends(<<LobbyClosed>>)
  PROVE  \E es : Shows(es)
<1>1. ASSUME NEW e \in Events, e.epoch = epoch', \A c \in Conns : View(c, e), Sends(<<e>>)
      PROVE  Shows(<<e>>)
  <2>1. <<e>> \in Seq(Events) /\ <<e>> # << >> /\ Len(<<e>>) = 1 /\ <<e>>[1] = e
    OBVIOUS
  <2>2. \A i \in 1 .. Len(<<e>>) : <<e>>[i].epoch <= epoch'
    BY <1>1, <2>1
  <2> QED
    BY <1>1, <2>1, <2>2, Zenon DEF Shows
<1>2. StateChanged \in Events /\ StateChanged.epoch = epoch' /\ \A c \in Conns : View(c, StateChanged)
  BY DEF StateChanged, Events, Kinds, View
<1>3. LobbyClosed \in Events /\ LobbyClosed.epoch = epoch' /\ \A c \in Conns : View(c, LobbyClosed)
  BY DEF LobbyClosed, Events, Kinds, View
<1> QED
  BY <1>1, <1>2, <1>3, Zenon

LEMMA TwoShown ==
  ASSUME epoch' \in Nat, NEW a \in Events, a.epoch = epoch', Sends(<<a, StateChanged>>)
  PROVE  Shows(<<a, StateChanged>>)
<1>1. PICK e \in Events : e = StateChanged /\ e.epoch = epoch' /\ \A c \in Conns : View(c, e)
  BY DEF StateChanged, Events, Kinds, View
<1>2. /\ <<a, e>> \in Seq(Events) /\ <<a, e>> # << >> /\ Len(<<a, e>>) = 2
      /\ <<a, e>>[1] = a /\ <<a, e>>[2] = e
  OBVIOUS
<1>3. \A i \in 1 .. Len(<<a, e>>) : <<a, e>>[i].epoch <= epoch'
  BY <1>1, <1>2
<1>4. Shows(<<a, e>>)
  BY <1>1, <1>2, <1>3, Zenon DEF Shows
<1> QED
  BY <1>1, <1>4, Zenon

-----------------------------------------------------------------------------
(* The steps of the lobby with its followers.                              *)

\* An open lobby has no selected game.
OpenInv == status = "Open" => selected = 0

LEMMA OpenStep ==
  ASSUME OpenInv, [LobbyNext]_lobbyVars PROVE OpenInv'
<1>1. CASE Joining
  BY <1>1, JoiningFrame, Zenon DEF OpenInv, game
<1>2. CASE Going
  BY <1>2, Zenon DEF OpenInv, Going, Disconnect, HostLeaves, Close, GuestLeaves, RemovePlayer, SetupStatus, game
<1>3. CASE Gaming
  <2>1. ASSUME NEW c \in Conns, SelectGame(c) \/ RequestGameLaunch(c) \/ PublishGameRoom(c) PROVE OpenInv'
    BY <2>1, Zenon DEF OpenInv, SelectGame, RequestGameLaunch, PublishGameRoom
  <2>2. ASSUME NEW c \in Conns, NEW p \in Players, NEW rd \in BOOLEAN, SetGameReadiness(c, p, rd)
        PROVE  OpenInv'
    BY <2>2, Zenon DEF OpenInv, SetGameReadiness
  <2>3. ASSUME NEW c \in Conns, NEW p \in Players, NEW e \in 1 .. epoch,
               MarkGameplayStarted(c, p, e) \/ ReturnToLobby(c, p, e)
        PROVE  OpenInv'
    BY <2>3, Zenon DEF OpenInv, MarkGameplayStarted, ReturnToLobby, SetupStatus
  <2>4. ASSUME NEW c \in Conns, NEW p \in Players, ReportActivity(c, p) \/ PrepareRelay(c, p)
        PROVE  OpenInv'
    BY <2>4, Zenon DEF OpenInv, ReportActivity, PrepareRelay, game
  <2> QED
    BY <1>3, <2>1, <2>2, <2>3, <2>4, Zenon DEF Gaming
<1>4. CASE Background
  BY <1>4, Zenon DEF OpenInv, Background, GrantRelay, RelayFails, VoiceRemoval, IdlePasses,
     ExpireIdleLobbies, Close, header, game
<1>5. CASE UNCHANGED lobbyVars
  BY <1>5, Zenon DEF OpenInv, lobbyVars, header, game
<1> QED
  BY <1>1, <1>2, <1>3, <1>4, <1>5, Zenon DEF LobbyNext

\* Joins, from a followed socket and from others.
LEMMA JoinFollow ==
  ASSUME FollowInv, epoch \in Nat, NEW c \in Conns, Connects(c) \/ Reconnects(c) \/ Joins(c)
  PROVE  FollowInv'
<1>1. Joining
  BY Zenon DEF Connects, Reconnects, Joins, Joining
<1>2. epoch' = epoch + 1 /\ epoch' \in Nat /\ epoch <= epoch'
  BY <1>1, JoiningFrame DEF BumpWithActivity
<1>3. PICK es : Shows(es)
  BY <1>2, StateShown, Zenon DEF Connects, Reconnects, Joins, JoinSession
<1>4. CASE Joins(c)
  BY <1>2, <1>3, <1>4, AnnouncedStep, Zenon DEF Joins, Rest
<1>5. CASE JoinSession(c)
  <2>1. /\ phase[c] \in {"none", "subscribed"} /\ Notifies /\ warned' = warned /\ dir' = dir
        /\ phase' = [phase EXCEPT ![c] = IF @ = "none" THEN @ ELSE "joined"]
        /\ seen' = [seen EXCEPT ![c] = IF phase[c] = "none" THEN @ ELSE epoch']
    BY <1>5, Zenon DEF JoinSession
  <2>2. PhaseOK'
    BY <2>1 DEF FollowInv, PhaseOK, Phases
  <2>3. \A x \in Conns \cup Watchers : phase'[x] \in Served => phase[x] \in Subscribed
    BY <2>1 DEF FollowInv, PhaseOK, Served, Subscribed
  <2>4. seen' \in [Conns -> Nat]
    BY <1>2, <2>1 DEF FollowInv, ReadersInv, ReadersOK
  <2>5. phase[c] = "none" \/ c \in Receivers
    BY <2>1 DEF Receivers
  <2>6. \A x \in Conns : seen'[x] = seen[x] \/ (x \in Receivers /\ seen'[x] = epoch')
    BY <2>1, <2>5 DEF FollowInv, ReadersInv, ReadersOK
  <2>7. ReadersInv'
    BY <1>2, <1>3, <2>1, <2>3, <2>4, <2>6, ShowsStep, Zenon DEF FollowInv
  <2>8. WatchInv'
    BY <2>1, <2>3, NoticeStep, Zenon DEF FollowInv
  <2> QED
    BY <2>2, <2>7, <2>8 DEF FollowInv
<1> QED
  BY <1>4, <1>5, Zenon DEF Connects, Reconnects

\* A session ends.
LEMMA DisconnectFollow ==
  ASSUME FollowInv, epoch \in Nat, NEW c \in Conns, Disconnects(c) PROVE FollowInv'
<1>1. /\ phase' = [phase EXCEPT ![c] = IF @ = "none" THEN @ ELSE "over"]
      /\ UNCHANGED <<seen, warned, dir>> /\ Disconnect(c)
  BY DEF Disconnects
<1>2. PhaseOK'
  BY <1>1 DEF FollowInv, PhaseOK, Phases
<1>3. \A x \in Conns \cup Watchers : phase'[x] \in Served => phase[x] \in Served
  BY <1>1 DEF FollowInv, PhaseOK, Served
<1>4. CASE epoch' = epoch
  <2>1. UNCHANGED <<inbox, missed, notices>>
    BY <1>4 DEF Disconnects, Quiet
  <2>2. UNCHANGED <<present, status, subj, conn, selected>>
    BY <1>1, <1>4 DEF Disconnect, Bump, game
  <2> QED
    BY <1>1, <1>2, <1>3, <1>4, <2>1, <2>2, NothingSent, Zenon
<1>5. CASE epoch' # epoch
  <2>1. epoch' \in Nat /\ epoch <= epoch'
    BY <1>1, <1>5 DEF Disconnect, Bump
  <2>2. Notifies /\ \E es : Shows(es)
    BY <1>5, <2>1, StateShown, Zenon DEF Disconnects
  <2>3. \A x \in Conns \cup Watchers : phase'[x] \in Served => phase[x] \in Subscribed
    BY <1>3 DEF Served, Subscribed
  <2>4. seen' \in [Conns -> Nat] /\ \A x \in Conns : seen'[x] = seen[x]
    BY <1>1 DEF FollowInv, ReadersInv, ReadersOK
  <2>5. ReadersInv'
    BY <1>1, <2>1, <2>2, <2>3, <2>4, ShowsStep, Zenon DEF FollowInv
  <2>6. WatchInv'
    BY <1>1, <2>2, <2>3, NoticeStep, Zenon DEF FollowInv
  <2> QED
    BY <1>2, <2>5, <2>6 DEF FollowInv
<1> QED
  BY <1>4, <1>5

\* Steps of a session that only move its phase.
LEMMA PhaseFollow ==
  ASSUME FollowInv, epoch \in Nat, NEW x \in Conns \cup Watchers, NEW ph \in Phases,
         phase' = [phase EXCEPT ![x] = ph], ph \in Served => phase[x] \in Served,
         UNCHANGED <<lobbyVars, lobbyReaders, watchers>>
  PROVE  FollowInv'
<1>1. PhaseOK'
  BY DEF FollowInv, PhaseOK
<1>2. \A y \in Conns \cup Watchers : phase'[y] \in Served => phase[y] \in Served
  BY DEF FollowInv, PhaseOK
<1>3. /\ epoch' = epoch /\ UNCHANGED <<inbox, missed, notices, seen, warned, dir>>
      /\ UNCHANGED <<present, status, subj, conn, selected>>
  BY Zenon DEF lobbyVars, header, slots, game, lobbyReaders, watchers
<1> QED
  BY <1>1, <1>2, <1>3, NothingSent, Zenon

LEMMA SessionFollow ==
  ASSUME FollowInv, epoch \in Nat, NEW c \in Conns, Session(c) PROVE FollowInv'
<1>1. CASE SubscribeLobby(c)
  BY <1>1, PhaseFollow, Zenon DEF SubscribeLobby, Phases, Served
<1>2. CASE JoinRefused(c)
  BY <1>2, PhaseFollow, Zenon DEF JoinRefused, Phases, Served
<1>3. CASE EnterLoop(c)
  BY <1>3, PhaseFollow, Zenon DEF EnterLoop, Phases, Served
<1>4. CASE Connects(c) \/ Reconnects(c) \/ Joins(c)
  BY <1>4, JoinFollow
<1>5. CASE Disconnects(c)
  BY <1>5, DisconnectFollow
<1>6. CASE ReadEvent(c)
  <2>1. ReadersInv'
    BY <1>6, ReadEventStep DEF FollowInv
  <2>2. phase' = phase \/ phase' = [phase EXCEPT ![c] = "over"]
    BY <1>6, Zenon DEF ReadEvent
  <2>3. PhaseOK' /\ \A w \in Watchers : phase'[w] \in Served => phase[w] \in Served
    BY <2>2 DEF FollowInv, PhaseOK, Phases, Served
  <2>4. UNCHANGED <<notices, dir>> /\ Listing' = Listing
    BY <1>6, ListingFrame, Zenon DEF ReadEvent, watchers, lobbyVars, header, slots, game
  <2>5. WatchInv'
    BY <2>3, <2>4, SilentStep, Zenon DEF FollowInv
  <2> QED
    BY <2>1, <2>3, <2>5 DEF FollowInv
<1>7. CASE ReadLag(c)
  <2>1. ReadersInv'
    BY <1>7, ReadLagStep DEF FollowInv
  <2>2. PhaseOK' /\ phase' = phase
    BY <1>7 DEF ReadLag, FollowInv, PhaseOK
  <2>3. UNCHANGED <<notices, dir>> /\ Listing' = Listing
    BY <1>7, ListingFrame, Zenon DEF ReadLag, watchers, lobbyVars, header, slots, game
  <2>4. WatchInv'
    BY <2>2, <2>3, SilentStep, Zenon DEF FollowInv
  <2> QED
    BY <2>1, <2>2, <2>4 DEF FollowInv
<1> QED
  BY <1>1, <1>2, <1>3, <1>4, <1>5, <1>6, <1>7, Zenon DEF Session

\* A directory session reads the listing as it is.
LEMMA WatcherFollow ==
  ASSUME FollowInv, epoch \in Nat, NEW w \in Watchers,
         Watch(w) \/ FirstSnapshot(w) \/ WatchLoop(w) \/ ReadNotice(w) \/ Unwatch(w)
  PROVE  FollowInv'
<1>0. w \notin Conns
  BY LobbyFeedConstants
<1>1. CASE Watch(w)
  BY <1>1, PhaseFollow, Zenon DEF Watch, Phases, Served
<1>2. CASE WatchLoop(w)
  BY <1>2, PhaseFollow, Zenon DEF WatchLoop, Phases, Served
<1>3. CASE Unwatch(w)
  BY <1>3, PhaseFollow, Zenon DEF Unwatch, Phases, Served
<1>4. ASSUME UNCHANGED <<lobbyVars, lobbyReaders>>, phase' = phase \/ phase' = [phase EXCEPT ![w] = "joined"],
             dir' = [dir EXCEPT ![w] = Listing], notices' \in [Watchers -> 0 .. Cap],
             \A x \in Watchers : x # w => notices'[x] = notices[x]
      PROVE  FollowInv'
  <2>1. PhaseOK' /\ \A x \in Conns \cup Watchers : x # w => phase'[x] = phase[x]
    BY <1>4 DEF FollowInv, PhaseOK, Phases
  <2>2. \A c \in Conns : phase'[c] = phase[c]
    BY <1>0, <2>1
  <2>3. epoch' = epoch /\ UNCHANGED <<inbox, missed, seen, warned>> /\ Listing' = Listing
    BY <1>4, ListingFrame, Zenon DEF lobbyReaders, lobbyVars, header, slots, game
  <2>4. ReadersInv'
    BY <2>2, <2>3, QuietStep, Zenon DEF FollowInv
  <2>5. dir'[w] = Listing /\ dir' = [x \in Watchers |-> dir'[x]] /\ \A x \in Watchers : x # w => dir'[x] = dir[x]
    BY <1>4 DEF FollowInv, WatchInv
  <2>6. ASSUME NEW x \in Watchers, phase'[x] \in Served, notices'[x] = 0 PROVE dir'[x] \in {Listing', None}
    <3>1. CASE x = w
      BY <2>3, <2>5, <3>1
    <3>2. CASE x # w
      <4>1. phase[x] \in Served /\ notices[x] = 0
        BY <1>4, <2>1, <2>6, <3>2
      <4>2. dir[x] \in {Listing, None}
        BY <4>1 DEF FollowInv, WatchInv
      <4> QED
        BY <2>3, <2>5, <3>2, <4>2
    <3> QED
      BY <3>1, <3>2
  <2>7. WatchInv'
    BY <1>4, <2>5, <2>6, Zenon DEF WatchInv
  <2> QED
    BY <2>1, <2>4, <2>7 DEF FollowInv
<1>5. CASE FirstSnapshot(w)
  <2>1. notices' \in [Watchers -> 0 .. Cap] /\ notices' = notices
    BY <1>5 DEF FirstSnapshot, FollowInv, WatchInv
  <2> QED
    BY <1>4, <1>5, <2>1, Zenon DEF FirstSnapshot
<1>6. CASE ReadNotice(w)
  <2>1. notices[w] \in 0 .. Cap /\ notices[w] > 0 /\ Cap \in Nat
    BY <1>6, LobbyFeedConstants DEF ReadNotice, FollowInv, WatchInv
  <2>2. notices[w] - 1 \in 0 .. Cap
    BY <2>1
  <2>3. notices' = [notices EXCEPT ![w] = notices[w] - 1]
    BY <1>6 DEF ReadNotice
  <2>4. notices' \in [Watchers -> 0 .. Cap] /\ \A x \in Watchers : x # w => notices'[x] = notices[x]
    BY <2>2, <2>3 DEF FollowInv, WatchInv
  <2> QED
    BY <1>4, <1>6, <2>4, Zenon DEF ReadNotice
<1> QED
  BY <1>1, <1>2, <1>3, <1>5, <1>6

\* Operations of the lobby that send its new state.
LEMMA ShownFollow ==
  ASSUME FollowInv, LobbyInv, OpenInv, epoch \in Nat, NEW c \in Conns,
         \/ Leaves(c) \/ Selects(c) \/ RequestsLaunch(c) \/ Publishes(c)
         \/ \E p \in Players : Removes(c, p) \/ SetsReadiness(c, p) \/ Starts(c, p) \/ Comeback(c, p)
  PROVE  FollowInv'
<1>1. ASSUME epoch' = epoch + 1, Announced PROVE FollowInv'
  <2>1. epoch' \in Nat /\ Sends(<<StateChanged>>) /\ Notifies /\ UNCHANGED <<phase, seen, warned, dir>>
    BY <1>1 DEF Announced, Rest
  <2>2. \E es : Shows(es)
    BY <2>1, StateShown
  <2> QED
    BY <1>1, <2>1, <2>2, AnnouncedStep, Zenon
<1>2. CASE Leaves(c) \/ Selects(c) \/ RequestsLaunch(c) \/ Publishes(c)
  <2>1. epoch' = epoch + 1 /\ Announced
    BY <1>2, Zenon DEF Leaves, Selects, RequestsLaunch, Publishes, HostLeaves, Close, Bump, GuestLeaves,
       SelectGame, RequestGameLaunch, PublishGameRoom, BumpWithActivity
  <2> QED
    BY <1>1, <2>1
<1>4. ASSUME NEW p \in Players, Removes(c, p) PROVE FollowInv'
  <2>0. epoch' = epoch + 1
    BY <1>4, Zenon DEF Removes, RemovePlayer, BumpWithActivity
  <2>1. epoch' = epoch + 1 /\ epoch' \in Nat
    BY <2>0
  <2>2. \E es : Shows(es)
    <3>1. CASE conn[p] # None
      <4>1. PlayerRemoved(conn[p]) \in Events /\ PlayerRemoved(conn[p]).epoch = epoch'
        BY <2>1, <3>1 DEF PlayerRemoved, Events, Kinds, LobbyInv, LobbyTypeOK, SlotsOK
      <4>2. Sends(<<PlayerRemoved(conn[p]), StateChanged>>)
        BY <1>4, <3>1 DEF Removes
      <4> QED
        BY <2>1, <4>1, <4>2, TwoShown, Zenon
    <3>2. CASE conn[p] = None
      BY <1>4, <2>1, <3>2, StateShown DEF Removes
    <3> QED
      BY <3>1, <3>2
  <2> QED
    BY <1>4, <2>1, <2>2, AnnouncedStep, Zenon DEF Removes
<1>5. ASSUME NEW p \in Players, Comeback(c, p) PROVE FollowInv'
  <2>0. epoch' = epoch + 1
    BY <1>5, Zenon DEF Comeback, ReturnToLobby, BumpWithActivity
  <2>1. epoch' = epoch + 1 /\ epoch' \in Nat
    BY <2>0
  <2>2. Returned \in Events /\ Returned.epoch = epoch'
    BY <2>1 DEF Returned, Events, Kinds
  <2>3. \E es : Shows(es)
    BY <1>5, <2>1, <2>2, TwoShown, Zenon DEF Comeback
  <2> QED
    BY <1>5, <2>1, <2>3, AnnouncedStep, Zenon DEF Comeback, Rest
<1>6. ASSUME NEW p \in Players, SetsReadiness(c, p) \/ Starts(c, p) PROVE FollowInv'
  <2>0. epoch' = epoch + 1 /\ Unannounced
    BY <1>6, Zenon DEF SetsReadiness, Starts, SetGameReadiness, MarkGameplayStarted, BumpWithActivity
  <2>1. epoch' = epoch + 1 /\ epoch' \in Nat /\ Unannounced
    BY <2>0
  <2>2. UNCHANGED <<present, subj, conn, selected>>
    BY <1>6, Zenon DEF SetsReadiness, Starts, SetGameReadiness, MarkGameplayStarted, slots
  <2>3. status' = status \/ status \notin {"Open", "GameSelected"}
    <3>1. CASE SetsReadiness(c, p)
      BY <3>1, Zenon DEF SetsReadiness, SetGameReadiness, OpenInv
    <3>2. CASE Starts(c, p)
      BY <3>2, Zenon DEF Starts, MarkGameplayStarted, LobbyInv, GameInv, LaunchMatchesSelection
    <3> QED
      BY <1>6, <3>1, <3>2
  <2>4. Listing' = Listing \/ Listing = None
    <3>1. status \notin {"Open", "GameSelected"} => Listing = None
      BY Zenon DEF Listing
    <3> QED
      BY <2>2, <2>3, <3>1, ListingFrame, Zenon
  <2>5. \E es : Shows(es)
    BY <2>1, StateShown DEF Unannounced
  <2> QED
    BY <2>1, <2>4, <2>5, UnannouncedStep, Zenon DEF Unannounced, Rest
<1> QED
  BY <1>2, <1>4, <1>5, <1>6, Zenon

\* Expiry shows everybody the closed lobby.
LEMMA ExpiryFollow == ASSUME FollowInv, epoch \in Nat, Expires PROVE FollowInv'
<1>1. epoch' = epoch + 1
  BY DEF Expires, ExpireIdleLobbies, Close, Bump
<1>2. \E es : Shows(es)
  BY <1>1, StateShown DEF Expires
<1> QED
  BY <1>1, <1>2, AnnouncedStep, Zenon DEF Expires, Rest

\* Operations of the lobby that show nobody anything.
LEMMA SilentFollow ==
  ASSUME FollowInv, epoch \in Nat, UNCHANGED <<present, status, epoch, subj, conn, selected>>,
         Quiet, Rest
  PROVE  FollowInv'
<1>1. UNCHANGED <<inbox, missed, notices, seen, warned, dir>> /\ phase' = phase
  BY DEF Quiet, Rest
<1>2. PhaseOK'
  BY <1>1 DEF FollowInv, PhaseOK
<1> QED
  BY <1>1, <1>2, NothingSent, Zenon

\* Chat messages and grants are no views.
LEMMA TalkFollow ==
  ASSUME FollowInv, epoch \in Nat, UNCHANGED <<present, status, epoch, subj, conn, selected>>,
         NEW es \in Seq(Events), Sends(es), \A c \in Conns : NoView(c, es), UNCHANGED notices, Rest
  PROVE  FollowInv'
<1>1. UNCHANGED <<notices, seen, warned, dir>> /\ phase' = phase
  BY DEF Rest
<1>2. PhaseOK'
  BY <1>1 DEF FollowInv, PhaseOK
<1>3. ReadersInv'
  BY <1>1, TalksStep, Zenon DEF FollowInv
<1>4. WatchInv'
  BY <1>1, SilentStep, ListingFrame, Zenon DEF FollowInv
<1> QED
  BY <1>2, <1>3, <1>4 DEF FollowInv

LEMMA ChatIsNoView ==
  <<Chat>> \in Seq(Events) /\ \A c \in Conns : NoView(c, <<Chat>>)
<1>1. PICK e \in Events : e = Chat /\ e.epoch = 0 /\ \A c \in Conns : ~View(c, e)
  <2>1. Chat \in Events /\ Chat.epoch = 0
    BY DEF Chat, Events, Kinds
  <2>2. Chat.kind \in {"chat", "grant"}
    BY DEF Chat
  <2>3. \A c \in Conns : ~View(c, Chat)
    BY <2>2, Zenon DEF View
  <2> QED
    BY <2>1, <2>3, Zenon
<1>2. <<e>> \in Seq(Events) /\ Len(<<e>>) = 1 /\ <<e>>[1] = e
  OBVIOUS
<1>3. \A c \in Conns : NoView(c, <<e>>)
  BY <1>1, <1>2 DEF NoView
<1> QED
  BY <1>1, <1>2, <1>3, Zenon

LEMMA GrantsAreNoViews ==
  ASSUME NEW a \in Conns, NEW b \in Conns
  PROVE  /\ <<Granted(a), Granted(b)>> \in Seq(Events)
         /\ \A c \in Conns : NoView(c, <<Granted(a), Granted(b)>>)
<1>1. PICK e \in Events : e = Granted(a) /\ e.epoch = 0 /\ \A c \in Conns : ~View(c, e)
  <2>1. Granted(a) \in Events /\ Granted(a).epoch = 0
    BY DEF Granted, Events, Kinds
  <2>2. Granted(a).kind \in {"chat", "grant"}
    BY DEF Granted
  <2>3. \A c \in Conns : ~View(c, Granted(a))
    BY <2>2, Zenon DEF View
  <2> QED
    BY <2>1, <2>3, Zenon
<1>2. PICK f \in Events : f = Granted(b) /\ f.epoch = 0 /\ \A c \in Conns : ~View(c, f)
  <2>1. Granted(b) \in Events /\ Granted(b).epoch = 0
    BY DEF Granted, Events, Kinds
  <2>2. Granted(b).kind \in {"chat", "grant"}
    BY DEF Granted
  <2>3. \A c \in Conns : ~View(c, Granted(b))
    BY <2>2, Zenon DEF View
  <2> QED
    BY <2>1, <2>3, Zenon
<1>3. <<e, f>> \in Seq(Events) /\ Len(<<e, f>>) = 2 /\ <<e, f>>[1] = e /\ <<e, f>>[2] = f
  OBVIOUS
<1>4. \A c \in Conns : NoView(c, <<e, f>>)
  BY <1>1, <1>2, <1>3 DEF NoView
<1> QED
  BY <1>1, <1>2, <1>3, <1>4, Zenon

LEMMA QuietFollow ==
  ASSUME FollowInv, LobbyInv, epoch \in Nat,
         \/ \E c \in Conns, p \in Players : Chats(c, p) \/ Reports(c, p) \/ PreparesRelay(c, p)
         \/ \E i \in intents : AnswersRelay(i)
         \/ TimePasses
  PROVE  FollowInv'
<1>1. UNCHANGED <<present, status, epoch, subj, conn, selected>>
  <2>1. ASSUME NEW c \in Conns, NEW p \in Players, Chats(c, p) \/ Reports(c, p) \/ PreparesRelay(c, p)
        PROVE  UNCHANGED <<present, status, epoch, subj, conn, selected>>
    BY <2>1, Zenon DEF Chats, Reports, PreparesRelay, ReportActivity, PrepareRelay, slots, game
  <2>2. ASSUME NEW i \in intents, AnswersRelay(i)
        PROVE  UNCHANGED <<present, status, epoch, subj, conn, selected>>
    BY <2>2, Zenon DEF AnswersRelay, GrantsRelay, GrantRelay, RelayFails, header, slots, game
  <2>3. ASSUME TimePasses PROVE UNCHANGED <<present, status, epoch, subj, conn, selected>>
    BY <2>3, Zenon DEF TimePasses, IdlePasses, VoiceRemoval, header, slots, game
  <2> QED
    BY <2>1, <2>2, <2>3, Zenon
<1>2. ASSUME NEW c \in Conns, NEW p \in Players, Chats(c, p) PROVE FollowInv'
  BY <1>1, <1>2, TalkFollow, ChatIsNoView, Zenon DEF Chats
<1>3. ASSUME NEW c \in Conns, NEW p \in Players, Reports(c, p) \/ PreparesRelay(c, p) PROVE FollowInv'
  BY <1>1, <1>3, SilentFollow, Zenon DEF Reports, PreparesRelay
<1>4. ASSUME NEW i \in intents, GrantsRelay(i) PROVE FollowInv'
  <2>1. i.sender \in Conns /\ i.receiver \in Conns
    BY DEF LobbyInv, LobbyTypeOK, CallsOK, Intents
  <2>2. CASE RelayCurrent(i)
    <3>1. Sends(<<Granted(i.sender), Granted(i.receiver)>>) /\ UNCHANGED notices /\ Rest
      BY <1>4, <2>2, Zenon DEF GrantsRelay
    <3> QED
      BY <1>1, <2>1, <3>1, TalkFollow, GrantsAreNoViews, Zenon
  <2>3. CASE ~RelayCurrent(i)
    <3>1. Quiet /\ Rest
      BY <1>4, <2>3, Zenon DEF GrantsRelay, Quiet
    <3> QED
      BY <1>1, <3>1, SilentFollow, Zenon
  <2> QED
    BY <2>2, <2>3
<1>5. ASSUME NEW i \in intents, RelayFails(i) /\ Quiet /\ Rest PROVE FollowInv'
  BY <1>1, <1>5, SilentFollow, Zenon
<1>6. ASSUME TimePasses PROVE FollowInv'
  BY <1>1, <1>6, SilentFollow, Zenon DEF TimePasses
<1> QED
  BY <1>2, <1>3, <1>4, <1>5, <1>6, Zenon DEF AnswersRelay

\* Only remove_player expels.
LEMMA ExpelledStep ==
  ASSUME LobbyInv, FeedNext
  PROVE  \/ expelled' = expelled
         \/ \E c \in Conns, p \in Players : Removes(c, p)
<1>1. ASSUME NEW c \in Conns, Session(c) PROVE expelled' = expelled
  <2>1. CASE SubscribeLobby(c) \/ JoinRefused(c) \/ EnterLoop(c) \/ ReadEvent(c) \/ ReadLag(c)
    BY <2>1, Zenon DEF SubscribeLobby, JoinRefused, EnterLoop, ReadEvent, ReadLag
  <2>2. CASE Connects(c) \/ Reconnects(c) \/ Joins(c) \/ Disconnects(c)
    BY <2>2, Zenon DEF Connects, Reconnects, JoinSession, Joins, Disconnects, Rest
  <2> QED
    BY <1>1, <2>1, <2>2, Zenon DEF Session
<1>2. ASSUME NEW c \in Conns, Operation(c)
      PROVE  expelled' = expelled \/ \E p \in Players : Removes(c, p)
  BY <1>2, Zenon DEF Operation, Leaves, Selects, RequestsLaunch, Publishes, SetsReadiness, Starts, Comeback,
     Chats, Reports, PreparesRelay, Announced, Unannounced, Rest
<1>3. ASSUME (\E i \in intents : AnswersRelay(i)) \/ Expires \/ TimePasses PROVE expelled' = expelled
  BY <1>3, Zenon DEF AnswersRelay, GrantsRelay, Expires, TimePasses, Rest
<1>4. ASSUME NEW w \in Watchers,
             Watch(w) \/ FirstSnapshot(w) \/ WatchLoop(w) \/ ReadNotice(w) \/ Unwatch(w)
      PROVE  expelled' = expelled
  BY <1>4, Zenon DEF Watch, FirstSnapshot, WatchLoop, ReadNotice, Unwatch
<1> QED
  BY <1>1, <1>2, <1>3, <1>4, Zenon DEF FeedNext

\* The inductive invariant of a lobby with its followers.
FeedInv == LobbyInv /\ epoch \in Nat \ {0} /\ OpenInv /\ FollowInv /\ expelled \subseteq Conns

LEMMA FeedInitInv == FeedInit => OpenInv /\ FollowInv /\ expelled \subseteq Conns
<1> SUFFICES ASSUME FeedInit PROVE OpenInv /\ FollowInv /\ expelled \subseteq Conns
  OBVIOUS
<1>1. OpenInv /\ expelled \subseteq Conns
  BY DEF FeedInit, LobbyInit, OpenInv
<1>2. PICK active \in Actives :
        phase = [x \in Conns \cup Watchers |-> IF x \in active THEN "new" ELSE "none"]
  BY DEF FeedInit
<1>3. PhaseOK /\ \A x \in Conns \cup Watchers : phase[x] \notin Served
  BY <1>2 DEF PhaseOK, Phases, Served
<1>4. 0 <= epoch /\ 0 <= Cap
  <2>1. epoch = 1
    BY Zenon DEF FeedInit, LobbyInit
  <2> QED
    BY <2>1, LobbyFeedConstants
<1>5. << >> \in Seq(Events) /\ Len(<< >>) = 0
  OBVIOUS
<1>6. ReadersOK
  BY <1>5 DEF FeedInit, ReadersOK
<1>7. ASSUME NEW c \in Conns
      PROVE  Reads(c, phase[c], inbox[c], epoch, seen[c], missed[c], warned[c])
  <2>1. phase[c] \notin Served
    BY <1>3
  <2>2. inbox[c] = << >> /\ seen[c] = 0
    BY DEF FeedInit
  <2>3. Len(inbox[c]) <= Cap /\ seen[c] <= epoch /\ \A i \in 1 .. Len(inbox[c]) : inbox[c][i].epoch <= epoch
    <3>1. Len(inbox[c]) = 0 /\ Len(inbox[c]) <= Cap /\ seen[c] <= epoch
      BY <1>4, <1>5, <2>2, Zenon
    <3>2. ~ \E i \in 1 .. Len(inbox[c]) : TRUE
      BY <3>1
    <3> QED
      BY <3>1, <3>2, Zenon
  <2> QED
    BY <2>1, <2>3, Zenon DEF Reads
<1>8. WatchInv
  <2>1. \A w \in Watchers : phase[w] \notin Served
    BY <1>3
  <2>2. notices \in [Watchers -> 0 .. Cap] /\ dir = [w \in Watchers |-> dir[w]]
    BY <1>4 DEF FeedInit
  <2> QED
    BY <2>1, <2>2, Zenon DEF WatchInv
<1> QED
  BY <1>1, <1>3, <1>6, <1>7, <1>8, Zenon DEF FollowInv, ReadersInv

LEMMA FeedStep ==
  ASSUME FeedInv, [FeedNext]_feedVars PROVE OpenInv' /\ FollowInv' /\ expelled' \subseteq Conns
<1>0. epoch \in Nat /\ LobbyInv /\ OpenInv /\ FollowInv
  BY DEF FeedInv
<1>1. OpenInv'
  <2>1. [LobbyNext]_lobbyVars
    BY FeedStepIsLobbyStep, Zenon DEF FeedInv, feedVars
  <2> QED
    BY <1>0, <2>1, OpenStep
<1>2. CASE FeedNext
  <2>1. ASSUME NEW c \in Conns, Session(c) PROVE FollowInv'
    BY <1>0, <2>1, SessionFollow, Zenon
  <2>2. ASSUME NEW c \in Conns, Operation(c) PROVE FollowInv'
    <3>1. CASE \/ Leaves(c) \/ Selects(c) \/ RequestsLaunch(c) \/ Publishes(c)
               \/ \E p \in Players : Removes(c, p) \/ SetsReadiness(c, p) \/ Starts(c, p) \/ Comeback(c, p)
      BY <1>0, <3>1, ShownFollow, Zenon
    <3>2. CASE \E p \in Players : Chats(c, p) \/ Reports(c, p) \/ PreparesRelay(c, p)
      BY <1>0, <3>2, QuietFollow, Zenon
    <3> QED
      BY <2>2, <3>1, <3>2, Zenon DEF Operation
  <2>3. ASSUME (\E i \in intents : AnswersRelay(i)) \/ TimePasses PROVE FollowInv'
    BY <1>0, <2>3, QuietFollow, Zenon
  <2>4. ASSUME Expires PROVE FollowInv'
    BY <1>0, <2>4, ExpiryFollow
  <2>5. ASSUME NEW w \in Watchers,
               Watch(w) \/ FirstSnapshot(w) \/ WatchLoop(w) \/ ReadNotice(w) \/ Unwatch(w)
        PROVE  FollowInv'
    BY <1>0, <2>5, WatcherFollow, Zenon
  <2>6. FollowInv'
    BY <1>2, <2>1, <2>2, <2>3, <2>4, <2>5, Zenon DEF FeedNext
  <2>7. expelled' \subseteq Conns
    <3>1. ASSUME NEW c \in Conns, NEW p \in Players, Removes(c, p) PROVE expelled' \subseteq Conns
      BY <1>0, <3>1 DEF Removes, FeedInv, LobbyInv, LobbyTypeOK, SlotsOK
    <3> QED
      BY <1>0, <1>2, <3>1, ExpelledStep DEF FeedInv
  <2> QED
    BY <1>1, <2>6, <2>7
<1>3. CASE UNCHANGED feedVars
  <2>1. /\ UNCHANGED <<lobbyVars, lobbyReaders, watchers, phase, expelled>>
    BY <1>3, Zenon DEF feedVars, readers
  <2>2. PhaseOK' /\ phase' = phase
    BY <2>1 DEF FeedInv, FollowInv, PhaseOK
  <2>3. /\ UNCHANGED <<inbox, missed, notices, seen, warned, dir>>
        /\ UNCHANGED <<present, status, subj, conn, selected, epoch>>
    BY <2>1, Zenon DEF lobbyReaders, watchers, lobbyVars, header, slots, game
  <2>4. FollowInv'
    BY <1>0, <2>2, <2>3, NothingSent, Zenon
  <2> QED
    BY <1>1, <2>1, <2>4 DEF FeedInv
<1> QED
  BY <1>2, <1>3

LEMMA FeedInvariance == FeedSpec => []FeedInv
<1>1. FeedSpec => []LobbyInv /\ [](epoch \in Nat \ {0})
  BY FeedFollowsLobby, LobbyInvariance, PTL
<1>2. LobbyInv /\ epoch \in Nat \ {0} /\ OpenInv /\ FollowInv /\ expelled \subseteq Conns <=> FeedInv
  BY DEF FeedInv
<1>3. FeedInv /\ [FeedNext]_feedVars => (OpenInv /\ FollowInv /\ expelled \subseteq Conns)'
  BY FeedStep
<1> QED
  BY <1>1, <1>2, <1>3, FeedInitInv, PTL DEF FeedSpec

\* A client that has read all its events shows the lobby as it is or was told that it missed
\* some, and the channels keep within their capacity, for any number of sockets and any
\* capacity (emit_state_changed, handle_websocket_lobby_session).
THEOREM SessionsShowTheLobby == FeedSpec => []ShowsCurrentLobby
<1>1. FeedInv => ShowsCurrentLobby
  <2> SUFFICES ASSUME FeedInv PROVE ShowsCurrentLobby
    OBVIOUS
  <2>1. ASSUME NEW c \in Conns
        PROVE  /\ Len(inbox[c]) <= Cap /\ seen[c] \in 0 .. epoch
               /\ phase[c] = "loop" /\ inbox[c] = << >> /\ ~missed[c] => seen[c] = epoch \/ warned[c]
    <3>1. Reads(c, phase[c], inbox[c], epoch, seen[c], missed[c], warned[c])
      BY DEF FeedInv, FollowInv, ReadersInv
    <3>2. seen[c] \in Nat /\ epoch \in Nat
      BY DEF FeedInv, FollowInv, ReadersInv, ReadersOK
    <3>3. Len(inbox[c]) <= Cap /\ seen[c] <= epoch
      BY <3>1, Zenon DEF Reads
    <3>4. seen[c] \in 0 .. epoch
      BY <3>2, <3>3
    <3>5. ASSUME phase[c] = "loop", inbox[c] = << >>, ~missed[c] PROVE seen[c] = epoch \/ warned[c]
      <4>1. Informed(c, << >>, epoch, seen[c] = epoch \/ warned[c] \/ missed[c])
        BY <3>1, <3>5, Zenon DEF Reads, Served
      <4>2. ~ \E k \in 1 .. Len(<< >>) : TRUE
        OBVIOUS
      <4> QED
        BY <3>5, <4>1, <4>2, Zenon DEF Informed
    <3> QED
      BY <3>3, <3>4, <3>5, Zenon
  <2>2. /\ phase \in [Conns \cup Watchers -> {"none", "new", "subscribed", "joined", "loop", "over"}]
        /\ missed \in [Conns -> BOOLEAN] /\ warned \in [Conns -> BOOLEAN]
        /\ expelled \subseteq Conns /\ notices \in [Watchers -> 0 .. Cap]
    BY Zenon DEF FeedInv, FollowInv, PhaseOK, Phases, ReadersInv, ReadersOK, WatchInv
  <2> QED
    BY <2>1, <2>2, Zenon DEF ShowsCurrentLobby, FeedTypeOK
<1> QED
  BY <1>1, FeedInvariance, PTL

\* What a directory session shows once it has read its notices can be joined as listed: every
\* operation that takes a listed lobby away sends a notice in its critical section
\* (emit_public_lobbies_changed).
THEOREM DirectoryIsCurrent == FeedSpec => []ListedIsCurrent
<1>1. FeedInv => ListedIsCurrent
  BY Zenon DEF FeedInv, FollowInv, WatchInv, ListedIsCurrent, Served
<1> QED
  BY <1>1, FeedInvariance, PTL

\* What sending does to a removal that waits or is sent.
LEMMA RemovalSent ==
  ASSUME ReadersInv, NEW es \in Seq(Events), Sends(es), NEW c \in Conns,
         Awaits(c, inbox[c]) \/ (c \in Receivers /\ Awaits(c, es))
  PROVE  Awaits(c, inbox'[c]) \/ missed'[c]
<1>1. inbox[c] \in Seq(Events) /\ Len(inbox[c]) <= Cap
  BY DEF ReadersInv, ReadersOK, Reads
<1>2. CASE c \in Receivers
  <2>1. Took(inbox[c], es, inbox'[c]) /\ (missed'[c] <=> (missed[c] \/ Len(inbox[c]) + Len(es) > Cap))
    BY <1>2, SendsFacts, Zenon
  <2>2. CASE Len(inbox[c]) + Len(es) > Cap
    BY <2>1, <2>2, Zenon
  <2>3. CASE ~(Len(inbox[c]) + Len(es) > Cap)
    BY <1>1, <2>1, <2>3, RemovalKept, Zenon
  <2> QED
    BY <2>2, <2>3
<1>3. CASE c \notin Receivers
  BY <1>3, SendsFacts, Zenon
<1> QED
  BY <1>2, <1>3

\* How a step of the lobby and its followers touches an inbox.
LEMMA InboxStep ==
  ASSUME FeedInv, FeedNext
  PROVE  \/ inbox' = inbox
         \/ \E es \in Seq(Events) : Sends(es)
         \/ \E c \in Conns : ReadEvent(c)
<1>0. /\ LobbyInv /\ epoch \in Nat /\ epoch' \in Nat
      /\ \A p \in Players : conn[p] # None => conn[p] \in Conns
  <2>1. [LobbyNext]_lobbyVars
    BY FeedStepIsLobbyStep, Zenon DEF FeedInv
  <2>2. epoch' \in {epoch, epoch + 1}
    BY <2>1, EpochStep
  <2> QED
    BY <2>2, SMTT(30) DEF FeedInv, LobbyInv, LobbyTypeOK, SlotsOK
<1> DEFINE Sent == \E es \in Seq(Events) : Sends(es)
<1>1. Sends(<<StateChanged>>) \/ Sends(<<LobbyClosed>>) => Sent
  BY <1>0, StateShown, Zenon DEF Shows
<1>2. ASSUME NEW c \in Conns, Session(c) PROVE inbox' = inbox \/ Sent \/ ReadEvent(c)
  <2>1. CASE SubscribeLobby(c) \/ JoinRefused(c) \/ EnterLoop(c) \/ ReadLag(c)
    BY <2>1, Zenon DEF SubscribeLobby, JoinRefused, EnterLoop, ReadLag, lobbyReaders
  <2>2. CASE Connects(c) \/ Reconnects(c) \/ Joins(c) \/ Disconnects(c)
    BY <1>1, <2>2, Zenon DEF Connects, Reconnects, JoinSession, Joins, Disconnects, Quiet
  <2> QED
    BY <1>2, <2>1, <2>2, Zenon DEF Session
<1>3. ASSUME NEW c \in Conns, Operation(c) PROVE inbox' = inbox \/ Sent
  <2>1. ASSUME NEW p \in Players, Removes(c, p) PROVE Sent
    <3>1. CASE conn[p] # None
      <4>1. PlayerRemoved(conn[p]) \in Events /\ PlayerRemoved(conn[p]).epoch = epoch'
        BY <1>0, <3>1 DEF PlayerRemoved, Events, Kinds
      <4>2. Sends(<<PlayerRemoved(conn[p]), StateChanged>>)
        BY <2>1, <3>1 DEF Removes
      <4> QED
        BY <1>0, <4>1, <4>2, TwoShown, Zenon DEF Shows
    <3>2. CASE conn[p] = None
      BY <1>1, <2>1, <3>2 DEF Removes
    <3> QED
      BY <3>1, <3>2
  <2>2. ASSUME NEW p \in Players, Comeback(c, p) PROVE Sent
    <3>1. Returned \in Events /\ Returned.epoch = epoch'
      BY <1>0 DEF Returned, Events, Kinds
    <3> QED
      BY <1>0, <2>2, <3>1, TwoShown, Zenon DEF Shows, Comeback
  <2>3. ASSUME NEW p \in Players, Chats(c, p) PROVE Sent
    BY <2>3, ChatIsNoView, Zenon DEF Chats
  <2> QED
    BY <1>1, <1>3, <2>1, <2>2, <2>3, Zenon DEF Operation, Leaves, Selects, RequestsLaunch, Publishes,
       SetsReadiness, Starts, Reports, PreparesRelay, Announced, Unannounced, Quiet
<1>4. ASSUME NEW i \in intents, AnswersRelay(i) PROVE inbox' = inbox \/ Sent
  <2>1. i.sender \in Conns /\ i.receiver \in Conns
    BY <1>0 DEF LobbyInv, LobbyTypeOK, CallsOK, Intents
  <2> QED
    BY <1>4, <2>1, GrantsAreNoViews, Zenon DEF AnswersRelay, GrantsRelay, Quiet
<1>5. ASSUME Expires \/ TimePasses PROVE inbox' = inbox \/ Sent
  BY <1>1, <1>5, Zenon DEF Expires, TimePasses, Quiet
<1>6. ASSUME NEW w \in Watchers,
             Watch(w) \/ FirstSnapshot(w) \/ WatchLoop(w) \/ ReadNotice(w) \/ Unwatch(w)
      PROVE  inbox' = inbox
  BY <1>6, Zenon DEF Watch, FirstSnapshot, WatchLoop, ReadNotice, Unwatch, lobbyReaders
<1> QED
  BY <1>2, <1>3, <1>4, <1>5, <1>6, Zenon DEF FeedNext

\* Reading takes a removal out only to end the session.
LEMMA RemovalRead ==
  ASSUME FollowInv, NEW d \in Conns, ReadEvent(d), NEW c \in Conns, Awaits(c, inbox[c])
  PROVE  Awaits(c, inbox'[c]) \/ phase'[c] = "over"
<1>1. inbox \in [Conns -> Seq(Events)] /\ phase \in [Conns \cup Watchers -> Phases]
  BY DEF FollowInv, ReadersInv, ReadersOK, PhaseOK
<1>2. inbox' = [inbox EXCEPT ![d] = Tail(inbox[d])]
  BY DEF ReadEvent
<1>3. CASE c # d
  <2>1. inbox'[c] = inbox[c]
    BY <1>1, <1>2, <1>3
  <2> QED
    BY <2>1
<1>4. CASE c = d
  <2>1. PICK s \in Seq(Events) : s = inbox[c]
    BY <1>1
  <2>2. inbox'[c] = Tail(s) /\ s # << >>
    BY <1>1, <1>2, <1>4, <2>1 DEF ReadEvent
  <2>3. PICK i \in 1 .. Len(s) : s[i].kind = "removed" /\ c \in s[i].to
    BY <2>1, Zenon DEF Awaits
  <2>4. /\ Len(s) \in Nat \ {0} /\ Len(Tail(s)) = Len(s) - 1 /\ Head(s) = s[1]
        /\ \A j \in 1 .. (Len(s) - 1) : Tail(s)[j] = s[j + 1]
    BY <2>2, TailFacts
  <2>5. CASE i = 1
    <3>1. c \in Head(s).to /\ EndsSession(Head(s))
      BY <2>3, <2>4, <2>5 DEF EndsSession
    <3>2. phase' = [phase EXCEPT ![c] = "over"]
      BY <1>4, <2>1, <3>1, Zenon DEF ReadEvent
    <3> QED
      BY <1>1, <3>2
  <2>6. CASE i # 1
    <3>1. PICK j \in 1 .. (Len(s) - 1) : i = j + 1
      <4>1. Len(s) \in Nat /\ i \in 1 .. Len(s)
        BY <2>3, <2>4, Zenon
      <4>2. i - 1 \in 1 .. (Len(s) - 1) /\ i = (i - 1) + 1
        BY <2>6, <4>1
      <4> QED
        BY <4>2, Zenon
    <3>2. Tail(s)[j] = s[i] /\ j \in 1 .. Len(Tail(s))
      BY <2>4, <3>1
    <3>3. Awaits(c, Tail(s))
      BY <2>3, <3>2, Zenon DEF Awaits
    <3> QED
      BY <2>2, <3>3
  <2> QED
    BY <2>5, <2>6
<1> QED
  BY <1>3, <1>4

\* A removed player's session is told: the removal reaches a session that has subscribed, and
\* leaves its inbox only by ending the session or with the news that events were lost
\* (emit_player_removed, handle_lobby_event).
THEOREM RemovalEndsSession == FeedSpec => RemovalIsTerminal
<1> DEFINE Told(c) ==
             /\ c \in expelled' \ expelled /\ c \in Receivers => AwaitsRemoval(c)' \/ missed'[c]
             /\ AwaitsRemoval(c) /\ ~AwaitsRemoval(c)' => phase'[c] = "over" \/ missed'[c]
<1>1. ASSUME FeedInv, FeedInv', FeedNext, NEW c \in Conns PROVE Told(c)
  <2>0. ReadersInv /\ FollowInv /\ LobbyInv
    BY <1>1 DEF FeedInv, FollowInv
  <2>1. inbox[c] \in Seq(Events) /\ inbox'[c] \in Seq(Events)
    BY <1>1 DEF FeedInv, FollowInv, ReadersInv, ReadersOK
  <2>2. DOMAIN inbox[c] = 1 .. Len(inbox[c]) /\ DOMAIN (inbox'[c]) = 1 .. Len(inbox'[c])
    BY <2>1
  <2>3. AwaitsRemoval(c) <=> Awaits(c, inbox[c])
    BY <2>2, Zenon DEF AwaitsRemoval, Awaits
  <2>4. AwaitsRemoval(c)' <=> Awaits(c, inbox'[c])
    BY <2>2, Zenon DEF AwaitsRemoval, Awaits
  <2>5. ASSUME Awaits(c, inbox[c]), ~Awaits(c, inbox'[c]) PROVE phase'[c] = "over" \/ missed'[c]
    <3>1. CASE inbox' = inbox
      BY <2>5, <3>1
    <3>2. CASE \E es \in Seq(Events) : Sends(es)
      BY <2>0, <2>5, <3>2, RemovalSent, Zenon
    <3>3. CASE \E d \in Conns : ReadEvent(d)
      BY <2>0, <2>5, <3>3, RemovalRead, Zenon
    <3> QED
      BY <1>1, <3>1, <3>2, <3>3, InboxStep
  <2>6. ASSUME c \in expelled' \ expelled, c \in Receivers PROVE Awaits(c, inbox'[c]) \/ missed'[c]
    <3>1. PICK d \in Conns, p \in Players : Removes(d, p)
      BY <1>1, <2>0, <2>6, ExpelledStep
    <3>2. c = conn[p] /\ conn[p] # None
      BY <2>6, <3>1 DEF Removes
    <3>3. epoch' \in Nat
      BY <1>1 DEF FeedInv
    <3>4. PICK e \in Events : e = PlayerRemoved(conn[p]) /\ e.kind = "removed" /\ c \in e.to /\ e.epoch = epoch'
      <4>1. conn[p] \in Conns
        BY <3>2
      <4>2. /\ PlayerRemoved(conn[p]) \in Events /\ PlayerRemoved(conn[p]).kind = "removed"
            /\ PlayerRemoved(conn[p]).to = {conn[p]} /\ PlayerRemoved(conn[p]).epoch = epoch'
        BY <3>3, <4>1 DEF PlayerRemoved, Events, Kinds
      <4> QED
        BY <3>2, <4>2, Zenon
    <3>5. PICK f \in Events : f = StateChanged
      BY <3>3 DEF StateChanged, Events, Kinds
    <3>6. Sends(<<e, f>>)
      BY <3>1, <3>2, <3>4, <3>5, Zenon DEF Removes
    <3>7. <<e, f>> \in Seq(Events) /\ 1 \in 1 .. Len(<<e, f>>) /\ <<e, f>>[1] = e
      OBVIOUS
    <3>8. Awaits(c, <<e, f>>)
      BY <3>4, <3>7, Zenon DEF Awaits
    <3> QED
      BY <2>0, <2>6, <3>6, <3>7, <3>8, RemovalSent, Zenon
  <2> QED
    BY <2>3, <2>4, <2>5, <2>6, Zenon
<1>2. FeedInv /\ FeedInv' /\ [FeedNext]_feedVars => [\A c \in Conns : Told(c)]_feedVars
  BY <1>1
<1> QED
  BY <1>2, FeedInvariance, PTL DEF FeedSpec, RemovalIsTerminal
=============================================================================
