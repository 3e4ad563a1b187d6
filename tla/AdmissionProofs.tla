-------------------------- MODULE AdmissionProofs --------------------------
(***************************************************************************)
(* Admission, for every number of requests, keys, codes and every policy:  *)
(* sockets speak their room's protocol, sessions of a room that is gone do *)
(* not disturb the one that took its code, nothing passes a licensed route *)
(* without a grant and an allowed version, and the rate limiter keeps its  *)
(* window and tells an honest time to come back.                           *)
(***************************************************************************)
EXTENDS Admission, FiniteSetTheorems, TLAPS

Tasks == [step : Nat \ {0}, route : Routes, key : Keys, kind : ClientKinds, code : Codes,
          lo : Versions, hi : Versions, stamp : Nat, version : Versions,
          answer : SUBSET Answers, room : Nat]
RoomRecords == [id : Nat, version : Versions, host : SUBSET Requests, socks : SUBSET Requests]

\* Which values the tasks and the registry hold.
Shape ==
  /\ req \in [Requests -> {Idle} \cup Tasks]
  /\ rooms \in [Codes -> {NoRoom} \cup RoomRecords]
  /\ clock \in Nat /\ nextRoom \in Nat \ {0}

Open(q) == q \in Tasks /\ q.step > Len(Route[q.route])

\* A task is known by its step; an idle one has no other field.
LEMMA IdleOrTask ==
  ASSUME NEW q \in {Idle} \cup Tasks
  PROVE  (q = Idle <=> q.step = 0) /\ (q # Idle <=> q \in Tasks)
BY DEF Idle, Tasks

Steps == {CreateRoom, RoomStatus, WebsocketRoom, WebsocketRoomResume, WebsocketInputRoom,
          CreateLobby, JoinLobby, LobbyStatus, PublicLobbies, WebsocketPublicLobbies,
          WebsocketLobby}

\* Every route is one of the listed sequences; create_room's is its own.
LEMMA RouteIsListed ==
  ASSUME NEW route \in Routes
  PROVE  Route[route] \in Steps /\ (route = "createRoom" => Route[route] = CreateRoom)
BY DEF Routes, Route, Steps

\* The positions of the steps in the routes.
LEMMA RouteSteps ==
  ASSUME NEW route \in Routes, NEW i \in Nat \ {0}
  PROVE  /\ Len(Route[route]) \in Nat
         /\ i <= Len(Route[route]) /\ Route[route][i] = "join" => i = Len(Route[route])
         /\ i <= Len(Route[route]) /\ Route[route][i] = "exact" => route # "createRoom"
<1>1. \A s \in Steps :
        /\ Len(s) \in 2 .. 4
        /\ i <= Len(s) /\ s[i] = "join" => i = Len(s)
  <2> SUFFICES ASSUME NEW s \in Steps
               PROVE  Len(s) \in 2 .. 4 /\ (i <= Len(s) /\ s[i] = "join" => i = Len(s))
    OBVIOUS
  <2>1. CASE s \in {CreateRoom, CreateLobby, JoinLobby, PublicLobbies, WebsocketPublicLobbies,
                    WebsocketLobby}
    BY <2>1 DEF CreateRoom, CreateLobby, JoinLobby, PublicLobbies, WebsocketPublicLobbies,
                WebsocketLobby
  <2>2. CASE s \in {RoomStatus, LobbyStatus}
    BY <2>2 DEF RoomStatus, LobbyStatus
  <2>3. CASE s \in {WebsocketRoomResume, WebsocketInputRoom}
    <3>1. s = <<"WebSocketJoin", "exact", "join">>
      BY <2>3 DEF WebsocketRoomResume, WebsocketInputRoom
    <3>2. Len(s) = 3 /\ s[1] # "join" /\ s[2] # "join"
      BY <3>1
    <3> QED
      BY <3>2
  <2>4. CASE s = WebsocketRoom
    BY <2>4 DEF WebsocketRoom
  <2> QED
    BY <2>1, <2>2, <2>3, <2>4 DEF Steps
<1>2. i <= Len(CreateRoom) => CreateRoom[i] # "exact"
  BY DEF CreateRoom
<1>3. Route[route] \in Steps
  BY RouteIsListed
<1>4. i <= Len(Route[route]) /\ Route[route][i] = "exact" => route # "createRoom"
  BY <1>2, RouteIsListed
<1>5. /\ Len(Route[route]) \in 2 .. 4
      /\ i <= Len(Route[route]) /\ Route[route][i] = "join" => i = Len(Route[route])
  BY <1>1, <1>3, Zenon
<1>6. Len(Route[route]) \in Nat
  BY <1>5
<1> QED
  BY <1>4, <1>5, <1>6, Zenon

\* What At says about a task.
LEMMA AtTask ==
  ASSUME Shape, NEW r \in Requests
  PROVE  /\ At(r) = "idle" <=> req[r] = Idle
         /\ At(r) = "open" <=> Open(req[r])
         /\ At(r) # "idle" => req[r] \in Tasks
         /\ At(r) = "join" => req[r].step = Len(Route[req[r].route])
         /\ At(r) = "exact" => req[r].route # "createRoom"
<1> DEFINE q == req[r]
<1>1. q \in {Idle} \cup Tasks
  BY DEF Shape
<1>2. CASE q = Idle
  BY <1>2, IdleOrTask, <1>1 DEF At, Open
<1>3. CASE q \in Tasks
  <2>1. q.step \in Nat \ {0} /\ q.route \in Routes /\ q # Idle
    BY <1>3, <1>1, IdleOrTask DEF Tasks
  <2>2. \A i \in DOMAIN Route[q.route] : Route[q.route][i] \notin {"idle", "open"}
    BY <2>1 DEF Routes, Route, CreateRoom, RoomStatus, WebsocketRoom, WebsocketRoomResume,
       WebsocketInputRoom, CreateLobby, JoinLobby, LobbyStatus, PublicLobbies,
       WebsocketPublicLobbies, WebsocketLobby
  <2> QED
    BY <1>3, <2>1, <2>2, RouteSteps DEF At, Open
<1> QED
  BY <1>1, <1>2, <1>3

\* A task that goes on, after its license is verified, and after it has found its room.
LEMMA TaskAfter ==
  ASSUME NEW q \in Tasks, NEW v \in Versions, NEW a \in SUBSET Answers, NEW id \in Nat
  PROVE  /\ [q EXCEPT !.step = @ + 1] \in Tasks
         /\ [q EXCEPT !.step = @ + 1, !.version = v, !.answer = a] \in Tasks
         /\ [q EXCEPT !.step = @ + 1, !.room = id] \in Tasks
<1>1. q.step \in Nat \ {0} /\ q.step + 1 \in Nat \ {0}
  BY DEF Tasks
<1>2. ASSUME NEW n \in Nat \ {0}
      PROVE  /\ [q EXCEPT !.step = n] \in Tasks
             /\ [q EXCEPT !.step = n, !.version = v, !.answer = a] \in Tasks
             /\ [q EXCEPT !.step = n, !.room = id] \in Tasks
  BY Zenon DEF Tasks
<1> QED
  BY <1>1, <1>2, Zenon

-----------------------------------------------------------------------------
(* The comparison of protocols.                                            *)

\* A task remembers a room that was there; the version of a join is the one that
\* was compared.
TaskFits(q, n) ==
  /\ q.room < n
  /\ q.route = "createRoom" => q.room = 0
  /\ q.route # "createRoom" => q.version = q.hi

\* The version of the task is that of the room it was compared with.
Agrees(q, room) == q.room = room.id => q.version = room.version

\* SocketsSpeakRoomProtocol speaks of sockets; it is kept because every task that has
\* compared its version, connected or not, agrees with the room of that id, and ids
\* are not given out twice.
ProtocolInv ==
  /\ Shape
  /\ \A r \in Requests : req[r] # Idle => TaskFits(req[r], nextRoom)
  /\ \A c \in Codes : rooms[c] # NoRoom => rooms[c].id > 0 /\ rooms[c].id < nextRoom
  /\ \A c, d \in Codes : rooms[c] # NoRoom /\ rooms[d] # NoRoom /\ rooms[c].id = rooms[d].id
                            => rooms[c].version = rooms[d].version
  /\ \A r \in Requests, c \in Codes :
        req[r] # Idle /\ rooms[c] # NoRoom => Agrees(req[r], rooms[c])
  /\ \A r \in Requests, c \in Codes :
        rooms[c] # NoRoom /\ r \in rooms[c].socks => Open(req[r]) /\ req[r].code = c

\* A step of one task that is not connected, which leaves the registry alone.
LEMMA TaskStep ==
  ASSUME ProtocolInv, NEW r \in Requests, NEW q \in {Idle} \cup Tasks,
         req' = [req EXCEPT ![r] = q], rooms' = rooms, nextRoom' = nextRoom, clock' = clock,
         ~ Open(req[r]),
         q # Idle => TaskFits(q, nextRoom) /\ \A c \in Codes : rooms[c] # NoRoom => Agrees(q, rooms[c])
  PROVE  ProtocolInv'
<1>1. Shape'
  BY DEF ProtocolInv, Shape
<1>2. \A x \in Requests : req'[x] = IF x = r THEN q ELSE req[x]
  BY DEF ProtocolInv, Shape
<1>3. \A x \in Requests : req'[x] # Idle => TaskFits(req'[x], nextRoom')
  BY <1>2 DEF ProtocolInv, TaskFits
<1>4. \A x \in Requests, c \in Codes :
        req'[x] # Idle /\ rooms'[c] # NoRoom => Agrees(req'[x], rooms'[c])
  BY <1>2 DEF ProtocolInv
<1>5. \A x \in Requests, c \in Codes :
        rooms'[c] # NoRoom /\ x \in rooms'[c].socks => Open(req'[x]) /\ req'[x].code = c
  BY <1>2 DEF ProtocolInv
<1> QED
  BY <1>1, <1>3, <1>4, <1>5 DEF ProtocolInv, TaskFits, Agrees, Open

\* A step of one task that changes who is connected to the room of one code.
LEMMA RegistryStep ==
  ASSUME ProtocolInv, NEW r \in Requests, NEW q \in {Idle} \cup Tasks, NEW c \in Codes,
         NEW room \in {NoRoom} \cup RoomRecords,
         req' = [req EXCEPT ![r] = q], rooms' = [rooms EXCEPT ![c] = room],
         nextRoom' = nextRoom, clock' = clock, req[r] # Idle,
         q # Idle => /\ q.room = req[r].room /\ q.version = req[r].version
                     /\ q.hi = req[r].hi /\ q.route = req[r].route,
         room # NoRoom => /\ rooms[c] # NoRoom
                          /\ room.id = rooms[c].id /\ room.version = rooms[c].version,
         room # NoRoom => \A x \in room.socks : \/ x # r /\ x \in rooms[c].socks
                                                \/ x = r /\ Open(q) /\ q.code = c,
         \A d \in Codes \ {c} : rooms[d] # NoRoom => r \notin rooms[d].socks
  PROVE  ProtocolInv'
<1>1. Shape'
  BY DEF ProtocolInv, Shape
<1>2. \A x \in Requests : req'[x] = IF x = r THEN q ELSE req[x]
  BY DEF ProtocolInv, Shape
<1>3. \A d \in Codes : rooms'[d] = IF d = c THEN room ELSE rooms[d]
  BY DEF ProtocolInv, Shape
<1>4. \A x \in Requests : req'[x] # Idle => TaskFits(req'[x], nextRoom')
  BY <1>2 DEF ProtocolInv, TaskFits
<1>5. \A d \in Codes : rooms'[d] # NoRoom => rooms'[d].id > 0 /\ rooms'[d].id < nextRoom'
  BY <1>3 DEF ProtocolInv
<1>6. \A d, e \in Codes : rooms'[d] # NoRoom /\ rooms'[e] # NoRoom /\ rooms'[d].id = rooms'[e].id
                            => rooms'[d].version = rooms'[e].version
  BY <1>3 DEF ProtocolInv
<1>7. \A x \in Requests, d \in Codes :
        req'[x] # Idle /\ rooms'[d] # NoRoom => Agrees(req'[x], rooms'[d])
  BY <1>2, <1>3 DEF ProtocolInv, Agrees
<1>8. \A x \in Requests, d \in Codes :
        rooms'[d] # NoRoom /\ x \in rooms'[d].socks => Open(req'[x]) /\ req'[x].code = d
  BY <1>2, <1>3 DEF ProtocolInv
<1> QED
  BY <1>1, <1>4, <1>5, <1>6, <1>7, <1>8 DEF ProtocolInv, TaskFits, Agrees, Open

\* What the limiter does to the task it checks.
LEMMA CheckStep ==
  ASSUME NEW r \in Requests, CheckRateLimit(r)
  PROVE  /\ At(r) = "limit" /\ (Refuse(r) \/ Proceed(r))
         /\ UNCHANGED <<clock, rooms, nextRoom, admitted, plan>>
BY Zenon DEF CheckRateLimit

\* Each operation of a task is one of these steps, or inserts a room with a new id.
LEMMA ProtocolStep ==
  ASSUME ProtocolInv, AdmNext PROVE ProtocolInv'
<1> USE AdmissionAssumption
<1>0. Shape
  BY DEF ProtocolInv
<1>1. ASSUME NEW r \in Requests, Refuse(r), UNCHANGED <<rooms, nextRoom, clock>>, At(r) # "open"
      PROVE  ProtocolInv'
  BY <1>0, <1>1, TaskStep, AtTask, Zenon DEF Refuse
<1>2. ASSUME NEW r \in Requests, Proceed(r), UNCHANGED <<rooms, nextRoom, clock>>,
             At(r) \notin {"idle", "open"}
      PROVE  ProtocolInv'
  <2> DEFINE q == [req[r] EXCEPT !.step = @ + 1]
  <2>1. req[r] \in Tasks /\ ~ Open(req[r])
    BY <1>0, <1>2, AtTask
  <2>2. /\ q \in Tasks /\ q.room = req[r].room /\ q.version = req[r].version
        /\ q.hi = req[r].hi /\ q.route = req[r].route
    BY <2>1 DEF Tasks
  <2>3. req' = [req EXCEPT ![r] = q]
    BY <1>2 DEF Proceed
  <2>4. TaskFits(q, nextRoom) /\ \A c \in Codes : rooms[c] # NoRoom => Agrees(q, rooms[c])
    <3>1. req[r] # Idle
      BY <2>1, IdleOrTask
    <3> HIDE DEF q
    <3> QED
      BY <2>2, <3>1 DEF ProtocolInv, TaskFits, Agrees
  <2> HIDE DEF q
  <2> QED
    BY <1>2, <2>1, <2>2, <2>3, <2>4, TaskStep, Zenon
<1>3. ASSUME NEW r \in Requests, NEW route \in Routes, NEW key \in Keys, NEW kind \in ClientKinds,
             NEW code \in Codes, NEW lo \in Versions, NEW hi \in Versions,
             Arrive(r, route, key, kind, code, lo, hi)
      PROVE  ProtocolInv'
  <2> DEFINE q == [step |-> 1, route |-> route, key |-> key, kind |-> kind,
                   code |-> code, lo |-> lo, hi |-> hi, stamp |-> clock,
                   version |-> hi, answer |-> {}, room |-> 0]
  <2>1. q \in Tasks /\ q.room = 0 /\ q.version = q.hi
    BY <1>0 DEF Tasks, Shape
  <2>2. req' = [req EXCEPT ![r] = q] /\ UNCHANGED <<rooms, nextRoom, clock>> /\ ~ Open(req[r])
    BY <1>0, <1>3, AtTask DEF Arrive
  <2> HIDE DEF q
  <2>3. TaskFits(q, nextRoom) /\ \A c \in Codes : rooms[c] # NoRoom => Agrees(q, rooms[c])
    BY <1>0, <2>1 DEF ProtocolInv, Shape, TaskFits, Agrees
  <2> QED
    BY <2>1, <2>2, <2>3, TaskStep, Zenon
<1>4. ASSUME NEW r \in Requests, CheckRateLimit(r)
      PROVE  ProtocolInv'
  BY <1>1, <1>2, <1>4, CheckStep
<1>5. ASSUME NEW r \in Requests, VerifyClientAccess(r)
      PROVE  ProtocolInv'
  <2>1. CASE Refuse(r)
    BY <1>1, <1>5, <2>1 DEF VerifyClientAccess
  <2>2. ASSUME NEW a \in Answers, NEW v \in Accepted(req[r]),
               req' = [req EXCEPT ![r].step = @ + 1, ![r].version = v, ![r].answer = {a}]
        PROVE  ProtocolInv'
    <3> DEFINE q == [req[r] EXCEPT !.step = @ + 1, !.version = v, !.answer = {a}]
    <3>1. req[r] \in Tasks /\ ~ Open(req[r]) /\ UNCHANGED <<rooms, nextRoom, clock>>
      BY <1>0, <1>5, AtTask, Zenon DEF VerifyClientAccess
    <3>2. req[r].hi \in Versions /\ MaximumVersion \in Versions
      BY <3>1 DEF Tasks, MaximumVersion, Versions
    <3>3. v \in Versions /\ (req[r].route # "createRoom" => v = req[r].hi)
      BY <3>2 DEF Accepted, Negotiate
    <3>4. /\ q \in Tasks /\ q.room = req[r].room /\ q.version = v
          /\ q.hi = req[r].hi /\ q.route = req[r].route
      <4>1. q \in Tasks
        BY <3>1, <3>3, TaskAfter, Zenon
      <4> QED
        BY <3>1, <4>1 DEF Tasks
    <3>5. req' = [req EXCEPT ![r] = q]
      BY <2>2, <1>0, Zenon DEF Shape
    <3>6. req[r] # Idle
      BY <3>1, IdleOrTask
    <3> HIDE DEF q
    <3>7. TaskFits(q, nextRoom) /\ \A c \in Codes : rooms[c] # NoRoom => Agrees(q, rooms[c])
      BY <3>3, <3>4, <3>6 DEF ProtocolInv, TaskFits, Agrees
    <3> QED
      BY <3>1, <3>4, <3>5, <3>7, TaskStep, Zenon
  <2> QED
    BY <1>5, <2>1, <2>2, Zenon DEF VerifyClientAccess
<1>6. ASSUME NEW r \in Requests, CheckRoomProtocol(r)
      PROVE  ProtocolInv'
  <2> DEFINE c == req[r].code
             room == rooms[c]
  <2>1. CASE Refuse(r)
    BY <1>1, <1>6, <2>1 DEF CheckRoomProtocol
  <2>2. CASE /\ room # NoRoom /\ SameVersion(req[r].hi, room)
             /\ req' = [req EXCEPT ![r].step = @ + 1, ![r].room = room.id]
    <3> DEFINE q == [req[r] EXCEPT !.step = @ + 1, !.room = room.id]
    <3>1. /\ req[r] \in Tasks /\ ~ Open(req[r]) /\ UNCHANGED <<rooms, nextRoom, clock>>
          /\ req[r].route # "createRoom"
      BY <1>0, <1>6, AtTask DEF CheckRoomProtocol
    <3>2. c \in Codes /\ room \in RoomRecords
      BY <1>0, <2>2, <3>1 DEF Tasks, Shape
    <3>3. /\ q \in Tasks /\ q.room = room.id /\ q.version = req[r].version
          /\ q.hi = req[r].hi /\ q.route = req[r].route
      <4>1. q \in Tasks
        BY <3>1, <3>2, TaskAfter, Zenon DEF RoomRecords
      <4> QED
        BY <3>1, <4>1 DEF Tasks
    <3>4. req' = [req EXCEPT ![r] = q]
      BY <2>2, <1>0, Zenon DEF Shape
    <3>5. req[r].version = req[r].hi /\ req[r].hi = room.version
      BY <2>2, <3>1, IdleOrTask DEF ProtocolInv, TaskFits, SameVersion
    <3> HIDE DEF q
    <3>6. TaskFits(q, nextRoom) /\ \A d \in Codes : rooms[d] # NoRoom => Agrees(q, rooms[d])
      BY <2>2, <3>1, <3>2, <3>3, <3>5, SMTT(30) DEF ProtocolInv, TaskFits, Agrees
    <3> QED
      BY <3>1, <3>3, <3>4, <3>6, TaskStep, Zenon
  <2> QED
    BY <1>6, <2>1, <2>2 DEF CheckRoomProtocol
<1>7. ASSUME NEW r \in Requests, NEW code \in Codes, InsertRoom(r, code)
      PROVE  ProtocolInv'
  <2> DEFINE room == [id |-> nextRoom, version |-> req[r].version, host |-> {}, socks |-> {}]
  <2>1. /\ req[r] \in Tasks /\ ~ Open(req[r]) /\ rooms' = [rooms EXCEPT ![code] = room]
        /\ nextRoom' = nextRoom + 1 /\ clock' = clock /\ req' = [req EXCEPT ![r] = Idle]
    BY <1>0, <1>7, AtTask DEF InsertRoom, Refuse
  <2>2. room \in RoomRecords /\ room.id = nextRoom /\ room.socks = {} /\ nextRoom \in Nat
    BY <1>0, <2>1 DEF Tasks, RoomRecords, Shape
  <2> HIDE DEF room
  <2>3. Shape'
    BY <1>0, <2>1, <2>2 DEF Shape
  <2>4. \A x \in Requests : req'[x] = IF x = r THEN Idle ELSE req[x]
    BY <1>0, <2>1 DEF Shape
  <2>5. \A d \in Codes : rooms'[d] = IF d = code THEN room ELSE rooms[d]
    BY <1>0, <2>1 DEF Shape
  <2>6. \A d \in Codes : rooms[d] # NoRoom => rooms[d] \in RoomRecords /\ rooms[d].id \in Nat
    BY <1>0 DEF Shape, RoomRecords
  <2>7. \A x \in Requests : req'[x] # Idle => req[x].room \in Nat /\ TaskFits(req'[x], nextRoom)
    BY <1>0, <2>4 DEF ProtocolInv, Shape, Tasks
  <2>8. \A x \in Requests : req'[x] # Idle => TaskFits(req'[x], nextRoom')
    BY <2>1, <2>2, <2>4, <2>7 DEF TaskFits
  <2>9. \A d \in Codes : rooms'[d] # NoRoom => rooms'[d].id > 0 /\ rooms'[d].id < nextRoom'
    BY <1>0, <2>1, <2>2, <2>5, <2>6 DEF ProtocolInv, Shape
  <2>10. \A d, e \in Codes : rooms'[d] # NoRoom /\ rooms'[e] # NoRoom /\ rooms'[d].id = rooms'[e].id
                              => rooms'[d].version = rooms'[e].version
    BY <2>2, <2>5, <2>6, SMTT(30) DEF ProtocolInv
  <2>11. \A x \in Requests, d \in Codes :
           req'[x] # Idle /\ rooms'[d] # NoRoom => Agrees(req'[x], rooms'[d])
    BY <2>2, <2>4, <2>5, <2>7 DEF ProtocolInv, Agrees, TaskFits
  <2>12. \A x \in Requests, d \in Codes :
           rooms'[d] # NoRoom /\ x \in rooms'[d].socks => Open(req'[x]) /\ req'[x].code = d
    BY <2>1, <2>2, <2>4, <2>5 DEF ProtocolInv
  <2> QED
    BY <2>3, <2>8, <2>9, <2>10, <2>11, <2>12 DEF ProtocolInv, TaskFits, Agrees, Open
<1>8. ASSUME NEW r \in Requests, NEW asHost \in BOOLEAN, JoinRoom(r, asHost)
      PROVE  ProtocolInv'
  <2> DEFINE c == req[r].code
             q == [req[r] EXCEPT !.step = @ + 1]
             room == Joined(rooms[c], r, asHost)
  <2>1. CASE Refuse(r) /\ UNCHANGED <<rooms, admitted>>
    BY <1>1, <1>8, <2>1 DEF JoinRoom
  <2>2. CASE /\ rooms[c] # NoRoom /\ Proceed(r)
             /\ rooms' = [rooms EXCEPT ![c] = Joined(@, r, asHost)]
    <3>1. /\ req[r] \in Tasks /\ ~ Open(req[r]) /\ UNCHANGED <<nextRoom, clock>>
          /\ req[r].step = Len(Route[req[r].route]) /\ req[r] # Idle
      BY <1>0, <1>8, AtTask DEF JoinRoom
    <3>2. /\ q \in Tasks /\ q.room = req[r].room /\ q.version = req[r].version
          /\ q.hi = req[r].hi /\ q.route = req[r].route /\ q.code = c
          /\ q.step = req[r].step + 1
      <4>1. q \in Tasks
        <5>1. 4 \in Versions
          BY DEF Versions
        <5> QED
          BY <3>1, <5>1, TaskAfter, Zenon
      <4> QED
        BY <3>1, <4>1, Zenon DEF Tasks
    <3>3. Open(q)
      <4> HIDE DEF q
      <4>1. Len(Route[req[r].route]) \in Nat
        BY <3>1, RouteSteps DEF Tasks
      <4> QED
        BY <3>1, <3>2, <4>1 DEF Open
    <3>4. c \in Codes /\ rooms[c] \in RoomRecords
      BY <1>0, <2>2, <3>1 DEF Tasks, Shape
    <3>5. /\ room \in RoomRecords /\ room.id = rooms[c].id /\ room.version = rooms[c].version
          /\ room.socks \subseteq rooms[c].socks \cup {r}
      BY <3>4, Zenon DEF RoomRecords, Joined
    <3>6. req' = [req EXCEPT ![r] = q] /\ rooms' = [rooms EXCEPT ![c] = room]
      <4>1. req' = [req EXCEPT ![r] = q]
        BY <2>2 DEF Proceed
      <4>2. rooms' = [rooms EXCEPT ![c] = room]
        BY <2>2
      <4> QED
        BY <4>1, <4>2
    <3>7. \A d \in Codes : rooms[d] # NoRoom => r \notin rooms[d].socks
      BY <3>1 DEF ProtocolInv
    <3> HIDE DEF q, room
    <3>8. \A x \in room.socks : (x # r /\ x \in rooms[c].socks)
                                \/ (x = r /\ Open(q) /\ q.code = c)
      BY <3>2, <3>3, <3>5
    <3> HIDE DEF c
    <3>9. nextRoom' = nextRoom /\ clock' = clock
      BY <3>1
    <3>10. rooms[c] # NoRoom /\ \A d \in Codes \ {c} : rooms[d] # NoRoom => r \notin rooms[d].socks
      BY <2>2, <3>7
    <3> QED
      BY <3>1, <3>2, <3>4, <3>5, <3>6, <3>8, <3>9, <3>10, RegistryStep, Zenon
  <2> QED
    BY <1>8, <2>1, <2>2 DEF JoinRoom
<1>9. ASSUME NEW r \in Requests, EndSession(r)
      PROVE  ProtocolInv'
  <2> DEFINE c == req[r].code
  <2>1. req[r] \in Tasks /\ Open(req[r]) /\ req[r] # Idle /\ c \in Codes
    BY <1>0, <1>9, AtTask DEF EndSession, Tasks
  <2>2. PICK room \in LeftRoom(r, rooms[c]) : rooms' = [rooms EXCEPT ![c] = room]
    BY <1>9, Zenon DEF EndSession
  <2>3. rooms[c] \in {NoRoom} \cup RoomRecords
    BY <1>0, <2>1 DEF Shape
  <2>4. /\ room \in {NoRoom} \cup RoomRecords
        /\ room # NoRoom => /\ rooms[c] # NoRoom /\ room.id = rooms[c].id
                            /\ room.version = rooms[c].version
                            /\ room.socks \subseteq rooms[c].socks \ {r}
    <3> DEFINE left == [rooms[c] EXCEPT !.socks = @ \ {r}, !.host = @ \ {r}]
    <3>1. ASSUME rooms[c] \in RoomRecords
          PROVE  /\ left \in RoomRecords /\ left.id = rooms[c].id
                 /\ left.version = rooms[c].version /\ left.socks = rooms[c].socks \ {r}
      BY <3>1, Zenon DEF RoomRecords
    <3>2. \/ room = NoRoom
          \/ rooms[c] # NoRoom /\ r \notin rooms[c].socks /\ room = rooms[c]
          \/ rooms[c] # NoRoom /\ room = left
      BY <2>2, Zenon DEF LeftRoom
    <3> HIDE DEF left
    <3> QED
      BY <2>3, <3>1, <3>2
  <2>5. \A d \in Codes \ {c} : rooms[d] # NoRoom => r \notin rooms[d].socks
    BY DEF ProtocolInv
  <2>6. req' = [req EXCEPT ![r] = Idle] /\ UNCHANGED <<nextRoom, clock>>
    BY <1>9 DEF EndSession, Refuse
  <2> QED
    BY <2>1, <2>2, <2>4, <2>5, <2>6, RegistryStep, Zenon
<1>10. ASSUME NEW r \in Requests, EnterLobby(r) \/ ReadView(r)
       PROVE  ProtocolInv'
  BY <1>1, <1>10 DEF EnterLobby, ReadView
<1>11. ASSUME NEW code \in Codes, ExpireRoom(code)
       PROVE  ProtocolInv'
  <2>1. rooms' = [rooms EXCEPT ![code] = NoRoom] /\ UNCHANGED <<req, nextRoom, clock>>
    BY <1>11 DEF ExpireRoom
  <2>2. Shape'
    BY <1>0, <2>1 DEF Shape
  <2>3. \A d \in Codes : rooms'[d] # NoRoom => rooms'[d] = rooms[d]
    BY <1>0, <2>1 DEF Shape
  <2> QED
    BY <2>1, <2>2, <2>3 DEF ProtocolInv, TaskFits, Agrees, Open
<1>12. CASE Tick
  <2>1. clock' = clock + 1 /\ UNCHANGED <<req, rooms, nextRoom>>
    BY <1>12 DEF Tick
  <2>2. Shape'
    BY <1>0, <2>1 DEF Shape
  <2> QED
    BY <2>1, <2>2 DEF ProtocolInv, TaskFits, Agrees, Open
<1> QED
  BY <1>3, <1>4, <1>5, <1>6, <1>7, <1>8, <1>9, <1>10, <1>11, <1>12 DEF AdmNext

\* The invariant holds throughout.
LEMMA ProtocolAlways == AdmSpec => []ProtocolInv
<1>1. AdmInit => ProtocolInv
  <2> SUFFICES ASSUME AdmInit PROVE ProtocolInv
    OBVIOUS
  <2>1. Shape
    BY DEF AdmInit, Shape
  <2>2. (\A r \in Requests : req[r] = Idle) /\ \A c \in Codes : rooms[c] = NoRoom
    BY DEF AdmInit
  <2> QED
    BY <2>1, <2>2 DEF ProtocolInv
<1>2. ProtocolInv /\ [AdmNext]_admVars => ProtocolInv'
  <2>1. ASSUME ProtocolInv, UNCHANGED admVars PROVE ProtocolInv'
    BY <2>1 DEF ProtocolInv, Shape, TaskFits, Agrees, Open, admVars
  <2> QED
    BY <2>1, ProtocolStep
<1> QED
  BY <1>1, <1>2, PTL DEF AdmSpec

\* Sockets speak the protocol of the room they were compared with: what
\* validate_exact_room_protocol found holds until the session ends.
THEOREM ProtocolKept == AdmSpec => []SocketsSpeakRoomProtocol
<1>1. ProtocolInv => SocketsSpeakRoomProtocol
  <2> SUFFICES ASSUME ProtocolInv, NEW c \in Codes, rooms[c] # NoRoom, NEW r \in rooms[c].socks
               PROVE  req[r].room = rooms[c].id => req[r].version = rooms[c].version
    BY DEF SocketsSpeakRoomProtocol
  <2>1. r \in Requests
    <3>1. rooms[c] \in RoomRecords
      BY DEF ProtocolInv, Shape
    <3> QED
      BY <3>1 DEF RoomRecords
  <2>2. Open(req[r])
    BY <2>1 DEF ProtocolInv
  <2>3. req[r] # Idle
    BY <2>2, IdleOrTask DEF Open
  <2> QED
    BY <2>1, <2>3 DEF ProtocolInv, Agrees
<1> QED
  BY <1>1, ProtocolAlways, PTL

\* A session that ends leaves every room alone that it is not connected to, whatever
\* happened to the invite code since it joined (disconnect_impl).
THEOREM ForeignSessions == AdmSpec => ForeignSessionsHarmless
<1> DEFINE Harmless == \A r \in Requests : At(r) = "open" /\ req'[r] = Idle =>
              \A c \in Codes : rooms[c] # NoRoom /\ r \notin rooms[c].socks => rooms'[c] = rooms[c]
<1>1. ProtocolInv => Shape
  BY DEF ProtocolInv
<1>2. ASSUME Shape, AdmNext PROVE Harmless
  <2> SUFFICES ASSUME NEW r \in Requests, At(r) = "open", req'[r] = Idle,
                      NEW c \in Codes, rooms[c] # NoRoom, r \notin rooms[c].socks
               PROVE  rooms'[c] = rooms[c]
    OBVIOUS
  <2>1. req[r] # Idle
    BY <1>2, AtTask, IdleOrTask DEF Open
  <2>2. ASSUME NEW s \in Requests, At(s) # "open", \E q : req' = [req EXCEPT ![s] = q]
        PROVE  FALSE
    <3>1. s # r
      BY <2>2
    <3>2. req'[r] = req[r]
      BY <1>2, <2>2, <3>1 DEF Shape
    <3> QED
      BY <2>1, <3>2
  <2>3. ASSUME NEW s \in Requests, EndSession(s)
        PROVE  rooms'[c] = rooms[c]
    <3>1. s = r
      BY <1>2, <2>1, <2>3 DEF EndSession, Refuse, Shape
    <3>2. CASE req[r].code = c
      <4>1. rooms' = [rooms EXCEPT ![c] = rooms[c]]
        BY <2>3, <3>1, <3>2, Zenon DEF EndSession, LeftRoom
      <4> QED
        BY <1>2, <4>1 DEF Shape
    <3>3. CASE req[r].code # c
      BY <1>2, <2>3, <3>1, <3>3 DEF EndSession, Shape
    <3> QED
      BY <3>2, <3>3
  <2>4. ASSUME NEW s \in Requests, CheckRateLimit(s) PROVE FALSE
    BY <2>2, <2>4, CheckStep, Zenon DEF Refuse, Proceed
  <2>5. ASSUME NEW s \in Requests, VerifyClientAccess(s) PROVE FALSE
    BY <2>2, <2>5, Zenon DEF VerifyClientAccess, Refuse
  <2>6. ASSUME NEW s \in Requests, CheckRoomProtocol(s) PROVE FALSE
    BY <2>2, <2>6 DEF CheckRoomProtocol, Refuse
  <2>7. ASSUME NEW s \in Requests, NEW code \in Codes, InsertRoom(s, code) PROVE FALSE
    BY <2>2, <2>7, Zenon DEF InsertRoom, Refuse
  <2>8. ASSUME NEW s \in Requests, NEW asHost \in BOOLEAN, JoinRoom(s, asHost) PROVE FALSE
    BY <2>2, <2>8 DEF JoinRoom, Refuse, Proceed
  <2>9. ASSUME NEW s \in Requests, EnterLobby(s) \/ ReadView(s) PROVE FALSE
    BY <2>2, <2>9 DEF EnterLobby, ReadView, Refuse
  <2>10. ASSUME NEW s \in Requests, NEW route \in Routes, NEW key \in Keys,
                NEW kind \in ClientKinds, NEW code \in Codes, NEW lo \in Versions,
                NEW hi \in Versions, Arrive(s, route, key, kind, code, lo, hi)
         PROVE  FALSE
    BY <2>2, <2>10, Zenon DEF Arrive
  <2>11. ASSUME Tick \/ \E code \in Codes : ExpireRoom(code) PROVE FALSE
    BY <2>1, <2>11 DEF Tick, ExpireRoom
  <2> QED
    BY <1>2, <2>3, <2>4, <2>5, <2>6, <2>7, <2>8, <2>9, <2>10, <2>11 DEF AdmNext
<1>3. ASSUME UNCHANGED admVars PROVE Harmless
  BY <1>3 DEF admVars
<1>4. ProtocolInv /\ [AdmNext]_admVars => [Harmless]_admVars
  BY <1>1, <1>2, <1>3
<1> QED
  BY <1>4, ProtocolAlways, PTL DEF AdmSpec, ForeignSessionsHarmless
-----------------------------------------------------------------------------
(* The license and the rollout.                                            *)

RegistrySteps == {"insert", "join", "lobby", "read"}

\* The task is past the step that asks the authority.
Asked(q) == \E i \in 1 .. q.step - 1 : i <= Len(Route[q.route]) /\ Route[q.route][i] = "authority"

\* A task that has asked was granted access, and has an accepted version, as long as
\* it runs: Accepted looks only at fields that no later step changes.
LicensedTask(q) ==
  q # Idle /\ Asked(q) => (\E g \in q.answer : Grants(g)) /\ q.version \in Accepted(q)
Licensed == \A r \in Requests : LicensedTask(req[r])

\* A licensed route asks the authority before its registry step.
LEMMA AskedBeforeRegistry ==
  ASSUME NEW route \in Routes, NEW n \in Nat \ {0}, Asks(route),
         n <= Len(Route[route]), Route[route][n] \in RegistrySteps
  PROVE  \E i \in 1 .. n - 1 : Route[route][i] = "authority"
<1> DEFINE Earlier(s) == (\E i \in DOMAIN s : s[i] = "authority") /\ n <= Len(s) /\ s[n] \in RegistrySteps
                            => \E i \in 1 .. n - 1 : s[i] = "authority"
<1>1. ASSUME NEW s \in Steps PROVE Earlier(s)
  <2>1. CASE s \in {CreateRoom, CreateLobby, JoinLobby, PublicLobbies, WebsocketPublicLobbies,
                    WebsocketLobby}
    <3>1. Len(s) = 3 /\ s[2] = "authority" /\ s[1] \notin RegistrySteps
      BY <2>1 DEF CreateRoom, CreateLobby, JoinLobby, PublicLobbies, WebsocketPublicLobbies,
                  WebsocketLobby, RegistrySteps
    <3>2. ASSUME n <= 3, s[n] \in RegistrySteps PROVE 2 \in 1 .. n - 1
      BY <3>1, <3>2 DEF RegistrySteps
    <3> QED
      BY <3>1, <3>2
  <2>2. CASE s \in {RoomStatus, LobbyStatus, WebsocketRoomResume, WebsocketInputRoom}
    <3>1. \A i \in DOMAIN s : s[i] # "authority"
      BY <2>2 DEF RoomStatus, LobbyStatus, WebsocketRoomResume, WebsocketInputRoom
    <3> QED
      BY <3>1
  <2>3. CASE s = WebsocketRoom
    <3>1. Len(s) = 4 /\ s[3] = "authority" /\ s[1] \notin RegistrySteps /\ s[2] \notin RegistrySteps
      BY <2>3 DEF WebsocketRoom, RegistrySteps
    <3>2. ASSUME n <= 4, s[n] \in RegistrySteps PROVE 3 \in 1 .. n - 1
      BY <3>1, <3>2 DEF RegistrySteps
    <3> QED
      BY <3>1, <3>2
  <2> QED
    BY <2>1, <2>2, <2>3 DEF Steps
<1>2. Earlier(Route[route])
  BY <1>1, RouteIsListed
<1> QED
  BY <1>2 DEF Asks

\* A step other than the authority's keeps the license.
LEMMA LicenseKept ==
  ASSUME NEW q \in Tasks, NEW p \in Tasks, LicensedTask(q), p.step = q.step + 1,
         q.step <= Len(Route[q.route]) => Route[q.route][q.step] # "authority",
         p.route = q.route, p.kind = q.kind, p.lo = q.lo, p.hi = q.hi,
         p.version = q.version, p.answer = q.answer
  PROVE  LicensedTask(p)
<1> SUFFICES ASSUME Asked(p)
             PROVE  (\E g \in p.answer : Grants(g)) /\ p.version \in Accepted(p)
  BY DEF LicensedTask
<1>1. q.step \in Nat \ {0} /\ q # Idle
  BY IdleOrTask DEF Tasks
<1>2. PICK i \in 1 .. p.step - 1 : i <= Len(Route[q.route]) /\ Route[q.route][i] = "authority"
  BY DEF Asked
<1>3. i \in 1 .. q.step - 1
  BY <1>1, <1>2
<1>4. (\E g \in q.answer : Grants(g)) /\ q.version \in Accepted(q)
  BY <1>1, <1>2, <1>3, Zenon DEF LicensedTask, Asked
<1>5. Accepted(p) = Accepted(q)
  BY DEF Accepted
<1> QED
  BY <1>4, <1>5

\* A step of one task.
LEMMA LicensedStep ==
  ASSUME Licensed, Shape, NEW r \in Requests, NEW q, req' = [req EXCEPT ![r] = q], LicensedTask(q)
  PROVE  Licensed'
<1>1. \A x \in Requests : req'[x] = IF x = r THEN q ELSE req[x]
  BY DEF Shape
<1>2. \A x \in Requests : LicensedTask(req'[x])
  BY <1>1 DEF Licensed
<1> QED
  BY <1>2 DEF Licensed, LicensedTask, Asked

\* No handler starts with the license authority.
LEMMA AuthorityIsNotFirst == \A route \in Routes : Route[route][1] # "authority"
  BY SMTT(30) DEF Routes, Route, CreateRoom, RoomStatus, WebsocketRoom, WebsocketRoomResume,
     WebsocketInputRoom, CreateLobby, JoinLobby, LobbyStatus, PublicLobbies,
     WebsocketPublicLobbies, WebsocketLobby

\* Every step keeps the licenses.
LEMMA LicensesStep ==
  ASSUME ProtocolInv, Licensed, AdmNext PROVE Licensed'
<1>0. Shape
  BY DEF ProtocolInv
<1>1. LicensedTask(Idle)
  BY DEF LicensedTask
<1>2. ASSUME NEW r \in Requests, Refuse(r) PROVE Licensed'
  BY <1>0, <1>1, <1>2, LicensedStep, Zenon DEF Refuse
<1>3. ASSUME NEW r \in Requests, At(r) \in {"limit", "exact", "join"}, NEW id \in Nat,
             req' = [req EXCEPT ![r].step = @ + 1] \/ req' = [req EXCEPT ![r].step = @ + 1, ![r].room = id]
      PROVE  Licensed'
  <2>1. req[r] \in Tasks /\ LicensedTask(req[r])
    BY <1>0, <1>3, AtTask DEF Licensed
  <2>2. req[r].step \in Nat \ {0} /\ req[r].route \in Routes
    BY <2>1 DEF Tasks
  <2>3. req[r].step <= Len(Route[req[r].route]) => Route[req[r].route][req[r].step] # "authority"
    <3>1. Route[req[r].route][1] # "authority"
      BY <2>2, AuthorityIsNotFirst, Zenon
    <3> QED
      BY <1>3, <2>2, <3>1 DEF At
  <2>4. 4 \in Versions
    BY DEF Versions
  <2>5. ASSUME NEW q \in Tasks, q \in {[req[r] EXCEPT !.step = @ + 1],
                                       [req[r] EXCEPT !.step = @ + 1, !.room = id]}
        PROVE  LicensedTask(q)
    <3>1. /\ q.step = req[r].step + 1 /\ q.route = req[r].route /\ q.kind = req[r].kind
          /\ q.lo = req[r].lo /\ q.hi = req[r].hi /\ q.version = req[r].version
          /\ q.answer = req[r].answer
      BY <2>1, <2>5, Zenon DEF Tasks
    <3> QED
      BY <2>1, <2>3, <3>1, LicenseKept
  <2>6. /\ [req[r] EXCEPT !.step = @ + 1] \in Tasks
        /\ [req[r] EXCEPT !.step = @ + 1, !.room = id] \in Tasks
    BY <2>1, <2>4, TaskAfter, Zenon
  <2>7. \E q \in Tasks : LicensedTask(q) /\ req' = [req EXCEPT ![r] = q]
    BY <1>3, <2>5, <2>6
  <2> QED
    BY <1>0, <2>7, LicensedStep, Zenon
<1>4. ASSUME NEW r \in Requests, NEW route \in Routes, NEW key \in Keys, NEW kind \in ClientKinds,
             NEW code \in Codes, NEW lo \in Versions, NEW hi \in Versions,
             Arrive(r, route, key, kind, code, lo, hi)
      PROVE  Licensed'
  <2> DEFINE q == [step |-> 1, route |-> route, key |-> key, kind |-> kind, code |-> code, lo |-> lo,
                   hi |-> hi, stamp |-> clock, version |-> hi, answer |-> {}, room |-> 0]
  <2>1. req' = [req EXCEPT ![r] = q]
    BY <1>4, Zenon DEF Arrive
  <2>2. q.step = 1
    OBVIOUS
  <2> HIDE DEF q
  <2>3. LicensedTask(q)
    BY <2>2 DEF LicensedTask, Asked
  <2> QED
    BY <1>0, <2>1, <2>3, LicensedStep, Zenon
<1>5. ASSUME NEW r \in Requests, CheckRateLimit(r) PROVE Licensed'
  BY <1>2, <1>3, <1>5, CheckStep, Zenon DEF Proceed
<1>6. ASSUME NEW r \in Requests, VerifyClientAccess(r) PROVE Licensed'
  <2>1. CASE Refuse(r)
    BY <1>2, <2>1
  <2>2. ASSUME NEW a \in Answers, NEW v \in Accepted(req[r]), Grants(a),
               req' = [req EXCEPT ![r].step = @ + 1, ![r].version = v, ![r].answer = {a}]
        PROVE  Licensed'
    <3> DEFINE q == [req[r] EXCEPT !.step = @ + 1, !.version = v, !.answer = {a}]
    <3>1. req' = [req EXCEPT ![r] = q]
      BY <2>2, Zenon
    <3>2. req[r] \in Tasks
      BY <1>0, <1>6, AtTask, Zenon DEF VerifyClientAccess
    <3>3. /\ q.route = req[r].route /\ q.kind = req[r].kind /\ q.lo = req[r].lo /\ q.hi = req[r].hi
          /\ q.version = v /\ q.answer = {a}
      BY <3>2 DEF Tasks
    <3> HIDE DEF q
    <3>4. Accepted(q) = Accepted(req[r])
      BY <3>3, Zenon DEF Accepted
    <3>5. LicensedTask(q)
      BY <2>2, <3>3, <3>4 DEF LicensedTask
    <3> QED
      BY <1>0, <3>1, <3>5, LicensedStep, Zenon
  <2> QED
    BY <1>6, <2>1, <2>2, Zenon DEF VerifyClientAccess
<1>7. ASSUME NEW r \in Requests, CheckRoomProtocol(r) PROVE Licensed'
  <2> DEFINE room == rooms[req[r].code]
  <2>1. CASE Refuse(r)
    BY <1>2, <2>1
  <2>2. CASE room # NoRoom /\ req' = [req EXCEPT ![r].step = @ + 1, ![r].room = room.id]
    <3>1. At(r) = "exact"
      BY <1>7 DEF CheckRoomProtocol
    <3>2. req[r].code \in Codes
      BY <1>0, <3>1, AtTask, Zenon DEF Tasks
    <3>3. room.id \in Nat
      BY <1>0, <2>2, <3>2 DEF Shape, RoomRecords
    <3> QED
      BY <1>3, <2>2, <3>1, <3>3, Zenon
  <2> QED
    BY <1>7, <2>1, <2>2 DEF CheckRoomProtocol
<1>8. ASSUME NEW r \in Requests, NEW asHost \in BOOLEAN, JoinRoom(r, asHost) PROVE Licensed'
  BY <1>2, <1>3, <1>8, Zenon DEF JoinRoom, Proceed
<1>9. ASSUME NEW r \in Requests,
             (\E code \in Codes : InsertRoom(r, code)) \/ EndSession(r) \/ EnterLobby(r) \/ ReadView(r)
      PROVE  Licensed'
  BY <1>2, <1>9, Zenon DEF InsertRoom, EndSession, EnterLobby, ReadView
<1>10. ASSUME req' = req PROVE Licensed'
  BY <1>10, Zenon DEF Licensed, LicensedTask, Asked
<1>11. CASE Tick \/ \E code \in Codes : ExpireRoom(code)
  BY <1>10, <1>11 DEF Tick, ExpireRoom
<1> QED
  BY <1>4, <1>5, <1>6, <1>7, <1>8, <1>9, <1>11 DEF AdmNext

\* What a licensed task hands to a registry is within the policy.
LEMMA AdmitStep ==
  ASSUME ProtocolInv, Licensed, NEW r \in Requests, At(r) \in RegistrySteps, Admit(r)
  PROVE  AdmittedWithinPolicy'
<1> DEFINE q == req[r]
           a == [route |-> q.route, kind |-> q.kind, lo |-> q.lo, hi |-> q.hi,
                 version |-> q.version, answer |-> q.answer]
<1>1. admitted' = {a}
  BY DEF Admit
<1>2. q \in Tasks /\ q # Idle /\ Shape
  BY AtTask, IdleOrTask, Zenon DEF ProtocolInv, RegistrySteps
<1>3. /\ q.step \in Nat \ {0} /\ q.route \in Routes /\ q.kind \in ClientKinds
      /\ q.lo \in Versions /\ q.hi \in Versions /\ q.version \in Versions
  BY <1>2 DEF Tasks
<1>4. q.step <= Len(Route[q.route]) /\ Route[q.route][q.step] \in RegistrySteps
  <2>1. Len(Route[q.route]) \in Nat
    BY <1>3, RouteSteps
  <2> QED
    BY <1>3, <2>1 DEF At, RegistrySteps
<1>5. a.route = q.route /\ a.kind = q.kind /\ a.lo = q.lo /\ a.hi = q.hi
      /\ a.version = q.version /\ a.answer = q.answer
  OBVIOUS
<1> HIDE DEF a
<1> SUFFICES ASSUME Asks(q.route)
             PROVE  /\ \E g \in q.answer : g.status = "ok" /\ g.valid # "false" /\ g.kind # "other"
                    /\ q.route \notin {"publicLobbies", "directory"} =>
                         q.version \in Minimum[q.kind] .. MaximumVersion
                    /\ q.route = "createRoom" =>
                         /\ q.version \in q.lo .. q.hi
                         /\ \A v \in Versions : v \in q.lo .. q.hi /\ v <= MaximumVersion
                                                   => v <= q.version
  BY <1>1, <1>5, Zenon DEF AdmittedWithinPolicy, Asks
<1>6. Asked(q)
  <2>1. PICK i \in 1 .. q.step - 1 : Route[q.route][i] = "authority"
    BY <1>3, <1>4, AskedBeforeRegistry
  <2> QED
    BY <1>3, <1>4, <2>1, RouteSteps, SMTT(30) DEF Asked
<1>7. (\E g \in q.answer : Grants(g)) /\ q.version \in Accepted(q)
  BY <1>2, <1>6 DEF Licensed, LicensedTask
<1>8. MaximumVersion \in {4, 5} /\ Minimum[q.kind] \in 4 .. MaximumVersion
  BY <1>3, AdmissionAssumption DEF MaximumVersion
<1>9. q.lo \in {4, 5} /\ q.hi \in {4, 5} /\ q.version \in {4, 5}
  BY <1>3 DEF Versions
<1>10. \E g \in q.answer : g.status = "ok" /\ g.valid # "false" /\ g.kind # "other"
  BY <1>7 DEF Grants
<1>11. CASE q.route = "createRoom"
  <2>1. q.version \in Negotiate(q.kind, q.lo, q.hi)
    BY <1>7, <1>11 DEF Accepted
  <2> HIDE DEF q
  <2> QED
    BY <1>8, <1>9, <1>10, <2>1 DEF Negotiate, Versions
<1>12. CASE q.route # "createRoom"
  BY <1>7, <1>10, <1>12, Zenon DEF Accepted, ValidateExact
<1> QED
  BY <1>11, <1>12, Zenon

\* No request reaches a registry through a licensed route without a grant, nor with a
\* version outside the rollout, however requests interleave between their steps
\* (verify_client_access, negotiate, validate_exact).
THEOREM PolicyEnforced == AdmSpec => []AdmittedWithinPolicy
<1>1. AdmInit => Licensed /\ AdmittedWithinPolicy
  BY Zenon DEF AdmInit, Licensed, LicensedTask, AdmittedWithinPolicy
<1>2. ProtocolInv /\ Licensed /\ AdmittedWithinPolicy /\ [AdmNext]_admVars
        => Licensed' /\ AdmittedWithinPolicy'
  <2> SUFFICES ASSUME ProtocolInv, Licensed, AdmittedWithinPolicy, [AdmNext]_admVars
               PROVE  Licensed' /\ AdmittedWithinPolicy'
    OBVIOUS
  <2>1. CASE UNCHANGED admVars
    BY <2>1, Zenon DEF admVars, Licensed, LicensedTask, Asked, AdmittedWithinPolicy
  <2>2. CASE AdmNext
    <3>1. ASSUME admitted' = admitted PROVE AdmittedWithinPolicy'
      BY <3>1 DEF AdmittedWithinPolicy
    <3>2. ASSUME NEW r \in Requests, At(r) \in RegistrySteps, Admit(r) PROVE AdmittedWithinPolicy'
      BY <3>2, AdmitStep
    <3>3. ASSUME NEW r \in Requests,
                 \/ \E code \in Codes : InsertRoom(r, code)
                 \/ \E asHost \in BOOLEAN : JoinRoom(r, asHost)
                 \/ EnterLobby(r)
                 \/ ReadView(r)
          PROVE  AdmittedWithinPolicy'
      <4>1. admitted' = admitted \/ (At(r) \in RegistrySteps /\ Admit(r))
        BY <3>3, Zenon DEF InsertRoom, JoinRoom, EnterLobby, ReadView, RegistrySteps
      <4> QED
        BY <3>1, <3>2, <4>1
    <3>4. ASSUME NEW r \in Requests,
                 \/ CheckRateLimit(r)
                 \/ VerifyClientAccess(r)
                 \/ CheckRoomProtocol(r)
                 \/ EndSession(r)
          PROVE  admitted' = admitted
      BY <3>4, CheckStep, Zenon DEF VerifyClientAccess, CheckRoomProtocol, EndSession
    <3>5. ASSUME NEW r \in Requests, NEW route \in Routes, NEW key \in Keys, NEW kind \in ClientKinds,
                 NEW code \in Codes, NEW lo \in Versions, NEW hi \in Versions,
                 Arrive(r, route, key, kind, code, lo, hi)
          PROVE  admitted' = admitted
      BY <3>5, Zenon DEF Arrive
    <3>6. ASSUME Tick \/ \E code \in Codes : ExpireRoom(code) PROVE admitted' = admitted
      BY <3>6 DEF Tick, ExpireRoom
    <3>7. AdmittedWithinPolicy'
      BY <2>2, <3>1, <3>3, <3>4, <3>5, <3>6 DEF AdmNext
    <3> QED
      BY <2>2, <3>7, LicensesStep
  <2> QED
    BY <2>1, <2>2
<1> QED
  BY <1>1, <1>2, ProtocolAlways, PTL DEF AdmSpec


-----------------------------------------------------------------------------
(* The rate limiter.                                                       *)

\* The checks among s whose clock reading lies in the span that ends with t.
InSpan(s, t) == {i \in DOMAIN s : s[i] \in (t - (Window - Delay) + 1) .. t}

\* The bucket s keeps the latest of the checks h that passed; what it has forgotten is older
\* than the window, seen from any clock reading after c.
Fits(s, h, limit, c) ==
  /\ Len(s) <= limit /\ Len(h) - Len(s) >= 0
  /\ \A i \in 1 .. Len(s) : s[i] = h[Len(h) - Len(s) + i]
  /\ \A i \in 1 .. (Len(h) - Len(s)) : h[i] + Window <= c
  /\ \A i \in 1 .. Len(h) : h[i] <= c
  /\ \A t \in Nat : Cardinality(InSpan(h, t)) <= limit

BucketFits(b) == Fits(buckets[b], passed[b], Limits[b[1]], clock)

\* A task that waits for the mutex has read the clock at most Delay ago.
Stamped(q) == q # Idle /\ q.step = 1 => q.stamp <= clock /\ clock <= q.stamp + Delay

LimiterInv ==
  /\ passed \in [Buckets -> Seq(Nat)] /\ buckets \in [Buckets -> Seq(Nat)]
  /\ \A b \in Buckets : BucketFits(b)
  /\ \A r \in Requests : Stamped(req[r])

\* Pruned keeps the end of a bucket, what it drops is older than the window, and it drops
\* an oldest entry that is.
LEMMA PrunedFacts ==
  ASSUME NEW s \in Seq(Nat), NEW now \in Nat
  PROVE  /\ Pruned(s, now) \in Seq(Nat) /\ Len(Pruned(s, now)) \in 0 .. Len(s)
         /\ \A i \in 1 .. Len(Pruned(s, now)) :
              Pruned(s, now)[i] = s[Len(s) - Len(Pruned(s, now)) + i]
         /\ \A i \in 1 .. (Len(s) - Len(Pruned(s, now))) : s[i] + Window <= now
         /\ s # << >> /\ s[1] + Window <= now => Len(Pruned(s, now)) < Len(s)
<1> DEFINE kept == {i \in DOMAIN s : \E j \in 1 .. i : s[j] > now - Window}
           n == Len(s)
           k == Cardinality(kept)
<1>0. n \in Nat /\ DOMAIN s = 1 .. n /\ Window \in Nat
  BY AdmissionAssumption
<1>1. kept \in SUBSET (1 .. n) /\ IsFiniteSet(1 .. n) /\ Cardinality(1 .. n) = n
  <2>1. 1 \in Int /\ n \in Int
    BY <1>0
  <2>2. IsFiniteSet(1 .. n) /\ Cardinality(1 .. n) = IF 1 > n THEN 0 ELSE n - 1 + 1
    BY <2>1, FS_Interval
  <2> QED
    BY <1>0, <2>2
<1>2. IsFiniteSet(kept) /\ k <= n /\ k \in Nat
  <2>1. IsFiniteSet(kept) /\ Cardinality(kept) <= Cardinality(1 .. n)
    BY <1>1, FS_Subset
  <2>2. Cardinality(kept) \in Nat
    BY <2>1, FS_CardinalityType
  <2> QED
    BY <1>1, <2>1, <2>2
<1>3. Pruned(s, now) = SubSeq(s, n - k + 1, n)
  BY DEF Pruned
<1>4. ASSUME NEW i \in 1 .. (n - k) PROVE s[i] + Window <= now
  <2> SUFFICES ASSUME s[i] + Window > now PROVE FALSE
    <3>1. i \in 1 .. n /\ s[i] \in Nat
      BY <1>0, <1>2
    <3> QED
      BY <1>0, <3>1
  <2>1. i \in 1 .. n /\ s[i] \in Nat /\ s[i] > now - Window
    BY <1>0, <1>2, SMTT(30)
  <2>2. i .. n \in SUBSET kept
    BY <1>0, <2>1, SMTT(30)
  <2>3. IsFiniteSet(i .. n) /\ Cardinality(i .. n) = n - i + 1
    <3>1. i \in Int /\ n \in Int /\ ~(i > n)
      BY <1>0, <2>1
    <3> QED
      BY <3>1, FS_Interval
  <2>4. Cardinality(i .. n) <= k
    BY <1>2, <2>2, FS_Subset, Zenon
  <2> HIDE DEF k, kept
  <2> QED
    BY <1>0, <1>2, <2>1, <2>3, <2>4
<1>8. ASSUME s # << >>, s[1] + Window <= now PROVE k < n
  <2>1. n >= 1 /\ s[1] \in Nat /\ ~(s[1] > now - Window)
    BY <1>0, <1>8
  <2>2. kept \in SUBSET (2 .. n)
    <3>1. ASSUME NEW i \in kept PROVE i \in 2 .. n
      <4>1. i \in 1 .. n /\ \E j \in 1 .. i : s[j] > now - Window
        BY <1>0
      <4>2. i # 1
        BY <2>1, <4>1
      <4> QED
        BY <1>0, <4>1, <4>2
    <3> QED
      BY <3>1
  <2>3. IsFiniteSet(2 .. n) /\ Cardinality(2 .. n) = n - 1
    <3>1. 2 \in Int /\ n \in Int
      BY <1>0
    <3>2. IsFiniteSet(2 .. n) /\ Cardinality(2 .. n) = IF 2 > n THEN 0 ELSE n - 2 + 1
      BY <3>1, FS_Interval, SMTT(30)
    <3> QED
      BY <1>0, <2>1, <3>2
  <2>4. k <= Cardinality(2 .. n)
    BY <2>2, <2>3, FS_Subset
  <2> HIDE DEF k, kept
  <2> QED
    BY <1>0, <1>2, <2>3, <2>4
<1> HIDE DEF k, kept
<1>5. /\ SubSeq(s, n - k + 1, n) \in Seq(Nat) /\ Len(SubSeq(s, n - k + 1, n)) = k
      /\ \A i \in 1 .. k : SubSeq(s, n - k + 1, n)[i] = s[n - k + i]
  <2>1. n - k + 1 \in 1 .. (n + 1)
    BY <1>0, <1>2
  <2>2. SubSeq(s, n - k + 1, n) = [i \in 1 .. k |-> s[n - k + i]]
    BY <1>0, <1>2, <2>1, SMTT(30)
  <2>3. \A i \in 1 .. k : n - k + i \in 1 .. n
    BY <1>0, <1>2
  <2>4. [i \in 1 .. k |-> s[n - k + i]] \in Seq(Nat)
    BY <1>0, <1>2, <2>3
  <2>5. PICK v \in Seq(Nat) : v = [i \in 1 .. k |-> s[n - k + i]]
    BY <2>4, Zenon
  <2>6. k \in Nat /\ DOMAIN v = 1 .. k
    BY <1>2, <2>5
  <2>7. Len(v) = k
    BY <2>6
  <2>8. \A i \in 1 .. k : v[i] = s[n - k + i]
    BY <2>5
  <2> QED
    BY <2>2, <2>5, <2>7, <2>8, Zenon
<1>6. /\ Pruned(s, now) \in Seq(Nat) /\ Len(Pruned(s, now)) = k
      /\ \A i \in 1 .. k : Pruned(s, now)[i] = s[n - k + i]
  BY <1>3, <1>5, Zenon
<1>7. k \in 0 .. n
  BY <1>0, <1>2
<1> QED
  BY <1>4, <1>6, <1>7, <1>8, Zenon


\* The first step of a route is its limiter action.
LEMMA LimitIsFirst ==
  ASSUME NEW route \in Routes
  PROVE  Route[route][1] \in LimitActions /\ Len(Route[route]) \in Nat /\ Len(Route[route]) >= 1
<1>1. Route[route] \in Steps
  BY RouteIsListed
<1>2. \A s \in Steps : s[1] \in LimitActions
  BY DEF Steps, LimitActions, CreateRoom, RoomStatus, WebsocketRoom, WebsocketRoomResume,
         WebsocketInputRoom, CreateLobby, JoinLobby, LobbyStatus, PublicLobbies,
         WebsocketPublicLobbies, WebsocketLobby
<1>3. \A s \in Steps : Len(s) \in Nat /\ Len(s) >= 1
  BY DEF Steps, CreateRoom, RoomStatus, WebsocketRoom, WebsocketRoomResume,
         WebsocketInputRoom, CreateLobby, JoinLobby, LobbyStatus, PublicLobbies,
         WebsocketPublicLobbies, WebsocketLobby
<1> QED
  BY <1>1, <1>2, <1>3

\* A task waits for the limiter exactly in its first step.
LEMMA AtLimit ==
  ASSUME Shape, NEW r \in Requests
  PROVE  At(r) = "limit" <=> req[r] \in Tasks /\ req[r].step = 1
<1>1. req[r] \in {Idle} \cup Tasks
  BY DEF Shape
<1>2. CASE req[r] = Idle
  <2>1. req[r].step = 0 /\ req[r] \notin Tasks
    BY <1>1, <1>2, IdleOrTask
  <2> QED
    BY <2>1 DEF At
<1>3. CASE req[r] \in Tasks
  <2>1. req[r].step \in Nat \ {0} /\ req[r].route \in Routes
    BY <1>3 DEF Tasks
  <2>2. Len(Route[req[r].route]) \in Nat /\ Len(Route[req[r].route]) >= 1
    BY <2>1, LimitIsFirst
  <2>3. \A i \in 1 .. Len(Route[req[r].route]) : Route[req[r].route][i] # "limit"
    <3>1. ASSUME NEW s \in Steps PROVE \A i \in 1 .. Len(s) : s[i] # "limit"
      <4>1. CASE s \in {CreateRoom, CreateLobby, JoinLobby, PublicLobbies, WebsocketPublicLobbies,
                        WebsocketLobby}
        BY <4>1 DEF CreateRoom, CreateLobby, JoinLobby, PublicLobbies, WebsocketPublicLobbies,
                    WebsocketLobby
      <4>2. CASE s \in {RoomStatus, LobbyStatus}
        BY <4>2 DEF RoomStatus, LobbyStatus
      <4>3. CASE s \in {WebsocketRoomResume, WebsocketInputRoom}
        BY <4>3 DEF WebsocketRoomResume, WebsocketInputRoom
      <4>4. CASE s = WebsocketRoom
        BY <4>4 DEF WebsocketRoom
      <4> QED
        BY <4>1, <4>2, <4>3, <4>4 DEF Steps
    <3> QED
      BY <2>1, <3>1, RouteIsListed
  <2> QED
    BY <1>3, <2>1, <2>2, <2>3 DEF At
<1> QED
  BY <1>1, <1>2, <1>3

\* The bucket b has been pruned to e; nothing else moved.
LEMMA PrunedBucket ==
  ASSUME LimiterInv, clock \in Nat, NEW b \in Buckets, NEW now \in Nat, now <= clock
  PROVE  LET e == Pruned(buckets[b], now)
             g == Len(passed[b]) - Len(e)
         IN  /\ e \in Seq(Nat) /\ Len(e) \in Nat /\ Len(e) <= Limits[b[1]] /\ g \in Nat
             /\ \A i \in 1 .. Len(e) : e[i] = passed[b][g + i]
             /\ \A i \in 1 .. g : passed[b][i] + Window <= clock
<1> DEFINE s == buckets[b]
           e == Pruned(s, now)
           h == passed[b]
           g == Len(h) - Len(e)
<1>0. s \in Seq(Nat) /\ h \in Seq(Nat) /\ BucketFits(b)
  BY DEF LimiterInv
<1>1. Len(s) \in Nat /\ Len(h) \in Nat /\ Window \in Nat /\ Limits[b[1]] \in Nat
  <2>1. b[1] \in LimitActions
    BY DEF Buckets
  <2> QED
    BY <1>0, <2>1, AdmissionAssumption
<1>2. /\ Len(s) <= Limits[b[1]] /\ Len(h) - Len(s) >= 0
      /\ \A i \in 1 .. Len(s) : s[i] = h[Len(h) - Len(s) + i]
      /\ \A i \in 1 .. (Len(h) - Len(s)) : h[i] + Window <= clock
  BY <1>0, Zenon DEF BucketFits, Fits
<1>3. /\ e \in Seq(Nat) /\ Len(e) \in 0 .. Len(s)
      /\ \A i \in 1 .. Len(e) : e[i] = s[Len(s) - Len(e) + i]
      /\ \A i \in 1 .. (Len(s) - Len(e)) : s[i] + Window <= now
  BY <1>0, PrunedFacts, SMTT(30)
<1> HIDE DEF s, e, h
<1>4. Len(e) \in Nat /\ g \in Nat /\ Len(e) <= Limits[b[1]]
  BY <1>1, <1>2, <1>3
<1>5. ASSUME NEW i \in 1 .. Len(e) PROVE e[i] = h[g + i]
  <2>1. Len(s) - Len(e) + i \in 1 .. Len(s)
    BY <1>1, <1>3, <1>4
  <2>2. e[i] = h[Len(h) - Len(s) + (Len(s) - Len(e) + i)]
    BY <1>2, <1>3, <2>1
  <2>3. Len(h) - Len(s) + (Len(s) - Len(e) + i) = g + i
    BY <1>1, <1>4
  <2> QED
    BY <2>2, <2>3
<1>6. ASSUME NEW i \in 1 .. g PROVE h[i] + Window <= clock
  <2>1. CASE i <= Len(h) - Len(s)
    BY <1>1, <1>2, <1>4, <2>1
  <2>2. CASE i > Len(h) - Len(s)
    <3> DEFINE j == i - (Len(h) - Len(s))
    <3>1. j \in 1 .. (Len(s) - Len(e)) /\ j \in 1 .. Len(s) /\ Len(h) - Len(s) + j = i
      BY <1>1, <1>2, <1>3, <1>4, <2>2
    <3>2. s[j] = h[i] /\ s[j] + Window <= now
      BY <1>2, <1>3, <3>1
    <3>3. h[i] \in Nat
      <4>1. i \in 1 .. Len(h)
        BY <1>1, <1>4
      <4> QED
        BY <1>0, <4>1, SMTT(30) DEF h
    <3> QED
      BY <1>1, <3>2, <3>3
  <2> QED
    BY <1>1, <2>1, <2>2
<1> QED
  BY <1>3, <1>4, <1>5, <1>6 DEF s, e, h

\* A check that passes with clock reading now: no span gets more than the limit.
LEMMA SpanStep ==
  ASSUME LimiterInv, clock \in Nat, NEW b \in Buckets, NEW now \in Nat, clock <= now + Delay,
         NEW g \in Nat, g <= Len(passed[b]), Len(passed[b]) - g < Limits[b[1]],
         \A i \in 1 .. g : passed[b][i] + Window <= clock,
         NEW t \in Nat
  PROVE  Cardinality(InSpan(Append(passed[b], now), t)) <= Limits[b[1]]
<1> DEFINE h == passed[b]
           n == Len(h)
           h2 == Append(h, now)
<1>0. h \in Seq(Nat) /\ BucketFits(b)
  BY DEF LimiterInv
<1>1. n \in Nat /\ Window \in Nat /\ Delay \in Nat /\ Delay <= Window /\ Limits[b[1]] \in Nat
  <2>1. b[1] \in LimitActions
    BY DEF Buckets
  <2> QED
    BY <1>0, <2>1, AdmissionAssumption
<1>2. /\ DOMAIN h2 = 1 .. (n + 1) /\ h2[n + 1] = now
      /\ \A i \in 1 .. n : h2[i] = h[i] /\ h[i] \in Nat
      /\ DOMAIN h = 1 .. n
  BY <1>0, SMTT(20)
<1> HIDE DEF h2
<1>3. CASE now \in (t - (Window - Delay) + 1) .. t
  <2>1. ASSUME NEW i \in InSpan(h2, t) PROVE i \in (g + 1) .. (n + 1)
    <3>1. i \in 1 .. (n + 1) /\ h2[i] \in (t - (Window - Delay) + 1) .. t
      BY <1>2, <2>1 DEF InSpan
    <3>2. CASE i <= g
      <4>1. i \in 1 .. g /\ i \in 1 .. n
        BY <1>1, <3>1, <3>2
      <4>2. h2[i] \in Nat /\ h2[i] + Window <= clock
        BY <1>2, <4>1
      <4>3. h2[i] + Window <= now + Delay
        BY <1>1, <4>2
      <4> QED
        BY <1>1, <1>3, <3>1, <4>2, <4>3
    <3>3. CASE i > g
      BY <1>1, <3>1, <3>3
    <3> QED
      BY <3>1, <3>2, <3>3
  <2>2. IsFiniteSet((g + 1) .. (n + 1)) /\ Cardinality((g + 1) .. (n + 1)) = n - g + 1
    <3>1. g + 1 \in Int /\ n + 1 \in Int /\ ~(g + 1 > n + 1)
      BY <1>1
    <3>2. IsFiniteSet((g + 1) .. (n + 1)) /\ Cardinality((g + 1) .. (n + 1)) = (n + 1) - (g + 1) + 1
      BY <3>1, FS_Interval
    <3> QED
      BY <1>1, <3>2
  <2>3. IsFiniteSet(InSpan(h2, t)) /\ Cardinality(InSpan(h2, t)) <= Cardinality((g + 1) .. (n + 1))
    BY <2>1, <2>2, FS_Subset
  <2>4. Cardinality(InSpan(h2, t)) \in Nat
    BY <2>3, FS_CardinalityType
  <2> QED
    BY <1>1, <2>2, <2>3, <2>4, SMTT(30) DEF h2
<1>4. CASE now \notin (t - (Window - Delay) + 1) .. t
  <2>1. InSpan(h2, t) = InSpan(h, t)
    <3>1. ASSUME NEW i \in InSpan(h2, t) PROVE i \in InSpan(h, t)
      <4>1. i \in 1 .. (n + 1) /\ h2[i] \in (t - (Window - Delay) + 1) .. t
        BY <1>2, <3>1, Zenon DEF InSpan
      <4>2. i # n + 1
        BY <1>2, <1>4, <4>1, Zenon
      <4>3. i \in 1 .. n
        BY <1>1, <4>1, <4>2
      <4> QED
        BY <1>2, <4>1, <4>3, Zenon DEF InSpan
    <3>2. ASSUME NEW i \in InSpan(h, t) PROVE i \in InSpan(h2, t)
      <4>1. i \in 1 .. n /\ h[i] \in (t - (Window - Delay) + 1) .. t
        BY <1>2, <3>2, Zenon DEF InSpan
      <4>2. i \in 1 .. (n + 1)
        BY <1>1, <4>1
      <4> QED
        BY <1>2, <4>1, <4>2, Zenon DEF InSpan
    <3> QED
      BY <3>1, <3>2, Zenon
  <2>2. Cardinality(InSpan(h, t)) <= Limits[b[1]]
    BY <1>0 DEF BucketFits, Fits
  <2> QED
    BY <2>1, <2>2 DEF h2
<1> QED
  BY <1>3, <1>4

\* A task that goes on is past the limiter.
LEMMA PastLimit ==
  ASSUME Shape, NEW r \in Requests, req[r] \in Tasks, NEW v, NEW a, NEW id,
         \/ req' = [req EXCEPT ![r].step = @ + 1]
         \/ req' = [req EXCEPT ![r].step = @ + 1, ![r].version = v, ![r].answer = a]
         \/ req' = [req EXCEPT ![r].step = @ + 1, ![r].room = id]
  PROVE  \A x \in Requests : req'[x] = req[x] \/ req'[x].step # 1
<1>1. req[r].step \in Nat \ {0} /\ "step" \in DOMAIN req[r]
  BY DEF Tasks
<1>2. req[r].step + 1 # 1
  BY <1>1
<1>3. DOMAIN req = Requests
  BY DEF Shape
<1>4. req'[r].step = req[r].step + 1
  BY <1>1, <1>3
<1>5. \A x \in Requests : x # r => req'[x] = req[x]
  BY <1>3
<1> QED
  BY <1>2, <1>4, <1>5

\* A step that leaves the limiter alone.
LEMMA OtherStep ==
  ASSUME LimiterInv, Shape, UNCHANGED <<clock, buckets, passed>>,
         \A x \in Requests : \/ req'[x] = req[x] \/ req'[x] = Idle \/ req'[x].step # 1
                             \/ req'[x].stamp = clock
  PROVE  LimiterInv'
<1>1. \A b \in Buckets : BucketFits(b)'
  BY DEF LimiterInv, BucketFits
<1>2. ASSUME NEW x \in Requests PROVE Stamped(req[x])'
  <2>1. clock <= clock /\ clock <= clock + Delay
    BY AdmissionAssumption DEF Shape
  <2>2. Stamped(req[x])
    BY DEF LimiterInv
  <2> QED
    BY <2>1, <2>2 DEF Stamped
<1> QED
  BY <1>1, <1>2 DEF LimiterInv

LEMMA NextIndex == \A g, n, k \in Nat : g = n - k => g + (k + 1) = n + 1
  OBVIOUS

LEMMA Appended ==
  ASSUME NEW s \in Seq(Nat), NEW x \in Nat
  PROVE  /\ Append(s, x) \in Seq(Nat) /\ Len(Append(s, x)) = Len(s) + 1
         /\ \A i \in 1 .. Len(s) : Append(s, x)[i] = s[i]
         /\ Append(s, x)[Len(s) + 1] = x
  OBVIOUS

\* A check reads and writes one bucket.
LEMMA LimitStep ==
  ASSUME LimiterInv, Shape, NEW r \in Requests, CheckRateLimit(r)
  PROVE  LimiterInv'
<1>0. req[r] \in Tasks /\ req[r].step = 1 /\ req[r] # Idle
  BY AtLimit, IdleOrTask, Zenon DEF CheckRateLimit, Shape
<1>b. PICK b \in Buckets, now \in Nat :
        b = <<Route[req[r].route][1], req[r].key>> /\ now = req[r].stamp
  BY <1>0, LimitIsFirst, Zenon DEF Tasks, Buckets
<1>2. now <= clock /\ clock <= now + Delay /\ clock \in Nat
  BY <1>0, <1>b DEF LimiterInv, Stamped, Shape
<1>e. PICK e \in Seq(Nat), g \in Nat :
        /\ e = Pruned(buckets[b], now) /\ g = Len(passed[b]) - Len(e)
        /\ Len(e) \in Nat /\ Len(e) <= Limits[b[1]]
        /\ \A i \in 1 .. Len(e) : e[i] = passed[b][g + i]
        /\ \A i \in 1 .. g : passed[b][i] + Window <= clock
  BY <1>2, PrunedBucket, Zenon
<1>3. /\ clock' = clock
      /\ IF Exhausted(e, b[1])
         THEN /\ Refuse(r)
              /\ buckets' = IF Limits[b[1]] = 0 THEN buckets ELSE [buckets EXCEPT ![b] = e]
              /\ UNCHANGED passed
         ELSE /\ Proceed(r)
              /\ buckets' = [buckets EXCEPT ![b] = Append(e, now)]
              /\ passed' = [passed EXCEPT ![b] = Append(@, now)]
  BY <1>b, <1>e, Zenon DEF CheckRateLimit
<1>4. /\ Len(e) <= Limits[b[1]]
      /\ \A i \in 1 .. Len(e) : e[i] = passed[b][g + i]
      /\ \A i \in 1 .. g : passed[b][i] + Window <= clock
  BY <1>e, Zenon
<1>g. g = Len(passed[b]) - Len(e) /\ g \in Nat /\ Len(e) \in Nat
  BY <1>e, Zenon
<1>5. passed[b] \in Seq(Nat) /\ Len(passed[b]) \in Nat /\ Limits[b[1]] \in Nat /\ Window \in Nat
  <2>1. b[1] \in LimitActions
    BY DEF Buckets
  <2>2. passed[b] \in Seq(Nat)
    BY DEF LimiterInv
  <2> QED
    BY <2>1, <2>2, AdmissionAssumption
<1>n. g + (Len(e) + 1) = Len(passed[b]) + 1
  <2>1. Len(passed[b]) \in Nat /\ Len(e) \in Nat /\ g \in Nat /\ g = Len(passed[b]) - Len(e)
    BY <1>5, <1>g, Zenon
  <2> QED
    BY <2>1, NextIndex, ZenonT(30)
<1>6. BucketFits(b)
  BY DEF LimiterInv
<1>7. \A x \in Requests : Stamped(req[x])'
  <2>1. CASE Refuse(r)
    <3>1. \A x \in Requests : req'[x] = req[x] \/ req'[x] = Idle
      BY <2>1 DEF Refuse, Shape
    <3> QED
      BY <1>3, <3>1, Zenon DEF LimiterInv, Stamped
  <2>2. CASE Proceed(r)
    <3>1. \A x \in Requests : req'[x] = req[x] \/ req'[x].step # 1
      BY <1>0, <2>2, PastLimit, Zenon DEF Proceed
    <3>2. \A x \in Requests : Stamped(req[x])
      BY DEF LimiterInv
    <3>3. clock' = clock
      BY <1>3
    <3>4. ASSUME NEW x \in Requests PROVE Stamped(req[x])'
      <4>1. CASE req'[x] = req[x]
        BY <3>2, <3>3, <4>1 DEF Stamped
      <4>2. CASE req'[x].step # 1
        BY <4>2 DEF Stamped
      <4> QED
        BY <3>1, <4>1, <4>2
    <3> QED
      BY <3>4
  <2> QED
    BY <1>3, <2>1, <2>2
<1>8. CASE Exhausted(e, b[1])
  <2>1. passed' = passed /\ (buckets' = buckets \/ buckets' = [buckets EXCEPT ![b] = e])
    BY <1>3, <1>8
  <2>2. CASE buckets' = buckets
    <3>1. \A c \in Buckets : BucketFits(c)'
      BY <1>3, <2>1, <2>2 DEF LimiterInv, BucketFits
    <3> QED
      BY <1>7, <2>1, <2>2, <3>1 DEF LimiterInv
  <2>3. CASE buckets' = [buckets EXCEPT ![b] = e]
    <3>1. buckets' \in [Buckets -> Seq(Nat)] /\ passed' \in [Buckets -> Seq(Nat)]
      BY <2>1, <2>3 DEF LimiterInv
    <3>2. buckets'[b] = e /\ \A c \in Buckets \ {b} : buckets'[c] = buckets[c]
      BY <2>3 DEF LimiterInv
    <3>3. BucketFits(b)'
      <4>1. /\ \A i \in 1 .. Len(passed[b]) : passed[b][i] <= clock
            /\ \A t \in Nat : Cardinality(InSpan(passed[b], t)) <= Limits[b[1]]
        BY <1>6, Zenon DEF BucketFits, Fits
      <4>2. Len(passed[b]) - Len(e) >= 0
        BY <1>g
      <4>3. Fits(e, passed[b], Limits[b[1]], clock)
        BY <1>4, <1>g, <4>1, <4>2, Zenon DEF Fits
      <4> QED
        BY <1>3, <2>1, <3>2, <4>3, Zenon DEF BucketFits
    <3>4. ASSUME NEW c \in Buckets, c # b PROVE BucketFits(c)'
      <4>1. buckets'[c] = buckets[c] /\ BucketFits(c)
        BY <3>2, <3>4 DEF LimiterInv
      <4> QED
        BY <1>3, <2>1, <4>1, Zenon DEF BucketFits
    <3> QED
      BY <1>7, <3>1, <3>3, <3>4 DEF LimiterInv
  <2> QED
    BY <2>1, <2>2, <2>3
<1>9. CASE ~Exhausted(e, b[1])
  <2>0. Len(e) < Limits[b[1]]
    BY <1>5, <1>g, <1>9 DEF Exhausted
  <2>1. buckets' = [buckets EXCEPT ![b] = Append(e, now)] /\ passed' = [passed EXCEPT ![b] = Append(@, now)]
    BY <1>3, <1>9
  <2>2. /\ Append(e, now) \in Seq(Nat) /\ Len(Append(e, now)) = Len(e) + 1
        /\ \A i \in 1 .. Len(e) : Append(e, now)[i] = e[i]
        /\ Append(e, now)[Len(e) + 1] = now
    BY Appended, Zenon
  <2>3. /\ Append(passed[b], now) \in Seq(Nat) /\ Len(Append(passed[b], now)) = Len(passed[b]) + 1
        /\ \A i \in 1 .. Len(passed[b]) : Append(passed[b], now)[i] = passed[b][i]
        /\ Append(passed[b], now)[Len(passed[b]) + 1] = now
    BY <1>5, Appended, Zenon
  <2>4. buckets' \in [Buckets -> Seq(Nat)] /\ passed' \in [Buckets -> Seq(Nat)]
    BY <2>1, <2>2, <2>3 DEF LimiterInv
  <2>5. /\ buckets'[b] = Append(e, now) /\ passed'[b] = Append(passed[b], now)
        /\ \A c \in Buckets \ {b} : buckets'[c] = buckets[c] /\ passed'[c] = passed[c]
    BY <2>1 DEF LimiterInv
  <2>6. BucketFits(b)'
    <3>0. Len(passed'[b]) = Len(passed[b]) + 1 /\ Len(buckets'[b]) = Len(e) + 1
      BY <2>2, <2>3, <2>5, Zenon
    <3>1. /\ Len(passed'[b]) - Len(buckets'[b]) = g
          /\ Len(passed'[b]) - Len(buckets'[b]) >= 0
          /\ Len(buckets'[b]) <= Limits[b[1]]
      BY <1>5, <1>g, <2>0, <3>0
    <3>2. ASSUME NEW i \in 1 .. Len(buckets'[b]) PROVE buckets'[b][i] = passed'[b][g + i]
      <4>1. CASE i = Len(e) + 1
        <5>1. g + i = Len(passed[b]) + 1
          BY <1>n, <4>1, Zenon
        <5> QED
          BY <2>2, <2>3, <2>5, <4>1, <5>1
      <4>2. CASE i # Len(e) + 1
        <5>1. i \in 1 .. Len(e) /\ g + i \in 1 .. Len(passed[b])
          BY <1>5, <1>g, <3>0, <4>2
        <5> QED
          BY <1>4, <2>2, <2>3, <2>5, <5>1
      <4> QED
        BY <4>1, <4>2
    <3>3. ASSUME NEW i \in 1 .. g PROVE passed'[b][i] + Window <= clock'
      <4>1. i \in 1 .. Len(passed[b])
        BY <1>5, <1>g, SMTT(30)
      <4> QED
        BY <1>3, <1>4, <2>3, <2>5, <4>1
    <3>4. ASSUME NEW i \in 1 .. Len(passed'[b]) PROVE passed'[b][i] <= clock'
      <4>1. CASE i = Len(passed[b]) + 1
        BY <1>2, <1>3, <2>3, <2>5, <4>1
      <4>2. CASE i # Len(passed[b]) + 1
        <5>1. i \in 1 .. Len(passed[b])
          BY <1>5, <2>3, <2>5, <4>2
        <5> QED
          BY <1>3, <1>6, <2>3, <2>5, <5>1 DEF BucketFits, Fits
      <4> QED
        BY <4>1, <4>2
    <3>5. ASSUME NEW t \in Nat PROVE Cardinality(InSpan(passed'[b], t)) <= Limits[b[1]]
      <4>1. g <= Len(passed[b]) /\ Len(passed[b]) - g < Limits[b[1]]
        BY <1>5, <1>g, <2>0
      <4>2. Cardinality(InSpan(Append(passed[b], now), t)) <= Limits[b[1]]
        BY <1>2, <1>4, <4>1, SpanStep
      <4> QED
        BY <2>5, <4>2
    <3>6. Fits(buckets'[b], passed'[b], Limits[b[1]], clock')
      BY <3>1, <3>2, <3>3, <3>4, <3>5, Zenon DEF Fits
    <3> QED
      BY <3>6, Zenon DEF BucketFits
  <2>7. ASSUME NEW c \in Buckets, c # b PROVE BucketFits(c)'
    <3>1. buckets'[c] = buckets[c] /\ passed'[c] = passed[c] /\ BucketFits(c)
      BY <2>5, <2>7 DEF LimiterInv
    <3> QED
      BY <1>3, <3>1, Zenon DEF BucketFits
  <2> QED
    BY <1>7, <2>4, <2>6, <2>7 DEF LimiterInv
<1> QED
  BY <1>8, <1>9

\* Time passes only while no task waits longer than Delay.
LEMMA LimiterTick ==
  ASSUME LimiterInv, Shape, Tick PROVE LimiterInv'
<1>1. clock \in Nat /\ clock' = clock + 1 /\ UNCHANGED <<buckets, passed, req>>
  BY DEF Tick, Shape
<1>2. ASSUME NEW b \in Buckets PROVE BucketFits(b)'
  <2>1. Fits(buckets[b], passed[b], Limits[b[1]], clock)
    BY DEF LimiterInv, BucketFits
  <2>2. passed[b] \in Seq(Nat) /\ buckets[b] \in Seq(Nat)
    BY DEF LimiterInv
  <2>3. ASSUME NEW i \in 1 .. Len(passed[b]) PROVE passed[b][i] <= clock + 1
    <3>1. passed[b][i] <= clock
      BY <2>1, Zenon DEF Fits
    <3>2. passed[b][i] \in Nat
      BY <2>2
    <3> QED
      BY <1>1, <3>1, <3>2
  <2>4. ASSUME NEW i \in 1 .. (Len(passed[b]) - Len(buckets[b])) PROVE passed[b][i] + Window <= clock + 1
    <3>1. passed[b][i] + Window <= clock
      BY <2>1, Zenon DEF Fits
    <3>2. Len(buckets[b]) \in Nat /\ Len(passed[b]) \in Nat
      BY <2>2
    <3>3. i \in 1 .. Len(passed[b])
      BY <3>2
    <3>4. passed[b][i] \in Nat /\ Window \in Nat
      BY <2>2, <3>3, AdmissionAssumption
    <3> QED
      BY <1>1, <3>1, <3>4
  <2>5. Fits(buckets[b], passed[b], Limits[b[1]], clock + 1)
    BY <2>1, <2>3, <2>4, Zenon DEF Fits
  <2> QED
    BY <1>1, <2>5, Zenon DEF BucketFits
<1>3. ASSUME NEW r \in Requests PROVE Stamped(req[r])'
  <2> SUFFICES ASSUME req[r] # Idle, req[r].step = 1
               PROVE  req[r].stamp <= clock + 1 /\ clock + 1 <= req[r].stamp + Delay
    BY <1>1 DEF Stamped
  <2>1. req[r] \in Tasks /\ req[r].stamp \in Nat
    BY IdleOrTask DEF Shape, Tasks
  <2>2. At(r) = "limit"
    BY <2>1, AtLimit
  <2>3. clock - req[r].stamp < Delay /\ req[r].stamp <= clock
    BY <2>2 DEF Tick, LimiterInv, Stamped
  <2>4. Delay \in Nat
    BY AdmissionAssumption
  <2> QED
    BY <1>1, <2>1, <2>3, <2>4
<1> QED
  BY <1>1, <1>2, <1>3 DEF LimiterInv

LEMMA LimiterStep ==
  ASSUME LimiterInv, Shape, AdmNext PROVE LimiterInv'
<1>1. ASSUME NEW r \in Requests, Refuse(r), UNCHANGED <<clock, buckets, passed>> PROVE LimiterInv'
  <2>1. \A x \in Requests : req'[x] = req[x] \/ req'[x] = Idle
    BY <1>1 DEF Refuse, Shape
  <2> QED
    BY <1>1, <2>1, OtherStep, Zenon
<1>2. ASSUME NEW r \in Requests, At(r) # "idle", NEW v, NEW a, NEW id,
             \/ req' = [req EXCEPT ![r].step = @ + 1]
             \/ req' = [req EXCEPT ![r].step = @ + 1, ![r].version = v, ![r].answer = a]
             \/ req' = [req EXCEPT ![r].step = @ + 1, ![r].room = id],
             UNCHANGED <<clock, buckets, passed>>
      PROVE  LimiterInv'
  <2>1. req[r] \in Tasks
    BY <1>2, AtTask
  <2>2. \A x \in Requests : req'[x] = req[x] \/ req'[x].step # 1
    <3>1. CASE req' = [req EXCEPT ![r].step = @ + 1]
      BY <2>1, <3>1, PastLimit, Zenon
    <3>2. CASE req' = [req EXCEPT ![r].step = @ + 1, ![r].version = v, ![r].answer = a]
      BY <2>1, <3>2, PastLimit, Zenon
    <3>3. CASE req' = [req EXCEPT ![r].step = @ + 1, ![r].room = id]
      BY <2>1, <3>3, PastLimit, Zenon
    <3> QED
      BY <1>2, <3>1, <3>2, <3>3, Zenon
  <2> QED
    BY <1>2, <2>2, OtherStep, Zenon
<1>3. ASSUME NEW r \in Requests, NEW route \in Routes, NEW key \in Keys, NEW kind \in ClientKinds,
             NEW code \in Codes, NEW lo \in Versions, NEW hi \in Versions,
             Arrive(r, route, key, kind, code, lo, hi)
      PROVE  LimiterInv'
  <2>1. \A x \in Requests : req'[x] = req[x] \/ req'[x].stamp = clock
    BY <1>3 DEF Arrive, Shape
  <2>2. UNCHANGED <<clock, buckets, passed>>
    BY <1>3, Zenon DEF Arrive
  <2> QED
    BY <2>1, <2>2, OtherStep, Zenon
<1>4. ASSUME NEW r \in Requests, VerifyClientAccess(r) PROVE LimiterInv'
  <2>1. At(r) # "idle" /\ UNCHANGED <<clock, buckets, passed>>
    BY <1>4, Zenon DEF VerifyClientAccess
  <2>2. CASE Refuse(r)
    BY <1>1, <2>1, <2>2
  <2>3. CASE \E a \in Answers, v \in Accepted(req[r]) :
               req' = [req EXCEPT ![r].step = @ + 1, ![r].version = v, ![r].answer = {a}]
    BY <1>2, <2>1, <2>3, Zenon
  <2> QED
    BY <1>4, <2>2, <2>3, Zenon DEF VerifyClientAccess
<1>5. ASSUME NEW r \in Requests, CheckRoomProtocol(r) PROVE LimiterInv'
  <2>1. At(r) # "idle" /\ UNCHANGED <<clock, buckets, passed>>
    BY <1>5 DEF CheckRoomProtocol
  <2>2. CASE Refuse(r)
    BY <1>1, <2>1, <2>2
  <2>3. CASE req' = [req EXCEPT ![r].step = @ + 1, ![r].room = rooms[req[r].code].id]
    BY <1>2, <2>1, <2>3, Zenon
  <2> QED
    BY <1>5, <2>2, <2>3, Zenon DEF CheckRoomProtocol
<1>6. ASSUME NEW r \in Requests, NEW asHost \in BOOLEAN, JoinRoom(r, asHost) PROVE LimiterInv'
  <2>1. At(r) # "idle" /\ UNCHANGED <<clock, buckets, passed>>
    BY <1>6 DEF JoinRoom
  <2>2. CASE Refuse(r)
    BY <1>1, <2>1, <2>2
  <2>3. CASE Proceed(r)
    BY <1>2, <2>1, <2>3, Zenon DEF Proceed
  <2> QED
    BY <1>6, <2>2, <2>3, Zenon DEF JoinRoom
<1>7. ASSUME NEW r \in Requests,
             (\E code \in Codes : InsertRoom(r, code)) \/ EndSession(r) \/ EnterLobby(r) \/ ReadView(r)
      PROVE  LimiterInv'
  <2>1. Refuse(r) /\ UNCHANGED <<clock, buckets, passed>>
    BY <1>7 DEF InsertRoom, EndSession, EnterLobby, ReadView
  <2> QED
    BY <1>1, <2>1
<1>8. ASSUME NEW code \in Codes, ExpireRoom(code) PROVE LimiterInv'
  <2>1. UNCHANGED <<clock, buckets, passed>> /\ \A x \in Requests : req'[x] = req[x]
    BY <1>8 DEF ExpireRoom
  <2> QED
    BY <2>1, OtherStep, Zenon
<1> QED
  BY <1>3, <1>4, <1>5, <1>6, <1>7, <1>8, LimitStep, LimiterTick, Zenon DEF AdmNext

LEMMA LimiterAlways == AdmSpec => []LimiterInv
<1>1. AdmInit => LimiterInv
  <2> SUFFICES ASSUME AdmInit PROVE LimiterInv
    OBVIOUS
  <2>1. passed \in [Buckets -> Seq(Nat)] /\ buckets \in [Buckets -> Seq(Nat)]
    BY DEF AdmInit
  <2>2. ASSUME NEW b \in Buckets PROVE BucketFits(b)
    <3>1. b[1] \in LimitActions
      BY DEF Buckets
    <3>2. Limits[b[1]] \in Nat
      BY <3>1, AdmissionAssumption
    <3>3. \A t \in Nat : InSpan(<< >>, t) = {}
      BY DEF InSpan
    <3>4. Fits(<< >>, << >>, Limits[b[1]], clock)
      <4>1. Cardinality({}) = 0
        BY FS_EmptySet
      <4>2. \A t \in Nat : Cardinality(InSpan(<< >>, t)) <= Limits[b[1]]
        <5>1. 0 <= Limits[b[1]]
          BY <3>2
        <5> QED
          BY <3>3, <4>1, <5>1, Zenon
      <4>3. Len(<< >>) = 0
        OBVIOUS
      <4> QED
        <5>1. 0 <= Limits[b[1]] /\ 0 - 0 >= 0
          BY <3>2
        <5>2. \A i : i \notin 1 .. 0 /\ i \notin 1 .. (0 - 0)
          OBVIOUS
        <5> QED
          BY <4>2, <4>3, <5>1, <5>2, Zenon DEF Fits
    <3> QED
      BY <3>4 DEF AdmInit, BucketFits
  <2>3. \A r \in Requests : Stamped(req[r])
    BY DEF AdmInit, Stamped
  <2> QED
    BY <2>1, <2>2, <2>3 DEF LimiterInv
<1>2. ProtocolInv /\ LimiterInv /\ [AdmNext]_admVars => LimiterInv'
  <2> SUFFICES ASSUME ProtocolInv, LimiterInv, [AdmNext]_admVars PROVE LimiterInv'
    OBVIOUS
  <2>1. Shape
    BY DEF ProtocolInv
  <2>2. CASE UNCHANGED admVars
    <3>1. UNCHANGED <<clock, buckets, passed>> /\ \A x \in Requests : req'[x] = req[x]
      BY <2>2 DEF admVars
    <3> QED
      BY <2>1, <3>1, OtherStep, Zenon
  <2> QED
    BY <2>1, <2>2, LimiterStep, Zenon
<1> QED
  BY <1>1, <1>2, ProtocolAlways, PTL DEF AdmSpec

\* check_at reads the clock before it takes the mutex, so checks enter a bucket in an order
\* other than that of their readings, and it prunes a bucket only from the front.  For every
\* number of concurrent checks and every policy, no span of RATE_LIMIT_WINDOW less the delay
\* between clock and mutex sees more requests pass than the limit of its action.
THEOREM LimiterKeepsItsWindow == AdmSpec => []WindowLimited
<1>1. LimiterInv /\ ProtocolInv => WindowLimited
  <2> SUFFICES ASSUME LimiterInv, ProtocolInv, NEW b \in Buckets, NEW t \in 0 .. clock
               PROVE  Cardinality(InSpan(passed[b], t)) <= Limits[b[1]]
    BY DEF WindowLimited, InSpan
  <2>0. clock \in Nat
    BY Zenon DEF ProtocolInv, Shape
  <2>1. t \in Nat
    BY <2>0
  <2> QED
    BY <2>1 DEF LimiterInv, BucketFits, Fits
<1> QED
  BY <1>1, LimiterAlways, ProtocolAlways, PTL

\* A refused check that comes back after retry_after finds room.
LEMMA RetryStep ==
  ASSUME LimiterInv, Shape, NEW r \in Requests, CheckRateLimit(r), refusal' # refusal,
         Limits[refusal'.bucket[1]] > 0
  PROVE  Len(Pruned(buckets'[refusal'.bucket], refusal'.at + refusal'.after + Delay))
           < Limits[refusal'.bucket[1]]
<1>0. req[r] \in Tasks /\ req[r].step = 1 /\ req[r] # Idle
  BY AtLimit, IdleOrTask, Zenon DEF CheckRateLimit, Shape
<1>b. PICK b \in Buckets, now \in Nat :
        b = <<Route[req[r].route][1], req[r].key>> /\ now = req[r].stamp
  BY <1>0, LimitIsFirst, Zenon DEF Tasks, Buckets
<1>1. now <= clock /\ clock <= now + Delay /\ clock \in Nat
  BY <1>0, <1>b DEF LimiterInv, Stamped, Shape
<1>e. PICK e \in Seq(Nat), g \in Nat :
        /\ e = Pruned(buckets[b], now) /\ g = Len(passed[b]) - Len(e)
        /\ Len(e) \in Nat /\ Len(e) <= Limits[b[1]]
        /\ \A i \in 1 .. Len(e) : e[i] = passed[b][g + i]
  BY <1>1, PrunedBucket, Zenon
<1>2. /\ Exhausted(e, b[1])
      /\ refusal' = [bucket |-> b, at |-> now, after |-> RetryAfter(e, now)]
      /\ buckets' = IF Limits[b[1]] = 0 THEN buckets ELSE [buckets EXCEPT ![b] = e]
  BY <1>b, <1>e, Zenon DEF CheckRateLimit
<1>3. refusal'.bucket = b /\ refusal'.at = now /\ refusal'.after = RetryAfter(e, now)
  BY <1>2
<1>4. Limits[b[1]] \in Nat /\ Limits[b[1]] > 0 /\ Window \in Nat /\ Delay \in Nat
  <2>1. b[1] \in LimitActions
    BY DEF Buckets
  <2> QED
    BY <1>3, <2>1, AdmissionAssumption, SMTT(30)
<1>5. buckets'[b] = e
  <2>1. b \in DOMAIN buckets
    BY Zenon DEF LimiterInv
  <2>2. Limits[b[1]] # 0
    BY <1>4
  <2>3. buckets' = [buckets EXCEPT ![b] = e]
    BY <1>2, <2>2, Zenon
  <2> QED
    BY <2>1, <2>3, Zenon
<1>6. Len(e) = Limits[b[1]] /\ Len(e) \in Nat /\ 1 \in 1 .. Len(e) /\ e # << >>
  <2>1. Len(e) >= Limits[b[1]] /\ Len(e) <= Limits[b[1]] /\ Len(e) \in Nat
    BY <1>2, <1>e, Zenon DEF Exhausted
  <2>2. Len(e) = Limits[b[1]] /\ 1 \in 1 .. Len(e)
    BY <1>4, <2>1
  <2> QED
    BY <1>4, <2>1, <2>2
<1>7. Head(e) = e[1] /\ e[1] \in Nat
  BY <1>6
<1>8. e[1] <= clock
  <2>1. passed[b] \in Seq(Nat) /\ BucketFits(b)
    BY DEF LimiterInv
  <2>2. Len(passed[b]) \in Nat
    BY <2>1
  <2>3. g + 1 \in 1 .. Len(passed[b])
    <3>1. g = Len(passed[b]) - Len(e)
      BY <1>e, Zenon
    <3>2. Len(e) >= 1 /\ Len(e) \in Nat
      BY <1>6
    <3> QED
      BY <2>2, <3>1, <3>2
  <2>4. passed[b][g + 1] <= clock
    BY <2>1, <2>3, Zenon DEF BucketFits, Fits
  <2> QED
    BY <1>6, <1>e, <2>4, Zenon
<1>9. PICK t \in Nat : t = now + RetryAfter(e, now) + Delay /\ e[1] + Window <= t
  <2>1. CASE now > e[1]
    <3>1. RetryAfter(e, now) = Window - (now - e[1])
      BY <1>6, <1>7, <2>1 DEF RetryAfter
    <3>2. now + RetryAfter(e, now) + Delay = e[1] + Window + Delay
      BY <1>4, <1>7, <3>1
    <3> QED
      BY <1>4, <1>7, <3>2
  <2>2. CASE ~(now > e[1])
    <3>1. RetryAfter(e, now) = Window
      BY <1>4, <1>6, <1>7, <2>2 DEF RetryAfter
    <3>2. e[1] + Window <= now + Window + Delay /\ now + Window + Delay \in Nat
      BY <1>1, <1>4, <1>7, <1>8
    <3> QED
      BY <3>1, <3>2
  <2> QED
    BY <2>1, <2>2
<1>10. Len(Pruned(e, t)) < Len(e)
  BY <1>6, <1>9, PrunedFacts, Zenon
<1> QED
  BY <1>3, <1>5, <1>6, <1>9, <1>10, Zenon

\* The retry_after of a refusal is honest for every policy and whatever else runs: who comes
\* back that much later, and the delay between clock and mutex, nobody else having used the
\* bucket, finds the oldest entry pruned and room below the limit.
THEOREM RetryAfterIsEnough == AdmSpec => RetryIsHonest
<1> DEFINE Honest == refusal' # refusal /\ Limits[refusal'.bucket[1]] > 0 =>
              Len(Pruned(buckets'[refusal'.bucket], refusal'.at + refusal'.after + Delay))
                < Limits[refusal'.bucket[1]]
<1>1. LimiterInv /\ ProtocolInv /\ [AdmNext]_admVars => [Honest]_admVars
  <2> SUFFICES ASSUME LimiterInv, ProtocolInv, AdmNext PROVE Honest
    OBVIOUS
  <2>1. Shape
    BY DEF ProtocolInv
  <2>2. refusal' = refusal \/ \E r \in Requests : CheckRateLimit(r)
    <3>1. ASSUME NEW r \in Requests, NEW route \in Routes, NEW key \in Keys, NEW kind \in ClientKinds,
                 NEW code \in Codes, NEW hi \in Versions, NEW lo \in Versions,
                 Arrive(r, route, key, kind, code, lo, hi)
          PROVE  refusal' = refusal
      BY <3>1, Zenon DEF Arrive
    <3>2. ASSUME NEW r \in Requests, VerifyClientAccess(r) \/ CheckRoomProtocol(r) PROVE refusal' = refusal
      BY <3>2, Zenon DEF VerifyClientAccess, CheckRoomProtocol
    <3>3. ASSUME NEW r \in Requests, NEW code \in Codes, InsertRoom(r, code) PROVE refusal' = refusal
      BY <3>3, Zenon DEF InsertRoom
    <3>4. ASSUME NEW r \in Requests, NEW asHost \in BOOLEAN, JoinRoom(r, asHost) PROVE refusal' = refusal
      BY <3>4, Zenon DEF JoinRoom
    <3>5. ASSUME NEW r \in Requests, EndSession(r) \/ EnterLobby(r) \/ ReadView(r) PROVE refusal' = refusal
      BY <3>5, Zenon DEF EndSession, EnterLobby, ReadView
    <3>6. ASSUME (\E code \in Codes : ExpireRoom(code)) \/ Tick PROVE refusal' = refusal
      BY <3>6, Zenon DEF ExpireRoom, Tick
    <3> QED
      BY <3>1, <3>2, <3>3, <3>4, <3>5, <3>6, Zenon DEF AdmNext
  <2> QED
    BY <2>1, <2>2, RetryStep, Zenon
<1> QED
  BY <1>1, LimiterAlways, ProtocolAlways, PTL DEF AdmSpec, RetryIsHonest

-----------------------------------------------------------------------------
(* Types and bounds.                                                       *)

\* What AdmTypeOK needs besides ProtocolInv and LimiterInv.
AdmBounds ==
  /\ plan \in Plans /\ clock <= plan.until
  /\ \A r \in Requests : req[r] # Idle => req[r].route \in plan.routes /\ req[r].stamp <= clock
  /\ \A c \in Codes : rooms[c] # NoRoom => rooms[c].host \subseteq rooms[c].socks

\* A task that ends or goes on keeps its route and its clock reading.
GoesOn(r) == \/ req'[r] = Idle
             \/ req[r] # Idle /\ req'[r].route = req[r].route /\ req'[r].stamp = req[r].stamp

Registered == \A c \in Codes : rooms'[c] # NoRoom => rooms'[c].host \subseteq rooms'[c].socks

\* A step in which tasks only end or go on.
LEMMA BoundsStep ==
  ASSUME AdmBounds, UNCHANGED <<plan, clock>>, \A r \in Requests : GoesOn(r), Registered
  PROVE  AdmBounds'
BY DEF AdmBounds, GoesOn, Registered

\* The registry as it was, or with one entry changed.
LEMMA EntryStep ==
  ASSUME AdmBounds, Shape, NEW code \in Codes, NEW entry,
         rooms' = rooms \/ rooms' = [rooms EXCEPT ![code] = entry],
         entry = NoRoom \/ entry.host \subseteq entry.socks
  PROVE  Registered
BY DEF AdmBounds, Shape, Registered

\* Refusing and proceeding end a task or move it along its route.
LEMMA SameTasks ==
  ASSUME Shape, NEW r \in Requests, Refuse(r) \/ (Proceed(r) /\ req[r] # Idle)
  PROVE  \A x \in Requests : GoesOn(x)
<1> SUFFICES ASSUME NEW x \in Requests PROVE GoesOn(x)
  OBVIOUS
<1>1. req[x] \in {Idle} \cup Tasks
  BY DEF Shape
<1>2. CASE x # r
  <2>1. req'[x] = req[x]
    BY <1>2 DEF Refuse, Proceed, Shape
  <2> QED
    BY <2>1, Zenon DEF GoesOn
<1>3. CASE x = r /\ Refuse(r)
  BY <1>3 DEF Refuse, Shape, GoesOn
<1>4. CASE x = r /\ Proceed(r) /\ req[r] # Idle
  <2>1. req[x] \in Tasks
    BY <1>1, <1>4
  <2>2. req'[x] = [req[x] EXCEPT !.step = @ + 1]
    BY <1>4 DEF Proceed, Shape
  <2> QED
    BY <1>4, <2>1, <2>2 DEF Tasks, GoesOn
<1> QED
  BY <1>2, <1>3, <1>4

\* Every step of a task and of the clock keeps the bounds.
LEMMA AdmBoundsStep ==
  ASSUME AdmBounds, Shape, AdmNext PROVE AdmBounds'
<1>0. ASSUME NEW r \in Requests, At(r) # "idle" PROVE req[r] # Idle /\ req[r] \in Tasks
  BY <1>0, AtTask, Zenon DEF At, Idle
<1>1. rooms' = rooms => Registered
  BY DEF AdmBounds, Registered
<1>2. ASSUME NEW r \in Requests, NEW route \in Routes, NEW key \in Keys, NEW kind \in ClientKinds,
             NEW code \in Codes, NEW lo \in Versions, NEW hi \in Versions,
             Arrive(r, route, key, kind, code, lo, hi)
      PROVE  AdmBounds'
  <2>1. /\ UNCHANGED <<clock, rooms, plan>> /\ route \in plan.routes /\ clock \in Nat
        /\ \A x \in Requests : req'[x] = req[x] \/ (req'[x].route = route /\ req'[x].stamp = clock)
    BY <1>2, Zenon DEF Arrive, Shape
  <2>2. clock <= clock
    <3>1. clock \in Nat
      BY DEF Shape
    <3> QED
      BY <3>1
  <2> QED
    BY <2>1, <2>2 DEF AdmBounds
<1>3. ASSUME NEW r \in Requests, CheckRateLimit(r) PROVE AdmBounds'
  <2>1. At(r) = "limit" /\ (Refuse(r) \/ Proceed(r)) /\ UNCHANGED <<clock, rooms, plan>>
    BY <1>3, CheckStep
  <2>2. \A x \in Requests : GoesOn(x)
    BY <1>0, <2>1, SameTasks
  <2> QED
    BY <1>1, <2>1, <2>2, BoundsStep
<1>4. ASSUME NEW r \in Requests, VerifyClientAccess(r) \/ CheckRoomProtocol(r) PROVE AdmBounds'
  <2>1. At(r) # "idle" /\ UNCHANGED <<clock, rooms, plan>>
    BY <1>4, Zenon DEF VerifyClientAccess, CheckRoomProtocol
  <2>2. \A x \in Requests : GoesOn(x)
    <3>1. CASE Refuse(r)
      BY <3>1, SameTasks
    <3>2. ASSUME NEW v, NEW a, NEW id,
                 \/ req' = [req EXCEPT ![r].step = @ + 1, ![r].version = v, ![r].answer = a]
                 \/ req' = [req EXCEPT ![r].step = @ + 1, ![r].room = id]
          PROVE  \A x \in Requests : GoesOn(x)
      <4>1. req[r] \in Tasks /\ req[r] # Idle
        BY <1>0, <2>1
      <4>2. \A x \in Requests \ {r} : req'[x] = req[x]
        BY <3>2 DEF Shape
      <4>3. \/ req'[r] = [req[r] EXCEPT !.step = @ + 1, !.version = v, !.answer = a]
            \/ req'[r] = [req[r] EXCEPT !.step = @ + 1, !.room = id]
        BY <3>2, Zenon DEF Shape
      <4>4. req'[r].route = req[r].route /\ req'[r].stamp = req[r].stamp
        BY <4>1, <4>3, Zenon DEF Tasks
      <4> QED
        BY <4>1, <4>2, <4>4, Zenon DEF GoesOn
    <3>3. CASE VerifyClientAccess(r)
      BY <3>1, <3>2, <3>3, Zenon DEF VerifyClientAccess
    <3>4. CASE CheckRoomProtocol(r)
      BY <3>1, <3>2, <3>4, Zenon DEF CheckRoomProtocol
    <3> QED
      BY <1>4, <3>3, <3>4
  <2> QED
    BY <1>1, <2>1, <2>2, BoundsStep
<1>5. ASSUME NEW r \in Requests, NEW code \in Codes, InsertRoom(r, code) PROVE AdmBounds'
  <2>1. PICK entry : entry = [id |-> nextRoom, version |-> req[r].version, host |-> {}, socks |-> {}]
    BY Zenon
  <2>2. Refuse(r) /\ UNCHANGED <<clock, plan>> /\ rooms' = [rooms EXCEPT ![code] = entry]
    BY <1>5, <2>1 DEF InsertRoom
  <2>3. entry.host \subseteq entry.socks
    BY <2>1
  <2> QED
    BY <2>2, <2>3, SameTasks, EntryStep, BoundsStep, Zenon
<1>6. ASSUME NEW r \in Requests, NEW asHost \in BOOLEAN, JoinRoom(r, asHost) PROVE AdmBounds'
  <2>1. At(r) # "idle" /\ UNCHANGED <<clock, plan>> /\ (Refuse(r) \/ Proceed(r))
    BY <1>6 DEF JoinRoom
  <2>2. req[r] # Idle /\ req[r].code \in Codes
    BY <1>0, <2>1 DEF Tasks
  <2>3. \A x \in Requests : GoesOn(x)
    BY <2>1, <2>2, SameTasks
  <2>4. PICK entry : entry = Joined(rooms[req[r].code], r, asHost)
    BY Zenon
  <2>5. \/ rooms' = rooms
        \/ rooms[req[r].code] # NoRoom /\ rooms' = [rooms EXCEPT ![req[r].code] = entry]
    BY <1>6, <2>2, <2>4 DEF JoinRoom, Shape
  <2>6. rooms[req[r].code] # NoRoom => entry.host \subseteq entry.socks
    <3> SUFFICES ASSUME rooms[req[r].code] # NoRoom PROVE entry.host \subseteq entry.socks
      OBVIOUS
    <3>1. PICK rm \in RoomRecords : rm = rooms[req[r].code] /\ rm.host \subseteq rm.socks
      BY <2>2 DEF Shape, AdmBounds
    <3>2. entry = [rm EXCEPT !.host = IF asHost THEN {r} ELSE @,
                             !.socks = (IF asHost THEN @ \ rm.host ELSE @) \cup {r}]
      BY <2>4, <3>1 DEF Joined
    <3>3. /\ entry.host = IF asHost THEN {r} ELSE rm.host
          /\ entry.socks = (IF asHost THEN rm.socks \ rm.host ELSE rm.socks) \cup {r}
      BY <3>1, <3>2 DEF RoomRecords
    <3> QED
      BY <3>1, <3>3
  <2>7. Registered
    BY <1>1, <2>2, <2>5, <2>6, EntryStep, Zenon
  <2> QED
    BY <2>1, <2>3, <2>7, BoundsStep
<1>7. ASSUME NEW r \in Requests, EndSession(r) PROVE AdmBounds'
  <2>1. At(r) # "idle" /\ UNCHANGED <<clock, plan>> /\ Refuse(r)
    BY <1>7 DEF EndSession
  <2>2. req[r].code \in Codes
    BY <1>0, <2>1 DEF Tasks
  <2>3. PICK rm : rm = rooms[req[r].code]
    BY Zenon
  <2>4. rm = NoRoom \/ (rm \in RoomRecords /\ rm.host \subseteq rm.socks)
    BY <2>2, <2>3 DEF Shape, AdmBounds
  <2>5. PICK entry \in LeftRoom(r, rm) : rooms' = [rooms EXCEPT ![req[r].code] = entry]
    BY <1>7, <2>3, Zenon DEF EndSession
  <2>6. entry = NoRoom \/ entry = rm \/ entry = [rm EXCEPT !.socks = @ \ {r}, !.host = @ \ {r}]
    BY <2>5 DEF LeftRoom
  <2>7. entry = NoRoom \/ entry.host \subseteq entry.socks
    <3>1. CASE rm \in RoomRecords /\ entry = [rm EXCEPT !.socks = @ \ {r}, !.host = @ \ {r}]
      <4>1. entry.host = rm.host \ {r} /\ entry.socks = rm.socks \ {r}
        BY <3>1 DEF RoomRecords
      <4>2. rm.host \subseteq rm.socks \/ rm = NoRoom
        BY <2>4
      <4>3. CASE rm = NoRoom
        <5>1. entry = NoRoom
          BY <2>5, <4>3 DEF LeftRoom
        <5> QED
          BY <5>1
      <4> QED
        BY <4>1, <4>2, <4>3
    <3>2. CASE rm = NoRoom
      BY <2>5, <3>2 DEF LeftRoom
    <3> QED
      BY <2>4, <2>6, <3>1, <3>2
  <2> QED
    BY <2>1, <2>2, <2>5, <2>7, SameTasks, EntryStep, BoundsStep, Zenon
<1>8. ASSUME NEW r \in Requests, EnterLobby(r) \/ ReadView(r) PROVE AdmBounds'
  <2>1. Refuse(r) /\ UNCHANGED <<clock, rooms, plan>>
    BY <1>8 DEF EnterLobby, ReadView
  <2> QED
    BY <1>1, <2>1, SameTasks, BoundsStep, Zenon
<1>9. ASSUME NEW code \in Codes, ExpireRoom(code) PROVE AdmBounds'
  <2>1. UNCHANGED <<clock, plan, req>> /\ rooms' = [rooms EXCEPT ![code] = NoRoom]
    BY <1>9 DEF ExpireRoom
  <2>2. \A r \in Requests : GoesOn(r)
    BY <2>1 DEF GoesOn
  <2> QED
    BY <2>1, <2>2, EntryStep, BoundsStep, Zenon
<1>10. CASE Tick
  <2>1. UNCHANGED <<plan, req, rooms>> /\ clock < plan.until /\ clock' = clock + 1 /\ clock \in Nat
    BY <1>10 DEF Tick, Shape
  <2>2. plan.until \in Nat
    BY AdmissionAssumption DEF AdmBounds
  <2>3. \A r \in Requests : req[r] # Idle => req[r].stamp \in Nat
    BY DEF Shape, Tasks
  <2> QED
    <3>1. clock' <= plan.until
      BY <2>1, <2>2
    <3>2. ASSUME NEW r \in Requests, req[r] # Idle PROVE req[r].stamp <= clock'
      <4>1. req[r].stamp <= clock
        BY <3>2, Zenon DEF AdmBounds
      <4>2. req[r].stamp \in Nat
        BY <2>3, <3>2, Zenon
      <4> QED
        BY <2>1, <4>1, <4>2
    <3> QED
      BY <2>1, <3>1, <3>2, Zenon DEF AdmBounds
<1> QED
  BY <1>2, <1>3, <1>4, <1>5, <1>6, <1>7, <1>8, <1>9, <1>10, Zenon DEF AdmNext

AdmInv == ProtocolInv /\ LimiterInv /\ AdmBounds

\* At the start there is no task and no room.
LEMMA AdmStart == AdmInit => AdmBounds
BY AdmissionAssumption, SMTT(30) DEF AdmInit, AdmBounds

\* AdmBounds holds in every state.
LEMMA AdmBoundsAlways == AdmSpec => []AdmBounds
<1>1. AdmBounds /\ ProtocolInv /\ [AdmNext]_admVars => AdmBounds'
  <2>1. ASSUME AdmBounds, UNCHANGED admVars PROVE AdmBounds'
    BY <2>1 DEF AdmBounds, admVars
  <2> QED
    BY <2>1, AdmBoundsStep DEF ProtocolInv
<1> QED
  BY <1>1, AdmStart, ProtocolAlways, PTL DEF AdmSpec

\* A sequence is over any set that its elements are in.
LEMMA NarrowSeq ==
  ASSUME NEW S, NEW T, NEW s \in Seq(T), \A i \in 1 .. Len(s) : s[i] \in S
  PROVE  s \in Seq(S)
OBVIOUS

\* The three invariants together give the types and bounds.
LEMMA AdmTypes == ASSUME AdmInv PROVE AdmTypeOK
<1>1. Shape /\ ProtocolInv /\ LimiterInv /\ AdmBounds /\ clock \in Nat /\ nextRoom \in Nat
  BY Zenon DEF AdmInv, ProtocolInv, Shape
<1>2. clock \in 0 .. plan.until
  BY <1>1, AdmissionAssumption DEF AdmBounds
<1>3. ASSUME NEW b \in Buckets
      PROVE  buckets[b] \in Seq(0 .. clock) /\ Len(buckets[b]) <= Limits[b[1]]
  <2>1. buckets[b] \in Seq(Nat) /\ passed[b] \in Seq(Nat)
        /\ Fits(buckets[b], passed[b], Limits[b[1]], clock)
    BY <1>1 DEF LimiterInv, BucketFits
  <2>2. PICK s, h, n : s = buckets[b] /\ h = passed[b] /\ n = Limits[b[1]]
    BY Zenon
  <2>3. s \in Seq(Nat) /\ h \in Seq(Nat) /\ Fits(s, h, n, clock)
    BY <2>1, <2>2, Zenon
  <2>4. /\ Len(s) <= n /\ Len(h) - Len(s) >= 0
        /\ \A i \in 1 .. Len(s) : s[i] = h[Len(h) - Len(s) + i]
        /\ \A i \in 1 .. Len(h) : h[i] <= clock
    BY <2>3, Zenon DEF Fits
  <2>5. ASSUME NEW i \in 1 .. Len(s) PROVE s[i] \in 0 .. clock
    <3>1. Len(s) \in Nat /\ Len(h) \in Nat /\ s[i] \in Nat
      BY <2>3
    <3>2. Len(h) - Len(s) + i \in 1 .. Len(h)
      BY <2>4, <3>1
    <3>3. s[i] <= clock
      BY <2>4, <3>2, Zenon
    <3> QED
      BY <1>1, <3>1, <3>3
  <2>6. s \in Seq(0 .. clock)
    BY <2>3, <2>5, NarrowSeq, Zenon
  <2> QED
    BY <2>2, <2>4, <2>6, Zenon
<1>4. ASSUME NEW r \in Requests, At(r) # "idle"
      PROVE  /\ req[r].route \in plan.routes /\ req[r].key \in Keys /\ req[r].code \in Codes
             /\ req[r].stamp \in 0 .. clock /\ req[r].room \in 0 .. nextRoom
  <2>1. req[r] # Idle /\ req[r] \in Tasks
    BY <1>1, <1>4, AtTask
  <2>2. req[r].route \in plan.routes /\ req[r].stamp <= clock /\ req[r].room < nextRoom
    BY <1>1, <2>1 DEF AdmBounds, ProtocolInv, TaskFits
  <2>3. req[r].key \in Keys /\ req[r].code \in Codes /\ req[r].stamp \in Nat /\ req[r].room \in Nat
    BY <2>1 DEF Tasks
  <2> QED
    BY <1>1, <2>2, <2>3
<1>5. ASSUME NEW c \in Codes, rooms[c] # NoRoom
      PROVE  /\ rooms[c].id \in 1 .. nextRoom /\ rooms[c].version \in Versions
             /\ rooms[c].host \subseteq rooms[c].socks /\ rooms[c].socks \subseteq Requests
  <2>1. rooms[c] \in RoomRecords
    BY <1>1, <1>5 DEF Shape
  <2>2. rooms[c].id > 0 /\ rooms[c].id < nextRoom /\ rooms[c].host \subseteq rooms[c].socks
    BY <1>1, <1>5 DEF ProtocolInv, AdmBounds
  <2>3. rooms[c].id \in Nat /\ rooms[c].version \in Versions /\ rooms[c].socks \subseteq Requests
    BY <2>1 DEF RoomRecords
  <2> QED
    BY <1>1, <2>2, <2>3
<1> QED
  BY <1>1, <1>2, <1>3, <1>4, <1>5 DEF AdmTypeOK

\* The memory of the limiter is bounded by its policy and tasks, clock readings and rooms
\* keep their ranges, for every number of requests and keys.
THEOREM AdmissionBounded == AdmSpec => []AdmTypeOK
<1>1. ProtocolInv /\ LimiterInv /\ AdmBounds => AdmTypeOK
  BY AdmTypes DEF AdmInv
<1> QED
  BY <1>1, AdmBoundsAlways, LimiterAlways, ProtocolAlways, PTL
=============================================================================
