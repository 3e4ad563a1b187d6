------------------------------ MODULE Admission ------------------------------
(***************************************************************************)
(* The way into the relay: the HTTP and WebSocket routes.  Every request   *)
(* is a task of its own that passes the sliding-window rate limiter, asks  *)
(* the license authority, is held against the protocol rollout and only    *)
(* then reaches a registry.  The steps of one request are separated by     *)
(* awaits or locks, so requests interleave between them: the limiter reads *)
(* the clock before it takes its mutex, and a socket's protocol is         *)
(* compared with the room's before the authority is asked.                 *)
(*                                                                         *)
(* A request is its route, its limiter key, the client kind, the invite    *)
(* code and the protocol versions it names.  What the registries do with   *)
(* an admitted request is in RoomLifecycle and Lobby.  passed, admitted    *)
(* and refusal are history.                                                *)
(***************************************************************************)
EXTENDS Integers, Sequences, FiniteSets

CONSTANTS Requests,    \* tasks
          Keys,        \* rate-limit keys: proxy address, peer address or install id
          ClientKinds, \* desktop, android, ios
          Codes,       \* invite codes
          Window,      \* RATE_LIMIT_WINDOW
          Delay,       \* bound: time between reading the clock and the mutex
          Limits,      \* RateLimitPolicy: limit_for each action
          V5Enabled,   \* rollout: v5_enabled
          Minimum,     \* rollout: minimum_for each client kind
          Answers,     \* answers of the license authority
          Plans,       \* what one behaviour does: its routes, its clients, its last instant
          NoRoom       \* no entry of the registry

LimitActions == {"CreateRoom", "WebSocketJoin", "RoomStatus"}
Versions == {4, 5}
\* NetplayProtocolRolloutPolicy::maximum
MaximumVersion == IF V5Enabled THEN 5 ELSE 4

ASSUME AdmissionAssumption ==
  /\ Window \in Nat /\ Delay \in 0 .. Window
  /\ Limits \in [LimitActions -> Nat]
  /\ V5Enabled \in BOOLEAN
  /\ Minimum \in [ClientKinds -> 4 .. MaximumVersion]  \* NetplayProtocolRolloutPolicy::new
  /\ Answers \subseteq [status : {"ok", "refused", "failed"},
                        valid : {"true", "false", "none"}, authorized : {"true", "false", "none"},
                        kind : {"same", "other", "none"}, entitled : BOOLEAN]
  /\ \A p \in Plans : p.until \in Nat /\ p.clients \subseteq ClientKinds \X Versions \X Versions

VARIABLES clock,       \* monotonic time
          buckets,     \* InMemoryRateLimiter.buckets
          req,         \* the tasks
          rooms,       \* the registry: invite code to room
          nextRoom,    \* room ids given out so far
          passed,      \* clock readings of the checks that passed, per bucket
          admitted,    \* the last request that reached a registry, and how
          refusal,     \* the last rate-limit refusal
          plan         \* the chosen member of Plans

admVars == <<clock, buckets, req, rooms, nextRoom, passed, admitted, refusal, plan>>

Buckets == LimitActions \X Keys
NoRefusal == [bucket |-> << >>, at |-> 0, after |-> 0]
Idle == [step |-> 0]

-----------------------------------------------------------------------------
(* The routes: the limiter action and the steps that follow it.            *)

CreateRoom == <<"CreateRoom", "authority", "insert">>
RoomStatus == <<"RoomStatus", "read">>
WebsocketRoom == <<"WebSocketJoin", "exact", "authority", "join">>
WebsocketRoomResume == <<"WebSocketJoin", "exact", "join">>
WebsocketInputRoom == <<"WebSocketJoin", "exact", "join">>
CreateLobby == <<"CreateRoom", "authority", "lobby">>
JoinLobby == <<"WebSocketJoin", "authority", "lobby">>
LobbyStatus == <<"RoomStatus", "read">>
PublicLobbies == <<"RoomStatus", "authority", "read">>
WebsocketPublicLobbies == <<"WebSocketJoin", "authority", "read">>
WebsocketLobby == <<"WebSocketJoin", "authority", "lobby">>

Route == [createRoom |-> CreateRoom, roomStatus |-> RoomStatus,
          websocketRoom |-> WebsocketRoom, resume |-> WebsocketRoomResume,
          input |-> WebsocketInputRoom, createLobby |-> CreateLobby,
          joinLobby |-> JoinLobby, lobbyStatus |-> LobbyStatus,
          publicLobbies |-> PublicLobbies, directory |-> WebsocketPublicLobbies,
          websocketLobby |-> WebsocketLobby]
Routes == DOMAIN Route

\* The request's next step.
At(r) == IF req[r].step = 0 THEN "idle"
         ELSE IF req[r].step > Len(Route[req[r].route]) THEN "open"
         ELSE IF req[r].step = 1 THEN "limit" ELSE Route[req[r].route][req[r].step]

Asks(route) == \E i \in DOMAIN Route[route] : Route[route][i] = "authority"

AdmInit ==
  /\ clock = 0 /\ buckets = [b \in Buckets |-> << >>]
  /\ req = [r \in Requests |-> Idle]
  /\ rooms = [c \in Codes |-> NoRoom] /\ nextRoom = 1
  /\ passed = [b \in Buckets |-> << >>] /\ admitted = {} /\ refusal = NoRefusal
  /\ plan \in Plans

Proceed(r) == req' = [req EXCEPT ![r].step = @ + 1]
Refuse(r) == req' = [req EXCEPT ![r] = Idle]

-----------------------------------------------------------------------------
(* The rate limiter.                                                       *)

\* A request arrives; check() reads the clock.  hi is the protocol version of the
\* request, lo its minimum_protocol_version (only create_room has one).
Arrive(r, route, key, kind, code, lo, hi) ==
  /\ At(r) = "idle" /\ route \in plan.routes
  /\ <<kind, lo, hi>> \in plan.clients
  /\ req' = [req EXCEPT ![r] = [step |-> 1, route |-> route, key |-> key, kind |-> kind,
                                code |-> code, lo |-> lo, hi |-> hi, stamp |-> clock,
                                version |-> hi, answer |-> {}, room |-> 0]]
  /\ UNCHANGED <<clock, buckets, rooms, nextRoom, passed, admitted, refusal, plan>>

\* Mutant of Pruned: an entry is dropped one tick early.
PrunedEarly(entries, now) ==
  LET kept == {i \in DOMAIN entries : \E j \in 1 .. i : entries[j] > now - Window + 1}
  IN  SubSeq(entries, Len(entries) - Cardinality(kept) + 1, Len(entries))
\* check_at pops entries from the front while they are at or before the cutoff:
\* it stops at the first one that is not.
Pruned(entries, now) ==
  LET kept == {i \in DOMAIN entries : \E j \in 1 .. i : entries[j] > now - Window}
  IN  SubSeq(entries, Len(entries) - Cardinality(kept) + 1, Len(entries))

\* Mutant of RetryAfter: the age of the oldest entry instead of what is left of it.
RetryAfterAge(entries, now) ==
  IF entries = << >> THEN Window
  ELSE IF now > Head(entries) THEN now - Head(entries) ELSE 0
\* RateLimitExceeded.retry_after; both subtractions saturate.
RetryAfter(entries, now) ==
  IF entries = << >> THEN Window
  ELSE Window - (IF now > Head(entries) THEN now - Head(entries) ELSE 0)

\* A limit of zero refuses before the bucket is touched.
Exhausted(entries, action) == Len(entries) >= Limits[action]

\* check_at under the mutex, with the clock read before.
CheckRateLimit(r) ==
  /\ At(r) = "limit"
  /\ LET bucket == <<Route[req[r].route][1], req[r].key>>
         now == req[r].stamp
         entries == Pruned(buckets[bucket], now)
     IN  IF Exhausted(entries, bucket[1])
         THEN /\ Refuse(r)
              /\ refusal' = [bucket |-> bucket, at |-> now, after |-> RetryAfter(entries, now)]
              /\ buckets' = IF Limits[bucket[1]] = 0 THEN buckets
                            ELSE [buckets EXCEPT ![bucket] = entries]
              /\ UNCHANGED passed
         ELSE /\ Proceed(r)
              /\ buckets' = [buckets EXCEPT ![bucket] = Append(entries, now)]
              /\ passed' = [passed EXCEPT ![bucket] = Append(@, now)]
              /\ UNCHANGED refusal
  /\ UNCHANGED <<clock, rooms, nextRoom, admitted, plan>>

\* Time passes, at most Delay while a request is between clock and mutex.
Tick ==
  /\ clock < plan.until
  /\ \A r \in Requests : At(r) = "limit" => clock - req[r].stamp < Delay
  /\ clock' = clock + 1
  /\ UNCHANGED <<buckets, req, rooms, nextRoom, passed, admitted, refusal, plan>>

-----------------------------------------------------------------------------
(* License and protocol.                                                   *)

\* verify_client_access and parse_verified_license.  valid is the first Boolean
\* among valid, authorized and allowed, authorized the first among the last two;
\* entitled stands for an active premium, trial or feature entry.
Grants(a) ==
  /\ a.status = "ok" /\ a.valid # "false" /\ a.kind # "other"
  /\ a.authorized = "true" \/ a.entitled

\* NetplayProtocolRolloutPolicy::negotiate: the newest version of both ranges.
Negotiate(kind, lo, hi) ==
  LET highest == IF hi < MaximumVersion THEN hi ELSE MaximumVersion
  IN  {v \in {highest} : lo <= hi /\ lo <= v /\ Minimum[kind] <= v}

\* NetplayProtocolRolloutPolicy::validate_exact
ValidateExact(kind, v) == v \in Minimum[kind] .. MaximumVersion

\* The versions with which a request may go on once its license is verified.
Accepted(q) ==
  IF q.route = "createRoom" THEN Negotiate(q.kind, q.lo, q.hi)
  ELSE IF q.route \in {"publicLobbies", "directory"} THEN {q.hi}
  ELSE {v \in {q.hi} : ValidateExact(q.kind, v)}

\* Headers, the call of the authority, and the checks up to the next await.
\* Headers, bodies and session descriptors that do not parse are refused.
VerifyClientAccess(r) ==
  /\ At(r) = "authority"
  /\ \/ \E a \in Answers, v \in Accepted(req[r]) :
          /\ Grants(a)
          /\ req' = [req EXCEPT ![r].step = @ + 1, ![r].version = v, ![r].answer = {a}]
     \/ Refuse(r)
  /\ UNCHANGED <<clock, buckets, rooms, nextRoom, passed, admitted, refusal, plan>>

\* Mutant of SameVersion: a newer client is let in.
SameOrNewer(v, room) == v >= room.version
\* validate_room_protocol_version
SameVersion(v, room) == v = room.version

\* validate_exact_room_protocol, a read of the registry.
CheckRoomProtocol(r) ==
  /\ At(r) = "exact"
  /\ LET room == rooms[req[r].code]
     IN  IF room # NoRoom /\ SameVersion(req[r].hi, room)
         THEN req' = [req EXCEPT ![r].step = @ + 1, ![r].room = room.id]
         ELSE Refuse(r)
  /\ UNCHANGED <<clock, buckets, rooms, nextRoom, passed, admitted, refusal, plan>>

-----------------------------------------------------------------------------
(* The registries.                                                         *)

Admit(r) ==
  admitted' = {[route |-> req[r].route, kind |-> req[r].kind, lo |-> req[r].lo,
                hi |-> req[r].hi, version |-> req[r].version, answer |-> req[r].answer]}

\* create_room_impl: the code is generated before the voice broker is asked; the
\* insert replaces whatever the registry holds under it.
InsertRoom(r, code) ==
  /\ At(r) = "insert"
  /\ rooms' = [rooms EXCEPT ![code] = [id |-> nextRoom, version |-> req[r].version,
                                       host |-> {}, socks |-> {}]]
  /\ nextRoom' = nextRoom + 1
  /\ Admit(r) /\ Refuse(r)
  /\ UNCHANGED <<clock, buckets, passed, refusal, plan>>

\* A host that attaches again displaces its older socket.
Joined(room, r, asHost) ==
  [room EXCEPT !.host = IF asHost THEN {r} ELSE @,
               !.socks = (IF asHost THEN @ \ room.host ELSE @) \cup {r}]

\* The session behind the upgrade subscribes and connects.  The room may refuse it
\* (RoomLifecycle).
JoinRoom(r, asHost) ==
  /\ At(r) = "join"
  /\ asHost => req[r].route = "websocketRoom"
  /\ \/ /\ rooms[req[r].code] # NoRoom
        /\ rooms' = [rooms EXCEPT ![req[r].code] = Joined(@, r, asHost)]
        /\ Admit(r) /\ Proceed(r)
     \/ Refuse(r) /\ UNCHANGED <<rooms, admitted>>
  /\ UNCHANGED <<clock, buckets, nextRoom, passed, refusal, plan>>

\* disconnect_impl: a connection that is not in the room changes nothing; a host
\* may take the room along.
LeftRoom(r, room) ==
  IF room = NoRoom THEN {room}
  ELSE IF r \notin room.socks THEN {room}
  ELSE {[room EXCEPT !.socks = @ \ {r}, !.host = @ \ {r}]}
         \cup (IF r \in room.host THEN {NoRoom} ELSE {})

EndSession(r) ==
  /\ At(r) = "open"
  /\ \E after \in LeftRoom(r, rooms[req[r].code]) :
        rooms' = [rooms EXCEPT ![req[r].code] = after]
  /\ Refuse(r)
  /\ UNCHANGED <<clock, buckets, nextRoom, passed, admitted, refusal, plan>>

\* The lobby registry takes the request over (Lobby).
EnterLobby(r) ==
  /\ At(r) = "lobby" /\ Admit(r) /\ Refuse(r)
  /\ UNCHANGED <<clock, buckets, rooms, nextRoom, passed, refusal, plan>>

\* Status views and the public directory.
ReadView(r) ==
  /\ At(r) = "read" /\ Admit(r) /\ Refuse(r)
  /\ UNCHANGED <<clock, buckets, rooms, nextRoom, passed, refusal, plan>>

\* expire_disconnected_rooms removes a room.
ExpireRoom(code) ==
  /\ rooms[code] # NoRoom /\ rooms' = [rooms EXCEPT ![code] = NoRoom]
  /\ UNCHANGED <<clock, buckets, req, nextRoom, passed, admitted, refusal, plan>>

AdmNext ==
  \/ \E r \in Requests :
       \/ \E route \in Routes, key \in Keys, kind \in ClientKinds, code \in Codes, hi \in Versions :
            \E lo \in Versions :
               Arrive(r, route, key, kind, code, lo, hi)
       \/ CheckRateLimit(r) \/ VerifyClientAccess(r) \/ CheckRoomProtocol(r)
       \/ \E code \in Codes : InsertRoom(r, code)
       \/ \E asHost \in BOOLEAN : JoinRoom(r, asHost)
       \/ EndSession(r) \/ EnterLobby(r) \/ ReadView(r)
  \/ \E code \in Codes : ExpireRoom(code)
  \/ Tick

AdmSpec == AdmInit /\ [][AdmNext]_admVars

-----------------------------------------------------------------------------
(* Properties.                                                             *)

\* The limiter's memory is bounded by its policy: a bucket never holds more than
\* its limit.
AdmTypeOK ==
  /\ clock \in 0 .. plan.until /\ nextRoom \in Nat
  /\ \A b \in Buckets : /\ buckets[b] \in Seq(0 .. clock)
                         /\ Len(buckets[b]) <= Limits[b[1]]
  /\ \A r \in Requests : At(r) # "idle" =>
        /\ req[r].route \in plan.routes /\ req[r].key \in Keys /\ req[r].code \in Codes
        /\ req[r].stamp \in 0 .. clock /\ req[r].room \in 0 .. nextRoom
  /\ \A c \in Codes : rooms[c] # NoRoom =>
        /\ rooms[c].id \in 1 .. nextRoom /\ rooms[c].version \in Versions
        /\ rooms[c].host \subseteq rooms[c].socks /\ rooms[c].socks \subseteq Requests

\* The limiter keeps its promise under concurrency.  Checks reach the mutex in an
\* order other than that of their clock readings, and only the front of a bucket is
\* pruned; even so, no span of RATE_LIMIT_WINDOW less the delay between clock and
\* mutex sees more than the limit of requests pass.
WindowLimited ==
  \A b \in Buckets : \A t \in 0 .. clock :
     Cardinality({i \in DOMAIN passed[b] : passed[b][i] \in (t - (Window - Delay) + 1) .. t})
       <= Limits[b[1]]

\* retry_after is honest: whoever comes back that much later (and the delay between
\* clock and mutex), nobody else having used the bucket, passes.
RetryIsHonest ==
  [][refusal' # refusal /\ Limits[refusal'.bucket[1]] > 0 =>
       Len(Pruned(buckets'[refusal'.bucket], refusal'.at + refusal'.after + Delay))
         < Limits[refusal'.bucket[1]]]_admVars

\* What reaches a registry through a licensed route was granted by an answer of the
\* authority for that kind of client, with a version that the rollout allows it; a
\* created room has the newest such version.
AdmittedWithinPolicy ==
  \A a \in admitted : Asks(a.route) =>
    /\ \E g \in a.answer : g.status = "ok" /\ g.valid # "false" /\ g.kind # "other"
    /\ a.route \notin {"publicLobbies", "directory"} =>
         a.version \in Minimum[a.kind] .. MaximumVersion
    /\ a.route = "createRoom" =>
         /\ a.version \in a.lo .. a.hi
         /\ \A v \in Versions : v \in a.lo .. a.hi /\ v <= MaximumVersion => v <= a.version

\* Every socket of a room speaks the room's protocol, although the comparison is
\* made steps before the join; only a room that took the same invite code in
\* between escapes it.
SocketsSpeakRoomProtocol ==
  \A c \in Codes : rooms[c] # NoRoom =>
     \A r \in rooms[c].socks :
        req[r].room = rooms[c].id => req[r].version = rooms[c].version

\* A session that outlives its room is harmless to the room that took its invite
\* code: a room loses a socket, or goes, only through one of its own sockets, the
\* expiry sweep, or a new room with the same code.
ForeignSessionsHarmless ==
  [][\A r \in Requests : At(r) = "open" /\ req'[r] = Idle =>
       \A c \in Codes : rooms[c] # NoRoom /\ r \notin rooms[c].socks => rooms'[c] = rooms[c]]_admVars
==============================================================================
