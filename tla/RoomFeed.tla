------------------------------ MODULE RoomFeed ------------------------------
(***************************************************************************)
(* The sockets of one room and the two broadcast channels they read: the   *)
(* control sessions (JSON, room events numbered by event_seq) and the      *)
(* input sessions (binary, input events).  A session subscribes, joins in  *)
(* a second registry operation, answers with RoomJoined and then takes     *)
(* turns between its client's messages and the events of its channel.  A   *)
(* control message is handled in two critical sections: validate_epochs    *)
(* reads the room, then the operation itself runs.                         *)
(*                                                                         *)
(* A channel keeps the last Cap events.  A receiver that falls further     *)
(* behind is told it lagged and goes on with the oldest event kept.        *)
(***************************************************************************)
EXTENDS Integers, Sequences

CONSTANTS Control,    \* control sockets
          Input,      \* input sockets
          Actives,    \* the sockets a behaviour may use
          Cap,        \* ROOM_EVENT_CHANNEL_CAPACITY, INPUT_EVENT_CHANNEL_CAPACITY
          MaxSeq,     \* bound on event_seq
          MaxInputs,  \* bound on input events
          MaxEpoch    \* bound on the session epoch

ASSUME FeedAssumption ==
  /\ Cap \in Nat \ {0} /\ MaxSeq \in Nat /\ MaxInputs \in Nat /\ MaxEpoch \in Nat \ {0}
  /\ Control \cap Input = {} /\ Actives \subseteq SUBSET (Control \cup Input)

VARIABLES
  open,     \* the room is in the registry
  epoch,    \* session_epoch; room_epoch moves with it or stays
  seq,      \* event_seq
  lastView, \* event_seq of the newest event that carries a room view
  inputs,   \* input events sent
  phase,    \* of a session: new, subscribed, joined, loop, closing, ended
  queue,    \* events a session has still to read
  lagged,   \* its receiver lost events it was not told of yet
  task,     \* control: the message between its epoch check and its operation
  known,    \* control client: newest epoch it was shown
  shown,    \* control client: event_seq of the last view it was shown
  told,     \* control client: was told it lagged since its last view
  last      \* input session: number of the last event it read

vars == <<open, epoch, seq, lastView, inputs, phase, queue, lagged, task, known,
          shown, told, last>>
client == <<task, known, shown, told, last>>
session == <<phase, queue, lagged, task, known, shown, told, last>>

Sockets == Control \cup Input
Idle == [class |-> "idle", epoch |-> 0]

\* The messages of a control client by what their operation does to the feed.
\* Setup: an event with a view.
SyncMessages == {"SetCompatibilityFingerprint", "SetLinkCableCompatibility", "Ready",
                 "ClockSyncSample", "DeterministicReady"}
\* Relayed to the peer alone, or a grant for one socket.
SnapshotMessages == {"SnapshotChunk", "SnapshotComplete"}
SnapshotFileMessages == {"SnapshotFileRelayRequested", "SnapshotFileRelayUploadComplete"}
RomMessages == {"RomRelayProgress", "RomRelayCompleted", "RomRelayFailed", "RomRelayCancelled"}
\* No event: relay_input_frame knows no control connection; a heartbeat is
\* answered on the socket.
PlayMessages == {"InputFrame", "Heartbeat"}
\* An event with a view, and in a strict room a new session epoch.
PauseMessages == {"RequestSessionPause", "SessionPauseReached", "RequestSessionResume"}
EndMessages == {"PlayerExited", "StateHash"}

Class(m) ==
  CASE m \in SyncMessages \cup {"RequestSessionPause", "PlayerExited"} -> "view"
    [] m \in {"SessionPauseReached", "RequestSessionResume", "StateHash"} -> "advance"
    [] m \in SnapshotMessages \cup RomMessages \cup {"LinkCablePacket"} -> "peer"
    [] m \in SnapshotFileMessages \cup {"RomRelayRequest"} -> "grant"
    [] m \in PlayMessages \cup {"RefreshVoiceToken"} -> "none"
    [] m = "StateRecoveryPinned" -> "pin"

Messages == SyncMessages \cup SnapshotMessages \cup SnapshotFileMessages \cup RomMessages
  \cup PlayMessages \cup PauseMessages \cup EndMessages
  \cup {"LinkCablePacket", "RomRelayRequest", "RefreshVoiceToken", "StateRecoveryPinned"}

\* The events of the room, by what they carry and whom they are for.
SetupEvents == {"RoomStateChanged", "SessionStarted", "SessionPauseScheduled",
                "SessionPauseUpdated", "SessionResumeScheduled", "PlayerExited"}
RepairEvents == {"StateHashMismatch", "StateRecoveryPrepare", "StateRecoveryCommitted",
                 "StateRecoveryFailed", "InputDelayChanged"}
PeerEvents == {"LinkCablePacket", "SnapshotChunk", "SnapshotComplete", "RomRelayProgress",
               "RomRelayCompleted", "RomRelayFailed", "RomRelayCancelled"}
GrantEvents == {"SnapshotFileRelayUploadGranted", "SnapshotFileRelayDownloadReady",
                "RomRelayUploadGranted", "RomRelayDownloadGranted"}
\* Only the events with a room view show the client the room.
HasView(k) == k \in SetupEvents \cup RepairEvents

Events(class) ==
  CASE class = "view" -> SetupEvents \cup {"ClockSyncSampleRequested"}
    [] class = "advance" -> SetupEvents \cup RepairEvents
    [] class = "pin" -> {"StateRecoveryCommitted"}
    [] class = "peer" -> PeerEvents
    [] class = "grant" -> GrantEvents
    [] class = "none" -> {}

Init ==
  /\ open = TRUE /\ epoch = 1 /\ seq = 0 /\ lastView = 0 /\ inputs = 0
  /\ \E active \in Actives : phase = [c \in Sockets |-> IF c \in active THEN "new" ELSE "ended"]
  /\ queue = [c \in Sockets |-> << >>]
  /\ lagged = [c \in Sockets |-> FALSE]
  /\ task = [c \in Control |-> Idle]
  /\ known = [c \in Control |-> 0] /\ shown = [c \in Control |-> 0]
  /\ told = [c \in Control |-> FALSE]
  /\ last = [c \in Input |-> 0]

-----------------------------------------------------------------------------
(* The channels *)

\* Mutant of Subscribed: a session subscribes when its loop begins.
SubscribedLate == {c \in Sockets : phase[c] = "loop"}
\* The receivers of a channel: every session from its subscription to its end.
Subscribed == {c \in Sockets : phase[c] \in {"subscribed", "joined", "loop"}}

\* broadcast::Sender::send to the given receivers: a full receiver loses its
\* oldest event and will be told it lagged.
Queued(cs, e) ==
  [c \in Sockets |-> IF c \in cs
                     THEN IF Len(queue[c]) = Cap THEN Append(Tail(queue[c]), e)
                                                 ELSE Append(queue[c], e)
                     ELSE queue[c]]
Overrun(cs) ==
  [c \in Sockets |-> lagged[c] \/ (c \in cs /\ Len(queue[c]) = Cap)]

\* record_event and the send of one emit_ operation: to is the audience.
Emit(view, to) ==
  LET cs == Subscribed \cap Control
  IN  /\ seq < MaxSeq /\ seq' = seq + 1
      /\ lastView' = IF view THEN seq + 1 ELSE lastView
      /\ queue' = Queued(cs, [seq |-> seq + 1, view |-> view, to |-> to, epoch |-> epoch'])
      /\ lagged' = Overrun(cs)

\* An input event for the input sockets in to.
EmitInput(to) ==
  LET cs == Subscribed \cap Input
  IN  /\ open /\ cs # {} /\ inputs < MaxInputs /\ inputs' = inputs + 1
      /\ queue' = Queued(cs, [seq |-> inputs + 1, view |-> FALSE, to |-> to, epoch |-> epoch])
      /\ lagged' = Overrun(cs)
      /\ UNCHANGED <<open, epoch, seq, lastView, phase, client>>

\* emit_next_server_frame, emit_v5_server_frame: a released frame.
ServerFrame == EmitInput(Input)

\* handle_legacy_input, handle_fast_input, handle_strict_input of an accepted batch.
RelayBatch(c) == phase[c] = "loop" /\ EmitInput(Input \ {c})

\* Everything else that goes on in the room, sweeps and sockets that are not in
\* Control: an event with a view for all, or one addressed to somebody else.
RoomChanges ==
  /\ open
  /\ \/ epoch' \in {epoch, epoch + 1} /\ epoch' <= MaxEpoch /\ Emit(TRUE, Control)
     \/ epoch' = epoch /\ Emit(FALSE, {})
  /\ UNCHANGED <<open, inputs, phase, client>>

RecordDebugEvent ==
  /\ open /\ seq < MaxSeq /\ seq' = seq + 1
  /\ UNCHANGED <<open, epoch, lastView, inputs, session>>

\* The room leaves the registry; its channels close behind their last event.
RemoveRoom ==
  /\ open /\ open' = FALSE
  /\ UNCHANGED <<epoch, seq, lastView, inputs, session>>

-----------------------------------------------------------------------------
(* The life of a session *)

Subscribe(c) ==
  /\ open /\ phase[c] = "new"
  /\ phase' = [phase EXCEPT ![c] = "subscribed"]
  /\ last' = IF c \in Input THEN [last EXCEPT ![c] = inputs] ELSE last
  /\ UNCHANGED <<open, epoch, seq, lastView, inputs, queue, lagged, task, known, shown, told>>

\* connect_host, connect_guest, reconnect_player, connect_input_socket: the
\* join changes the room and emits its state in the same operation.
Join(c) ==
  /\ open /\ phase[c] = "subscribed"
  /\ phase' = [phase EXCEPT ![c] = "joined"]
  /\ epoch' \in {epoch, epoch + 1} /\ epoch' <= MaxEpoch
  /\ Emit(TRUE, Control)
  /\ IF c \in Control
     THEN shown' = [shown EXCEPT ![c] = seq + 1] /\ known' = [known EXCEPT ![c] = epoch']
     ELSE UNCHANGED <<shown, known>>
  /\ UNCHANGED <<open, inputs, task, told, last>>

\* send_upgrade_error: a refused join, or a room that is gone, ends the session.
JoinRefused(c) ==
  /\ phase[c] = "subscribed"
  /\ phase' = [phase EXCEPT ![c] = "ended"]
  /\ UNCHANGED <<open, epoch, seq, lastView, inputs, queue, lagged, client>>

\* RoomJoined goes out and the loop begins; a failed send or a refused handoff
\* disconnects at once.
EnterLoop(c) ==
  /\ phase[c] = "joined"
  /\ phase' \in {[phase EXCEPT ![c] = "loop"], [phase EXCEPT ![c] = "closing"]}
  /\ UNCHANGED <<open, epoch, seq, lastView, inputs, queue, lagged, client>>

\* The loop of a session ends.
LeaveLoop(c) ==
  /\ phase[c] = "loop" /\ phase' = [phase EXCEPT ![c] = "closing"]
  /\ UNCHANGED <<open, epoch, seq, lastView, inputs, queue, lagged, client>>

\* The client closes, the stream breaks, or a send fails.
PeerCloses(c) == task[c] = Idle /\ LeaveLoop(c)

\* The same on an input socket, where text, a malformed batch and every
\* refusal but NotPlaying and stale epochs end the session too.
InputEnds(c) == LeaveLoop(c)

\* disconnect, disconnect_input_socket: the last call of a session.
Disconnect(c) ==
  /\ phase[c] = "closing"
  /\ phase' = [phase EXCEPT ![c] = "ended"]
  /\ \/ /\ open
        /\ epoch' \in {epoch, epoch + 1} /\ epoch' <= MaxEpoch
        /\ Emit(TRUE, Control)
     \/ ~open /\ UNCHANGED <<epoch, seq, lastView, queue, lagged>>
  /\ UNCHANGED <<open, inputs, client>>

-----------------------------------------------------------------------------
(* Reading the channel *)

\* Mutant of LagEnds: an input session goes on after a gap.
LagNeverEnds(c) == FALSE
\* RecvError::Lagged: a control session reports it and goes on, an input
\* session closes.
LagEnds(c) == c \in Input

\* Mutant of TellsLag: a control client is not told of what it missed.
TellsNothing(c) == FALSE
\* roomEventLagged
TellsLag(c) == c \in Control

ReadLag(c) ==
  /\ phase[c] = "loop" /\ lagged[c]
  /\ c \in Control => task[c] = Idle
  /\ lagged' = [lagged EXCEPT ![c] = FALSE]
  /\ phase' = IF LagEnds(c) THEN [phase EXCEPT ![c] = "closing"] ELSE phase
  /\ told' = IF TellsLag(c) THEN [told EXCEPT ![c] = TRUE] ELSE told
  /\ UNCHANGED <<open, epoch, seq, lastView, inputs, queue, task, known, shown, last>>

\* handle_room_event: one event, written to the client if it is meant for it.
ReadEvent(c) ==
  /\ phase[c] = "loop" /\ ~lagged[c] /\ queue[c] # << >>
  /\ c \in Control => task[c] = Idle
  /\ queue' = [queue EXCEPT ![c] = Tail(@)]
  /\ LET e == Head(queue[c])
         view == c \in Control /\ e.view /\ c \in e.to
     IN  /\ shown' = IF view THEN [shown EXCEPT ![c] = e.seq] ELSE shown
         /\ known' = IF view THEN [known EXCEPT ![c] = e.epoch] ELSE known
         /\ told' = IF view THEN [told EXCEPT ![c] = FALSE] ELSE told
         /\ last' = IF c \in Input THEN [last EXCEPT ![c] = e.seq] ELSE last
  /\ UNCHANGED <<open, epoch, seq, lastView, inputs, phase, lagged, task>>

\* A removed room drops both senders.
ChannelClosed == ~open

\* RecvError::Closed, once the channel is drained.
ReadClosed(c) ==
  /\ ChannelClosed /\ ~lagged[c] /\ queue[c] = << >>
  /\ c \in Control => task[c] = Idle
  /\ LeaveLoop(c)

-----------------------------------------------------------------------------
(* A control message *)

\* validate_epochs: a stale message is answered with an error; the handler
\* goes on to the operation either way.  StateRecoveryPinned skips the check.
CheckEpochs(c, m, e) ==
  /\ phase[c] = "loop" /\ task[c] = Idle
  /\ task' = [task EXCEPT ![c] = [class |-> Class(m), epoch |-> e]]
  /\ UNCHANGED <<open, epoch, seq, lastView, inputs, phase, queue, lagged, known, shown,
                 told, last>>

\* accept_v5_state_recovery_pin_for_epoch compares the epochs itself.
PinCurrent(e) == e = epoch

\* Who hears of an event of c's operation: everybody, the peer alone, or the
\* socket the grant names.
Audience(c, k) ==
  CASE k \in PeerEvents -> {Control \ {c}}
    [] k \in GrantEvents -> {{c}, Control \ {c}}
    [] OTHER -> {Control}

\* The operation: refused (the room's own rules, or no room), or run.
ApplyMessage(c) ==
  LET t == task[c]
      runs == open /\ (t.class = "pin" => PinCurrent(t.epoch))
  IN  /\ t # Idle
      /\ task' = [task EXCEPT ![c] = Idle]
      /\ \/ UNCHANGED <<epoch, seq, lastView, queue, lagged>>
         \/ /\ runs
            /\ epoch' \in IF t.class \in {"advance", "pin"} THEN {epoch, epoch + 1} ELSE {epoch}
            /\ epoch' <= MaxEpoch
            /\ \E k \in Events(t.class) : \E to \in Audience(c, k) : Emit(HasView(k), to)
      /\ UNCHANGED <<open, inputs, phase, known, shown, told, last>>

Next ==
  \/ ServerFrame \/ RoomChanges \/ RecordDebugEvent \/ RemoveRoom
  \/ \E c \in Sockets :
       \/ Subscribe(c) \/ Join(c) \/ JoinRefused(c) \/ EnterLoop(c) \/ Disconnect(c)
       \/ ReadLag(c) \/ ReadEvent(c) \/ ReadClosed(c)
  \/ \E c \in Input : RelayBatch(c) \/ InputEnds(c)
  \/ \E c \in Control : ApplyMessage(c) \/ PeerCloses(c)
  \/ \E c \in Control, m \in Messages : \E e \in 1..known[c] : CheckEpochs(c, m, e)

Spec == Init /\ [][Next]_vars

\* Every session is a task of its own.  select! picks a ready branch at random,
\* so a channel that keeps being ready is read; an operation, once begun, runs.
Live ==
  /\ Spec
  /\ \A c \in Sockets :
       /\ SF_vars(ReadEvent(c)) /\ SF_vars(ReadLag(c)) /\ SF_vars(ReadClosed(c))
       /\ WF_vars(JoinRefused(c)) /\ WF_vars(EnterLoop(c)) /\ WF_vars(Disconnect(c))
  /\ \A c \in Control : WF_vars(ApplyMessage(c))

-----------------------------------------------------------------------------
(* Properties *)

\* Types; a queue never holds more than the channel keeps.
FeedTypeOK ==
  /\ open \in BOOLEAN /\ epoch \in 1..MaxEpoch /\ seq \in 0..MaxSeq /\ lastView \in 0..seq
  /\ phase \in [Sockets -> {"new", "subscribed", "joined", "loop", "closing", "ended"}]
  /\ \A c \in Sockets : Len(queue[c]) <= Cap
  /\ lagged \in [Sockets -> BOOLEAN] /\ told \in [Control -> BOOLEAN]
  /\ \A c \in Control : shown[c] \in 0..seq /\ known[c] \in 0..epoch

\* The channels keep within their capacity, and a client that has read all its
\* events shows the newest state of the room, or was told it missed some: the
\* subscription that precedes the join leaves no update in between.
ShowsNewest ==
  FeedTypeOK /\ \A c \in Control :
    phase[c] = "loop" /\ queue[c] = << >> /\ ~lagged[c] => shown[c] = lastView \/ told[c]

\* An input session reads the input events without a gap, or closes.
NoInputGap ==
  [][\A c \in Input : last'[c] > last[c] /\ phase[c] = "loop" => last'[c] = last[c] + 1]_vars

\* What happens in a room is shown to every client in its loop, or the client
\* is told, or its session ends; and no session outlives its room.
EventuallyShown ==
  /\ \A c \in Control, n \in 1..MaxSeq :
       (phase[c] = "loop" /\ lastView = n) ~> (shown[c] >= n \/ told[c] \/ phase[c] # "loop")
  /\ \A c \in Sockets : ~open ~> phase[c] \in {"new", "ended"}
=============================================================================
