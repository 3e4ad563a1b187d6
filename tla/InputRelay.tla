----------------------------- MODULE InputRelay -----------------------------
(***************************************************************************)
(* The protocol-v4 input relay of one two-player controller room: staged   *)
(* input batches, the two release buffers, the 60 Hz frame clock gated by  *)
(* the host's input, the coordinated pause, and every room operation that  *)
(* restarts the frame stream.  Registry operations hold one lock, so each  *)
(* is one action.  What the lobby of statuses before gameplay does (see    *)
(* RoomLifecycle and RoomSession) is folded into the status "Setup".       *)
(*                                                                         *)
(* stream, accepted, dropped, syncs and the field past are history: what   *)
(* the input sockets were sent since the last restart, and which entries   *)
(* belong to it.                                                           *)
(***************************************************************************)
EXTENDS Integers, Sequences, FiniteSetsExt

CONSTANTS MaxFrame,    \* frames are 0..MaxFrame
          Budgets,     \* bounds of one behaviour: how many restarts, losses in
                       \* a handoff, returns, dropped cursors, pauses and repeated
                       \* compatibility checks
          MaxFuture,   \* max_future_frame_distance
          Lead,        \* SESSION_PAUSE_LEAD_FRAMES
          Delays,      \* input delays the start may choose
          BatchLen,    \* MAX_INPUT_BATCH_FRAMES
          FastCapable  \* players whose client has supports_fast_input_relay

ASSUME RelayAssumption ==
  /\ MaxFrame \in Nat /\ MaxFuture \in Nat /\ Lead \in Nat
  /\ Budgets \subseteq [syncs : Nat, handoffs : Nat, returns : Nat, drops : Nat, pauses : Nat, checks : Nat]
  /\ Delays \subseteq Nat /\ Delays # {}
  /\ BatchLen \in Nat \ {0} /\ FastCapable \subseteq {1, 2}

VARIABLES
  status,      \* room.status, "Setup" for every status before StartScheduled
  due,         \* scheduled_start: "none", "set" or "due"
  epochs,      \* <<room_epoch, session_epoch>>
  sock,        \* a slot's sockets: "gone", control alone, or control and input
  start,       \* sync_start_frame
  nextRelease, \* next_release_frame; released_frame is its predecessor
  nextIn,      \* next_input_frames, start when absent
  lastIn,      \* last_input_frames, -1 when absent
  delay,       \* session.controller.input_delay_frames
  pause,       \* pause_state
  buffer,      \* input_relay_buffer and fast_input_relay_buffer
  bufEpochs,   \* <<relay_room_epoch, relay_session_epoch>>
  stream, accepted, dropped, syncs,
  left         \* what is left of the budget

room == <<status, due, epochs, sock, start>>
cursors == <<nextRelease, nextIn, lastIn, accepted, dropped>>
relay == <<buffer, bufEpochs, stream, syncs, left>>
vars == <<status, due, epochs, sock, start, nextRelease, nextIn,
          lastIn, delay, pause, buffer, bufEpochs, stream, accepted, dropped, syncs, left>>

Players == {1, 2}
Host == 1
Server == 0
Frames == 0..MaxFrame
Here == {p \in Players : sock[p] # "gone"}
Kinds == {"legacy", "fast"}
NoPause == [at |-> -1, holders |-> {}, acked |-> {}]
NoBuffer == [k \in Kinds |-> [f \in Frames |-> << >>]]

RoomFrame == IF nextRelease > start THEN nextRelease - 1 ELSE start

ServerEntry(f) == [player |-> Server, frame |-> f, sent |-> epochs, past |-> FALSE]

Init ==
  /\ status = "Setup" /\ due = "none" /\ epochs = <<1, 1>>
  /\ sock = [p \in Players |-> "control"]
  /\ start = 0 /\ nextRelease = 0
  /\ nextIn = [p \in Players |-> 0] /\ lastIn = [p \in Players |-> -1]
  /\ delay = CHOOSE d \in Delays : TRUE
  /\ pause = NoPause
  /\ buffer = NoBuffer /\ bufEpochs = <<1, 1>>
  /\ stream = << >> /\ accepted = [p \in Players |-> {}] /\ dropped = {}
  /\ syncs = 0 /\ left \in Budgets

-----------------------------------------------------------------------------
(* Sequences by position *)

\* The elements of a finite set of numbers in ascending order.
Ascending(S) ==
  CHOOSE q \in [1..Cardinality(S) -> S] : \A m, n \in DOMAIN q : m < n => q[m] < q[n]

\* The elements of s at the positions P, in their order.
At(s, P) == [n \in 1..Cardinality(P) |-> s[Ascending(P)[n]]]

-----------------------------------------------------------------------------
(* The buffers *)

\* synchronize_input_runtime_epoch: both buffers are dropped once the epochs
\* they were filled in are over.
Synchronized == IF bufEpochs = epochs THEN buffer ELSE NoBuffer

\* Mutant of EmittedNow: the frame the clock opens next counts as released.
EmittedAhead(f) == f <= nextRelease
\* relay_accepted_input_frame: released frames go out at once, the rest wait.
EmittedNow(f) == nextRelease > start /\ f < nextRelease

\* drain_frame of either buffer: the entries of exactly one frame, of the
\* current epochs.  A fast record carries the epochs its sender wrote.
LegacyReady(b, f) ==
  At(b["legacy"][f], {i \in DOMAIN b["legacy"][f] : b["legacy"][f][i].epochs = epochs})
FastReady(b, f) ==
  At(b["fast"][f], {i \in DOMAIN b["fast"][f] : b["fast"][f][i].sent = epochs})

\* push: a taken frame goes behind what its buffer holds for that frame.
Pushed(b, kind, frames, entry) ==
  [b EXCEPT ![kind] = [f \in Frames |-> IF f \in frames THEN Append(@[f], entry[f]) ELSE @[f]]]

Sent(e) == [player |-> e.player, frame |-> e.frame, sent |-> e.sent, past |-> e.past]

-----------------------------------------------------------------------------
(* Input batches *)

\* pause_frame_acceptance: a scheduled pause fences new input.
WithinFence(f) == pause = NoPause \/ f <= pause.at + delay

\* Mutant of Taken: each frame is compared with the cursor of the room alone.
TakenUnstaged(p, batch) ==
  {batch[i] : i \in {i \in DOMAIN batch : WithinFence(batch[i]) /\ batch[i] >= nextIn[p] - 1}}
\* The frames of a batch that accept_input_frame_cursors relays: within the
\* fence, at or past the cursor, and past every frame staged before it.
Taken(p, batch) ==
  {batch[i] : i \in {i \in DOMAIN batch :
     /\ WithinFence(batch[i])
     /\ batch[i] >= nextIn[p]
     /\ \A j \in 1..(i - 1) : WithinFence(batch[j]) => batch[j] < batch[i]}}

TooFar(batch) ==
  \E i \in DOMAIN batch : WithinFence(batch[i]) /\ batch[i] > RoomFrame + MaxFuture

FastRelayed == Here = Players /\ FastCapable = Players

\* StaleRoomEpoch and StaleSessionEpoch drop a batch.
EpochsMatch(sent) == sent = epochs

\* The whole batch is staged before a cursor moves; then every taken frame is
\* sent, or buffered until its frame is released.
Accept(p, kind, batch, sent) ==
  /\ sock[p] = "input"
  /\ status \in {"Playing", "Paused"}
  /\ ~TooFar(batch)
  /\ LET taken == Taken(p, batch)
         entry == [f \in Frames |->
                     [player |-> p, frame |-> f, epochs |-> epochs, sent |-> sent, past |-> FALSE]]
         now == Ascending({f \in taken : EmittedNow(f)})
     IN  /\ taken # {}
         /\ nextIn' = [nextIn EXCEPT ![p] = Max(taken) + 1]
         /\ lastIn' = [lastIn EXCEPT ![p] = Max(taken)]
         /\ accepted' = [accepted EXCEPT ![p] = @ \cup taken]
         /\ buffer' = Pushed(Synchronized, kind, {f \in taken : ~EmittedNow(f)}, entry)
         /\ stream' = stream \o [i \in DOMAIN now |-> Sent(entry[now[i]])]
  /\ bufEpochs' = epochs
  /\ UNCHANGED <<room, nextRelease, delay, pause, dropped, syncs, left>>

\* A refused batch changes nothing here: NotPlaying and stale epochs drop it,
\* every other refusal ends the input session, which is LosePlayer or
\* DropInputSocket.
RelayInputFrameBatch(p, batch, sent) ==
  EpochsMatch(sent) /\ Accept(p, "legacy", batch, sent)

RelayFastInputBatch(p, batch, sent) ==
  FastRelayed /\ EpochsMatch(sent) /\ Accept(p, "fast", batch, sent)

-----------------------------------------------------------------------------
(* The frame clock *)

\* Mutant of HostHasInput: the clock waits for every player.
EveryoneHasInput(f) == \A p \in Players : lastIn[p] >= f
\* host_has_input_for_frame
HostHasInput(f) == lastIn[Host] >= f

\* Mutant of Opens: the clock jumps to the newest frame of the host.
OpensNewest == IF lastIn[Host] > nextRelease THEN lastIn[Host] ELSE nextRelease
\* release_next_server_frame opens exactly the next frame.
Opens == nextRelease

\* emit_next_server_frame: one tick starts a due room and releases at most one
\* frame, its buffered input first.
FrameClockTick ==
  LET playing == status = "Playing" \/ (status = "StartScheduled" /\ due = "due")
      release == playing /\ HostHasInput(Opens)
  IN  /\ playing
      /\ status = "StartScheduled" \/ release
      /\ status' = "Playing"
      /\ bufEpochs' = epochs
      /\ IF release
         THEN \E b \in {Synchronized} : \E out \in {LegacyReady(b, Opens) \o FastReady(b, Opens)} :
                 /\ stream' = stream \o [i \in DOMAIN out |-> Sent(out[i])]
                                     \o <<ServerEntry(Opens)>>
                 /\ buffer' = [k \in Kinds |-> [b[k] EXCEPT ![Opens] = << >>]]
                 /\ nextRelease' = Opens + 1
         ELSE buffer' = Synchronized /\ UNCHANGED <<stream, nextRelease>>
      /\ UNCHANGED <<due, epochs, sock, start, nextIn, lastIn, delay,
                     pause, accepted, dropped, syncs, left>>

-----------------------------------------------------------------------------
(* The coordinated pause *)

Spend(k) == left[k] > 0 /\ left' = [left EXCEPT ![k] = @ - 1]

PauseUnchanged == UNCHANGED <<due, epochs, sock, start, cursors, delay,
                              buffer, bufEpochs, stream, syncs>>

RequestPause(p, localFrame) ==
  /\ p \in Here
  /\ status \in {"Playing", "Paused"}
  /\ pause' = IF pause = NoPause
              THEN [at |-> (IF localFrame > RoomFrame THEN localFrame ELSE RoomFrame) + Lead,
                    holders |-> {p}, acked |-> {}]
              ELSE [pause EXCEPT !.holders = @ \cup {p}]
  /\ IF pause = NoPause THEN Spend("pauses") ELSE UNCHANGED left
  /\ UNCHANGED status /\ PauseUnchanged

\* mark_session_pause_reached, whatever the status: the last acknowledgement
\* pauses the room, or resumes it when nobody holds the pause any more.
PauseReached(p) ==
  /\ p \in Here /\ pause # NoPause
  /\ LET acked == pause.acked \cup {p}
         all == Here \subseteq acked
     IN  /\ pause' = IF all /\ pause.holders = {} THEN NoPause ELSE [pause EXCEPT !.acked = acked]
         /\ status' = IF ~all THEN status ELSE IF pause.holders = {} THEN "Playing" ELSE "Paused"
  /\ UNCHANGED left /\ PauseUnchanged

RequestResume(p) ==
  /\ p \in Here /\ pause # NoPause
  /\ LET still == pause.holders \ {p}
         resumes == still = {} /\ status = "Paused"
     IN  /\ pause' = IF resumes THEN NoPause ELSE [pause EXCEPT !.holders = still]
         /\ status' = IF resumes THEN "Playing" ELSE status
  /\ UNCHANGED left /\ PauseUnchanged

-----------------------------------------------------------------------------
(* The rest of the room, as far as it touches the relay *)

Aged(b) == [k \in Kinds |-> [f \in Frames |->
              [i \in DOMAIN b[k][f] |-> [b[k][f][i] EXCEPT !.past = TRUE]]]]

\* reset_sync_state_to
ResetSync(f) ==
  /\ syncs' = syncs + 1
  /\ start' = f /\ nextRelease' = f
  /\ nextIn' = [p \in Players |-> f] /\ lastIn' = [p \in Players |-> -1]
  /\ pause' = NoPause /\ due' = "none"
  /\ stream' = << >> /\ accepted' = [p \in Players |-> {}] /\ dropped' = {}
  /\ buffer' = Aged(buffer)
  /\ UNCHANGED <<delay, bufEpochs>>

InPlay == {"StartScheduled", "Playing", "Paused"}

\* enter_recovery_state: both epochs move on.
NextEpochs == <<epochs[1] + 1, epochs[2] + 1>>

\* A player's socket is lost during play: the room recovers.
LosePlayer(p) ==
  /\ p \in Here /\ status \in InPlay
  /\ sock' = [sock EXCEPT ![p] = "gone"]
  /\ status' = "Setup" /\ epochs' = NextEpochs
  /\ Spend("syncs") /\ ResetSync(0)

\* A runner handoff that outlived the start keeps the room playing: the frame
\* stream restarts in the same epochs.
LoseInHandoff(p) ==
  /\ p \in Here
  /\ sock' = [sock EXCEPT ![p] = "gone"]
  /\ Spend("handoffs") /\ ResetSync(0)
  /\ UNCHANGED <<status, epochs>>

\* reconnect_player, join_guest: the last player back restarts the stream.
ReturnPlayer(p) ==
  /\ sock[p] = "gone" /\ sock' = [sock EXCEPT ![p] = "control"]
  /\ status' = "Setup"
  /\ Spend("returns") /\ ResetSync(0)
  /\ UNCHANGED epochs

\* attach_host_with_resume: a second host socket takes the slot over; the
\* cursors and the stream go on, the input socket has to be opened again.
HostReattaches ==
  /\ sock[Host] = "input" /\ sock' = [sock EXCEPT ![Host] = "control"]
  /\ UNCHANGED <<status, due, epochs, start, cursors, delay, pause, relay>>

AttachInputSocket(p) ==
  /\ sock[p] = "control" /\ sock' = [sock EXCEPT ![p] = "input"]
  /\ UNCHANGED <<status, due, epochs, start, cursors, delay, pause, relay>>

LastAfterDrop(p) == [lastIn EXCEPT ![p] = -1]

\* disconnect_input_socket before play drops that player's cursors only.
DropInputSocket(p) ==
  /\ sock[p] = "input" /\ status = "Setup"
  /\ sock' = [sock EXCEPT ![p] = "control"]
  /\ nextIn' = [nextIn EXCEPT ![p] = start] /\ lastIn' = LastAfterDrop(p)
  /\ dropped' = dropped \cup {p} /\ Spend("drops")
  /\ UNCHANGED <<status, due, epochs, start, nextRelease, accepted,
                 delay, pause,
                 buffer, bufEpochs, stream, syncs>>

\* set_compatibility_for_connection sends a playing room back to the checks.
CompatibilityAgain ==
  /\ status \in InPlay /\ Spend("checks")
  /\ status' = "Setup"
  /\ UNCHANGED <<due, epochs, sock, start, cursors, delay, pause,
                 buffer, bufEpochs, stream, syncs>>

\* enter_state_hash_resync: a hash mismatch restarts the stream at its frame.
HashResync(f) ==
  /\ status \in {"Playing", "Paused"} /\ Here = Players
  /\ status' = "Setup" /\ epochs' = <<epochs[1], epochs[2] + 1>>
  /\ Spend("syncs") /\ ResetSync(f)
  /\ UNCHANGED sock

\* mark_ready: the last ready player starts the room, with the input delay of
\* the network reports.
StartNow(d) ==
  /\ status = "Setup" /\ \A p \in Players : sock[p] = "input"
  /\ status' = "Playing" /\ delay' = d
  /\ UNCHANGED <<due, epochs, sock, start, cursors, pause, relay>>

ScheduleStart ==
  /\ status = "Setup" /\ \A p \in Players : sock[p] = "input"
  /\ due = "none"
  /\ status' = "StartScheduled" /\ due' = "set"
  /\ UNCHANGED <<epochs, sock, start, cursors, delay, pause, relay>>

StartTimeComes ==
  /\ due = "set" /\ due' = "due"
  /\ UNCHANGED <<status, epochs, sock, start, cursors, delay, pause, relay>>

Batches == UNION {[1..n -> Frames] : n \in 1..BatchLen}

Next ==
  \/ \E p \in Players, b \in Batches, s \in (1..epochs[1]) \X (1..epochs[2]) :
       RelayInputFrameBatch(p, b, s) \/ RelayFastInputBatch(p, b, s)
  \/ nextRelease <= MaxFrame /\ FrameClockTick
  \/ \E p \in Players, f \in Frames : RequestPause(p, f)
  \/ \E p \in Players : PauseReached(p) \/ RequestResume(p)
  \/ \E p \in Players : LosePlayer(p) \/ LoseInHandoff(p) \/ ReturnPlayer(p)
  \/ \E p \in Players : AttachInputSocket(p) \/ DropInputSocket(p)
  \/ HostReattaches \/ CompatibilityAgain \/ ScheduleStart \/ StartTimeComes
  \/ \E f \in Frames : HashResync(f)
  \/ \E d \in Delays : StartNow(d)

Spec == Init /\ [][Next]_vars

-----------------------------------------------------------------------------
(* Properties *)

IsServer(e) == e.player = Server
\* The positions of the frame messages among the first n messages, and the frames
\* that all of them release.
ServersUpTo(n) == {i \in 1..n : IsServer(stream[i])}
ServerFrames ==
  LET order == Ascending(ServersUpTo(Len(stream)))
  IN  [n \in DOMAIN order |-> stream[order[n]].frame]
Occurrences(s, p, f) == Cardinality({i \in DOMAIN s : s[i].player = p /\ s[i].frame = f /\ ~s[i].past})

\* The types of the room's fields, and that the two cursors of a player agree: the
\* last accepted frame is the one before the next, or there is none.
RelayTypeOK ==
  /\ status \in InPlay \cup {"Setup"} /\ due \in {"none", "set", "due"}
  /\ epochs \in Nat \X Nat /\ bufEpochs \in Nat \X Nat
  /\ sock \in [Players -> {"gone", "control", "input"}]
  /\ start \in Nat /\ nextRelease \in Nat /\ delay \in Delays
  /\ nextIn \in [Players -> Nat] /\ lastIn \in [Players -> Nat \cup {-1}]
  /\ pause \in [at : Nat \cup {-1}, holders : SUBSET Players, acked : SUBSET Players]
  /\ \A p \in Players : IF lastIn[p] = -1 THEN nextIn[p] = start ELSE lastIn[p] = nextIn[p] - 1

\* The relay's fields are well formed, and every input it takes reaches the peers
\* exactly once: it waits in one
\* buffer until the frame clock releases its frame and is sent with it, or at
\* once when the frame is already out.  A player whose cursor a lost input
\* socket dropped without a restart is the one exception.
ExactlyOnce ==
  /\ RelayTypeOK
  /\ \A p \in Players \ dropped, f \in Frames :
       LET waiting == Occurrences(Synchronized["legacy"][f], p, f)
                      + Occurrences(Synchronized["fast"][f], p, f)
           out == Occurrences(stream, p, f)
       IN  /\ out = IF f \in accepted[p] /\ f < nextRelease THEN 1 ELSE 0
           /\ waiting = IF f \in accepted[p] /\ f >= nextRelease THEN 1 ELSE 0

\* Everything the sockets are sent is in its place: it was sent for the epochs the
\* room is in, whatever was buffered or in flight when they changed, and never ahead
\* of the frame clock.  The input of a frame comes in one run of messages that ends
\* with that frame's ServerFrame, or later.
InPlace ==
  \A i \in DOMAIN stream :
    LET opened == start + Cardinality(ServersUpTo(i - 1))
    IN  /\ stream[i].sent = epochs
        /\ \/ IsServer(stream[i])
           \/ stream[i].frame < opened
           \/ /\ stream[i].frame = opened
              /\ i < Len(stream)
              /\ stream[i + 1].frame = opened

\* The released frames of one restart to the next go up by one from the start.
Abstract == INSTANCE FrameRelease WITH
  epoch <- syncs + 1, log <- ServerFrames
ReleasesInOrder == Abstract!Spec

\* The frame clock never waits for the guest: what the host has sent is
\* released, unless the room stops playing.
Live == Spec /\ WF_vars(FrameClockTick)
HostPaces ==
  \A f \in Frames :
    (status = "Playing" /\ nextRelease = f /\ lastIn[Host] >= f)
      ~> (nextRelease # f \/ status # "Playing" \/ lastIn[Host] < f)
=============================================================================
