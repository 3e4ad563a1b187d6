---------------------------- MODULE RoomSession ----------------------------
(***************************************************************************)
(* What the two players of a protocol-v5 controller room do once they are  *)
(* in it, on top of the membership of RoomLifecycle: compatibility, host   *)
(* snapshot, ready, clock-synchronised start, strict input, host-opened    *)
(* frames, coordinated pause, state hashes and state recovery.  Every      *)
(* membership action is taken with the effect it has on this state, every  *)
(* in-room operation with the effect it has on the membership's status,    *)
(* session epoch and repair deadline.                                      *)
(*                                                                         *)
(* released_frame is None exactly when next_release_frame is still the sync*)
(* start, and room_frame follows both, so nextRelease stands for the three.*)
(* An input cursor that is absent from next_input_frames reads as the sync *)
(* start, and is kept as that number.  Client messages that the code       *)
(* refuses, or accepts as exact repetitions, change nothing and are left   *)
(* out.  Control messages carry epochs, but the handler applies them       *)
(* whatever those say, so no action looks at them.                         *)
(***************************************************************************)
EXTENDS RoomLifecycle, Sequences

CONSTANTS Fingerprints,   \* compatibility fingerprints that fit the session
          Snapshots,      \* snapshot identities (id, size and checksum)
          Digests,        \* state digests
          ClientCaps,     \* what the clients of a player may say about scheduled starts
          Handoffs,       \* what a joining client may say about a runner handoff
          Timeouts,       \* the timeouts that may pass in a run
          MaxFrame,       \* bound on the frames of a run
          MaxFuture,      \* V5_MAX_FUTURE_FRAME_DISTANCE
          PauseLead,      \* SESSION_PAUSE_LEAD_FRAMES
          LocalLead,      \* how far ahead of the room a pausing client may be
          InputDelay,     \* the session's input delay
          HashInterval,   \* AUTHORITATIVE_STATE_HASH_INTERVAL_FRAMES
          MaxAttempts     \* STATE_RECOVERY_MAX_ATTEMPTS

ASSUME SessionAssumption ==
  /\ ClientCaps \in [Players -> SUBSET BOOLEAN] /\ Handoffs \subseteq BOOLEAN
  /\ {MaxFrame, MaxFuture, PauseLead, LocalLead, InputDelay, MaxAttempts} \subseteq Nat
  /\ HashInterval \in Nat \ {0}
  /\ None \notin Fingerprints \cup Digests

VARIABLES
  caps,          \* supports_scheduled_start and supports_clock_sync of a slot
  compat,        \* compatibility
  ready,         \* ready_players
  xfer,          \* snapshot_transfer: the snapshot being relayed
  snapshot,      \* completed_snapshot_manifest, None while not completed
  clockReq,      \* clock_sync_request is set
  samples,       \* players whose clock samples are complete
  detReady,      \* deterministic_ready_players
  sched,         \* scheduled_start, with whether its time has come
  syncStart,     \* sync_start_frame
  nextRelease,   \* next_release_frame
  pending,       \* pending_host_frame_open
  tasks,         \* spawned first-frame releases
  nextIn,        \* next_input_frames
  pause,         \* pause_state
  hashes,        \* state_hashes at the next checkpoint
  nextHash,      \* next_authoritative_state_hash_frame
  rec,           \* state_recovery
  attempts,      \* state_recovery_started_at within the attempt window
  relayed        \* history: the frames released in this session epoch

handshake == <<compat, ready, xfer, snapshot>>
startSync == <<clockReq, samples, detReady, sched>>
frames == <<syncStart, nextRelease, pending, nextIn, pause>>
repair == <<hashes, nextHash, rec>>
session == <<handshake, startSync, frames, repair>>
roomVars == <<lifecycleVars, caps, session, attempts, tasks, relayed>>

Frames == 0..MaxFrame
Manifests == [id : Snapshots, frame : Frames]
Schedules == [session : 1..MaxSessionEpoch, frame : Frames, due : BOOLEAN]
Releases == [room : 1..MaxRoomEpoch, session : 1..MaxSessionEpoch, frame : Frames]
Pauses == [at : Frames, holders : SUBSET Players, acked : SUBSET Players]
Repairs == [frame : Nat, session : 1..MaxSessionEpoch, pinned : Manifests \cup {None}]

\* An absent Option is none of the values it may hold.
ASSUME NoneAssumption == None \notin Frames \cup Manifests \cup Schedules \cup Pauses \cup Repairs

SessionTypeOK ==
  /\ TypeOK
  /\ caps \in [Players -> BOOLEAN]
  /\ compat \in [Players -> Fingerprints \cup {None}]
  /\ ready \subseteq Players
  /\ xfer \in Manifests \cup {None} /\ snapshot \in Manifests \cup {None}
  /\ clockReq \in BOOLEAN
  /\ samples \subseteq Players /\ detReady \subseteq Players
  /\ sched \in Schedules \cup {None}
  /\ syncStart \in Frames /\ nextRelease \in 0..MaxFrame + 1
  /\ pending \in Frames \cup {None}
  /\ tasks \subseteq Releases
  /\ nextIn \in [Players -> 0..MaxFrame + 1]
  /\ pause \in Pauses \cup {None}
  /\ hashes \in [Players -> Digests \cup {None}]
  /\ nextHash \in Nat
  /\ rec \in Repairs \cup {None}
  /\ attempts \in 0..MaxAttempts
  /\ relayed \in Seq(Frames)

NoHashes == [p \in Players |-> None]
CheckpointAfter(f) == (f \div HashInterval + 1) * HashInterval
CheckpointAtOrAfter(f) ==
  IF f = 0 THEN HashInterval ELSE ((f + HashInterval - 1) \div HashInterval) * HashInterval

Released == nextRelease > syncStart
RoomFrame == IF Released THEN nextRelease - 1 ELSE syncStart
Preparing == rec # None /\ rec.pinned = None

RoomInit ==
  /\ Init
  /\ caps = [p \in Players |-> FALSE]
  /\ compat = [p \in Players |-> None] /\ ready = {}
  /\ xfer = None /\ snapshot = None
  /\ clockReq = FALSE /\ samples = {} /\ detReady = {} /\ sched = None
  /\ syncStart = 0 /\ nextRelease = 0 /\ pending = None
  /\ nextIn = [p \in Players |-> 0] /\ pause = None
  /\ hashes = NoHashes /\ nextHash = HashInterval /\ rec = None
  /\ attempts = 0 /\ tasks = {} /\ relayed = << >>

-----------------------------------------------------------------------------
(* The effect of membership actions.                                       *)

\* reset_sync_state_to, but for the repair transaction.
ResetTo(f) ==
  /\ compat' = [p \in Players |-> None] /\ ready' = {}
  /\ xfer' = None /\ snapshot' = None
  /\ clockReq' = FALSE /\ samples' = {} /\ detReady' = {} /\ sched' = None
  /\ syncStart' = f /\ nextRelease' = f /\ pending' = None
  /\ nextIn' = [p \in Players |-> f] /\ pause' = None
  /\ hashes' = NoHashes /\ nextHash' = CheckpointAfter(f)

ResetSync == ResetTo(0) /\ rec' = None

\* The frames released so far belong to the session epoch they were released in.
RecordEpoch == relayed' = IF sessionEpoch' = sessionEpoch THEN relayed ELSE << >>

\* Mutant of SlotDropsInput: an absent cursor has no default.
SlotLosesCursor(p) == nextIn' = [nextIn EXCEPT ![p] = None]

SlotDropsInput(p) == nextIn' = [nextIn EXCEPT ![p] = syncStart]

\* disconnect_with_recovery on the session: everything is reset, except that a
\* second loss in a recovering room only removes what the player contributed.
SessionLosesControl(p) ==
  IF handoff[p] # "armed" /\ status = "Recovering"
  THEN /\ compat' = [compat EXCEPT ![p] = None]
       /\ ready' = ready \ {p}
       /\ SlotDropsInput(p)
       /\ UNCHANGED <<xfer, snapshot, startSync, syncStart, nextRelease, pending, pause, repair>>
  ELSE ResetSync

HostAttaches(c) ==
  /\ \E h \in Handoffs : AttachHost(c, h)
  /\ \E b \in ClientCaps[Host] : caps' = [caps EXCEPT ![Host] = b]
  /\ ready' = ready \ {Host}
  /\ UNCHANGED <<compat, xfer, snapshot, startSync, frames, repair>>

GuestJoins(c) ==
  /\ \E h \in Handoffs : JoinGuest(c, h)
  /\ \E b \in ClientCaps[Guest] : caps' = [caps EXCEPT ![Guest] = b]
  /\ ResetSync

PlayerReconnects(p, c) ==
  /\ ReconnectPlayer(p, c)
  /\ \E b \in ClientCaps[p] : caps' = [caps EXCEPT ![p] = b]
  /\ IF handoff[p] # "none" THEN UNCHANGED session ELSE ResetSync

ControlCloses(c) ==
  /\ Disconnect(c)
  /\ UNCHANGED caps
  /\ \/ \E p \in Players : conn[p] = c /\ SessionLosesControl(p)
     \/ (\A p \in Players : conn[p] # c) /\ UNCHANGED session

InputCloses(c) ==
  /\ DisconnectInputSocket(c)
  /\ UNCHANGED caps
  /\ \/ \E p \in Players :
          /\ inp[p] = c
          /\ IF status \in InputLossRecovers /\ conn[p] # None
             THEN SessionLosesControl(p)
             ELSE SlotDropsInput(p) /\ UNCHANGED <<handshake, startSync, syncStart, nextRelease,
                                                   pending, pause, repair>>
     \/ (\A p \in Players : inp[p] # c) /\ UNCHANGED session

PlayerLeaves(c) == PlayerExited(c) /\ ResetSync /\ UNCHANGED caps

\* The rest of the socket life cycle does not touch the session.
SocketOnly(c) ==
  /\ \/ ArmRunnerHandoff(c) \/ ArmRefused(c)
     \/ DeliverRoomJoined(c) \/ CancelRunnerHandoff(c)
     \/ \E p \in Players : ConnectInputSocket(p, c)
  /\ UNCHANGED <<caps, session>>

RoomSweep ==
  /\ \/ SweepCloses /\ UNCHANGED session
     \/ SweepFreesGuest /\ ResetSync
     \/ \E silent \in SUBSET Players :
          /\ silent # {} => "heartbeat" \in Timeouts
          /\ SweepStale(silent)
          /\ IF roomEpoch' # roomEpoch THEN ResetSync ELSE UNCHANGED session
  /\ UNCHANGED caps

RoomTime ==
  /\ \/ "reconnect" \in Timeouts /\ \E p \in Players : ReconnectGraceElapses(p)
     \/ "handoff" \in Timeouts /\ \E p \in Players : HandoffGraceElapses(p)
     \/ "pin" \in Timeouts /\ PinWindowElapses
     \/ "join" \in Timeouts /\ JoinWindowElapses
     \/ "idle" \in Timeouts /\ IdleTimeoutElapses
  /\ UNCHANGED <<caps, session>>

MembershipFrame == RecordEpoch /\ UNCHANGED <<attempts, tasks>>

Membership ==
  /\ \/ \E c \in Conns :
          \/ HostAttaches(c) \/ GuestJoins(c) \/ \E p \in Players : PlayerReconnects(p, c)
          \/ ControlCloses(c) \/ InputCloses(c) \/ PlayerLeaves(c) \/ SocketOnly(c)
     \/ RoomSweep \/ RoomTime
  /\ MembershipFrame

-----------------------------------------------------------------------------
(* From compatibility to a scheduled start.                                *)

\* A control message of player p, or one on its input socket, is served.
Speaks(p) == conn[p] # None /\ stage[conn[p]] = "open" /\ SessionFrame
Inputs(p) == inp[p] # None /\ inp[p] \in inOpen /\ SessionFrame

SupportScheduledStart == Connected = Players /\ \A p \in Players : caps[p]

\* setCompatibility with a fingerprint that does not fit the session.
RejectCompatibility(p) ==
  /\ Speaks(p) /\ status # "Closed"
  /\ compat' = [compat EXCEPT ![p] = None]
  /\ ready' = ready \ {p}
  /\ xfer' = None
  /\ status' = "CheckingCompatibility"
  /\ UNCHANGED <<sessionEpoch, pin, snapshot, startSync, frames, repair>>

SetCompatibility(p, f) ==
  /\ Speaks(p) /\ status # "Closed"
  /\ compat' = [compat EXCEPT ![p] = f]
  /\ ready' = ready \ {p}
  /\ status' = CASE Connected # Players \/ None \in {compat'[q] : q \in Players} -> status
                 [] Connected = Players /\ compat'[Host] = compat'[Guest] -> "SyncingState"
                 [] OTHER -> "CheckingCompatibility"
  /\ UNCHANGED <<sessionEpoch, pin, xfer, snapshot, startSync, frames, repair>>

\* Mutant of SnapshotFits: a committed repair takes any snapshot of its frame.
SnapshotFitsByFrame(m) ==
  /\ Speaks(Host)
  /\ status \in {"SyncingState", "Ready"}
  /\ snapshot = None
  /\ m.frame = syncStart

\* The host may send snapshot m: it is the one a committed repair waits for.
SnapshotFits(m) ==
  /\ Speaks(Host)
  /\ status \in {"SyncingState", "Ready"}
  /\ snapshot = None
  /\ m.frame = syncStart
  /\ rec # None /\ rec.pinned # None => m = rec.pinned

SnapshotChunk(m) ==
  /\ SnapshotFits(m)
  /\ xfer = None
  /\ xfer' = m
  /\ UNCHANGED <<status, sessionEpoch, pin, compat, ready, snapshot, startSync, frames, repair>>

SnapshotComplete(m) ==
  /\ SnapshotFits(m)
  /\ xfer = m
  /\ snapshot' = m
  /\ UNCHANGED <<status, sessionEpoch, pin, compat, ready, xfer, startSync, frames, repair>>

HaveClockSamples(s) == clockReq /\ Connected \subseteq s

\* Mutants of MayGetReady: the host snapshot, or the input sockets, are not awaited.
MayGetReadyWithoutSnapshot ==
  /\ status \in {"SyncingState", "Ready"}
  /\ Connected = Players /\ \A p \in Players : inp[p] # None

MayGetReadyWithoutInput ==
  /\ status \in {"SyncingState", "Ready"}
  /\ snapshot # None
  /\ Connected = Players

\* What mark_ready asks for: the host's snapshot and everybody's input socket.
MayGetReady ==
  /\ status \in {"SyncingState", "Ready"}
  /\ snapshot # None
  /\ Connected = Players /\ \A p \in Players : inp[p] # None

\* The last player to get ready starts the session, or has the clocks sampled.
MarkReady(p) ==
  /\ Speaks(p) /\ MayGetReady
  /\ ready' = ready \cup {p}
  /\ IF ready' = Players /\ ~SupportScheduledStart
     THEN status' = "Playing" /\ rec' = None /\ pin' = "none" /\ UNCHANGED clockReq
     ELSE /\ status' = "Ready"
          /\ clockReq' = (clockReq \/ (/\ ready' = Players
                                       /\ ~HaveClockSamples(samples) /\ sched = None))
          /\ UNCHANGED <<rec, pin>>
  /\ UNCHANGED <<sessionEpoch, compat, xfer, snapshot, samples, detReady, sched, frames,
                 hashes, nextHash>>

\* try_schedule_start, with the samples and the ready players it sees.
TrySchedule(s, d) ==
  IF sched = None /\ Connected = Players /\ Players \subseteq d /\ HaveClockSamples(s)
  THEN /\ status' = "StartScheduled"
       /\ sched' = [session |-> sessionEpoch, frame |-> syncStart, due |-> FALSE]
  ELSE UNCHANGED <<status, sched>>

\* The sample that completes player p's set, or a further one.
AcceptClockSyncSample(p) ==
  /\ Speaks(p)
  /\ SupportScheduledStart /\ clockReq
  /\ samples' = samples \cup {p}
  /\ TrySchedule(samples', detReady)
  /\ UNCHANGED <<sessionEpoch, pin, handshake, clockReq, detReady, frames, repair>>

MarkDeterministicReady(p) ==
  /\ Speaks(p)
  /\ status \in {"Ready", "StartScheduled"}
  /\ SupportScheduledStart
  /\ detReady' = detReady \cup {p}
  /\ TrySchedule(samples, detReady')
  /\ UNCHANGED <<sessionEpoch, pin, handshake, clockReq, samples, frames, repair>>

StartTimeComes ==
  /\ SessionFrame
  /\ sched # None /\ ~sched.due
  /\ sched' = [sched EXCEPT !.due = TRUE]
  /\ UNCHANGED <<status, sessionEpoch, pin, handshake, clockReq, samples, detReady, frames, repair>>

StartingUp ==
  /\ \/ \E p \in Players :
          \/ RejectCompatibility(p) \/ \E f \in Fingerprints : SetCompatibility(p, f)
          \/ MarkReady(p) \/ AcceptClockSyncSample(p) \/ MarkDeterministicReady(p)
     \/ \E m \in Manifests : SnapshotChunk(m) \/ SnapshotComplete(m)
     \/ StartTimeComes
  /\ UNCHANGED <<caps, attempts, tasks, relayed>>

-----------------------------------------------------------------------------
(* Strict input, host-opened frames and the pause.                         *)

InputAccepting == {"SyncingState", "Ready", "StartScheduled", "Playing", "Paused"}

\* A batch of the current epochs that starts at or before the cursor and ends at e.
StrictInputBatch(p, e) ==
  /\ Inputs(p)
  /\ status \in InputAccepting
  /\ pause # None => e <= pause.at + InputDelay
  /\ nextIn[p] <= e /\ e <= nextRelease + MaxFuture
  /\ nextIn' = [nextIn EXCEPT ![p] = e + 1]
  /\ UNCHANGED <<status, sessionEpoch, pin, handshake, startSync, syncStart, nextRelease, pending,
                 pause, repair, tasks, relayed>>

\* Bound of the history: one entry more than there are frames, so a full history already
\* holds some frame twice.  It then stops recording and never holds back a release.
MaxRelayed == MaxFrame + 2

\* release_v5_host_frame
ReleaseFrame ==
  /\ nextRelease <= MaxFrame
  /\ nextRelease' = nextRelease + 1
  /\ pending' = None
  /\ relayed' = IF Len(relayed) < MaxRelayed THEN Append(relayed, nextRelease) ELSE relayed
  /\ UNCHANGED <<sessionEpoch, handshake, startSync, syncStart, nextIn, pause, hashes, nextHash>>

\* enter_v5_playing
EnterPlaying == status' = "Playing" /\ rec' = None /\ pin' = "none"

\* Mutant of HostMayOpen: no stop at the pause frame.
HostMayOpenPastPause ==
  /\ Inputs(Host)
  /\ nextIn[Host] > nextRelease

\* The host opens the next frame, for which its own input has arrived.
HostMayOpen ==
  /\ Inputs(Host)
  /\ pause # None => nextRelease <= pause.at
  /\ nextIn[Host] > nextRelease

HostFrameOpen ==
  /\ HostMayOpen
  /\ \/ status = "Playing" /\ UNCHANGED <<status, rec, pin>>
     \/ /\ status = "StartScheduled"
        /\ sched # None /\ sched.due /\ nextRelease = sched.frame
        /\ EnterPlaying
  /\ ReleaseFrame
  /\ UNCHANGED tasks

\* The same before the scheduled time: the open waits in a task of its own.
HostFrameOpenEarly ==
  /\ HostMayOpen
  /\ status = "StartScheduled"
  /\ sched # None /\ ~sched.due /\ nextRelease = sched.frame
  /\ pending' = nextRelease
  /\ tasks' = tasks \cup {[room |-> roomEpoch, session |-> sessionEpoch, frame |-> nextRelease]}
  /\ UNCHANGED <<status, sessionEpoch, pin, handshake, startSync, syncStart, nextRelease, nextIn,
                 pause, repair, relayed>>

\* What a waiting release is still about.
Superseded(t) == t.room # roomEpoch \/ t.session # sessionEpoch \/ pending # t.frame

\* The task wakes: it goes back to sleep before the scheduled time, releases the
\* frame after it, and ends for good when it was superseded or is refused.
ReleaseScheduled(t) ==
  /\ SessionFrame
  /\ IF ~Superseded(t) /\ sched # None /\ sched.due /\ status = "StartScheduled"
     THEN EnterPlaying /\ ReleaseFrame
     ELSE /\ ~Superseded(t) /\ sched # None => sched.due
          /\ UNCHANGED <<status, sessionEpoch, pin, session, relayed>>
  /\ tasks' = tasks \ {t}

\* A player asks for a pause; lead is how far its own frame is ahead of the room's.
RequestPause(p, lead) ==
  /\ Speaks(p)
  /\ status \in {"Playing", "Paused"}
  /\ pause' = IF pause # None THEN [pause EXCEPT !.holders = @ \cup {p}]
              ELSE [at |-> RoomFrame + lead + PauseLead, holders |-> {p}, acked |-> {}]
  /\ pause'.at < MaxFrame
  /\ UNCHANGED <<status, sessionEpoch, pin, handshake, startSync, syncStart, nextRelease, pending,
                 nextIn, repair, tasks, relayed>>

\* Mutant of ResumeSchedule: the start is scheduled before the epoch is bumped.
ResumeScheduleInOldEpoch(f) == [session |-> sessionEpoch, frame |-> f, due |-> FALSE]

\* schedule_v5_resume, in the epoch that begins with it.
ResumeSchedule(f) == [session |-> sessionEpoch + 1, frame |-> f, due |-> FALSE]

\* begin_v5_pause_resume: a new session epoch at frame f, without a snapshot.
PauseResume(f) ==
  /\ BumpSessionEpoch
  /\ nextIn' = [p \in Players |-> f] /\ pause' = None
  /\ xfer' = None
  /\ syncStart' = f /\ nextRelease' = f /\ pending' = None
  /\ hashes' = NoHashes /\ nextHash' = CheckpointAtOrAfter(f)
  /\ sched' = ResumeSchedule(f)
  /\ status' = "StartScheduled"
  /\ relayed' = << >>
  /\ UNCHANGED <<pin, compat, ready, snapshot, clockReq, samples, detReady, rec, tasks>>

PauseChanges(new) ==
  /\ pause' = new
  /\ UNCHANGED <<sessionEpoch, pin, handshake, startSync, syncStart, nextRelease, pending, nextIn,
                 repair, tasks, relayed>>

\* A player stands at the pause frame, which was released and for which everybody's
\* input has arrived; the last one to arrive pauses the room or resumes it.
PauseReached(p) ==
  /\ Speaks(p)
  /\ pause # None
  /\ Released /\ nextRelease > pause.at
  /\ \A q \in Connected : nextIn[q] > pause.at
  /\ LET new == [pause EXCEPT !.acked = @ \cup {p}] IN
     CASE ~(Connected \subseteq new.acked) -> PauseChanges(new) /\ UNCHANGED status
       [] Connected \subseteq new.acked /\ pause.holders # {} -> PauseChanges(new) /\ status' = "Paused"
       [] OTHER -> PauseResume(pause.at + 1)

RequestResume(p) ==
  /\ Speaks(p)
  /\ pause # None
  /\ LET new == [pause EXCEPT !.holders = @ \ {p}] IN
     IF new.holders = {} /\ status = "Paused"
     THEN PauseResume(pause.at + 1)
     ELSE PauseChanges(new) /\ UNCHANGED status

Playing ==
  /\ \/ \E p \in Players :
          \/ \E e \in Frames : StrictInputBatch(p, e)
          \/ \E lead \in 0..LocalLead : RequestPause(p, lead)
          \/ PauseReached(p) \/ RequestResume(p)
     \/ HostFrameOpen \/ HostFrameOpenEarly
     \/ \E t \in tasks : ReleaseScheduled(t)
  /\ UNCHANGED <<caps, attempts>>

-----------------------------------------------------------------------------
(* State hashes and state recovery.                                        *)

\* begin_v5_state_recovery at the checkpoint; kept attempts are still in the window.
BeginRecovery(kept, new) ==
  /\ rec' = [frame |-> nextHash, session |-> sessionEpoch, pinned |-> None]
  /\ pin' = "armed"
  /\ pending' = None /\ sched' = None
  /\ IF kept >= MaxAttempts
     THEN status' = "Closed" /\ attempts' = kept /\ hashes' = new /\ UNCHANGED nextHash
     ELSE /\ status' = "RepairingState" /\ attempts' = kept + 1
          /\ hashes' = NoHashes /\ nextHash' = CheckpointAfter(nextHash)

\* Player p reports digest d at the checkpoint both players must report next.
ReportStateHash(p, d) ==
  /\ Speaks(p)
  /\ status \in {"Playing", "Paused"}
  /\ nextHash <= MaxFrame
  /\ LET new == [hashes EXCEPT ![p] = d]
         complete == \A q \in Connected : new[q] # None
         agree == \A q, r \in Connected : new[q] = new[r] IN
     CASE complete /\ agree ->
            /\ hashes' = NoHashes /\ nextHash' = nextHash + HashInterval
            /\ UNCHANGED <<status, pin, pending, sched, rec, attempts>>
       [] complete /\ ~agree /\ rec = None ->
            \E kept \in 0..attempts : BeginRecovery(kept, new)
       [] OTHER ->
            /\ hashes' = new
            /\ UNCHANGED <<status, pin, pending, sched, nextHash, rec, attempts>>
  /\ UNCHANGED <<sessionEpoch, handshake, clockReq, samples, detReady, syncStart, nextRelease,
                 nextIn, pause, relayed>>

\* Mutant of PinRecovery: the repaired frames are replayed in the old epoch.
PinRecoveryInSameEpoch(m) ==
  /\ Speaks(Host)
  /\ status = "RepairingState"
  /\ Preparing
  /\ m.frame = rec.frame
  /\ ResetTo(rec.frame)
  /\ rec' = [rec EXCEPT !.pinned = m]
  /\ status' = "CheckingCompatibility" /\ pin' = "none"
  /\ UNCHANGED <<sessionEpoch, relayed, attempts>>

\* The host pins the snapshot of the repair frame, which commits the repair in a
\* new session epoch that starts there.
PinRecovery(m) ==
  /\ Speaks(Host)
  /\ status = "RepairingState"
  /\ Preparing
  /\ m.frame = rec.frame
  /\ ResetTo(rec.frame)
  /\ rec' = [rec EXCEPT !.pinned = m]
  /\ BumpSessionEpoch
  /\ status' = "CheckingCompatibility" /\ pin' = "none"
  /\ relayed' = << >>
  /\ UNCHANGED attempts

Repairing ==
  /\ \/ \E p \in Players, d \in Digests : ReportStateHash(p, d)
     \/ \E m \in Manifests : PinRecovery(m)
  /\ UNCHANGED <<caps, tasks>>

RoomNext == Membership \/ StartingUp \/ Playing \/ Repairing
RoomSpec == RoomInit /\ [][RoomNext]_roomVars

\* The sweeper runs periodically and the clock goes on; no client is promised to act.
LiveRoomSpec ==
  /\ RoomSpec
  /\ WF_roomVars(RoomSweep /\ MembershipFrame)
  /\ WF_roomVars(RoomTime /\ MembershipFrame)

-----------------------------------------------------------------------------
(* Properties.                                                             *)

\* Nothing on the way to gameplay survives the loss of the host's state: ready
\* players, clock sampling, deterministic readiness, a scheduled start and every
\* status from Ready on exist only while the host snapshot of this sync is complete
\* (mark_ready, reset_sync_state_to, begin_v5_pause_resume).
SnapshotGate ==
  (\/ ready # {} \/ clockReq \/ detReady # {} \/ sched # None
   \/ status \in {"Ready", "StartScheduled", "Playing", "Paused"})
  => snapshot # None

\* A scheduled start is always about the current session epoch and the frame the
\* room would release next from its sync point: no reset, pause resume or repair
\* leaves an older one behind, and StartScheduled is never left without one.
ScheduleIsCurrent ==
  /\ sched # None => sched.session = sessionEpoch /\ sched.frame = syncStart
  /\ status = "StartScheduled" => sched # None

\* What the room releases it is allowed to release.  A first frame that waits in a task
\* for the scheduled time is still covered by the host's own input when its time comes:
\* nothing takes the input cursor back and leaves the start standing.  Once a pause frame
\* is set no frame after it is released in this session epoch, whatever opens, late
\* releases and resume requests are under way; and the room is Paused only when it stands
\* exactly there, every player has acknowledged it and every player's input has reached it
\* (v5_host_input_covers, disconnect_input_socket, begin_v5_pause_resume).
ReleaseGate ==
  /\ status = "StartScheduled" /\ pending # None => nextIn[Host] > pending
  /\ pause # None => nextRelease <= pause.at + 1
  /\ status = "Paused" => /\ pause # None /\ nextRelease = pause.at + 1
                          /\ Connected \subseteq pause.acked
                          /\ \A p \in Players : nextIn[p] > pause.at

\* A repair is one transaction.  While it waits for the host's pin its deadline runs,
\* and the deadline runs for nothing else: no interleaving of disconnects, reconnects
\* and messages parts the two.  A committed repair lives in the epoch after the one
\* that diverged, starts at the repair frame, accepts the pinned snapshot and no other,
\* and is over when the room plays again (validate_v5_recovery_snapshot,
\* finish_v5_state_recovery).
PinnedRepair ==
  /\ pin # "none" <=> Preparing
  /\ status = "RepairingState" => Preparing
  /\ rec # None /\ rec.pinned # None =>
       /\ syncStart = rec.frame /\ sessionEpoch = rec.session + 1
       /\ snapshot \in {None, rec.pinned}
  /\ status = "Playing" => rec = None

\* A repair that waits for the host's pin does not leave the clients wedged: it is
\* committed or dropped, or the room is removed (expire_state_recovery in the sweep).
RepairEnds == (present /\ Preparing) ~> (~present \/ ~Preparing)

\* Released frames are what FrameRelease promises.
Order == INSTANCE FrameRelease WITH epoch <- sessionEpoch, start <- syncStart, log <- relayed
FramesInOrder == Order!Spec

-----------------------------------------------------------------------------
(* A statement of the documentation that the code does not keep.           *)

\* "Controller rooms cannot start until the host snapshot is complete"
\* (docs/protocol-mvp.md:382): the first frame of a sync is released after it.  A
\* handed-off player who is lost while playing resets the sync, but not the status.
StartNeedsSnapshot == [][~Released /\ Len(relayed') > Len(relayed) => snapshot # None]_roomVars
=============================================================================
