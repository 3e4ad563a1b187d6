---------------------------- MODULE RoomTransfers ----------------------------
(***************************************************************************)
(* What a controller room moves between its two players besides input: the *)
(* host's snapshot, inline (SnapshotTransferState) or through the file     *)
(* relay (SnapshotFileRelayTransferState), the temporary ROM transfer      *)
(* (RomRelayTransferState) and the refreshed voice tokens.                 *)
(*                                                                         *)
(* The file relay and the voice service are called between two registry    *)
(* operations, with the lock released: the room may restart its sync,      *)
(* repair itself or lose a player while the answer is on its way.  A       *)
(* control session waits for the answer, so a connection has one call out  *)
(* at most and does not close meanwhile, but another socket may take its   *)
(* slot.  RoomLifecycle models the membership in full; here it is reduced  *)
(* to what it does to the transfers.                                       *)
(***************************************************************************)
EXTENDS Integers, Sequences, FiniteSets

CONSTANTS Ids,        \* snapshot ids
          Bodies,     \* contents of a chunk
          MaxChunks,  \* SnapshotLimits::max_total_bytes, in chunks
          Repair,     \* frame a repaired or resumed session starts from
          Uses,       \* what the clients of a behaviour may use
          MaxConn,    \* bound on the control connections of a behaviour
          MaxTid      \* bound on the broker's answers

ASSUME TransferAssumption ==
  /\ MaxChunks \in Nat \ {0} /\ MaxConn \in Nat \ {0} /\ MaxTid \in Nat
  /\ Repair \in Nat \ {0} /\ Uses \subseteq SUBSET {"inline", "file", "rom", "voice"}

Host == 1
Guest == 2
Players == {Host, Guest}
Conns == 1..MaxConn
Frames == {0, Repair}
\* A manifest names the whole content (size and hash) of a snapshot.
Manifests == [id : Ids, frame : Frames,
              content : UNION {[1..n -> Bodies] : n \in 0..MaxChunks}]
Chunks == [id : Ids, frame : Frames, index : 0..MaxChunks, body : Bodies]
None == [none |-> TRUE]

VARIABLES
  uses,     \* what the clients of this behaviour use; voice: the room has it
  status,   \* RoomStatus; Playing stands for StartScheduled, Playing and Paused
  conn,     \* control connection of each slot, 0: none
  held,     \* what lets a slot be claimed again: no, grace, handoff
  used,     \* connection ids given out
  compat,   \* players whose fingerprint is stored
  ready,    \* ready_players
  start,    \* sync_start_frame
  pinned,   \* manifest the running repair is bound to
  inline,   \* snapshot_transfer
  file,     \* snapshot_file_relay_transfer
  done,     \* completed_snapshot_manifest; host_snapshot_completed: done # None
  rom,      \* rom_relay_transfer
  token,    \* voice token of each player
  calls,    \* the broker call a connection waits for
  tid,      \* answers the brokers have given
  out,      \* the last private grant that was sent
  got,      \* history: the guest's copy of the inline snapshot
  ends,     \* history: completions sent in this sync round
  via,      \* history: how the snapshot of this round was completed
  swapped   \* history: slots that changed hands in this round without a reset

room == <<status, conn, held, used, compat, ready>>
snapshot == <<inline, file, done>>
heard == <<got, ends, via>>
vars == <<uses, room, start, pinned, snapshot, rom, token, calls, tid, out, heard, swapped>>

PlayerOf(c) == {p \in Players : conn[p] = c}
Full == \A p \in Players : conn[p] # 0
NoGrant == [kind |-> "none", to |-> 0, tid |-> 0]

Init ==
  /\ uses \in Uses
  /\ status = "WaitingForGuest"
  /\ conn = [p \in Players |-> IF p = Host THEN 1 ELSE 0]
  /\ held = [p \in Players |-> "no"]
  /\ used = 1
  /\ compat = {} /\ ready = {} /\ start = 0 /\ pinned = None
  /\ inline = None /\ file = None /\ done = None /\ rom = None
  /\ token = [p \in Players |-> 0]
  /\ calls = [c \in Conns |-> None]
  /\ tid = 0 /\ out = NoGrant
  /\ got = << >> /\ ends = 0 /\ via = "none" /\ swapped = {}

-----------------------------------------------------------------------------
(* Membership and sync rounds *)

\* Mutant of ResetSync: the ROM transfer survives the reset.
ResetSyncKeepsRom(f, m) ==
  /\ compat' = {} /\ ready' = {} /\ start' = f /\ pinned' = m
  /\ inline' = None /\ file' = None /\ done' = None /\ UNCHANGED rom
  /\ got' = << >> /\ ends' = 0 /\ via' = "none" /\ swapped' = {}

\* reset_sync_state_to(f); m is the pin a committed repair puts back.
ResetSync(f, m) ==
  /\ compat' = {} /\ ready' = {} /\ start' = f /\ pinned' = m
  /\ inline' = None /\ file' = None /\ done' = None /\ rom' = None
  /\ got' = << >> /\ ends' = 0 /\ via' = "none" /\ swapped' = {}

KeepSync == UNCHANGED <<compat, ready, start, pinned, snapshot, rom, heard, swapped>>
KeepBrokers == UNCHANGED <<token, calls, tid, out>>

\* A fresh connection takes slot p.
Seat(p) ==
  /\ used < MaxConn /\ used' = used + 1
  /\ conn' = [conn EXCEPT ![p] = used + 1]
  /\ held' = [held EXCEPT ![p] = "no"]

\* attach_host_with_resume: the host's socket replaces whatever held the slot.
AttachHost ==
  /\ status # "Closed"
  /\ Seat(Host)
  /\ ready' = ready \ {Host}
  /\ swapped' = swapped \cup {Host}
  /\ KeepBrokers
  /\ UNCHANGED <<status, compat, start, pinned, snapshot, rom, heard>>

JoinGuest ==
  /\ status # "Closed"
  /\ conn[Guest] = 0 /\ held[Guest] = "no"
  /\ Seat(Guest)
  /\ status' = "CheckingCompatibility"
  /\ ResetSync(0, None)
  /\ KeepBrokers

ArmRunnerHandoff(p) ==
  /\ status \notin {"Closed", "Playing", "Recovering"}
  /\ conn[p] # 0 /\ held[p] = "no"
  /\ held' = [held EXCEPT ![p] = "handoff"]
  /\ KeepSync /\ KeepBrokers
  /\ UNCHANGED <<status, conn, used>>

\* reconnect_player: a claimed handoff keeps the sync state, a return from a
\* loss starts over.
ReconnectPlayer(p) ==
  /\ status # "Closed"
  /\ Seat(p)
  /\ \/ /\ held[p] = "handoff"
        /\ swapped' = swapped \cup {p}
        /\ UNCHANGED <<status, compat, ready, start, pinned, snapshot, rom, heard>>
     \/ /\ held[p] = "grace" /\ conn[p] = 0
        /\ status' = "CheckingCompatibility"
        /\ ResetSync(0, None)
  /\ KeepBrokers

\* A room that closes leaves the registry, and its connections reach nothing.
Vacated(p) == [q \in Players |-> IF q = p \/ status' = "Closed" THEN 0 ELSE conn[q]]

Recoverable == {"Playing", "RepairingState", "Recovering"}

\* disconnect_with_recovery of a session that is not waiting for a broker.
Lose(p) ==
  /\ conn[p] # 0 /\ calls[conn[p]] = None
  /\ \/ /\ held[p] = "handoff"
        /\ UNCHANGED <<status, held>> /\ ResetSync(0, None)
     \/ /\ held[p] # "handoff" /\ status \in Recoverable
        /\ held' = [held EXCEPT ![p] = "grace"]
        /\ status' = "Recovering"
        /\ IF status = "Recovering"
           THEN /\ compat' = compat \ {p} /\ ready' = ready \ {p}
                /\ UNCHANGED <<start, pinned, snapshot, rom, heard, swapped>>
           ELSE ResetSync(0, None)
     \/ /\ held[p] # "handoff" /\ status \notin Recoverable
        /\ status' = IF p = Host THEN "Closed" ELSE "WaitingForGuest"
        /\ UNCHANGED held /\ ResetSync(0, None)
  /\ conn' = Vacated(p)
  /\ KeepBrokers /\ UNCHANGED used

\* The sweep: an unclaimed handoff frees the guest slot; an unclaimed host slot
\* and an overdue recovery end the room.
Expire(p) ==
  /\ conn[p] = 0 /\ held[p] # "no" /\ status # "Closed"
  /\ held' = [held EXCEPT ![p] = "no"]
  /\ status' = IF p = Guest /\ held[p] = "handoff" THEN "WaitingForGuest" ELSE "Closed"
  /\ ResetSync(0, None)
  /\ conn' = Vacated(p)
  /\ KeepBrokers /\ UNCHANGED used

PlayerExited(p) ==
  /\ conn[p] # 0 /\ calls[conn[p]] = None
  /\ status' = "Closed"
  /\ conn' = [q \in Players |-> 0] /\ held' = [q \in Players |-> "no"]
  /\ ResetSync(0, None)
  /\ KeepBrokers /\ UNCHANGED used

\* set_compatibility_for_connection: the fingerprint differs from the session's
\* ("session"), from a peer's ("peer"), or from none.
SetCompatibility(p, differs) ==
  /\ conn[p] # 0 /\ calls[conn[p]] = None
  /\ ready' = ready \ {p}
  /\ IF differs = "session"
     THEN /\ compat' = compat \ {p}
          /\ status' = "CheckingCompatibility"
          /\ inline' = None /\ file' = None /\ rom' = None
          /\ swapped' = swapped
     ELSE /\ compat' = compat \cup {p}
          /\ status' = IF ~(Full /\ compat' = Players) THEN status
                       ELSE IF differs = "peer" THEN "CheckingCompatibility"
                       ELSE "SyncingState"
          /\ UNCHANGED <<inline, file, rom, swapped>>
  /\ KeepBrokers
  /\ UNCHANGED <<conn, held, used, start, pinned, done, heard>>

\* mark_ready; the start that follows when all are ready ends a repair.
MarkReady(p) ==
  /\ conn[p] # 0 /\ calls[conn[p]] = None
  /\ status \in {"SyncingState", "Ready"} /\ done # None
  /\ ready' = ready \cup {p}
  /\ status' = IF Full /\ ready' = Players THEN "Playing" ELSE "Ready"
  /\ pinned' = IF status' = "Playing" THEN None ELSE pinned
  /\ KeepBrokers
  /\ UNCHANGED <<conn, held, used, compat, start, snapshot, rom, heard, swapped>>

\* enter_state_hash_resync of a protocol-v4 room.
StateHashResync ==
  /\ status = "Playing"
  /\ status' = "CheckingCompatibility" /\ ResetSync(Repair, None)
  /\ KeepBrokers /\ UNCHANGED <<conn, held, used>>

\* begin_v5_state_recovery, and the host's pin that commits the repair.
BeginStateRecovery ==
  /\ status = "Playing" /\ status' = "RepairingState"
  /\ KeepSync /\ KeepBrokers /\ UNCHANGED <<conn, held, used>>

StateRecoveryPinned(m) ==
  /\ status = "RepairingState" /\ conn[Host] # 0 /\ calls[conn[Host]] = None
  /\ m.frame = Repair
  /\ status' = "CheckingCompatibility" /\ ResetSync(Repair, m)
  /\ KeepBrokers /\ UNCHANGED <<conn, held, used>>

\* begin_v5_pause_resume.
PauseResume ==
  /\ status = "Playing"
  /\ start' = Repair /\ inline' = None /\ file' = None
  /\ KeepBrokers
  /\ UNCHANGED <<room, pinned, done, rom, heard, swapped>>

-----------------------------------------------------------------------------
(* Inline snapshots *)

\* validate_host_snapshot_sender, validate_snapshot_repair_frame and the pin.
HostMaySend(c) == conn[Host] = c /\ status \in {"SyncingState", "Ready"}
PinAllows(id, f) == f = start /\ (pinned # None => pinned.id = id)
ManifestAllowed(m) == m.frame = start /\ (pinned # None => pinned = m)

\* The transfer a chunk meets: get_or_insert_with, then the id of the first
\* chunk, whatever becomes of that chunk.
Met(k) == IF inline = None THEN [id |-> k.id, frame |-> k.frame, body |-> << >>] ELSE inline

\* Mutant of ChunkIsNext: a chunk may leave a gap.
ChunkIsNextOrLater(k) ==
  /\ Met(k).id = k.id /\ Met(k).frame = k.frame
  /\ k.index >= Len(Met(k).body) /\ Len(Met(k).body) < MaxChunks
\* accept_chunk takes the next chunk of the same snapshot within the size limit;
\* it answers a chunk it has taken already without relaying it.
ChunkIsNext(k) ==
  /\ Met(k).id = k.id /\ Met(k).frame = k.frame
  /\ k.index = Len(Met(k).body) /\ Len(Met(k).body) < MaxChunks

\* The guest appends the chunk that follows what it has; chunk 0 starts over.
Assembled(k) == IF k.index = 0 THEN <<k.body>>
                ELSE IF k.index = Len(got) THEN Append(got, k.body) ELSE got

\* relay_snapshot_chunk.
SnapshotChunk(c, k) ==
  /\ calls[c] = None /\ done = None
  /\ HostMaySend(c) /\ PinAllows(k.id, k.frame)
  /\ IF ChunkIsNext(k)
     THEN /\ inline' = [Met(k) EXCEPT !.body = Append(@, k.body)]
          /\ got' = Assembled(k)
     ELSE /\ inline' = Met(k)
          /\ UNCHANGED got
  /\ KeepBrokers
  /\ UNCHANGED <<room, start, pinned, file, done, rom, ends, via, swapped>>

\* relay_snapshot_complete.
SnapshotComplete(c, m) ==
  /\ calls[c] = None /\ done = None
  /\ HostMaySend(c) /\ ManifestAllowed(m)
  /\ inline # None
  /\ inline.id = m.id /\ inline.frame = m.frame /\ inline.body = m.content
  /\ done' = m
  /\ ends' = ends + 1 /\ via' = "inline"
  /\ KeepBrokers
  /\ UNCHANGED <<room, start, pinned, inline, file, rom, got, swapped>>

-----------------------------------------------------------------------------
(* Snapshots through the file relay *)

\* prepare_snapshot_file_relay_transfer.
FileRelayAllowed(c, m) ==
  /\ HostMaySend(c) /\ ManifestAllowed(m)
  /\ done = None /\ inline = None /\ file = None
  /\ Full

\* handle_snapshot_file_relay_request up to the call of the broker.
RequestSnapshotFile(c, m) ==
  /\ calls[c] = None /\ FileRelayAllowed(c, m)
  /\ calls' = [calls EXCEPT ![c] = [kind |-> "snapshot", man |-> m]]
  /\ KeepSync /\ UNCHANGED <<status, conn, held, used, token, tid, out>>

\* The broker of the call c waits for answers with a new transfer.
Answered(c, kind) ==
  /\ calls[c] # None /\ calls[c].kind = kind
  /\ tid < MaxTid /\ tid' = tid + 1
  /\ calls' = [calls EXCEPT ![c] = None]

\* The broker refuses, fails or times out.
BrokerFails(c) ==
  /\ calls[c] # None
  /\ calls' = [calls EXCEPT ![c] = None]
  /\ KeepSync /\ UNCHANGED <<status, conn, held, used, token, tid, out>>

\* Mutant of FileGrantHolds: the grant is stored without preparing again.
FileGrantUnchecked(c, m) == conn[Host] = c
\* accept_snapshot_file_relay_grant prepares again: the room of the answer must
\* still want what was asked for.
FileGrantHolds(c, m) == FileRelayAllowed(c, m)

\* grant_snapshot_file_relay_upload.
GrantSnapshotFile(c) ==
  /\ Answered(c, "snapshot")
  /\ LET m == calls[c].man
     IN  IF FileGrantHolds(c, m)
         THEN /\ file' = [source |-> c, receiver |-> Guest, tid |-> tid', man |-> m]
              /\ out' = [kind |-> "snapshotUpload", to |-> c, tid |-> tid']
         ELSE UNCHANGED <<file, out>>
  /\ UNCHANGED <<room, start, pinned, inline, done, rom, token, heard, swapped>>

\* accept_snapshot_file_relay_upload_complete; in a completed round the same
\* completion is answered and another one refused.
UploadCompletes(c, t, m) ==
  /\ done = None
  /\ HostMaySend(c) /\ ManifestAllowed(m)
  /\ file # None /\ file.source = c /\ file.tid = t /\ file.man = m

\* relay_snapshot_file_upload_complete.
SnapshotFileUploaded(c, t, m) ==
  /\ calls[c] = None /\ UploadCompletes(c, t, m)
  /\ conn[file.receiver] # 0
  /\ done' = m
  /\ ends' = ends + 1 /\ via' = "file"
  /\ out' = [kind |-> "snapshotDownload", to |-> conn[file.receiver], tid |-> t]
  /\ UNCHANGED <<room, start, pinned, inline, file, rom, token, calls, tid, got, swapped>>

-----------------------------------------------------------------------------
(* ROM transfers *)

\* prepare_rom_relay_transfer; both clients support the relay.
RomAllowed(c) == conn[Guest] = c /\ rom = None /\ conn[Host] # 0

RequestRom(c) ==
  /\ calls[c] = None /\ RomAllowed(c)
  /\ calls' = [calls EXCEPT ![c] = [kind |-> "rom"]]
  /\ KeepSync /\ UNCHANGED <<status, conn, held, used, token, tid, out>>

\* grant_rom_relay_upload: the connections are those of the answer.
GrantRom(c) ==
  /\ Answered(c, "rom")
  /\ IF RomAllowed(c)
     THEN /\ rom' = [sender |-> conn[Host], receiver |-> c, tid |-> tid', uploaded |-> FALSE]
          /\ out' = [kind |-> "romUpload", to |-> conn[Host], tid |-> tid']
     ELSE UNCHANGED <<rom, out>>
  /\ UNCHANGED <<room, start, pinned, snapshot, token, heard, swapped>>

\* relay_rom_relay_completed for the upload: the guest gets its grant.
RomUploaded(c, t) ==
  /\ calls[c] = None
  /\ rom # None /\ rom.tid = t /\ rom.sender = c
  /\ rom' = [rom EXCEPT !.uploaded = TRUE]
  /\ out' = [kind |-> "romDownload", to |-> rom.receiver, tid |-> t]
  /\ UNCHANGED <<room, start, pinned, snapshot, token, calls, tid, heard, swapped>>

\* ... and for the download, which ends the transfer.
RomDownloaded(c, t) ==
  /\ calls[c] = None
  /\ rom # None /\ rom.tid = t /\ rom.receiver = c /\ rom.uploaded
  /\ rom' = None
  /\ KeepBrokers
  /\ UNCHANGED <<room, start, pinned, snapshot, heard, swapped>>

\* relay_rom_relay_failed and relay_rom_relay_cancelled of either side.
RomEnds(c) ==
  /\ calls[c] = None
  /\ rom # None /\ c \in {rom.sender, rom.receiver}
  /\ rom' = None
  /\ KeepBrokers
  /\ UNCHANGED <<room, start, pinned, snapshot, heard, swapped>>

-----------------------------------------------------------------------------
(* Voice tokens *)

\* refresh_voice_token up to the call; the voice room goes with a closed room.
RequestToken(c, p) ==
  /\ status # "Closed"
  /\ calls[c] = None /\ conn[p] = c
  /\ calls' = [calls EXCEPT ![c] = [kind |-> "voice", player |-> p]]
  /\ KeepSync /\ UNCHANGED <<status, conn, held, used, token, tid, out>>

\* Mutant of TokenFor: the answer goes to the slot that asked.
TokenForAsked(c) == {calls[c].player}
\* refresh_voice_grant: the slot of the connection now, if its participant is
\* the one the token was made for.
TokenFor(c) == PlayerOf(c) \cap {calls[c].player}

RefreshVoiceToken(c) ==
  /\ Answered(c, "voice")
  /\ token' = [p \in Players |-> IF p \in TokenFor(c) THEN tid' ELSE token[p]]
  /\ out' = IF TokenFor(c) # {} THEN [kind |-> "voiceToken", to |-> c, tid |-> tid'] ELSE out
  /\ KeepSync /\ UNCHANGED <<status, conn, held, used>>

-----------------------------------------------------------------------------
Membership ==
  \/ AttachHost \/ JoinGuest
  \/ \E p \in Players : \/ ArmRunnerHandoff(p) \/ ReconnectPlayer(p) \/ Lose(p)
                        \/ Expire(p) \/ PlayerExited(p)

Sync ==
  \/ \E p \in Players :
       MarkReady(p) \/ \E d \in {"none", "peer", "session"} : SetCompatibility(p, d)
  \/ StateHashResync \/ BeginStateRecovery \/ PauseResume
  \/ \E m \in Manifests : StateRecoveryPinned(m)

InlineSnapshot(c) ==
  \/ \E k \in Chunks : SnapshotChunk(c, k)
  \/ \E m \in Manifests : SnapshotComplete(c, m)

SnapshotFile(c) ==
  \/ \E m \in Manifests : \/ RequestSnapshotFile(c, m)
                          \/ \E t \in 1..MaxTid : SnapshotFileUploaded(c, t, m)
  \/ GrantSnapshotFile(c)

RomRelay(c) ==
  \/ RequestRom(c) \/ GrantRom(c) \/ RomEnds(c)
  \/ \E t \in 1..MaxTid : RomUploaded(c, t) \/ RomDownloaded(c, t)

VoiceRefresh(c) == RefreshVoiceToken(c) \/ \E p \in Players : RequestToken(c, p)

Operation(c) ==
  \/ "inline" \in uses /\ InlineSnapshot(c)
  \/ "file" \in uses /\ SnapshotFile(c)
  \/ "rom" \in uses /\ RomRelay(c)
  \/ "voice" \in uses /\ VoiceRefresh(c)
  \/ BrokerFails(c)

Next ==
  /\ UNCHANGED uses
  /\ Membership \/ Sync \/ \E c \in 1..used : Operation(c)

Spec == Init /\ [][Next]_vars

-----------------------------------------------------------------------------
(* Properties *)

\* The shape of the room's transfers and of the calls on their way.
TransferTypeOK ==
  /\ status \in {"WaitingForGuest", "CheckingCompatibility", "SyncingState", "Ready",
                 "Playing", "RepairingState", "Recovering", "Closed"}
  /\ conn \in [Players -> 0..used] /\ used \in Conns
  /\ held \in [Players -> {"no", "grace", "handoff"}]
  /\ compat \subseteq Players /\ ready \subseteq Players /\ swapped \subseteq Players
  /\ start \in Frames /\ pinned \in Manifests \cup {None} /\ done \in Manifests \cup {None}
  /\ inline = None \/ (inline.id \in Ids /\ Len(inline.body) <= MaxChunks)
  /\ file = None \/ (file.source \in Conns /\ file.man \in Manifests /\ file.tid \in 1..tid)
  /\ rom = None \/ (rom.sender \in Conns /\ rom.receiver \in Conns /\ rom.tid \in 1..tid)
  /\ token \in [Players -> 0..tid] /\ tid \in 0..MaxTid
  /\ \A c \in Conns : calls[c] = None \/ (c <= used /\ calls[c].kind \in {"snapshot", "rom", "voice"})

\* The players are told of one snapshot in a sync round, whichever of the inline
\* chunks and the file relay finishes first and however often completions are
\* repeated: a second one would replace state a player has already loaded.
OneSnapshotPerRound == ends <= 1 /\ (ends = 1 <=> done # None)

\* Transfers are well formed, and a snapshot that was completed inline, and is not
\* empty, is what the guest put together from the chunks it was sent, unless a
\* runner took over the guest's slot meanwhile.
DeliveredWhole ==
  /\ TransferTypeOK
  /\ via = "inline" /\ done.content # << >> /\ Guest \notin swapped => got = done.content

\* Whatever was asked of the file relay and however late the answer, a stored
\* transfer belongs to the start frame of this round, and a repair ships the
\* snapshot that the host pinned for it.
TransferFitsRound ==
  /\ file # None => ManifestAllowed(file.man)
  /\ pinned # None /\ done # None => done = pinned

\* A transfer names the connections its players use now; only what restarts
\* nothing leaves one with a connection that is gone: a host that attached again,
\* a claimed runner handoff, and a second loss in a room that is recovering.
OutlivesOnlyTakeover ==
  status # "Recovering" =>
  /\ file # None /\ Host \notin swapped => file.source = conn[Host]
  /\ rom # None /\ Host \notin swapped => rom.sender = conn[Host]
  /\ rom # None /\ Guest \notin swapped => rom.receiver = conn[Guest]

\* A private grant or token goes to the connection that holds the slot it was
\* made for; only the ROM download goes to the connection that asked, which the
\* guest may have left in the ways above.
GrantsReachTheirPlayer ==
  [][out' # out =>
       CASE out'.kind \in {"snapshotUpload", "romUpload"} -> out'.to = conn[Host]
         [] out'.kind = "snapshotDownload" -> out'.to = conn[Guest]
         [] out'.kind = "romDownload" ->
              out'.to = conn[Guest] \/ Guest \in swapped \/ status = "Recovering"
         [] out'.kind = "voiceToken" ->
              \A p \in Players : token'[p] # token[p] => out'.to = conn[p]]_vars
=============================================================================
