------------------------- MODULE RoomTransfersProofs -------------------------
(***************************************************************************)
(* RoomTransfers, for every number of connections, answers, chunks and     *)
(* snapshot ids: one snapshot per sync round, transfers that fit the round *)
(* although the broker answers late, snapshots delivered whole, grants     *)
(* that reach only their player, and transfers that end with the players   *)
(* they serve.                                                             *)
(***************************************************************************)
EXTENDS RoomTransfers, TLAPS

\* What both properties speak of.
Round == <<start, pinned, file, done, ends>>

RoundInv == ends \in Nat /\ OneSnapshotPerRound /\ TransferFitsRound

\* No manifest is None.
LEMMA ManifestIsSome == ASSUME NEW m \in Manifests PROVE m # None
<1>1. "id" \in DOMAIN m
  BY DEF Manifests
<1>2. "id" \notin DOMAIN None
  BY DEF None
<1> QED
  BY <1>1, <1>2

LEMMA SameRound == ASSUME RoundInv, UNCHANGED Round PROVE RoundInv'
BY DEF RoundInv, Round, OneSnapshotPerRound, TransferFitsRound, ManifestAllowed

\* A reset leaves no transfer behind.
LEMMA ResetRound ==
  ASSUME RoundInv, NEW f, NEW m, ResetSync(f, m) PROVE RoundInv'
BY DEF RoundInv, ResetSync, OneSnapshotPerRound, TransferFitsRound, ManifestAllowed

\* A completion ends a round that had none, and ships what the pin names.
LEMMA CompleteRound ==
  ASSUME RoundInv, NEW m \in Manifests, ManifestAllowed(m),
         done = None, done' = m, ends' = ends + 1, UNCHANGED <<start, pinned, file>>
  PROVE  RoundInv'
<1>1. m # None
  BY ManifestIsSome
<1>2. ends = 0 /\ ends' = 1
  BY DEF RoundInv, OneSnapshotPerRound
<1>3. OneSnapshotPerRound' /\ ends' \in Nat
  BY <1>1, <1>2 DEF OneSnapshotPerRound
<1>4. TransferFitsRound'
  BY DEF RoundInv, TransferFitsRound, ManifestAllowed
<1> QED
  BY <1>3, <1>4 DEF RoundInv

LEMMA RoundStep == ASSUME RoundInv, Next PROVE RoundInv'
<1>1. ASSUME Membership PROVE RoundInv'
  <2>1. CASE AttachHost
    BY <2>1, SameRound DEF AttachHost, Round, snapshot, heard
  <2>2. CASE JoinGuest
    BY <2>2, ResetRound DEF JoinGuest
  <2>3. ASSUME NEW p \in Players, ArmRunnerHandoff(p) PROVE RoundInv'
    BY <2>3, SameRound DEF ArmRunnerHandoff, KeepSync, Round, snapshot, heard
  <2>4. ASSUME NEW p \in Players, ReconnectPlayer(p) PROVE RoundInv'
    BY <2>4, SameRound, ResetRound DEF ReconnectPlayer, Round, snapshot, heard
  <2>5. ASSUME NEW p \in Players, Lose(p) PROVE RoundInv'
    BY <2>5, SameRound, ResetRound DEF Lose, Round, snapshot, heard
  <2>6. ASSUME NEW p \in Players, Expire(p) \/ PlayerExited(p) PROVE RoundInv'
    BY <2>6, ResetRound DEF Expire, PlayerExited
  <2> QED
    BY <1>1, <2>1, <2>2, <2>3, <2>4, <2>5, <2>6 DEF Membership
<1>2. ASSUME Sync PROVE RoundInv'
  <2>1. ASSUME NEW p \in Players, MarkReady(p) PROVE RoundInv'
    <3>1. pinned' \in {None, pinned} /\ UNCHANGED <<start, file, done, ends>>
      BY <2>1 DEF MarkReady, snapshot, heard
    <3> QED
      BY <3>1 DEF RoundInv, OneSnapshotPerRound, TransferFitsRound, ManifestAllowed
  <2>2. ASSUME NEW p \in Players, NEW d, SetCompatibility(p, d) PROVE RoundInv'
    <3>1. file' \in {None, file} /\ UNCHANGED <<start, pinned, done, ends>>
      BY <2>2 DEF SetCompatibility, heard
    <3> QED
      BY <3>1 DEF RoundInv, OneSnapshotPerRound, TransferFitsRound, ManifestAllowed
  <2>3. CASE StateHashResync
    BY <2>3, ResetRound DEF StateHashResync
  <2>4. CASE BeginStateRecovery
    BY <2>4, SameRound DEF BeginStateRecovery, KeepSync, Round, snapshot, heard
  <2>5. CASE PauseResume
    <3>1. file' = None /\ UNCHANGED <<pinned, done, ends>>
      BY <2>5 DEF PauseResume, heard
    <3> QED
      BY <3>1 DEF RoundInv, OneSnapshotPerRound, TransferFitsRound
  <2>6. ASSUME NEW m \in Manifests, StateRecoveryPinned(m) PROVE RoundInv'
    BY <2>6, ResetRound DEF StateRecoveryPinned
  <2> QED
    BY <1>2, <2>1, <2>2, <2>3, <2>4, <2>5, <2>6 DEF Sync
<1>3. ASSUME NEW c \in 1..used, Operation(c) PROVE RoundInv'
  <2>1. ASSUME InlineSnapshot(c) PROVE RoundInv'
    <3>1. ASSUME NEW k \in Chunks, SnapshotChunk(c, k) PROVE RoundInv'
      BY <3>1, SameRound DEF SnapshotChunk, Round
    <3>2. ASSUME NEW m \in Manifests, SnapshotComplete(c, m) PROVE RoundInv'
      BY <3>2, CompleteRound DEF SnapshotComplete
    <3> QED
      BY <2>1, <3>1, <3>2 DEF InlineSnapshot
  <2>2. ASSUME SnapshotFile(c) PROVE RoundInv'
    <3>1. ASSUME NEW m \in Manifests, RequestSnapshotFile(c, m) PROVE RoundInv'
      BY <3>1, SameRound DEF RequestSnapshotFile, KeepSync, Round, snapshot, heard
    <3>2. ASSUME NEW m \in Manifests, NEW t, SnapshotFileUploaded(c, t, m) PROVE RoundInv'
      BY <3>2, CompleteRound DEF SnapshotFileUploaded, UploadCompletes
    <3>3. ASSUME GrantSnapshotFile(c) PROVE RoundInv'
      <4>1. CASE FileGrantHolds(c, calls[c].man)
        <5>1. /\ ManifestAllowed(calls[c].man) /\ file'.man = calls[c].man
              /\ UNCHANGED <<start, pinned, done, ends>>
          BY <3>3, <4>1 DEF GrantSnapshotFile, FileGrantHolds, FileRelayAllowed, heard
        <5> QED
          BY <5>1 DEF RoundInv, OneSnapshotPerRound, TransferFitsRound, ManifestAllowed
      <4>2. CASE ~ FileGrantHolds(c, calls[c].man)
        BY <3>3, <4>2, SameRound DEF GrantSnapshotFile, Round, heard
      <4> QED
        BY <4>1, <4>2
    <3> QED
      BY <2>2, <3>1, <3>2, <3>3 DEF SnapshotFile
  <2>3. ASSUME RomRelay(c) PROVE UNCHANGED Round
    BY <2>3 DEF RomRelay, RequestRom, GrantRom, RomEnds, RomUploaded, RomDownloaded, KeepSync,
                Round, snapshot, heard
  <2>4. ASSUME VoiceRefresh(c) \/ BrokerFails(c) PROVE UNCHANGED Round
    BY <2>4 DEF VoiceRefresh, RefreshVoiceToken, RequestToken, BrokerFails, KeepSync,
                Round, snapshot, heard
  <2> QED
    BY <1>3, <2>1, <2>2, <2>3, <2>4, SameRound DEF Operation
<1> QED
  BY <1>1, <1>2, <1>3 DEF Next

LEMMA RoundAlways == Spec => []RoundInv
<1>1. Init => RoundInv
  BY DEF Init, RoundInv, OneSnapshotPerRound, TransferFitsRound
<1>2. RoundInv /\ [Next]_vars => RoundInv'
  <2>1. ASSUME RoundInv, UNCHANGED vars PROVE RoundInv'
    BY <2>1, SameRound DEF vars, Round, snapshot, heard
  <2> QED
    BY <2>1, RoundStep
<1> QED
  BY <1>1, <1>2, PTL DEF Spec

\* The clients are told of at most one snapshot in a sync round, whichever of
\* relay_snapshot_complete and relay_snapshot_file_upload_complete comes first.
THEOREM OneSnapshot == Spec => []OneSnapshotPerRound
<1>1. RoundInv => OneSnapshotPerRound
  BY DEF RoundInv
<1> QED
  BY <1>1, RoundAlways, PTL

\* A file transfer fits the round in which its grant is stored, however many rounds
\* began while the broker was asked, and a repair ships the pinned snapshot.
THEOREM LateAnswersFit == Spec => []TransferFitsRound
<1>1. RoundInv => TransferFitsRound
  BY DEF RoundInv
<1> QED
  BY <1>1, RoundAlways, PTL


-----------------------------------------------------------------------------
(* Who a transfer belongs to and what the guest has of it.                 *)

\* The values of the transfers and of the calls on their way.
Inlines == [id : Ids, frame : Frames, body : Seq(Bodies)]
Files == [source : Conns, receiver : {Guest}, tid : Nat, man : Manifests]
Roms == [sender : Conns, receiver : Conns, tid : Nat, uploaded : BOOLEAN]
SnapshotCalls == [kind : {"snapshot"}, man : Manifests]
RomCalls == [kind : {"rom"}]
VoiceCalls == [kind : {"voice"}, player : Players]
Calls == SnapshotCalls \cup RomCalls \cup VoiceCalls

\* TransferTypeOK by the groups of variables that change together.
RoomOK ==
  /\ status \in {"WaitingForGuest", "CheckingCompatibility", "SyncingState", "Ready",
                 "Playing", "RepairingState", "Recovering", "Closed"}
  /\ used \in Conns /\ conn \in [Players -> 0..used]
  /\ held \in [Players -> {"no", "grace", "handoff"}]
  /\ compat \subseteq Players /\ ready \subseteq Players /\ swapped \subseteq Players

RoundOK == start \in Frames /\ pinned \in Manifests \cup {None} /\ done \in Manifests \cup {None}

InlineOK == inline = None \/ (inline \in Inlines /\ Len(inline.body) <= MaxChunks)
FileOK == file = None \/ (file \in Files /\ file.tid \in 1..tid)
RomOK == rom = None \/ (rom \in Roms /\ rom.tid \in 1..tid)

BrokersOK ==
  /\ tid \in 0..MaxTid
  /\ token \in [Players -> 0..tid]
  /\ calls \in [Conns -> Calls \cup {None}]
  /\ \A c \in Conns : calls[c] # None => c <= used

TypeInv == RoomOK /\ RoundOK /\ InlineOK /\ FileOK /\ RomOK /\ BrokersOK

\* A player who is there and did not change hands is the one a transfer names, and only
\* a recovering room keeps a transfer of a player who is gone.
OwnersInv ==
  /\ file # None \/ rom # None => status = "Recovering" \/ Full
  /\ file # None /\ Host \notin swapped /\ conn[Host] # 0 => file.source = conn[Host]
  /\ rom # None /\ Host \notin swapped /\ conn[Host] # 0 => rom.sender = conn[Host]
  /\ rom # None /\ Guest \notin swapped /\ conn[Guest] # 0 => rom.receiver = conn[Guest]

\* The guest has the chunks the transfer took, and keeps them once it is complete.
CopyInv ==
  /\ inline # None /\ inline.body # << >> => got = inline.body
  /\ via = "inline" => done # None /\ (done.content # << >> => got = done.content)

TransferInv == TypeInv /\ OwnersInv /\ CopyInv

\* No transfer and no call is None.
LEMMA SomeIsNotNone ==
  /\ \A x \in Inlines : x # None
  /\ \A x \in Files : x # None
  /\ \A x \in Roms : x # None
  /\ \A x \in Calls : x # None
<1>0. DOMAIN None = {"none"}
  BY DEF None
<1>1. \A x \in Inlines : "id" \in DOMAIN x
  BY DEF Inlines
<1>2. \A x \in Files : "tid" \in DOMAIN x
  BY DEF Files
<1>3. \A x \in Roms : "tid" \in DOMAIN x
  BY DEF Roms
<1>4. \A x \in Calls : "kind" \in DOMAIN x
  BY DEF Calls, SnapshotCalls, RomCalls, VoiceCalls
<1> QED
  BY <1>0, <1>1, <1>2, <1>3, <1>4

LEMMA TypeInvTyped == TypeInv => TransferTypeOK
<1> SUFFICES ASSUME TypeInv PROVE TransferTypeOK
  OBVIOUS
<1>1. inline = None \/ (inline.id \in Ids /\ Len(inline.body) <= MaxChunks)
  BY DEF TypeInv, InlineOK, Inlines
<1>2. file = None \/ (file.source \in Conns /\ file.man \in Manifests /\ file.tid \in 1..tid)
  BY DEF TypeInv, FileOK, Files
<1>3. rom = None \/ (rom.sender \in Conns /\ rom.receiver \in Conns /\ rom.tid \in 1..tid)
  BY DEF TypeInv, RomOK, Roms
<1>4. \A c \in Conns : calls[c] = None \/ (c <= used /\ calls[c].kind \in {"snapshot", "rom", "voice"})
  BY DEF TypeInv, BrokersOK, Calls, SnapshotCalls, RomCalls, VoiceCalls
<1> QED
  BY <1>1, <1>2, <1>3, <1>4 DEF TypeInv, RoomOK, RoundOK, BrokersOK, TransferTypeOK

\* Connections are numbers.
LEMMA ConnsAreNat ==
  ASSUME RoomOK
  PROVE  /\ used \in Nat /\ \A c \in 1..used : c \in Conns /\ c # 0
         /\ \A p \in Players : conn[p] # 0 => conn[p] \in Conns
  BY TransferAssumption DEF RoomOK, Conns

LEMMA SeatTyped ==
  ASSUME RoomOK, NEW p \in Players, Seat(p)
  PROVE  /\ used' \in Conns /\ used <= used' /\ conn' \in [Players -> 0..used']
         /\ held' \in [Players -> {"no", "grace", "handoff"}]
<1>1. used \in Nat /\ MaxConn \in Nat
  BY TransferAssumption, ConnsAreNat
<1>2. used' = used + 1 /\ used' \in Conns /\ used <= used'
  BY <1>1 DEF Seat, Conns
<1>3. 0..used \subseteq 0..used' /\ used + 1 \in 0..used'
  BY <1>1, <1>2
<1> QED
  BY <1>2, <1>3 DEF Seat, RoomOK

\* What does not touch the brokers keeps the transfers or drops them.
LEMMA QuietTyped ==
  ASSUME TypeInv, KeepBrokers, used' \in Conns, used <= used',
         inline' \in {None, inline}, file' \in {None, file}, rom' \in {None, rom}
  PROVE  InlineOK' /\ FileOK' /\ RomOK' /\ BrokersOK'
<1>1. UNCHANGED <<token, calls, tid>>
  BY DEF KeepBrokers
<1>2. InlineOK' /\ FileOK' /\ RomOK'
  BY <1>1 DEF TypeInv, InlineOK, FileOK, RomOK
<1>3. \A c \in Conns : c <= used => c <= used'
  BY ConnsAreNat DEF TypeInv, Conns
<1> QED
  BY <1>1, <1>2, <1>3 DEF TypeInv, BrokersOK

LEMMA ResetTyped ==
  ASSUME NEW f \in Frames, NEW m \in Manifests \cup {None}, ResetSync(f, m)
  PROVE  /\ RoundOK' /\ inline' = None /\ file' = None /\ rom' = None
         /\ compat' \subseteq Players /\ ready' \subseteq Players /\ swapped' \subseteq Players
         /\ OwnersInv' /\ CopyInv'
  BY DEF ResetSync, RoundOK, OwnersInv, CopyInv

\* The guest's copy and the owners, when a step does not concern them.
LEMMA CopyKept ==
  ASSUME CopyInv, inline' \in {None, inline}, UNCHANGED <<done, heard>>
  PROVE  CopyInv'
  BY DEF CopyInv, heard

LEMMA OwnersKept ==
  ASSUME OwnersInv, file' \in {None, file}, rom' \in {None, rom}, UNCHANGED <<conn, swapped>>,
         status = "Recovering" /\ status' # "Recovering" => Full
  PROVE  OwnersInv'
  BY DEF OwnersInv, Full

\* A player who takes over a slot is recorded.
LEMMA OwnersSwapped ==
  ASSUME RoomOK, OwnersInv, NEW p \in Players, Seat(p), swapped' = swapped \cup {p},
         UNCHANGED <<status, file, rom>>
  PROVE  OwnersInv'
<1>1. conn' = [conn EXCEPT ![p] = used + 1] /\ used + 1 # 0
  BY ConnsAreNat DEF Seat
<1>2. \A q \in Players : IF q = p THEN conn'[q] # 0 /\ q \in swapped'
                         ELSE conn'[q] = conn[q] /\ (q \in swapped' <=> q \in swapped)
  BY <1>1 DEF RoomOK
<1> QED
  BY <1>2 DEF OwnersInv, Full, Players

LEMMA TransferMembership ==
  ASSUME TransferInv, Membership
  PROVE  TransferInv'
<1>0. RoomOK /\ RoundOK /\ TypeInv /\ OwnersInv /\ CopyInv /\ 0 \in Frames /\ Host \in Players /\ Guest \in Players
  BY DEF TransferInv, TypeInv, Frames, Players
<1>1. ASSUME NEW f \in Frames, NEW m \in Manifests \cup {None}, ResetSync(f, m), KeepBrokers,
             used' \in Conns, used <= used', conn' \in [Players -> 0..used'],
             held' \in [Players -> {"no", "grace", "handoff"}],
             status' \in {"WaitingForGuest", "CheckingCompatibility", "Recovering", "Closed", status}
      PROVE  TransferInv'
  BY <1>0, <1>1, ResetTyped, QuietTyped DEF TransferInv, TypeInv, RoomOK
<1>2. ASSUME KeepBrokers, used' \in Conns, used <= used', conn' \in [Players -> 0..used'],
             held' \in [Players -> {"no", "grace", "handoff"}],
             status' \in {status, "Recovering"},
             compat' \subseteq Players, ready' \subseteq Players, swapped' \subseteq Players,
             UNCHANGED <<start, pinned, snapshot, rom, heard>>
      PROVE  TypeInv' /\ CopyInv'
  <2>1. UNCHANGED <<inline, file, done>>
    BY <1>2 DEF snapshot
  <2>2. InlineOK' /\ FileOK' /\ RomOK' /\ BrokersOK'
    BY <1>0, <1>2, <2>1, QuietTyped
  <2>3. RoomOK' /\ RoundOK'
    BY <1>0, <1>2, <2>1 DEF RoomOK, RoundOK
  <2> QED
    BY <1>0, <1>2, <2>1, <2>2, <2>3, CopyKept DEF TypeInv
<1>3. used' = used => used' \in Conns /\ used <= used'
  BY <1>0, ConnsAreNat DEF RoomOK
<1>4. CASE AttachHost
  <2>1. TypeInv' /\ CopyInv'
    BY <1>0, <1>2, <1>4, SeatTyped DEF AttachHost, RoomOK
  <2>2. OwnersInv'
    BY <1>0, <1>4, OwnersSwapped DEF AttachHost, snapshot
  <2> QED
    BY <2>1, <2>2 DEF TransferInv
<1>5. CASE JoinGuest
  BY <1>0, <1>1, <1>5, SeatTyped DEF JoinGuest
<1>6. ASSUME NEW p \in Players, ArmRunnerHandoff(p) PROVE TransferInv'
  <2>1. held' \in [Players -> {"no", "grace", "handoff"}]
    BY <1>0, <1>6 DEF ArmRunnerHandoff, RoomOK
  <2>2. TypeInv' /\ CopyInv'
    BY <1>0, <1>2, <1>3, <1>6, <2>1 DEF ArmRunnerHandoff, KeepSync, RoomOK
  <2>3. OwnersInv'
    BY <1>0, <1>6, OwnersKept DEF ArmRunnerHandoff, KeepSync, snapshot
  <2> QED
    BY <2>2, <2>3 DEF TransferInv
<1>7. ASSUME NEW p \in Players, ReconnectPlayer(p) PROVE TransferInv'
  <2>1. Seat(p) /\ KeepBrokers
    BY <1>7 DEF ReconnectPlayer
  <2>2. CASE /\ swapped' = swapped \cup {p}
             /\ UNCHANGED <<status, compat, ready, start, pinned, snapshot, rom, heard>>
    <3>1. TypeInv' /\ CopyInv'
      BY <1>0, <1>2, <2>1, <2>2, SeatTyped DEF RoomOK
    <3>2. OwnersInv'
      BY <1>0, <2>1, <2>2, OwnersSwapped DEF snapshot
    <3> QED
      BY <3>1, <3>2 DEF TransferInv
  <2>3. CASE status' = "CheckingCompatibility" /\ ResetSync(0, None)
    BY <1>0, <1>1, <2>1, <2>3, SeatTyped
  <2> QED
    BY <1>7, <2>2, <2>3 DEF ReconnectPlayer
<1>8. ASSUME NEW p \in Players, conn' = Vacated(p), used' = used
      PROVE  /\ conn' \in [Players -> 0..used']
             /\ \A q \in Players : conn'[q] = IF q = p \/ status' = "Closed" THEN 0 ELSE conn[q]
  <2>1. 0 \in 0..used
    BY <1>0, ConnsAreNat
  <2> QED
    BY <1>0, <1>8, <2>1 DEF Vacated, RoomOK
<1>9. ASSUME NEW p \in Players, Lose(p) PROVE TransferInv'
  <2>1. KeepBrokers /\ conn' = Vacated(p) /\ used' = used
    BY <1>9 DEF Lose
  <2>2. held' \in [Players -> {"no", "grace", "handoff"}]
    BY <1>0, <1>9 DEF Lose, RoomOK
  <2>3. CASE ResetSync(0, None)
    <3>1. status' \in {"WaitingForGuest", "CheckingCompatibility", "Recovering", "Closed", status}
      BY <1>9 DEF Lose
    <3> QED
      BY <1>0, <1>1, <1>3, <1>8, <2>1, <2>2, <2>3, <3>1
  <2>4. CASE /\ status = "Recovering" /\ status' = "Recovering"
             /\ compat' = compat \ {p} /\ ready' = ready \ {p}
             /\ UNCHANGED <<start, pinned, snapshot, rom, heard, swapped>>
    <3>1. TypeInv' /\ CopyInv'
      BY <1>0, <1>2, <1>3, <1>8, <2>1, <2>2, <2>4 DEF RoomOK
    <3>2. \A q \in Players : conn'[q] = 0 \/ conn'[q] = conn[q]
      BY <1>8, <2>1
    <3>3. OwnersInv'
      BY <1>0, <2>4, <3>2 DEF OwnersInv, snapshot
    <3> QED
      BY <3>1, <3>3 DEF TransferInv
  <2> QED
    BY <1>9, <2>3, <2>4 DEF Lose
<1>10. ASSUME NEW p \in Players, Expire(p) PROVE TransferInv'
  <2>1. held' \in [Players -> {"no", "grace", "handoff"}]
    BY <1>0, <1>10 DEF Expire, RoomOK
  <2> QED
    BY <1>0, <1>1, <1>3, <1>8, <1>10, <2>1 DEF Expire
<1>11. ASSUME NEW p \in Players, PlayerExited(p) PROVE TransferInv'
  <2>1. conn' \in [Players -> 0..used'] /\ held' \in [Players -> {"no", "grace", "handoff"}]
    BY <1>0, <1>11, ConnsAreNat DEF PlayerExited
  <2> QED
    BY <1>0, <1>1, <1>3, <1>11, <2>1 DEF PlayerExited
<1> QED
  BY <1>4, <1>5, <1>6, <1>7, <1>9, <1>10, <1>11 DEF Membership

LEMMA TransferSync ==
  ASSUME TransferInv, Sync
  PROVE  TransferInv'
<1>0. RoomOK /\ RoundOK /\ TypeInv /\ OwnersInv /\ CopyInv
  BY DEF TransferInv, TypeInv
<1>1. ASSUME KeepBrokers, UNCHANGED <<conn, held, used>>,
             inline' \in {None, inline}, file' \in {None, file}, rom' \in {None, rom},
             status' \in {"CheckingCompatibility", "SyncingState", "Ready", "Playing", "RepairingState", status},
             compat' \subseteq Players, ready' \subseteq Players, swapped' \subseteq Players, RoundOK'
      PROVE  TypeInv'
  <2>1. used' \in Conns /\ used <= used'
    BY <1>0, <1>1, ConnsAreNat DEF RoomOK
  <2> QED
    BY <1>0, <1>1, <2>1, QuietTyped DEF TypeInv, RoomOK
<1>2. Repair \in Frames
  BY DEF Frames
<1>3. ASSUME NEW m \in Manifests \cup {None}, ResetSync(Repair, m), KeepBrokers, UNCHANGED <<conn, held, used>>,
             status' = "CheckingCompatibility"
      PROVE  TransferInv'
  BY <1>1, <1>2, <1>3, ResetTyped DEF TransferInv
<1>4. ASSUME NEW p \in Players, MarkReady(p) PROVE TransferInv'
  <2>1. RoundOK' /\ ready' \subseteq Players /\ status' \in {"Ready", "Playing"}
    BY <1>0, <1>4 DEF MarkReady, RoundOK, RoomOK, snapshot
  <2>2. TypeInv'
    BY <1>0, <1>1, <1>4, <2>1 DEF MarkReady, RoomOK, snapshot
  <2>3. OwnersInv' /\ CopyInv'
    BY <1>0, <1>4, OwnersKept, CopyKept DEF MarkReady, snapshot
  <2> QED
    BY <2>2, <2>3 DEF TransferInv
<1>5. ASSUME NEW p \in Players, NEW d \in {"none", "peer", "session"}, SetCompatibility(p, d)
      PROVE  TransferInv'
  <2>1. /\ KeepBrokers /\ UNCHANGED <<conn, held, used, start, pinned, done, heard, swapped>>
        /\ inline' \in {None, inline} /\ file' \in {None, file} /\ rom' \in {None, rom}
        /\ status' \in {"CheckingCompatibility", "SyncingState", status}
        /\ compat' \in {compat \ {p}, compat \cup {p}} /\ ready' = ready \ {p}
    BY <1>5 DEF SetCompatibility
  <2>2. compat' \subseteq Players /\ ready' \subseteq Players /\ swapped' \subseteq Players
    BY <1>0, <2>1 DEF RoomOK
  <2>3. RoundOK'
    BY <1>0, <2>1 DEF RoundOK
  <2>4. TypeInv' /\ CopyInv'
    BY <1>0, <1>1, <2>1, <2>2, <2>3, CopyKept
  <2>5. (file' = None /\ rom' = None) \/ (status' # status => Full)
    BY <1>5 DEF SetCompatibility
  <2>6. OwnersInv'
    <3>1. CASE file' = None /\ rom' = None
      BY <3>1 DEF OwnersInv
    <3>2. CASE status' # status => Full
      BY <1>0, <2>1, <3>2, OwnersKept
    <3> QED
      BY <2>5, <3>1, <3>2
  <2> QED
    BY <2>4, <2>6 DEF TransferInv
<1>6. CASE StateHashResync
  BY <1>3, <1>6 DEF StateHashResync
<1>7. ASSUME NEW m \in Manifests, StateRecoveryPinned(m) PROVE TransferInv'
  BY <1>3, <1>7 DEF StateRecoveryPinned
<1>8. CASE BeginStateRecovery
  <2>1. /\ KeepBrokers /\ UNCHANGED <<conn, held, used, compat, ready, start, pinned, inline, file, done, rom,
                                      heard, swapped>>
        /\ status = "Playing" /\ status' = "RepairingState"
    BY <1>8 DEF BeginStateRecovery, KeepSync, snapshot
  <2>2. TypeInv'
    BY <1>0, <1>1, <2>1 DEF RoomOK, RoundOK
  <2> QED
    BY <1>0, <2>1, <2>2, OwnersKept, CopyKept DEF TransferInv
<1>9. CASE PauseResume
  <2>1. /\ KeepBrokers /\ UNCHANGED <<status, conn, held, used, compat, ready, pinned, done, rom, heard, swapped>>
        /\ start' = Repair /\ inline' = None /\ file' = None
    BY <1>9 DEF PauseResume, room
  <2>2. TypeInv'
    BY <1>0, <1>1, <1>2, <2>1 DEF RoomOK, RoundOK
  <2> QED
    BY <1>0, <2>1, <2>2, OwnersKept, CopyKept DEF TransferInv
<1> QED
  BY <1>4, <1>5, <1>6, <1>7, <1>8, <1>9 DEF Sync

\* A call that goes out, is answered or fails.
LEMMA CallsTyped ==
  ASSUME TypeInv, NEW c \in 1..used, NEW x \in Calls \cup {None},
         calls' = [calls EXCEPT ![c] = x], used' = used,
         tid' \in {tid, tid + 1}, tid' \in 0..MaxTid, token' \in [Players -> 0..tid']
  PROVE  BrokersOK'
<1>1. c \in Conns /\ c <= used
  BY ConnsAreNat DEF TypeInv
<1>2. calls' \in [Conns -> Calls \cup {None}]
  BY <1>1 DEF TypeInv, BrokersOK
<1>3. \A d \in Conns : calls'[d] # None => d <= used'
  BY <1>1 DEF TypeInv, BrokersOK
<1> QED
  BY <1>2, <1>3 DEF BrokersOK

LEMMA AnsweredTyped ==
  ASSUME TypeInv, NEW c \in 1..used, NEW kind, Answered(c, kind), used' = used
  PROVE  /\ calls[c] \in Calls /\ calls[c].kind = kind
         /\ tid \in Nat /\ tid' = tid + 1 /\ tid' \in 0..MaxTid
         /\ token \in [Players -> 0..tid'] /\ (UNCHANGED token => BrokersOK')
<1>1. c \in Conns /\ tid \in 0..MaxTid /\ MaxTid \in Nat /\ token \in [Players -> 0..tid]
  BY ConnsAreNat, TransferAssumption DEF TypeInv, BrokersOK
<1>2. calls[c] \in Calls /\ calls[c].kind = kind
  BY <1>1 DEF Answered, TypeInv, BrokersOK
<1>3. tid \in Nat /\ tid' = tid + 1 /\ tid' \in 0..MaxTid /\ 0..tid \subseteq 0..tid'
  BY <1>1 DEF Answered
<1>4. token \in [Players -> 0..tid']
  BY <1>1, <1>3
<1>5. calls' = [calls EXCEPT ![c] = None]
  BY DEF Answered
<1> QED
  BY <1>2, <1>3, <1>4, <1>5, CallsTyped

\* A transfer that is kept while an answer is counted.
LEMMA OlderTransfers ==
  ASSUME TypeInv, tid \in Nat, tid' \in {tid, tid + 1}
  PROVE  /\ UNCHANGED file => FileOK'
         /\ UNCHANGED rom => RomOK'
<1>1. 1..tid \subseteq 1..tid'
  OBVIOUS
<1> QED
  BY <1>1 DEF TypeInv, FileOK, RomOK

\* Operations leave the room and the round as they are.
LEMMA RoomUntouched ==
  ASSUME TypeInv, UNCHANGED <<status, conn, held, used, compat, ready, swapped>>
  PROVE  RoomOK' /\ (UNCHANGED <<start, pinned, done>> => RoundOK')
  BY DEF TypeInv, RoomOK, RoundOK

\* A request for a broker, and a broker's refusal.
LEMMA TransferCall ==
  ASSUME TransferInv, NEW c \in 1..used, NEW x \in Calls \cup {None},
         calls' = [calls EXCEPT ![c] = x],
         KeepSync, UNCHANGED <<status, conn, held, used, token, tid>>
  PROVE  TransferInv'
<1>1. UNCHANGED <<compat, ready, start, pinned, inline, file, done, rom, heard, swapped>>
  BY DEF KeepSync, snapshot
<1>2. tid \in 0..MaxTid /\ tid \in Nat /\ token \in [Players -> 0..tid] /\ TypeInv
  BY TransferAssumption DEF TransferInv, TypeInv, BrokersOK
<1>3. BrokersOK'
  BY <1>2, CallsTyped
<1>4. RoomOK' /\ RoundOK'
  BY <1>1, <1>2, RoomUntouched
<1>5. FileOK' /\ RomOK' /\ InlineOK'
  BY <1>1, <1>2, OlderTransfers DEF TypeInv, InlineOK
<1>6. OwnersInv' /\ CopyInv'
  BY <1>1, OwnersKept, CopyKept DEF TransferInv
<1> QED
  BY <1>3, <1>4, <1>5, <1>6 DEF TransferInv, TypeInv

\* An inline chunk: taken, or not the next one.
LEMMA TransferChunk ==
  ASSUME TransferInv, NEW c \in 1..used, NEW k \in Chunks, SnapshotChunk(c, k)
  PROVE  TransferInv'
<1> DEFINE met == Met(k)
<1>0. /\ TypeInv /\ done = None /\ KeepBrokers
      /\ UNCHANGED <<status, conn, held, used, compat, ready, start, pinned, file, done, rom, ends, via, swapped>>
  BY DEF TransferInv, SnapshotChunk, room
<1>1. /\ met \in Inlines /\ Len(met.body) <= MaxChunks /\ met.body \in Seq(Bodies)
      /\ met.body # << >> => got = met.body
  <2>1. CASE inline = None
    <3>1. met = [id |-> k.id, frame |-> k.frame, body |-> << >>]
      BY <2>1 DEF Met
    <3>2. k.id \in Ids /\ k.frame \in Frames
      BY DEF Chunks
    <3> QED
      BY <3>1, <3>2, TransferAssumption DEF Inlines
  <2>2. CASE inline # None
    <3>1. met = inline /\ inline \in Inlines /\ Len(inline.body) <= MaxChunks
      BY <1>0, <2>2 DEF Met, TypeInv, InlineOK
    <3> QED
      BY <2>2, <3>1 DEF Inlines, TransferInv, CopyInv
  <2> QED
    BY <2>1, <2>2
<1>2. k.body \in Bodies /\ k.index \in Nat
  BY TransferAssumption DEF Chunks
<1>3. InlineOK' /\ (inline' # None /\ inline'.body # << >> => got' = inline'.body)
  <2>1. CASE ChunkIsNext(k)
    <3>1. inline' = [met EXCEPT !.body = Append(@, k.body)] /\ got' = Assembled(k)
      BY <2>1 DEF SnapshotChunk
    <3>2. k.index = Len(met.body) /\ Len(met.body) < MaxChunks
      BY <2>1 DEF ChunkIsNext
    <3> HIDE DEF met
    <3>3. /\ inline' \in Inlines /\ inline'.body = Append(met.body, k.body)
          /\ Len(inline'.body) = Len(met.body) + 1
      <4>1. met.body \in Seq(Bodies) /\ met \in Inlines
        BY <1>1 DEF Inlines
      <4>2. Append(met.body, k.body) \in Seq(Bodies) /\ Len(Append(met.body, k.body)) = Len(met.body) + 1
        BY <1>2, <4>1
      <4>3. inline'.body = Append(met.body, k.body)
        BY <3>1, <4>1 DEF Inlines
      <4>4. inline' \in Inlines
        BY <3>1, <4>1, <4>2 DEF Inlines
      <4> QED
        BY <4>2, <4>3, <4>4, Zenon
    <3>4. Len(inline'.body) <= MaxChunks
      BY <1>1, <3>2, <3>3, TransferAssumption
    <3>5. CASE met.body = << >>
      <4>1. k.index = 0
        BY <3>2, <3>5
      <4> QED
        BY <1>2, <3>1, <3>3, <3>4, <3>5, <4>1 DEF Assembled, InlineOK
    <3>6. CASE met.body # << >>
      <4>1. k.index # 0 /\ got = met.body
        BY <1>1, <3>2, <3>6
      <4> QED
        BY <3>1, <3>2, <3>3, <3>4, <4>1 DEF Assembled, InlineOK
    <3> QED
      BY <3>5, <3>6
  <2>2. CASE ~ChunkIsNext(k)
    <3>1. inline' = met /\ got' = got
      BY <2>2 DEF SnapshotChunk
    <3> QED
      BY <1>1, <3>1 DEF InlineOK
  <2> QED
    BY <2>1, <2>2
<1>4. CopyInv'
  BY <1>0, <1>3 DEF CopyInv, TransferInv
<1>5. OwnersInv'
  BY <1>0, OwnersKept DEF TransferInv
<1>6. FileOK' /\ RomOK' /\ BrokersOK'
  BY <1>0 DEF KeepBrokers, TypeInv, FileOK, RomOK, BrokersOK
<1> QED
  BY <1>0, <1>3, <1>4, <1>5, <1>6, RoomUntouched DEF TransferInv, TypeInv

\* The round is completed, inline or through the file relay.
LEMMA TransferDone ==
  ASSUME TransferInv, NEW m \in Manifests, done = None, done' = m,
         \/ via' = "file"
         \/ via' = "inline" /\ inline # None /\ inline.body = m.content,
         UNCHANGED <<status, conn, held, used, compat, ready, start, pinned, inline, file, rom, token, calls,
                     tid, got, swapped>>
  PROVE  TransferInv'
<1>1. m # None
  BY ManifestIsSome
<1>2. CopyInv'
  BY <1>1 DEF CopyInv, TransferInv
<1>3. OwnersInv'
  BY OwnersKept DEF TransferInv
<1>4. RoundOK'
  BY DEF TransferInv, TypeInv, RoundOK
<1>5. RoomOK' /\ InlineOK' /\ FileOK' /\ RomOK' /\ BrokersOK'
  BY DEF TransferInv, TypeInv, RoomOK, InlineOK, FileOK, RomOK, BrokersOK
<1> QED
  BY <1>2, <1>3, <1>4, <1>5 DEF TransferInv, TypeInv

\* The file relay's answer: a transfer for the connections of that moment, or nothing.
LEMMA TransferFileGrant ==
  ASSUME TransferInv, NEW c \in 1..used, GrantSnapshotFile(c)
  PROVE  TransferInv'
<1>0. /\ TypeInv /\ Answered(c, "snapshot")
      /\ UNCHANGED <<status, conn, held, used, compat, ready, start, pinned, inline, done, rom, token, heard, swapped>>
  BY DEF TransferInv, GrantSnapshotFile, room
<1>1. /\ calls[c].man \in Manifests /\ tid \in Nat /\ tid' = tid + 1 /\ tid' \in 0..MaxTid /\ BrokersOK'
  <2>1. calls[c] \in Calls /\ calls[c].kind = "snapshot"
    BY <1>0, AnsweredTyped
  <2>2. calls[c].man \in Manifests
    BY <2>1 DEF Calls, SnapshotCalls, RomCalls, VoiceCalls
  <2> QED
    BY <1>0, <2>2, AnsweredTyped
<1>2. FileOK' /\ OwnersInv'
  <2>1. CASE FileGrantHolds(c, calls[c].man)
    <3>1. /\ file' = [source |-> c, receiver |-> Guest, tid |-> tid', man |-> calls[c].man]
          /\ conn[Host] = c /\ Full
      BY <2>1 DEF GrantSnapshotFile, FileGrantHolds, FileRelayAllowed, HostMaySend
    <3>2. c \in Conns
      BY <1>0, ConnsAreNat DEF TypeInv
    <3>3. file' \in Files /\ file'.source = c /\ file'.tid = tid'
      BY <1>1, <3>1, <3>2 DEF Files
    <3>4. FileOK'
      BY <1>1, <3>3 DEF FileOK
    <3>5. OwnersInv'
      BY <1>0, <3>1, <3>3 DEF TransferInv, OwnersInv, Full
    <3> QED
      BY <3>4, <3>5
  <2>2. CASE ~FileGrantHolds(c, calls[c].man)
    <3>1. UNCHANGED file
      BY <2>2 DEF GrantSnapshotFile
    <3> QED
      BY <1>0, <1>1, <3>1, OlderTransfers, OwnersKept DEF TransferInv
  <2> QED
    BY <2>1, <2>2
<1>3. RomOK' /\ InlineOK' /\ CopyInv'
  BY <1>0, <1>1, OlderTransfers, CopyKept DEF TransferInv, TypeInv, InlineOK
<1> QED
  BY <1>0, <1>1, <1>2, <1>3, RoomUntouched DEF TransferInv, TypeInv

\* The answer for a ROM transfer.
LEMMA TransferRomGrant ==
  ASSUME TransferInv, NEW c \in 1..used, GrantRom(c)
  PROVE  TransferInv'
<1>0. /\ TypeInv /\ Answered(c, "rom")
      /\ UNCHANGED <<status, conn, held, used, compat, ready, start, pinned, inline, file, done, token, heard, swapped>>
  BY DEF TransferInv, GrantRom, room, snapshot
<1>1. tid \in Nat /\ tid' = tid + 1 /\ tid' \in 0..MaxTid /\ BrokersOK'
  BY <1>0, AnsweredTyped
<1>2. RomOK' /\ OwnersInv'
  <2>1. CASE RomAllowed(c)
    <3>1. /\ rom' = [sender |-> conn[Host], receiver |-> c, tid |-> tid', uploaded |-> FALSE]
          /\ conn[Host] # 0 /\ conn[Guest] = c
      BY <2>1 DEF GrantRom, RomAllowed
    <3>2. c \in Conns /\ c # 0 /\ conn[Host] \in Conns
      BY <1>0, <3>1, ConnsAreNat DEF TypeInv, Players
    <3>3. rom' \in Roms /\ rom'.sender = conn[Host] /\ rom'.receiver = c /\ rom'.tid = tid'
      BY <1>1, <3>1, <3>2, SMTT(30) DEF Roms
    <3>4. RomOK'
      BY <1>1, <3>3 DEF RomOK
    <3>5. Full
      BY <3>1, <3>2 DEF Full, Players
    <3>6. OwnersInv'
      BY <1>0, <3>1, <3>3, <3>5 DEF TransferInv, OwnersInv, Full
    <3> QED
      BY <3>4, <3>6
  <2>2. CASE ~RomAllowed(c)
    <3>1. UNCHANGED rom
      BY <2>2 DEF GrantRom
    <3> QED
      BY <1>0, <1>1, <3>1, OlderTransfers, OwnersKept DEF TransferInv
  <2> QED
    BY <2>1, <2>2
<1>3. FileOK' /\ InlineOK' /\ CopyInv'
  BY <1>0, <1>1, OlderTransfers, CopyKept DEF TransferInv, TypeInv, InlineOK
<1> QED
  BY <1>0, <1>1, <1>2, <1>3, RoomUntouched DEF TransferInv, TypeInv

\* The ROM is uploaded, downloaded, or the transfer ends.
LEMMA TransferRomStep ==
  ASSUME TransferInv, rom # None,
         rom' = None \/ rom' = [rom EXCEPT !.uploaded = TRUE],
         UNCHANGED <<room, start, pinned, snapshot, token, calls, tid, heard, swapped>>
  PROVE  TransferInv'
<1>0. UNCHANGED <<status, conn, held, used, compat, ready, inline, file, done>>
  BY DEF room, snapshot
<1>1. rom \in Roms /\ rom.tid \in 1..tid
  BY DEF TransferInv, TypeInv, RomOK
<1>2. rom' = None \/ (rom' \in Roms /\ rom'.sender = rom.sender /\ rom'.receiver = rom.receiver /\ rom'.tid = rom.tid)
  BY <1>1 DEF Roms
<1>3. RomOK'
  BY <1>1, <1>2 DEF RomOK
<1>4. OwnersInv'
  BY <1>0, <1>2 DEF TransferInv, OwnersInv, Full
<1>5. CopyInv'
  BY <1>0, CopyKept DEF TransferInv
<1>6. RoomOK' /\ RoundOK' /\ InlineOK' /\ FileOK' /\ BrokersOK'
  BY <1>0 DEF TransferInv, TypeInv, RoomOK, RoundOK, InlineOK, FileOK, BrokersOK
<1> QED
  BY <1>3, <1>4, <1>5, <1>6 DEF TransferInv, TypeInv

\* A refreshed voice token.
LEMMA TransferVoice ==
  ASSUME TransferInv, NEW c \in 1..used, RefreshVoiceToken(c)
  PROVE  TransferInv'
<1>0. /\ TypeInv /\ Answered(c, "voice")
      /\ UNCHANGED <<status, conn, held, used, compat, ready, start, pinned, inline, file, done, rom, heard, swapped>>
  BY DEF TransferInv, RefreshVoiceToken, KeepSync, snapshot
<1>1. tid \in Nat /\ tid' = tid + 1 /\ tid' \in 0..MaxTid /\ token \in [Players -> 0..tid']
  BY <1>0, AnsweredTyped
<1>2. token' \in [Players -> 0..tid']
  BY <1>1 DEF RefreshVoiceToken
<1>3. calls' = [calls EXCEPT ![c] = None]
  BY <1>0 DEF Answered
<1>4. BrokersOK'
  BY <1>0, <1>1, <1>2, <1>3, CallsTyped
<1>5. FileOK' /\ RomOK' /\ InlineOK' /\ OwnersInv' /\ CopyInv'
  BY <1>0, <1>1, OlderTransfers, OwnersKept, CopyKept DEF TransferInv, TypeInv, InlineOK
<1> QED
  BY <1>0, <1>4, <1>5, RoomUntouched DEF TransferInv, TypeInv

LEMMA TransferOperation ==
  ASSUME TransferInv, NEW c \in 1..used, Operation(c)
  PROVE  TransferInv'
<1>1. CASE InlineSnapshot(c)
  <2>1. ASSUME NEW m \in Manifests, SnapshotComplete(c, m) PROVE TransferInv'
    BY <2>1, TransferDone DEF SnapshotComplete, KeepBrokers, room
  <2> QED
    BY <1>1, <2>1, TransferChunk DEF InlineSnapshot
<1>2. CASE SnapshotFile(c)
  <2>1. ASSUME NEW m \in Manifests, RequestSnapshotFile(c, m) PROVE TransferInv'
    <3>1. [kind |-> "snapshot", man |-> m] \in Calls
      BY DEF Calls, SnapshotCalls
    <3> QED
      BY <2>1, <3>1, TransferCall DEF RequestSnapshotFile
  <2>2. ASSUME NEW m \in Manifests, NEW t \in 1..MaxTid, SnapshotFileUploaded(c, t, m) PROVE TransferInv'
    BY <2>2, TransferDone DEF SnapshotFileUploaded, UploadCompletes, room
  <2> QED
    BY <1>2, <2>1, <2>2, TransferFileGrant DEF SnapshotFile
<1>3. CASE RomRelay(c)
  <2>1. CASE RequestRom(c)
    <3>1. [kind |-> "rom"] \in Calls
      BY DEF Calls, RomCalls
    <3> QED
      BY <2>1, <3>1, TransferCall DEF RequestRom
  <2>2. CASE RomEnds(c)
    BY <2>2, TransferRomStep DEF RomEnds, KeepBrokers
  <2>3. ASSUME NEW t \in 1..MaxTid, RomUploaded(c, t) \/ RomDownloaded(c, t) PROVE TransferInv'
    BY <2>3, TransferRomStep DEF RomUploaded, RomDownloaded, KeepBrokers
  <2> QED
    BY <1>3, <2>1, <2>2, <2>3, TransferRomGrant DEF RomRelay
<1>4. CASE VoiceRefresh(c)
  <2>1. ASSUME NEW p \in Players, RequestToken(c, p) PROVE TransferInv'
    <3>1. [kind |-> "voice", player |-> p] \in Calls
      BY DEF Calls, VoiceCalls
    <3> QED
      BY <2>1, <3>1, TransferCall DEF RequestToken
  <2> QED
    BY <1>4, <2>1, TransferVoice DEF VoiceRefresh
<1>5. CASE BrokerFails(c)
  BY <1>5, TransferCall DEF BrokerFails
<1> QED
  BY <1>1, <1>2, <1>3, <1>4, <1>5 DEF Operation

LEMMA TransferAlways == Spec => []TransferInv
<1>1. Init => TransferInv
  <2> SUFFICES ASSUME Init PROVE TransferInv
    OBVIOUS
  <2>1. RoomOK
    BY TransferAssumption DEF Init, RoomOK, Conns, Players, Host, Guest
  <2>2. RoundOK /\ InlineOK /\ FileOK /\ RomOK
    BY DEF Init, RoundOK, Frames, InlineOK, FileOK, RomOK
  <2>3. BrokersOK
    BY TransferAssumption DEF Init, BrokersOK
  <2>4. OwnersInv /\ CopyInv
    BY DEF Init, OwnersInv, CopyInv
  <2> QED
    BY <2>1, <2>2, <2>3, <2>4 DEF TransferInv, TypeInv
<1>2. TransferInv /\ [Next]_vars => TransferInv'
  <2> SUFFICES ASSUME TransferInv, [Next]_vars PROVE TransferInv'
    OBVIOUS
  <2>1. CASE Next
    BY <2>1, TransferMembership, TransferSync, TransferOperation DEF Next
  <2>2. CASE UNCHANGED vars
    <3>1. UNCHANGED <<status, conn, held, used, compat, ready, start, pinned, inline, file, done, rom, token,
                      calls, tid, got, via, swapped>>
      BY <2>2 DEF vars, room, snapshot, heard
    <3>2. TypeInv'
      BY <3>1 DEF TransferInv, TypeInv, RoomOK, RoundOK, InlineOK, FileOK, RomOK, BrokersOK
    <3>3. OwnersInv' /\ CopyInv'
      BY <3>1 DEF TransferInv, OwnersInv, CopyInv, Full
    <3> QED
      BY <3>2, <3>3 DEF TransferInv
  <2> QED
    BY <2>1, <2>2
<1> QED
  BY <1>1, <1>2, PTL DEF Spec

\* Transfers are well formed, and an inline snapshot reaches the guest whole and in order,
\* however chunks are repeated, refused or interrupted by resets of the round.
THEOREM SnapshotsAreWhole == Spec => []DeliveredWhole
<1>1. TransferInv => DeliveredWhole
  BY TypeInvTyped DEF TransferInv, CopyInv, DeliveredWhole
<1> QED
  BY <1>1, TransferAlways, PTL

\* Outside recovery a stored transfer names the connections its players use now, unless
\* one of the slots changed hands without a reset.
THEOREM TransfersFollowPlayers == Spec => []OutlivesOnlyTakeover
<1>1. TransferInv => OutlivesOnlyTakeover
  BY DEF TransferInv, OwnersInv, OutlivesOnlyTakeover, Full, Players
<1> QED
  BY <1>1, TransferAlways, PTL

\* The body of GrantsReachTheirPlayer.
GrantReaches ==
  out' # out =>
       CASE out'.kind \in {"snapshotUpload", "romUpload"} -> out'.to = conn[Host]
         [] out'.kind = "snapshotDownload" -> out'.to = conn[Guest]
         [] out'.kind = "romDownload" ->
              out'.to = conn[Guest] \/ Guest \in swapped \/ status = "Recovering"
         [] out'.kind = "voiceToken" ->
              \A p \in Players : token'[p] # token[p] => out'.to = conn[p]

LEMMA GrantStep ==
  ASSUME TransferInv, [Next]_vars
  PROVE  GrantReaches
<1>0. ASSUME UNCHANGED out PROVE GrantReaches
  BY <1>0 DEF GrantReaches
<1>1. CASE Membership \/ Sync
  BY <1>0, <1>1 DEF Membership, Sync, KeepBrokers, AttachHost, JoinGuest, ArmRunnerHandoff, ReconnectPlayer, Lose,
     Expire, PlayerExited, MarkReady, SetCompatibility, StateHashResync, BeginStateRecovery, PauseResume,
     StateRecoveryPinned
<1>2. ASSUME NEW c \in 1..used, InlineSnapshot(c) \/ BrokerFails(c) PROVE GrantReaches
  BY <1>0, <1>2 DEF InlineSnapshot, SnapshotChunk, SnapshotComplete, KeepBrokers, BrokerFails
<1>3. ASSUME NEW c \in 1..used, SnapshotFile(c) PROVE GrantReaches
  <2>1. ASSUME NEW m \in Manifests, RequestSnapshotFile(c, m) PROVE GrantReaches
    BY <1>0, <2>1 DEF RequestSnapshotFile
  <2>2. ASSUME NEW m \in Manifests, NEW t, SnapshotFileUploaded(c, t, m) PROVE GrantReaches
    <3>1. file.receiver = Guest
      BY <2>2 DEF SnapshotFileUploaded, UploadCompletes, TransferInv, TypeInv, FileOK, Files
    <3>2. out' = [kind |-> "snapshotDownload", to |-> conn[Guest], tid |-> t]
      BY <2>2, <3>1 DEF SnapshotFileUploaded
    <3> QED
      BY <3>2 DEF GrantReaches
  <2>3. CASE GrantSnapshotFile(c)
    <3>1. \/ UNCHANGED out
          \/ conn[Host] = c /\ out' = [kind |-> "snapshotUpload", to |-> c, tid |-> tid']
      BY <2>3 DEF GrantSnapshotFile, FileGrantHolds, FileRelayAllowed, HostMaySend
    <3>2. UNCHANGED out \/ (out'.kind = "snapshotUpload" /\ out'.to = conn[Host])
      BY <3>1
    <3>3. ASSUME out'.kind = "snapshotUpload", out'.to = conn[Host] PROVE GrantReaches
      BY <3>3 DEF GrantReaches
    <3> QED
      BY <1>0, <3>2, <3>3
  <2> QED
    BY <1>3, <2>1, <2>2, <2>3 DEF SnapshotFile
<1>4. ASSUME NEW c \in 1..used, RomRelay(c) PROVE GrantReaches
  <2>1. CASE GrantRom(c)
    <3>1. \/ UNCHANGED out
          \/ out' = [kind |-> "romUpload", to |-> conn[Host], tid |-> tid']
      BY <2>1 DEF GrantRom
    <3>2. UNCHANGED out \/ (out'.kind = "romUpload" /\ out'.to = conn[Host])
      BY <3>1
    <3>3. ASSUME out'.kind = "romUpload", out'.to = conn[Host] PROVE GrantReaches
      BY <3>3 DEF GrantReaches
    <3> QED
      BY <1>0, <3>2, <3>3
  <2>2. ASSUME NEW t, RomUploaded(c, t) PROVE GrantReaches
    <3>1. rom.receiver = conn[Guest] \/ Guest \in swapped \/ status = "Recovering"
      BY <2>2 DEF RomUploaded, TransferInv, OwnersInv, Full, Players
    <3>2. out' = [kind |-> "romDownload", to |-> rom.receiver, tid |-> t]
      BY <2>2 DEF RomUploaded
    <3> QED
      BY <3>1, <3>2 DEF GrantReaches
  <2>3. ASSUME NEW t, RequestRom(c) \/ RomEnds(c) \/ RomDownloaded(c, t) PROVE GrantReaches
    BY <1>0, <2>3 DEF RequestRom, RomEnds, RomDownloaded, KeepBrokers
  <2> QED
    BY <1>4, <2>1, <2>2, <2>3 DEF RomRelay
<1>5. ASSUME NEW c \in 1..used, VoiceRefresh(c) PROVE GrantReaches
  <2>1. ASSUME NEW p \in Players, RequestToken(c, p) PROVE GrantReaches
    BY <1>0, <2>1 DEF RequestToken
  <2>2. CASE RefreshVoiceToken(c)
    <3>1. \A p \in Players : token'[p] # token[p] => conn[p] = c
      BY <2>2 DEF RefreshVoiceToken, TokenFor, PlayerOf
    <3>2. UNCHANGED out \/ out' = [kind |-> "voiceToken", to |-> c, tid |-> tid']
      BY <2>2 DEF RefreshVoiceToken
    <3>3. UNCHANGED out \/ (out'.kind = "voiceToken" /\ out'.to = c)
      BY <3>2
    <3>4. ASSUME out'.kind = "voiceToken", out'.to = c PROVE GrantReaches
      BY <3>1, <3>4 DEF GrantReaches
    <3> QED
      BY <1>0, <3>3, <3>4
  <2> QED
    BY <1>5, <2>1, <2>2 DEF VoiceRefresh
<1>6. CASE UNCHANGED vars
  BY <1>0, <1>6 DEF vars
<1> QED
  BY <1>1, <1>2, <1>3, <1>4, <1>5, <1>6 DEF Next, Operation

\* A private grant or token goes to the connection that holds the slot it was made for,
\* however late the broker answers and whoever took the slot meanwhile.
THEOREM GrantsArePrivate == Spec => GrantsReachTheirPlayer
<1>1. TransferInv /\ [Next]_vars => [GrantReaches]_vars
  BY GrantStep
<1>2. GrantsReachTheirPlayer <=> [][GrantReaches]_vars
  BY DEF GrantsReachTheirPlayer, GrantReaches
<1> QED
  BY <1>1, <1>2, TransferAlways, PTL DEF Spec
==============================================================================
