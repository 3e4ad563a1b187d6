--------------------------- MODULE RoomLifecycle ---------------------------
(***************************************************************************)
(* The membership of one two-player controller-netplay room: its slots,    *)
(* control and input sockets, capabilities, deadlines, epochs and the      *)
(* sweeper that removes it.  Every registry operation runs under the       *)
(* registry's write lock, so each one is an atomic action; what interleaves*)
(* are the socket tasks, the sweeper and the clients.                      *)
(*                                                                         *)
(* What the players do with the room once they are in it (compatibility,   *)
(* snapshot, start, frames, pause, repair) appears here only through its   *)
(* effect on the status, the session epoch and the repair deadline: the    *)
(* Session* actions.  They allow at least what the code allows; RoomSession*)
(* gives the operations in full and implements this specification.         *)
(*                                                                         *)
(* An input socket is identified by the control connection whose one-time  *)
(* token opened it, and a token by the control connection it was issued to.*)
(***************************************************************************)
EXTENDS Integers, FiniteSets

CONSTANTS Conns,            \* control connection ids (ConnectionId values)
          None,             \* an absent Option
          MaxRoomEpoch,     \* bound on the room epoch
          MaxSessionEpoch   \* bound on the session epoch

ASSUME ConnsAssumption == None \notin Conns
ASSUME BoundsAssumption == MaxRoomEpoch \in Nat \ {0} /\ MaxSessionEpoch \in Nat \ {0}

Host == 1
Guest == 2
Players == {Host, Guest}

Statuses == {"WaitingForGuest", "CheckingCompatibility", "SyncingState", "Ready",
             "StartScheduled", "Playing", "Paused", "RepairingState",
             "Recovering", "Closed"}

\* A deadline on the registry clock: not set, in the future, or passed.
Deadlines == {"none", "armed", "elapsed"}

\* Where the task that serves a control socket is: before the handoff is armed,
\* before RoomJoined is delivered, in the message loop, or on its way out.
Stages == {"free", "arm", "send", "open", "closing"}

VARIABLES
  present,       \* the room is in the registry
  status,        \* NetplayRoom.status
  roomEpoch, sessionEpoch,
  pin,           \* deadline of a state repair that is still preparing
  occupied,      \* the guest slot is not Empty
  conn,          \* PlayerSlot.connection_id
  inp,           \* PlayerSlot.input_connection_id
  inTok,         \* PlayerSlot.input_socket_control_connection_id, with its token
  recDl,         \* PlayerSlot.reconnect_deadline
  recEpoch,      \* PlayerSlot.reconnect_room_epoch, 0 when absent
  handoff,       \* PlayerSlot.runner_handoff_deadline
  stage,         \* the server task of each control socket
  inOpen,        \* input sockets the server still serves
  idle,          \* the idle timeout passed since a slot was last seen
  joinWindow     \* the join timeout passed since the room was created

room == <<status, roomEpoch, sessionEpoch, pin>>
slots == <<occupied, conn, inp, inTok, recDl, recEpoch, handoff>>
sockets == <<stage, inOpen>>
lifecycleVars == <<present, room, slots, sockets, idle, joinWindow>>

TypeOK ==
  /\ present \in BOOLEAN
  /\ status \in Statuses
  /\ roomEpoch \in 1..MaxRoomEpoch
  /\ sessionEpoch \in 1..MaxSessionEpoch
  /\ pin \in Deadlines
  /\ occupied \in BOOLEAN
  /\ conn \in [Players -> Conns \cup {None}]
  /\ inp \in [Players -> Conns \cup {None}]
  /\ inTok \in [Players -> Conns \cup {None}]
  /\ recDl \in [Players -> Deadlines]
  /\ recEpoch \in [Players -> 0..MaxRoomEpoch]
  /\ handoff \in [Players -> Deadlines]
  /\ stage \in [Conns -> Stages]
  /\ inOpen \subseteq Conns
  /\ idle \in BOOLEAN
  /\ joinWindow \in BOOLEAN

Connected == {p \in Players : conn[p] # None}

Occupied(p) == p = Host \/ occupied

\* A connection id nobody uses (ids are fresh UUIDs).
Fresh(c) ==
  /\ stage[c] = "free"
  /\ c \notin inOpen
  /\ \A p \in Players : c \notin {conn[p], inp[p], inTok[p]}

\* bump_room_epoch and bump_session_epoch, within the bounds of the model.
BumpRoomEpoch == roomEpoch < MaxRoomEpoch /\ roomEpoch' = roomEpoch + 1
BumpSessionEpoch == sessionEpoch < MaxSessionEpoch /\ sessionEpoch' = sessionEpoch + 1
KeepEpochs == UNCHANGED <<roomEpoch, sessionEpoch>>

-----------------------------------------------------------------------------
\* The room as create_room leaves it: the host slot is held by the connection id
\* of the HTTP request, which no socket serves.
Init ==
  /\ present = TRUE
  /\ status = "WaitingForGuest"
  /\ roomEpoch = 1 /\ sessionEpoch = 1
  /\ pin = "none"
  /\ occupied = FALSE
  /\ \E c \in Conns : /\ conn = [p \in Players |-> IF p = Host THEN c ELSE None]
                      /\ inTok = [p \in Players |-> IF p = Host THEN c ELSE None]
  /\ inp = [p \in Players |-> None]
  /\ recDl = [p \in Players |-> "none"]
  /\ recEpoch = [p \in Players |-> 0]
  /\ handoff = [p \in Players |-> "none"]
  /\ stage = [c \in Conns |-> "free"]
  /\ inOpen = {}
  /\ idle = FALSE
  /\ joinWindow = FALSE

\* The slot fields a newly attached control connection c gets: fresh tokens
\* bound to c, no input socket, no deadline.
SeatConnection(p, c) ==
  /\ conn' = [conn EXCEPT ![p] = c]
  /\ inp' = [inp EXCEPT ![p] = None]
  /\ inTok' = [inTok EXCEPT ![p] = c]
  /\ recDl' = [recDl EXCEPT ![p] = "none"]
  /\ handoff' = [handoff EXCEPT ![p] = "none"]
  /\ idle' = FALSE

\* The reconnect epochs once the room is back in compatibility checking: the
\* connected slots forget theirs unless a handoff marker still needs it.
RestoreCheckingCompatibility(epochs) ==
  /\ status' = "CheckingCompatibility"
  /\ pin' = "none"
  /\ recEpoch' = [p \in Players |->
                    IF conn'[p] # None /\ handoff'[p] = "none" THEN 0 ELSE epochs[p]]

\* A control socket joins with role=host; h says that it asks for a runner handoff.
AttachHost(c, h) ==
  /\ present /\ Fresh(c)
  /\ status # "Closed"
  /\ SeatConnection(Host, c)
  /\ recEpoch' = [recEpoch EXCEPT ![Host] = 0]
  /\ stage' = [stage EXCEPT ![c] = IF h THEN "arm" ELSE "open"]
  /\ UNCHANGED <<present, room, occupied, inOpen, joinWindow>>

\* A control socket joins with role=guest and takes the empty slot.
JoinGuest(c, h) ==
  /\ present /\ Fresh(c)
  /\ status # "Closed"
  /\ ~occupied
  /\ occupied' = TRUE
  /\ SeatConnection(Guest, c)
  /\ BumpRoomEpoch /\ BumpSessionEpoch
  /\ RestoreCheckingCompatibility(recEpoch)
  /\ stage' = [stage EXCEPT ![c] = IF h THEN "arm" ELSE "open"]
  /\ UNCHANGED <<present, inOpen, joinWindow>>

HandoffRefusedIn == {"Closed", "StartScheduled", "Playing", "Paused", "Recovering"}

\* The second critical section of a join with runnerHandoff=true.
ArmRunnerHandoff(c) ==
  /\ present /\ stage[c] = "arm"
  /\ status \notin HandoffRefusedIn
  /\ \E p \in Players :
       /\ conn[p] = c
       /\ handoff' = [handoff EXCEPT ![p] = "armed"]
       /\ recEpoch' = [recEpoch EXCEPT ![p] = roomEpoch]
  /\ stage' = [stage EXCEPT ![c] = "send"]
  /\ UNCHANGED <<present, room, occupied, conn, inp, inTok, recDl, inOpen, idle, joinWindow>>

\* The same section refusing: the socket goes straight to its disconnect.
ArmRefused(c) ==
  /\ present /\ stage[c] = "arm"
  /\ status \in HandoffRefusedIn \/ \A p \in Players : conn[p] # c
  /\ stage' = [stage EXCEPT ![c] = "closing"]
  /\ UNCHANGED <<present, room, slots, inOpen, idle, joinWindow>>

DeliverRoomJoined(c) ==
  /\ present /\ stage[c] = "send"
  /\ stage' = [stage EXCEPT ![c] = "open"]
  /\ UNCHANGED <<present, room, slots, inOpen, idle, joinWindow>>

\* RoomJoined could not be delivered: the handoff is cancelled and the socket closes.
CancelRunnerHandoff(c) ==
  /\ present /\ stage[c] = "send"
  /\ handoff' = [p \in Players |-> IF conn[p] = c THEN "none" ELSE handoff[p]]
  /\ recEpoch' = [p \in Players |-> IF conn[p] = c THEN 0 ELSE recEpoch[p]]
  /\ stage' = [stage EXCEPT ![c] = "closing"]
  /\ UNCHANGED <<present, room, occupied, conn, inp, inTok, recDl, inOpen, idle, joinWindow>>

\* A client presents slot p's resume token over a fresh control socket c: a runner
\* claiming a handed-off slot, or a player coming back within the grace period.
\* A client that knows the token can always name an accepted epoch.
ReconnectPlayer(p, c) ==
  /\ present /\ Fresh(c)
  /\ status # "Closed"
  /\ Occupied(p)
  /\ handoff[p] # "none" \/ (conn[p] = None /\ recDl[p] # "none")
  /\ recDl[p] # "elapsed" /\ handoff[p] # "elapsed"
  /\ SeatConnection(p, c)
  /\ \/ /\ handoff[p] # "none"
        /\ recEpoch' = [recEpoch EXCEPT ![p] = 0]
        /\ UNCHANGED <<status, pin>>
     \/ /\ handoff[p] = "none"
        /\ RestoreCheckingCompatibility([recEpoch EXCEPT ![p] = 0])
  /\ stage' = [stage EXCEPT ![c] = "open"]
  /\ UNCHANGED <<present, roomEpoch, sessionEpoch, occupied, inOpen, joinWindow>>

\* An input socket presents the token issued to control connection c.
ConnectInputSocket(p, c) ==
  /\ present
  /\ status # "Closed"
  /\ stage[c] = "open" /\ c \notin inOpen
  /\ inTok[p] = c
  /\ conn[p] # None /\ inTok[p] = conn[p]
  /\ inp[p] = None
  /\ inTok' = [inTok EXCEPT ![p] = None]
  /\ inp' = [inp EXCEPT ![p] = c]
  /\ inOpen' = inOpen \cup {c}
  /\ UNCHANGED <<present, room, occupied, conn, recDl, recEpoch, handoff, stage, idle, joinWindow>>

-----------------------------------------------------------------------------
Recoverable == {"StartScheduled", "Playing", "Paused", "RepairingState", "Recovering"}

\* Mutant of VacateSlots: the unused input token survives its connection.
VacateSlotsKeepingToken(lost) ==
  /\ conn' = [p \in Players |-> IF p \in lost THEN None ELSE conn[p]]
  /\ inp' = [p \in Players |-> IF p \in lost THEN None ELSE inp[p]]
  /\ UNCHANGED inTok

\* Every slot field that a lost control connection takes with it.
VacateSlots(lost) ==
  /\ conn' = [p \in Players |-> IF p \in lost THEN None ELSE conn[p]]
  /\ inp' = [p \in Players |-> IF p \in lost THEN None ELSE inp[p]]
  /\ inTok' = [p \in Players |-> IF p \in lost THEN None ELSE inTok[p]]

\* The room enters Recovering; the players still there keep their recorded
\* reconnect epoch or get the epoch that is being left.
EnterRecovery(lost, epoch) ==
  /\ status' = "Recovering"
  /\ pin' = "none"
  /\ BumpRoomEpoch /\ BumpSessionEpoch
  /\ recEpoch' = [p \in Players |->
                    IF p \in lost \/ (conn[p] # None /\ recEpoch[p] = 0)
                    THEN epoch ELSE recEpoch[p]]

\* disconnect_with_recovery while the handoff window of slot p is open.
PreserveHandoff(p) ==
  /\ handoff[p] = "armed"
  /\ VacateSlots({p})
  /\ recDl' = [recDl EXCEPT ![p] = "none"]
  /\ recEpoch' = [recEpoch EXCEPT ![p] = roomEpoch]
  /\ pin' = "none"
  /\ UNCHANGED <<present, status, roomEpoch, sessionEpoch, occupied, handoff>>

\* disconnect_with_recovery once gameplay has been scheduled.
LoseToRecovery(p) ==
  /\ handoff[p] # "armed"
  /\ status \in Recoverable
  /\ VacateSlots({p})
  /\ recDl' = [recDl EXCEPT ![p] = "armed"]
  /\ handoff' = [handoff EXCEPT ![p] = "none"]
  /\ IF status = "Recovering"
     THEN /\ recEpoch' = [recEpoch EXCEPT ![p] = IF @ # 0 THEN @ ELSE roomEpoch - 1]
          /\ UNCHANGED room
     ELSE EnterRecovery({p}, IF recEpoch[p] # 0 THEN recEpoch[p] ELSE roomEpoch)
  /\ UNCHANGED <<present, occupied>>

\* Mutant of LeaveSlot: a guest who leaves keeps the slot occupied.
LeaveSlotOccupied(p) ==
  /\ handoff[p] # "armed"
  /\ status \notin Recoverable
  /\ VacateSlots({p})
  /\ recDl' = [recDl EXCEPT ![p] = "none"]
  /\ recEpoch' = [recEpoch EXCEPT ![p] = 0]
  /\ handoff' = [handoff EXCEPT ![p] = "none"]
  /\ pin' = "none"
  /\ IF p = Host
     THEN status' = "Closed" /\ present' = FALSE
     ELSE status' = "WaitingForGuest" /\ UNCHANGED present
  /\ UNCHANGED occupied
  /\ KeepEpochs

\* disconnect_with_recovery before gameplay: the host takes the room with it, the
\* guest frees the slot.
LeaveSlot(p) ==
  /\ handoff[p] # "armed"
  /\ status \notin Recoverable
  /\ VacateSlots({p})
  /\ recDl' = [recDl EXCEPT ![p] = "none"]
  /\ recEpoch' = [recEpoch EXCEPT ![p] = 0]
  /\ handoff' = [handoff EXCEPT ![p] = "none"]
  /\ pin' = "none"
  /\ IF p = Host
     THEN status' = "Closed" /\ present' = FALSE /\ UNCHANGED occupied
     ELSE status' = "WaitingForGuest" /\ occupied' = FALSE /\ UNCHANGED present
  /\ KeepEpochs

LoseControl(p) == PreserveHandoff(p) \/ LoseToRecovery(p) \/ LeaveSlot(p)

\* The task of control socket c ends.  A socket whose slot has been taken over
\* in the meantime is unknown to the room.
Disconnect(c) ==
  /\ present /\ stage[c] \in {"open", "closing"}
  /\ \/ \E p \in Players : conn[p] = c /\ LoseControl(p)
     \/ /\ \A p \in Players : conn[p] # c
        /\ UNCHANGED <<present, room, slots>>
  /\ stage' = [stage EXCEPT ![c] = "free"]
  /\ UNCHANGED <<inOpen, idle, joinWindow>>

InputLossRecovers == {"StartScheduled", "Playing", "Paused", "Recovering"}

\* The task of input socket c ends.  During gameplay the slot's control
\* connection is given up with it, although its socket is still open.
DisconnectInputSocket(c) ==
  /\ present /\ c \in inOpen
  /\ \/ \E p \in Players :
          /\ inp[p] = c
          /\ \/ /\ status \in InputLossRecovers
                /\ conn[p] # None
                /\ LoseControl(p)
             \/ /\ status \notin InputLossRecovers \/ conn[p] = None
                /\ inp' = [inp EXCEPT ![p] = None]
                /\ inTok' = [inTok EXCEPT ![p] = None]
                /\ UNCHANGED <<present, room, occupied, conn, recDl, recEpoch, handoff>>
     \/ /\ \A p \in Players : inp[p] # c
        /\ UNCHANGED <<present, room, slots>>
  /\ inOpen' = inOpen \ {c}
  /\ UNCHANGED <<stage, idle, joinWindow>>

\* One player leaves on purpose: the room is closed but stays in the registry.
PlayerExited(c) ==
  /\ present /\ stage[c] = "open"
  /\ \E p \in Players : conn[p] = c
  /\ status' = "Closed"
  /\ pin' = "none"
  /\ VacateSlots(Players)
  /\ recDl' = [p \in Players |-> "none"]
  /\ recEpoch' = [p \in Players |-> 0]
  /\ handoff' = [p \in Players |-> "none"]
  /\ KeepEpochs
  /\ UNCHANGED <<present, occupied, sockets, idle, joinWindow>>

-----------------------------------------------------------------------------
\* Mutants of Expired: one of the sweeper's rules is missing.
ExpiredWithoutIdleRule ==
  \/ status = "WaitingForGuest" /\ joinWindow
  \/ status = "Recovering" /\ \E p \in Players : recDl[p] = "elapsed"

ExpiredWithoutRecoveryRule ==
  \/ status = "WaitingForGuest" /\ joinWindow
  \/ Connected = {} /\ idle

\* is_expired_waiting, is_expired_recovery and is_idle_disconnected.
Expired ==
  \/ status = "WaitingForGuest" /\ joinWindow
  \/ status = "Recovering" /\ \E p \in Players : recDl[p] = "elapsed"
  \/ Connected = {} /\ idle

RemoveRoom ==
  /\ present' = FALSE
  /\ UNCHANGED <<room, slots, sockets, idle, joinWindow>>

HostHandoffExpired == handoff[Host] = "elapsed" /\ conn[Host] = None
GuestHandoffExpired == handoff[Guest] = "elapsed" /\ conn[Guest] = None
HeartbeatGuarded == {"StartScheduled", "Playing", "Paused", "RepairingState"}

\* Mutant of SweepCloses: the sweep forgets the repair deadline.
SweepClosesForHandoffOnly ==
  /\ present
  /\ HostHandoffExpired
  /\ RemoveRoom

\* The sweep closes the room outright: the host did not pin the repair state in
\* time, or a handed-off host slot was not claimed in time.
SweepCloses ==
  /\ present
  /\ pin = "elapsed" \/ HostHandoffExpired
  /\ RemoveRoom

\* The sweep frees a handed-off guest slot that was not claimed in time.
SweepFreesGuest ==
  /\ present /\ pin # "elapsed" /\ ~HostHandoffExpired
  /\ GuestHandoffExpired
  /\ status' = "WaitingForGuest"
  /\ pin' = "none"
  /\ occupied' = FALSE
  /\ VacateSlots({Guest})
  /\ recDl' = [recDl EXCEPT ![Guest] = "none"]
  /\ recEpoch' = [recEpoch EXCEPT ![Guest] = 0]
  /\ handoff' = [p \in Players |-> IF handoff[p] = "elapsed" THEN "none" ELSE handoff[p]]
  /\ KeepEpochs
  /\ UNCHANGED <<sockets, idle, joinWindow>>
  /\ present' = ~Expired'

\* Any other sweep: expired markers of connected slots are dropped, players whose
\* heartbeat timed out (silent) lose their connection.
SweepStale(silent) ==
  /\ present /\ pin # "elapsed" /\ ~HostHandoffExpired /\ ~GuestHandoffExpired
  /\ silent \subseteq Connected
  /\ IF status \in HeartbeatGuarded /\ silent # {}
     THEN /\ VacateSlots(silent)
          /\ recDl' = [p \in Players |-> IF p \in silent THEN "armed" ELSE recDl[p]]
          /\ EnterRecovery(silent, roomEpoch)
     ELSE UNCHANGED <<room, conn, inp, inTok, recDl, recEpoch>>
  /\ handoff' = [p \in Players |->
                   IF handoff[p] = "elapsed" \/ (status \in HeartbeatGuarded /\ p \in silent)
                   THEN "none" ELSE handoff[p]]
  /\ UNCHANGED <<occupied, sockets, idle, joinWindow>>
  /\ present' = ~Expired'

Sweep == SweepCloses \/ SweepFreesGuest \/ \E silent \in SUBSET Players : SweepStale(silent)

\* Time passes a deadline.
ReconnectGraceElapses(p) ==
  /\ present /\ recDl[p] = "armed"
  /\ recDl' = [recDl EXCEPT ![p] = "elapsed"]
  /\ UNCHANGED <<present, room, occupied, conn, inp, inTok, recEpoch, handoff, sockets, idle, joinWindow>>

HandoffGraceElapses(p) ==
  /\ present /\ handoff[p] = "armed"
  /\ handoff' = [handoff EXCEPT ![p] = "elapsed"]
  /\ UNCHANGED <<present, room, occupied, conn, inp, inTok, recDl, recEpoch, sockets, idle, joinWindow>>

PinWindowElapses ==
  /\ present /\ pin = "armed"
  /\ pin' = "elapsed"
  /\ UNCHANGED <<present, status, roomEpoch, sessionEpoch, slots, sockets, idle, joinWindow>>

JoinWindowElapses ==
  /\ present /\ ~joinWindow
  /\ joinWindow' = TRUE
  /\ UNCHANGED <<present, room, slots, sockets, idle>>

IdleTimeoutElapses ==
  /\ present /\ Connected = {} /\ ~idle
  /\ idle' = TRUE
  /\ UNCHANGED <<present, room, slots, sockets, joinWindow>>

TimePasses ==
  \/ \E p \in Players : ReconnectGraceElapses(p) \/ HandoffGraceElapses(p)
  \/ PinWindowElapses \/ JoinWindowElapses \/ IdleTimeoutElapses

-----------------------------------------------------------------------------
\* What the in-room operations may do to the status, the session epoch and the
\* repair deadline.
SessionFrame ==
  /\ present
  /\ UNCHANGED <<present, roomEpoch, slots, sockets, idle, joinWindow>>

SessionCompatibility ==
  /\ SessionFrame
  /\ status # "Closed" /\ Connected # {}
  /\ \/ status' = "CheckingCompatibility"
     \/ Connected = Players /\ status' = "SyncingState"
  /\ UNCHANGED <<sessionEpoch, pin>>

SessionReady ==
  /\ SessionFrame
  /\ status \in {"SyncingState", "Ready"}
  /\ Connected = Players /\ \A p \in Players : inp[p] # None
  /\ \/ status' = "Ready" /\ UNCHANGED pin
     \/ status' = "Playing" /\ pin' = "none"
  /\ UNCHANGED sessionEpoch

SessionSchedule ==
  /\ SessionFrame
  /\ Connected = Players
  /\ status' = "StartScheduled"
  /\ UNCHANGED <<sessionEpoch, pin>>

SessionStarts ==
  /\ SessionFrame
  /\ status = "StartScheduled"
  /\ status' = "Playing"
  /\ pin' = "none"
  /\ UNCHANGED sessionEpoch

SessionPause ==
  /\ SessionFrame
  /\ Connected # {}
  /\ \/ status' = "Paused" /\ UNCHANGED sessionEpoch
     \/ status' = "StartScheduled" /\ BumpSessionEpoch
  /\ UNCHANGED pin

SessionRepair ==
  /\ SessionFrame
  /\ status \in {"Playing", "Paused"}
  /\ Connected # {}
  /\ status' \in {"RepairingState", "Closed"}
  /\ pin' = "armed"
  /\ UNCHANGED sessionEpoch

SessionCommit ==
  /\ SessionFrame
  /\ status = "RepairingState"
  /\ status' = "CheckingCompatibility"
  /\ pin' = "none"
  /\ BumpSessionEpoch

SessionStep ==
  \/ SessionCompatibility \/ SessionReady \/ SessionSchedule \/ SessionStarts
  \/ SessionPause \/ SessionRepair \/ SessionCommit

-----------------------------------------------------------------------------
SocketStep ==
  \E c \in Conns :
    \/ \E h \in BOOLEAN : AttachHost(c, h) \/ JoinGuest(c, h)
    \/ ArmRunnerHandoff(c) \/ ArmRefused(c)
    \/ DeliverRoomJoined(c) \/ CancelRunnerHandoff(c)
    \/ \E p \in Players : ReconnectPlayer(p, c) \/ ConnectInputSocket(p, c)
    \/ Disconnect(c) \/ DisconnectInputSocket(c) \/ PlayerExited(c)

Next == SocketStep \/ Sweep \/ TimePasses \/ SessionStep

\* The sweeper is a periodic task, deadlines are absolute times of a monotonic
\* clock; nothing else is promised to happen.
Fairness ==
  /\ WF_lifecycleVars(Sweep)
  /\ WF_lifecycleVars(IdleTimeoutElapses)
  /\ \A p \in Players : WF_lifecycleVars(ReconnectGraceElapses(p))

SafetySpec == Init /\ [][Next]_lifecycleVars
Spec == SafetySpec /\ Fairness

-----------------------------------------------------------------------------
(* Properties.                                                             *)

\* An input capability or an attached input socket always belongs to the control
\* connection that owns the slot now, a slot never holds both, and no connection
\* sits in two slots.  attach_input_socket, reconnect_player, attach_host and every
\* disconnect path must clear and rebind the three fields together for this.
CapabilityBinding ==
  /\ \A p \in Players :
       /\ inTok[p] \in {None, conn[p]}
       /\ inp[p] \in {None, conn[p]}
       /\ inTok[p] = None \/ inp[p] = None
  /\ conn[Host] = conn[Guest] => conn[Host] = None

\* A slot never waits under two rules at once: a reconnect deadline runs only for a
\* slot without a control connection and without a handoff marker, and an empty
\* guest slot holds nothing (mark_slot_reconnecting, preserve_runner_handoff_disconnect,
\* clear_disconnected_slot).
DeadlineDiscipline ==
  /\ \A p \in Players : recDl[p] # "none" => conn[p] = None /\ handoff[p] = "none"
  /\ ~occupied => /\ conn[Guest] = None /\ recEpoch[Guest] = 0
                  /\ recDl[Guest] = "none" /\ handoff[Guest] = "none"

\* As long as the room is open, an occupied slot that lost its control connection
\* can be claimed back under some deadline: none is orphaned by an interleaving of
\* disconnects, handoffs, reconnects and sweeps.
NoOrphanSlot ==
  \A p \in Players :
    (present /\ Occupied(p) /\ conn[p] = None) =>
      \/ recDl[p] # "none" \/ handoff[p] # "none"
      \/ status = "Closed" /\ Connected = {}

\* What a step may do to the epochs.
EpochOrder ==
  /\ roomEpoch' \in {roomEpoch, roomEpoch + 1}
  /\ sessionEpoch' \in {sessionEpoch, sessionEpoch + 1}
  /\ roomEpoch' # roomEpoch => sessionEpoch' # sessionEpoch
  /\ (status' = "Recovering" /\ status # "Recovering") \/ (occupied' /\ ~occupied)
       => roomEpoch' # roomEpoch

\* Epochs never go back, the room epoch never moves without the session epoch,
\* and whoever enters Recovering or takes the guest slot leaves both epochs behind
\* (enter_recovery_state, reset_sync_for_checking_compatibility).
EpochFence == [][EpochOrder]_lifecycleVars

\* A room nobody is connected to does not stay in the registry: somebody comes
\* back or the sweeper removes it (is_idle_disconnected, is_expired_recovery).
AbandonedRoomIsRemoved ==
  (present /\ Connected = {}) ~> (~present \/ Connected # {})

\* A lost player holds a recovering room only for the grace period: the slot is
\* claimed back, the room leaves Recovering, or the sweeper removes it.
RecoveryIsBounded ==
  \A p \in Players :
    (present /\ status = "Recovering" /\ recDl[p] # "none")
      ~> (~present \/ status # "Recovering" \/ recDl[p] = "none")

=============================================================================
