------------------------- MODULE RoomSessionProofs -------------------------
(***************************************************************************)
(* What holds of a room for every set of connections and every bound.      *)
(*                                                                         *)
(* First, the membership (RoomLifecycle).  Each lemma shows that one       *)
(* conjunct of the inductive invariant survives every step; the theorems   *)
(* combine them.  CapabilityBinding and DeadlineDiscipline are inductive   *)
(* given the types; NoOrphanSlot is not: a slot without connection and     *)
(* without deadline must be known to sit in a room that a player closed on *)
(* purpose, with no other deadline running that could reopen it.           *)
(*                                                                         *)
(* Second, RoomSession implements RoomLifecycle under the identity mapping:*)
(* each step of the full room is a membership action, one of the Session*  *)
(* steps, or leaves the membership alone.  What is shown of the membership *)
(* therefore holds of the full room.                                       *)
(*                                                                         *)
(* Third, the full room is type correct.                                   *)
(*                                                                         *)
(* Fourth, wherever handed-off players are lost in time (HandedOffInTime), *)
(* SessionInv is an inductive invariant of the room.  It gives the safety  *)
(* invariants of the start, the pause and the repair, and that the room    *)
(* implements FrameRelease.  A room without runner handoffs meets the      *)
(* premise by itself.                                                      *)
(***************************************************************************)
EXTENDS RoomSession, TLAPS

-----------------------------------------------------------------------------
(* The membership.                                                         *)

\* The room create_room registers is well typed.
LEMMA TypeInit == Init => TypeOK
<1> SUFFICES ASSUME Init PROVE TypeOK
  OBVIOUS
<1>1. PICK c \in Conns : /\ conn = [p \in Players |-> IF p = Host THEN c ELSE None]
                         /\ inTok = [p \in Players |-> IF p = Host THEN c ELSE None]
  BY DEF Init
<1>2. conn \in [Players -> Conns \cup {None}] /\ inTok \in [Players -> Conns \cup {None}]
  BY <1>1
<1>3. present \in BOOLEAN /\ occupied \in BOOLEAN /\ idle \in BOOLEAN /\ joinWindow \in BOOLEAN
  BY Zenon DEF Init
<1>4. roomEpoch \in 1..MaxRoomEpoch /\ sessionEpoch \in 1..MaxSessionEpoch /\ recEpoch \in [Players -> 0..MaxRoomEpoch]
  BY BoundsAssumption DEF Init
<1>5. status \in Statuses /\ pin \in Deadlines /\ inp \in [Players -> Conns \cup {None}]
  BY DEF Init, Statuses, Deadlines
<1>6. /\ recDl \in [Players -> Deadlines] /\ handoff \in [Players -> Deadlines]
      /\ stage \in [Conns -> Stages] /\ inOpen \subseteq Conns
  BY DEF Init, Stages, Deadlines
<1> QED
  BY <1>2, <1>3, <1>4, <1>5, <1>6 DEF TypeOK

\* The strengthening of NoOrphanSlot: a slot nobody can claim back only exists after
\* player_exited, which leaves no connection and no deadline anywhere.
OrphanOnlyAfterExit ==
  \A p \in Players :
    (present /\ Occupied(p) /\ conn[p] = None /\ recDl[p] = "none" /\ handoff[p] = "none") =>
      /\ status = "Closed" /\ Connected = {}
      /\ \A q \in Players : recDl[q] = "none" /\ handoff[q] = "none"

\* The Boolean part of TypeOK, and the rest of it (the provers treat them apart).
Flags == present \in BOOLEAN /\ occupied \in BOOLEAN /\ idle \in BOOLEAN /\ joinWindow \in BOOLEAN

DataTypes ==
  /\ status \in Statuses /\ pin \in Deadlines
  /\ roomEpoch \in 1..MaxRoomEpoch /\ sessionEpoch \in 1..MaxSessionEpoch
  /\ conn \in [Players -> Conns \cup {None}]
  /\ inp \in [Players -> Conns \cup {None}]
  /\ inTok \in [Players -> Conns \cup {None}]
  /\ recDl \in [Players -> Deadlines]
  /\ recEpoch \in [Players -> 0..MaxRoomEpoch]
  /\ handoff \in [Players -> Deadlines]
  /\ stage \in [Conns -> Stages] /\ inOpen \subseteq Conns

\* The two slots are players.
LEMMA HostAndGuest == Host \in Players /\ Guest \in Players
  BY DEF Players

\* Every literal the actions assign is a member of its type.
LEMMA Literals ==
  /\ {"WaitingForGuest", "CheckingCompatibility", "SyncingState", "Ready", "StartScheduled",
      "Playing", "Paused", "RepairingState", "Recovering", "Closed"} \subseteq Statuses
  /\ "none" \in Deadlines /\ "armed" \in Deadlines /\ "elapsed" \in Deadlines
  /\ "free" \in Stages /\ "arm" \in Stages /\ "send" \in Stages
  /\ "open" \in Stages /\ "closing" \in Stages
  BY DEF Statuses, Deadlines, Stages

\* Every step keeps the types.
LEMMA TypeStep ==
  ASSUME TypeOK, [Next]_lifecycleVars
  PROVE  TypeOK'
<1> USE HostAndGuest, Literals, BoundsAssumption DEF TypeOK
<1>1. ASSUME NEW c \in Conns, NEW h \in BOOLEAN, AttachHost(c, h)
      PROVE TypeOK'
  <2>1. Flags'
    BY <1>1, Zenon DEF Flags, AttachHost, SeatConnection, Fresh, room
  <2>2. DataTypes'
    BY <1>1 DEF DataTypes, AttachHost, SeatConnection, Fresh, room
  <2> QED
    BY <2>1, <2>2 DEF Flags, DataTypes
<1>2. ASSUME NEW c \in Conns, NEW h \in BOOLEAN, JoinGuest(c, h)
      PROVE TypeOK'
  <2>1. Flags'
    BY <1>2, Zenon DEF Flags, JoinGuest, SeatConnection, RestoreCheckingCompatibility, BumpRoomEpoch, BumpSessionEpoch, Fresh
  <2>2. DataTypes'
    BY <1>2 DEF DataTypes, JoinGuest, SeatConnection, RestoreCheckingCompatibility, BumpRoomEpoch, BumpSessionEpoch, Fresh
  <2> QED
    BY <2>1, <2>2 DEF Flags, DataTypes
<1>3. ASSUME NEW c \in Conns, ArmRunnerHandoff(c)
      PROVE TypeOK'
  BY <1>3 DEF ArmRunnerHandoff, room
<1>4. ASSUME NEW c \in Conns, ArmRefused(c)
      PROVE TypeOK'
  BY <1>4 DEF ArmRefused, room, slots
<1>5. ASSUME NEW c \in Conns, DeliverRoomJoined(c)
      PROVE TypeOK'
  BY <1>5 DEF DeliverRoomJoined, room, slots
<1>6. ASSUME NEW c \in Conns, CancelRunnerHandoff(c)
      PROVE TypeOK'
  BY <1>6 DEF CancelRunnerHandoff, room
<1>7. ASSUME NEW c \in Conns, NEW p \in Players, ReconnectPlayer(p, c)
      PROVE TypeOK'
  <2>1. Flags'
    BY <1>7, Zenon DEF Flags, ReconnectPlayer, SeatConnection, RestoreCheckingCompatibility, Fresh, Occupied
  <2>2. DataTypes'
    BY <1>7 DEF DataTypes, ReconnectPlayer, SeatConnection, RestoreCheckingCompatibility, Fresh, Occupied
  <2> QED
    BY <2>1, <2>2 DEF Flags, DataTypes
<1>8. ASSUME NEW c \in Conns, NEW p \in Players, ConnectInputSocket(p, c)
      PROVE TypeOK'
  BY <1>8, Zenon DEF ConnectInputSocket, room
<1>9. ASSUME NEW c \in Conns, Disconnect(c)
      PROVE TypeOK'
  <2>1. ASSUME NEW p \in Players, conn[p] = c, LoseControl(p)
        PROVE  TypeOK'
    <3>1. CASE PreserveHandoff(p)
      BY <1>9, <2>1, <3>1 DEF Disconnect, PreserveHandoff, VacateSlots
    <3>2. CASE LoseToRecovery(p)
      <4>1. /\ status' \in Statuses /\ pin' \in Deadlines
            /\ roomEpoch' \in 1..MaxRoomEpoch /\ sessionEpoch' \in 1..MaxSessionEpoch
        BY <3>2 DEF LoseToRecovery, EnterRecovery, BumpRoomEpoch, BumpSessionEpoch, room
      <4>2. recEpoch' \in [Players -> 0..MaxRoomEpoch]
        BY <3>2 DEF LoseToRecovery, EnterRecovery
      <4>3. /\ conn' \in [Players -> Conns \cup {None}] /\ inp' \in [Players -> Conns \cup {None}]
            /\ inTok' \in [Players -> Conns \cup {None}]
            /\ recDl' \in [Players -> Deadlines] /\ handoff' \in [Players -> Deadlines]
        BY <3>2 DEF LoseToRecovery, VacateSlots
      <4>4. stage' \in [Conns -> Stages] /\ inOpen' \subseteq Conns
        BY <1>9 DEF Disconnect
      <4>5. UNCHANGED <<present, occupied, idle, joinWindow>>
        BY <1>9, <3>2 DEF Disconnect, LoseToRecovery
      <4> QED
        BY <4>1, <4>2, <4>3, <4>4, <4>5
    <3>3. CASE LeaveSlot(p)
      <4>1. Flags'
        BY <1>9, <2>1, <3>3, Zenon DEF Flags, Disconnect, LeaveSlot, VacateSlots, KeepEpochs
      <4>2. /\ status' \in Statuses /\ pin' \in Deadlines
            /\ roomEpoch' \in 1..MaxRoomEpoch /\ sessionEpoch' \in 1..MaxSessionEpoch
        BY <3>3 DEF LeaveSlot, KeepEpochs
      <4>3. /\ conn' \in [Players -> Conns \cup {None}] /\ inp' \in [Players -> Conns \cup {None}]
            /\ inTok' \in [Players -> Conns \cup {None}] /\ recDl' \in [Players -> Deadlines]
            /\ recEpoch' \in [Players -> 0..MaxRoomEpoch] /\ handoff' \in [Players -> Deadlines]
        BY <3>3 DEF LeaveSlot, VacateSlots
      <4>4. stage' \in [Conns -> Stages] /\ inOpen' \subseteq Conns
        BY <1>9 DEF Disconnect
      <4> QED
        BY <4>1, <4>2, <4>3, <4>4 DEF Flags
    <3> QED
      BY <2>1, <3>1, <3>2, <3>3 DEF LoseControl
  <2>2. CASE UNCHANGED <<present, room, slots>>
    BY <1>9, <2>2 DEF Disconnect, room, slots
  <2> QED
    BY <1>9, <2>1, <2>2, Zenon DEF Disconnect
<1>10. ASSUME NEW c \in Conns, DisconnectInputSocket(c)
      PROVE TypeOK'
  <2>1. ASSUME NEW p \in Players, inp[p] = c, conn[p] # None, LoseControl(p)
        PROVE  TypeOK'
    <3>1. CASE PreserveHandoff(p)
      BY <1>10, <2>1, <3>1 DEF DisconnectInputSocket, PreserveHandoff, VacateSlots
    <3>2. CASE LoseToRecovery(p)
      <4>1. /\ status' \in Statuses /\ pin' \in Deadlines
            /\ roomEpoch' \in 1..MaxRoomEpoch /\ sessionEpoch' \in 1..MaxSessionEpoch
        BY <3>2 DEF LoseToRecovery, EnterRecovery, BumpRoomEpoch, BumpSessionEpoch, room
      <4>2. recEpoch' \in [Players -> 0..MaxRoomEpoch]
        BY <3>2 DEF LoseToRecovery, EnterRecovery
      <4>3. /\ conn' \in [Players -> Conns \cup {None}] /\ inp' \in [Players -> Conns \cup {None}]
            /\ inTok' \in [Players -> Conns \cup {None}]
            /\ recDl' \in [Players -> Deadlines] /\ handoff' \in [Players -> Deadlines]
        BY <3>2 DEF LoseToRecovery, VacateSlots
      <4>4. stage' \in [Conns -> Stages] /\ inOpen' \subseteq Conns
        BY <1>10 DEF DisconnectInputSocket
      <4>5. UNCHANGED <<present, occupied, idle, joinWindow>>
        BY <1>10, <3>2 DEF DisconnectInputSocket, LoseToRecovery
      <4> QED
        BY <4>1, <4>2, <4>3, <4>4, <4>5
    <3>3. CASE LeaveSlot(p)
      <4>1. Flags'
        BY <1>10, <2>1, <3>3, Zenon DEF Flags, DisconnectInputSocket, LeaveSlot, VacateSlots, KeepEpochs
      <4>2. /\ status' \in Statuses /\ pin' \in Deadlines
            /\ roomEpoch' \in 1..MaxRoomEpoch /\ sessionEpoch' \in 1..MaxSessionEpoch
        BY <3>3 DEF LeaveSlot, KeepEpochs
      <4>3. /\ conn' \in [Players -> Conns \cup {None}] /\ inp' \in [Players -> Conns \cup {None}]
            /\ inTok' \in [Players -> Conns \cup {None}] /\ recDl' \in [Players -> Deadlines]
            /\ recEpoch' \in [Players -> 0..MaxRoomEpoch] /\ handoff' \in [Players -> Deadlines]
        BY <3>3 DEF LeaveSlot, VacateSlots
      <4>4. stage' \in [Conns -> Stages] /\ inOpen' \subseteq Conns
        BY <1>10 DEF DisconnectInputSocket
      <4> QED
        BY <4>1, <4>2, <4>3, <4>4 DEF Flags
    <3> QED
      BY <2>1, <3>1, <3>2, <3>3 DEF LoseControl
  <2>2. ASSUME NEW p \in Players, inp[p] = c,
               inp' = [inp EXCEPT ![p] = None], inTok' = [inTok EXCEPT ![p] = None],
               UNCHANGED <<present, room, occupied, conn, recDl, recEpoch, handoff>>
        PROVE  TypeOK'
    BY <1>10, <2>2 DEF DisconnectInputSocket, room
  <2>3. CASE UNCHANGED <<present, room, slots>>
    BY <1>10, <2>3 DEF DisconnectInputSocket, room, slots
  <2> QED
    BY <1>10, <2>1, <2>2, <2>3, Zenon DEF DisconnectInputSocket
<1>11. ASSUME NEW c \in Conns, PlayerExited(c)
      PROVE TypeOK'
  BY <1>11 DEF PlayerExited, VacateSlots, KeepEpochs, sockets
<1>12. CASE SweepCloses
  BY <1>12, Zenon DEF SweepCloses, RemoveRoom, room, slots, sockets
<1>13. CASE SweepFreesGuest
  <2>1. Flags'
    BY <1>13, Zenon DEF Flags, SweepFreesGuest, VacateSlots, KeepEpochs, HostHandoffExpired, GuestHandoffExpired, sockets
  <2>2. DataTypes'
    BY <1>13 DEF DataTypes, SweepFreesGuest, VacateSlots, KeepEpochs, HostHandoffExpired, GuestHandoffExpired, sockets
  <2> QED
    BY <2>1, <2>2 DEF Flags, DataTypes
<1>14. ASSUME NEW silent \in SUBSET Players, SweepStale(silent)
      PROVE TypeOK'
  BY <1>14 DEF SweepStale, VacateSlots, EnterRecovery, BumpRoomEpoch, BumpSessionEpoch, HostHandoffExpired, GuestHandoffExpired, HeartbeatGuarded, room, sockets
<1>15. ASSUME NEW p \in Players, ReconnectGraceElapses(p)
      PROVE TypeOK'
  BY <1>15 DEF ReconnectGraceElapses, room, sockets
<1>16. ASSUME NEW p \in Players, HandoffGraceElapses(p)
      PROVE TypeOK'
  BY <1>16 DEF HandoffGraceElapses, room, sockets
<1>17. CASE PinWindowElapses \/ JoinWindowElapses \/ IdleTimeoutElapses
  BY <1>17, Zenon DEF PinWindowElapses, JoinWindowElapses, IdleTimeoutElapses, room, slots, sockets
<1>18. CASE SessionStep
  <2>1. UNCHANGED <<present, roomEpoch, slots, sockets, idle, joinWindow>>
    BY <1>18, Zenon DEF SessionStep, SessionFrame, SessionCompatibility, SessionReady, SessionSchedule, SessionStarts, SessionPause, SessionRepair, SessionCommit
  <2>2. sessionEpoch' = sessionEpoch \/ BumpSessionEpoch
    BY <1>18, Zenon DEF SessionStep, SessionCompatibility, SessionReady, SessionSchedule, SessionStarts, SessionPause, SessionRepair, SessionCommit
  <2>3. sessionEpoch' \in 1..MaxSessionEpoch
    BY <2>2, SMTT(30) DEF BumpSessionEpoch
  <2>4. status' \in Statuses /\ pin' \in Deadlines
    BY <1>18, SMTT(30) DEF SessionStep, SessionCompatibility, SessionReady, SessionSchedule, SessionStarts, SessionPause, SessionRepair, SessionCommit
  <2> QED
    BY <2>1, <2>3, <2>4, Zenon DEF slots, sockets
<1>19. CASE UNCHANGED lifecycleVars
  BY <1>19 DEF lifecycleVars, room, slots, sockets
<1> QED
  BY <1>1, <1>2, <1>3, <1>4, <1>5, <1>6, <1>7, <1>8, <1>9, <1>10, <1>11, <1>12, <1>13, <1>14, <1>15, <1>16, <1>17, <1>18, <1>19, Zenon
  DEF Next, SocketStep, Sweep, TimePasses

\* Every step keeps capabilities bound to the connection that owns the slot.
LEMMA BindingStep ==
  ASSUME TypeOK, CapabilityBinding, [Next]_lifecycleVars
  PROVE  CapabilityBinding'
<1> USE ConnsAssumption DEF TypeOK, CapabilityBinding, Players, Host, Guest
<1>1. ASSUME NEW c \in Conns, NEW h \in BOOLEAN, AttachHost(c, h)
      PROVE CapabilityBinding'
  BY <1>1 DEF AttachHost, SeatConnection, Fresh, room
<1>2. ASSUME NEW c \in Conns, NEW h \in BOOLEAN, JoinGuest(c, h)
      PROVE CapabilityBinding'
  BY <1>2 DEF JoinGuest, SeatConnection, RestoreCheckingCompatibility, BumpRoomEpoch, BumpSessionEpoch, Fresh
<1>3. ASSUME NEW c \in Conns, NEW p \in Players, ReconnectPlayer(p, c)
      PROVE CapabilityBinding'
  BY <1>3 DEF ReconnectPlayer, SeatConnection, RestoreCheckingCompatibility, Fresh, Occupied
<1>4. ASSUME NEW c \in Conns, NEW p \in Players, ConnectInputSocket(p, c)
      PROVE CapabilityBinding'
  BY <1>4, Zenon DEF ConnectInputSocket, room
<1>5. ASSUME NEW c \in Conns, Disconnect(c)
      PROVE CapabilityBinding'
  <2>1. ASSUME NEW p \in Players, conn[p] = c, LoseControl(p)
        PROVE  CapabilityBinding'
    <3>1. CASE PreserveHandoff(p)
      BY <1>5, <2>1, <3>1 DEF Disconnect, PreserveHandoff, VacateSlots
    <3>2. CASE LoseToRecovery(p)
      BY <1>5, <2>1, <3>2 DEF Disconnect, LoseToRecovery, VacateSlots, EnterRecovery, BumpRoomEpoch, BumpSessionEpoch, room
    <3>3. CASE LeaveSlot(p)
      BY <1>5, <2>1, <3>3 DEF Disconnect, LeaveSlot, VacateSlots, KeepEpochs
    <3> QED
      BY <2>1, <3>1, <3>2, <3>3 DEF LoseControl
  <2>2. CASE UNCHANGED <<present, room, slots>>
    BY <1>5, <2>2 DEF Disconnect, room, slots
  <2> QED
    BY <1>5, <2>1, <2>2, Zenon DEF Disconnect
<1>6. ASSUME NEW c \in Conns, DisconnectInputSocket(c)
      PROVE CapabilityBinding'
  <2>1. ASSUME NEW p \in Players, inp[p] = c, conn[p] # None, LoseControl(p)
        PROVE  CapabilityBinding'
    <3>1. CASE PreserveHandoff(p)
      BY <1>6, <2>1, <3>1 DEF DisconnectInputSocket, PreserveHandoff, VacateSlots
    <3>2. CASE LoseToRecovery(p)
      BY <1>6, <2>1, <3>2 DEF DisconnectInputSocket, LoseToRecovery, VacateSlots, EnterRecovery, BumpRoomEpoch, BumpSessionEpoch, room
    <3>3. CASE LeaveSlot(p)
      BY <1>6, <2>1, <3>3 DEF DisconnectInputSocket, LeaveSlot, VacateSlots, KeepEpochs
    <3> QED
      BY <2>1, <3>1, <3>2, <3>3 DEF LoseControl
  <2>2. ASSUME NEW p \in Players, inp[p] = c,
               inp' = [inp EXCEPT ![p] = None], inTok' = [inTok EXCEPT ![p] = None],
               UNCHANGED <<present, room, occupied, conn, recDl, recEpoch, handoff>>
        PROVE  CapabilityBinding'
    BY <1>6, <2>2 DEF DisconnectInputSocket, room
  <2>3. CASE UNCHANGED <<present, room, slots>>
    BY <1>6, <2>3 DEF DisconnectInputSocket, room, slots
  <2> QED
    BY <1>6, <2>1, <2>2, <2>3, Zenon DEF DisconnectInputSocket
<1>7. ASSUME NEW c \in Conns, PlayerExited(c)
      PROVE CapabilityBinding'
  BY <1>7 DEF PlayerExited, VacateSlots, KeepEpochs, sockets
<1>8. CASE SweepFreesGuest
  BY <1>8 DEF SweepFreesGuest, VacateSlots, KeepEpochs, HostHandoffExpired, GuestHandoffExpired, sockets
<1>9. ASSUME NEW silent \in SUBSET Players, SweepStale(silent)
      PROVE CapabilityBinding'
  BY <1>9 DEF SweepStale, VacateSlots, EnterRecovery, BumpRoomEpoch, BumpSessionEpoch, HostHandoffExpired, GuestHandoffExpired, HeartbeatGuarded, room, sockets
<1>10. CASE UNCHANGED <<conn, inp, inTok>>
  BY <1>10 DEF room, slots
<1> QED
  <2>1. ASSUME NEW c \in Conns,
               ArmRunnerHandoff(c) \/ ArmRefused(c) \/ DeliverRoomJoined(c) \/ CancelRunnerHandoff(c)
        PROVE  CapabilityBinding'
    BY <2>1, <1>10, Zenon DEF ArmRunnerHandoff, ArmRefused, DeliverRoomJoined, CancelRunnerHandoff, room, slots
  <2>2. CASE TimePasses
    BY <2>2, <1>10, Zenon DEF TimePasses, ReconnectGraceElapses, HandoffGraceElapses, PinWindowElapses,
       JoinWindowElapses, IdleTimeoutElapses, slots
  <2>3. CASE SessionStep
    BY <2>3, <1>10, Zenon DEF SessionStep, SessionFrame, SessionCompatibility, SessionReady, SessionSchedule,
       SessionStarts, SessionPause, SessionRepair, SessionCommit, slots
  <2>4. CASE SweepCloses \/ UNCHANGED lifecycleVars
    BY <2>4, <1>10, Zenon DEF SweepCloses, RemoveRoom, slots, lifecycleVars
  <2> QED
    BY <1>1, <1>2, <1>3, <1>4, <1>5, <1>6, <1>7, <1>8, <1>9, <2>1, <2>2, <2>3, <2>4, Zenon
    DEF Next, SocketStep, Sweep

\* Every step keeps reconnect deadlines and handoff markers apart.
LEMMA DeadlineStep ==
  ASSUME TypeOK, DeadlineDiscipline, [Next]_lifecycleVars
  PROVE  DeadlineDiscipline'
<1> USE ConnsAssumption DEF TypeOK, DeadlineDiscipline, Players, Host, Guest, Deadlines
<1>1. ASSUME NEW c \in Conns, NEW h \in BOOLEAN, AttachHost(c, h)
      PROVE DeadlineDiscipline'
  BY <1>1 DEF AttachHost, SeatConnection, Fresh, room
<1>2. ASSUME NEW c \in Conns, NEW h \in BOOLEAN, JoinGuest(c, h)
      PROVE DeadlineDiscipline'
  BY <1>2 DEF JoinGuest, SeatConnection, RestoreCheckingCompatibility, BumpRoomEpoch, BumpSessionEpoch, Fresh
<1>3. ASSUME NEW c \in Conns, ArmRunnerHandoff(c)
      PROVE DeadlineDiscipline'
  BY <1>3 DEF ArmRunnerHandoff, room
<1>4. ASSUME NEW c \in Conns, CancelRunnerHandoff(c)
      PROVE DeadlineDiscipline'
  BY <1>4 DEF CancelRunnerHandoff, room
<1>5. ASSUME NEW c \in Conns, NEW p \in Players, ReconnectPlayer(p, c)
      PROVE DeadlineDiscipline'
  BY <1>5 DEF ReconnectPlayer, SeatConnection, RestoreCheckingCompatibility, Fresh, Occupied
<1>6. ASSUME NEW c \in Conns, Disconnect(c)
      PROVE DeadlineDiscipline'
  <2>1. ASSUME NEW p \in Players, conn[p] = c, LoseControl(p)
        PROVE  DeadlineDiscipline'
    <3>1. CASE PreserveHandoff(p)
      BY <1>6, <2>1, <3>1 DEF Disconnect, PreserveHandoff, VacateSlots
    <3>2. CASE LoseToRecovery(p)
      BY <1>6, <2>1, <3>2 DEF Disconnect, LoseToRecovery, VacateSlots, EnterRecovery, BumpRoomEpoch, BumpSessionEpoch, room
    <3>3. CASE LeaveSlot(p)
      BY <1>6, <2>1, <3>3, Zenon DEF Disconnect, LeaveSlot, VacateSlots, KeepEpochs
    <3> QED
      BY <2>1, <3>1, <3>2, <3>3 DEF LoseControl
  <2>2. CASE UNCHANGED <<present, room, slots>>
    BY <1>6, <2>2 DEF Disconnect, room, slots
  <2> QED
    BY <1>6, <2>1, <2>2, Zenon DEF Disconnect
<1>7. ASSUME NEW c \in Conns, DisconnectInputSocket(c)
      PROVE DeadlineDiscipline'
  <2>1. ASSUME NEW p \in Players, inp[p] = c, conn[p] # None, LoseControl(p)
        PROVE  DeadlineDiscipline'
    <3>1. CASE PreserveHandoff(p)
      BY <1>7, <2>1, <3>1 DEF DisconnectInputSocket, PreserveHandoff, VacateSlots
    <3>2. CASE LoseToRecovery(p)
      BY <1>7, <2>1, <3>2 DEF DisconnectInputSocket, LoseToRecovery, VacateSlots, EnterRecovery, BumpRoomEpoch, BumpSessionEpoch, room
    <3>3. CASE LeaveSlot(p)
      BY <1>7, <2>1, <3>3, Zenon DEF DisconnectInputSocket, LeaveSlot, VacateSlots, KeepEpochs
    <3> QED
      BY <2>1, <3>1, <3>2, <3>3, SMTT(30) DEF LoseControl
  <2>2. ASSUME NEW p \in Players, inp[p] = c,
               inp' = [inp EXCEPT ![p] = None], inTok' = [inTok EXCEPT ![p] = None],
               UNCHANGED <<present, room, occupied, conn, recDl, recEpoch, handoff>>
        PROVE  DeadlineDiscipline'
    BY <1>7, <2>2 DEF DisconnectInputSocket, room
  <2>3. CASE UNCHANGED <<present, room, slots>>
    BY <1>7, <2>3 DEF DisconnectInputSocket, room, slots
  <2> QED
    BY <1>7, <2>1, <2>2, <2>3, Zenon DEF DisconnectInputSocket
<1>8. ASSUME NEW c \in Conns, PlayerExited(c)
      PROVE DeadlineDiscipline'
  BY <1>8 DEF PlayerExited, VacateSlots, KeepEpochs, sockets
<1>9. CASE SweepFreesGuest
  BY <1>9 DEF SweepFreesGuest, VacateSlots, KeepEpochs, HostHandoffExpired, GuestHandoffExpired, sockets
<1>10. ASSUME NEW silent \in SUBSET Players, SweepStale(silent)
      PROVE DeadlineDiscipline'
  <2>1. CASE status \in HeartbeatGuarded /\ silent # {}
    <3>1. \A p \in silent : conn[p] # None
      BY <1>10 DEF SweepStale, Connected
    <3>2. \A p \in Players : recDl'[p] # "none" => conn'[p] = None /\ handoff'[p] = "none"
      BY <1>10, <2>1 DEF SweepStale, VacateSlots
    <3>3. ASSUME ~occupied
          PROVE  /\ conn'[Guest] = None /\ recEpoch'[Guest] = 0
                 /\ recDl'[Guest] = "none" /\ handoff'[Guest] = "none"
      BY <1>10, <2>1, <3>1, <3>3 DEF SweepStale, VacateSlots, EnterRecovery
    <3> QED
      BY <1>10, <3>2, <3>3 DEF SweepStale
  <2>2. CASE ~(status \in HeartbeatGuarded /\ silent # {})
    BY <1>10, <2>2 DEF SweepStale
  <2> QED
    BY <2>1, <2>2
<1>11. ASSUME NEW p \in Players, ReconnectGraceElapses(p)
      PROVE DeadlineDiscipline'
  BY <1>11 DEF ReconnectGraceElapses, room, sockets
<1>12. ASSUME NEW p \in Players, HandoffGraceElapses(p)
      PROVE DeadlineDiscipline'
  BY <1>12 DEF HandoffGraceElapses, room, sockets
<1>13. CASE UNCHANGED <<occupied, conn, recDl, recEpoch, handoff>>
  BY <1>13 DEF room, slots
<1> QED
  BY <1>1, <1>2, <1>3, <1>4, <1>5, <1>6, <1>7, <1>8, <1>9, <1>10, <1>11, <1>12, <1>13, Zenon
  DEF Next, SocketStep, Sweep, TimePasses, ArmRefused, room, slots, DeliverRoomJoined, ConnectInputSocket, SweepCloses, RemoveRoom, sockets, PinWindowElapses, JoinWindowElapses, IdleTimeoutElapses, SessionStep, SessionFrame, SessionCompatibility, SessionReady, SessionSchedule, SessionStarts, SessionPause, SessionRepair, SessionCommit, lifecycleVars

\* No step orphans a slot of a room that is still open.
LEMMA OrphanStep ==
  ASSUME TypeOK, DeadlineDiscipline, OrphanOnlyAfterExit, [Next]_lifecycleVars
  PROVE  OrphanOnlyAfterExit'
<1> USE ConnsAssumption DEF TypeOK, DeadlineDiscipline, OrphanOnlyAfterExit, Connected, Occupied, Players, Host, Guest, Deadlines, Recoverable
<1>1. ASSUME NEW c \in Conns, NEW h \in BOOLEAN, AttachHost(c, h)
      PROVE OrphanOnlyAfterExit'
  BY <1>1 DEF AttachHost, SeatConnection, Fresh, room
<1>2. ASSUME NEW c \in Conns, NEW h \in BOOLEAN, JoinGuest(c, h)
      PROVE OrphanOnlyAfterExit'
  BY <1>2 DEF JoinGuest, SeatConnection, RestoreCheckingCompatibility, BumpRoomEpoch, BumpSessionEpoch, Fresh
<1>3. ASSUME NEW c \in Conns, ArmRunnerHandoff(c)
      PROVE OrphanOnlyAfterExit'
  BY <1>3 DEF ArmRunnerHandoff, room
<1>4. ASSUME NEW c \in Conns, CancelRunnerHandoff(c)
      PROVE OrphanOnlyAfterExit'
  BY <1>4 DEF CancelRunnerHandoff, room
<1>5. ASSUME NEW c \in Conns, NEW p \in Players, ReconnectPlayer(p, c)
      PROVE OrphanOnlyAfterExit'
  BY <1>5 DEF ReconnectPlayer, SeatConnection, RestoreCheckingCompatibility, Fresh, Occupied
<1>6. ASSUME NEW c \in Conns, Disconnect(c)
      PROVE OrphanOnlyAfterExit'
  <2>1. ASSUME NEW p \in Players, conn[p] = c, LoseControl(p)
        PROVE  OrphanOnlyAfterExit'
    <3>1. CASE PreserveHandoff(p)
      BY <1>6, <2>1, <3>1 DEF Disconnect, PreserveHandoff, VacateSlots
    <3>2. CASE LoseToRecovery(p)
      BY <1>6, <2>1, <3>2 DEF Disconnect, LoseToRecovery, VacateSlots, EnterRecovery, BumpRoomEpoch, BumpSessionEpoch, room
    <3>3. CASE LeaveSlot(p)
      BY <1>6, <2>1, <3>3 DEF Disconnect, LeaveSlot, VacateSlots, KeepEpochs
    <3> QED
      BY <2>1, <3>1, <3>2, <3>3, Zenon DEF LoseControl
  <2>2. CASE UNCHANGED <<present, room, slots>>
    BY <1>6, <2>2 DEF Disconnect, room, slots
  <2> QED
    BY <1>6, <2>1, <2>2 DEF Disconnect
<1>7. ASSUME NEW c \in Conns, DisconnectInputSocket(c)
      PROVE OrphanOnlyAfterExit'
  <2>1. ASSUME NEW p \in Players, inp[p] = c, conn[p] # None, LoseControl(p)
        PROVE  OrphanOnlyAfterExit'
    <3>1. CASE PreserveHandoff(p)
      BY <1>7, <2>1, <3>1 DEF DisconnectInputSocket, PreserveHandoff, VacateSlots
    <3>2. CASE LoseToRecovery(p)
      BY <1>7, <2>1, <3>2 DEF DisconnectInputSocket, LoseToRecovery, VacateSlots, EnterRecovery, BumpRoomEpoch, BumpSessionEpoch, room
    <3>3. CASE LeaveSlot(p)
      BY <1>7, <2>1, <3>3 DEF DisconnectInputSocket, LeaveSlot, VacateSlots, KeepEpochs
    <3> QED
      BY <2>1, <3>1, <3>2, <3>3 DEF LoseControl
  <2>2. ASSUME NEW p \in Players, inp[p] = c,
               inp' = [inp EXCEPT ![p] = None], inTok' = [inTok EXCEPT ![p] = None],
               UNCHANGED <<present, room, occupied, conn, recDl, recEpoch, handoff>>
        PROVE  OrphanOnlyAfterExit'
    BY <1>7, <2>2, SMTT(30) DEF DisconnectInputSocket, room
  <2>3. CASE UNCHANGED <<present, room, slots>>
    BY <1>7, <2>3 DEF DisconnectInputSocket, room, slots
  <2> QED
    BY <1>7, <2>1, <2>2, <2>3 DEF DisconnectInputSocket
<1>8. ASSUME NEW c \in Conns, PlayerExited(c)
      PROVE OrphanOnlyAfterExit'
  BY <1>8 DEF PlayerExited, VacateSlots, KeepEpochs, sockets
<1>9. CASE SweepCloses
  BY <1>9 DEF SweepCloses, RemoveRoom, room, slots, sockets
<1>10. CASE SweepFreesGuest
  BY <1>10 DEF SweepFreesGuest, VacateSlots, KeepEpochs, HostHandoffExpired, GuestHandoffExpired, sockets
<1>11. ASSUME NEW silent \in SUBSET Players, SweepStale(silent)
      PROVE OrphanOnlyAfterExit'
  <2>1. CASE status \in HeartbeatGuarded /\ silent # {}
    <3>1. status # "Closed" /\ UNCHANGED occupied
      BY <1>11, <2>1, Zenon DEF SweepStale, HeartbeatGuarded
    <3>2. ASSUME NEW p \in Players, conn'[p] = None, recDl'[p] = "none", handoff'[p] = "none"
          PROVE  conn[p] = None /\ recDl[p] = "none" /\ handoff[p] = "none"
      BY <1>11, <2>1, <3>2, SMTT(30) DEF SweepStale, VacateSlots, HostHandoffExpired, GuestHandoffExpired
    <3> QED
      BY <1>11, <3>1, <3>2, SMTT(30) DEF SweepStale
  <2>2. CASE ~(status \in HeartbeatGuarded /\ silent # {})
    <3>1. UNCHANGED <<status, occupied, conn, recDl>> /\ present
      BY <1>11, <2>2, Zenon DEF SweepStale, room
    <3>2. handoff' = [p \in Players |->
                        IF handoff[p] = "elapsed" \/ (status \in HeartbeatGuarded /\ p \in silent)
                        THEN "none" ELSE handoff[p]]
      BY <1>11, Zenon DEF SweepStale
    <3>3. ASSUME NEW p \in Players, conn[p] = None, handoff'[p] = "none" PROVE handoff[p] = "none"
      BY <1>11, <2>2, <3>2, <3>3 DEF SweepStale, HostHandoffExpired, GuestHandoffExpired
    <3>4. ASSUME NEW p \in Players, handoff[p] = "none" PROVE handoff'[p] = "none"
      BY <3>2, <3>4
    <3> QED
      BY <3>1, <3>3, <3>4
  <2> QED
    BY <2>1, <2>2
<1>12. ASSUME NEW p \in Players, ReconnectGraceElapses(p)
      PROVE OrphanOnlyAfterExit'
  BY <1>12 DEF ReconnectGraceElapses, room, sockets
<1>13. ASSUME NEW p \in Players, HandoffGraceElapses(p)
      PROVE OrphanOnlyAfterExit'
  BY <1>13 DEF HandoffGraceElapses, room, sockets
<1>14. CASE SessionStep
  BY <1>14, Zenon DEF SessionStep, SessionFrame, SessionCompatibility, SessionReady, SessionSchedule, SessionStarts, SessionPause, SessionRepair, SessionCommit, BumpSessionEpoch, slots, sockets
<1>15. CASE UNCHANGED <<present, status, occupied, conn, recDl, handoff>>
  BY <1>15 DEF room, slots
<1> QED
  BY <1>1, <1>2, <1>3, <1>4, <1>5, <1>6, <1>7, <1>8, <1>9, <1>10, <1>11, <1>12, <1>13, <1>14, <1>15, Zenon
  DEF Next, SocketStep, Sweep, TimePasses, ArmRefused, room, slots, DeliverRoomJoined, ConnectInputSocket, PinWindowElapses, JoinWindowElapses, IdleTimeoutElapses, sockets, lifecycleVars

\* Both epochs are numbers.
LEMMA EpochsAreNat == TypeOK => sessionEpoch \in Nat /\ roomEpoch \in Nat
  BY BoundsAssumption DEF TypeOK

\* An epoch below its bound has a next one.
LEMMA NextEpoch ==
  ASSUME NEW m \in Nat, NEW e \in 1 .. m, e < m
  PROVE  e + 1 \in 1 .. m
  OBVIOUS

\* A number is not the next one.
LEMMA NextDiffers == \A n \in Nat : n + 1 # n
  OBVIOUS

\* bump_session_epoch within its bound.
LEMMA NextSessionEpoch ==
  ASSUME TypeOK, BumpSessionEpoch
  PROVE  sessionEpoch + 1 \in 1 .. MaxSessionEpoch
<1>1. MaxSessionEpoch \in Nat
  BY BoundsAssumption
<1>2. sessionEpoch \in 1 .. MaxSessionEpoch /\ sessionEpoch < MaxSessionEpoch
  BY Zenon DEF TypeOK, BumpSessionEpoch
<1> QED
  BY <1>1, <1>2, NextEpoch, Zenon

\* Every step moves the epochs the way EpochOrder says.
LEMMA EpochStep ==
  ASSUME TypeOK, [Next]_lifecycleVars
  PROVE  EpochOrder
<1>0. sessionEpoch + 1 # sessionEpoch /\ roomEpoch + 1 # roomEpoch
  BY EpochsAreNat, NextDiffers, Zenon
<1>r. ASSUME NEW p \in Players, LoseToRecovery(p)
      PROVE  EpochOrder
  <2>1. CASE status = "Recovering"
    BY <1>r, <2>1, Zenon DEF LoseToRecovery, room, EpochOrder
  <2>2. CASE status # "Recovering"
    <3>1. roomEpoch' = roomEpoch + 1 /\ sessionEpoch' = sessionEpoch + 1
      BY <1>r, <2>2, Zenon DEF LoseToRecovery, EnterRecovery, BumpRoomEpoch, BumpSessionEpoch
    <3> QED
      BY <1>0, <3>1, Zenon DEF EpochOrder
  <2> QED
    BY <2>1, <2>2
<1> USE DEF TypeOK, EpochOrder
<1>1. ASSUME NEW c \in Conns, NEW h \in BOOLEAN, JoinGuest(c, h)
      PROVE EpochOrder
  BY <1>1, SMTT(30) DEF JoinGuest, SeatConnection, RestoreCheckingCompatibility, BumpRoomEpoch, BumpSessionEpoch, Fresh
<1>2. ASSUME NEW c \in Conns, NEW p \in Players, ReconnectPlayer(p, c)
      PROVE EpochOrder
  BY <1>2 DEF ReconnectPlayer, SeatConnection, RestoreCheckingCompatibility, Fresh, Occupied
<1>3. ASSUME NEW c \in Conns, Disconnect(c)
      PROVE EpochOrder
  <2>1. ASSUME NEW p \in Players, conn[p] = c, LoseControl(p)
        PROVE  EpochOrder
    <3>1. CASE PreserveHandoff(p)
      BY <1>3, <2>1, <3>1 DEF Disconnect, PreserveHandoff, VacateSlots
    <3>2. CASE LoseToRecovery(p)
      BY <1>r, <3>2
    <3>3. CASE LeaveSlot(p)
      BY <1>3, <2>1, <3>3, Zenon DEF Disconnect, LeaveSlot, VacateSlots, KeepEpochs
    <3> QED
      BY <2>1, <3>1, <3>2, <3>3 DEF LoseControl
  <2>2. CASE UNCHANGED <<present, room, slots>>
    BY <1>3, <2>2 DEF Disconnect, room, slots
  <2> QED
    BY <1>3, <2>1, <2>2, Zenon DEF Disconnect
<1>4. ASSUME NEW c \in Conns, DisconnectInputSocket(c)
      PROVE EpochOrder
  <2>1. ASSUME NEW p \in Players, inp[p] = c, conn[p] # None, LoseControl(p)
        PROVE  EpochOrder
    <3>1. CASE PreserveHandoff(p)
      BY <1>4, <2>1, <3>1 DEF DisconnectInputSocket, PreserveHandoff, VacateSlots
    <3>2. CASE LoseToRecovery(p)
      BY <1>r, <3>2
    <3>3. CASE LeaveSlot(p)
      BY <1>4, <2>1, <3>3, Zenon DEF DisconnectInputSocket, LeaveSlot, VacateSlots, KeepEpochs
    <3> QED
      BY <2>1, <3>1, <3>2, <3>3 DEF LoseControl
  <2>2. ASSUME NEW p \in Players, inp[p] = c,
               inp' = [inp EXCEPT ![p] = None], inTok' = [inTok EXCEPT ![p] = None],
               UNCHANGED <<present, room, occupied, conn, recDl, recEpoch, handoff>>
        PROVE  EpochOrder
    BY <1>4, <2>2 DEF DisconnectInputSocket, room
  <2>3. CASE UNCHANGED <<present, room, slots>>
    BY <1>4, <2>3 DEF DisconnectInputSocket, room, slots
  <2> QED
    BY <1>4, <2>1, <2>2, <2>3, Zenon DEF DisconnectInputSocket
<1>5. ASSUME NEW c \in Conns, PlayerExited(c)
      PROVE EpochOrder
  BY <1>5 DEF PlayerExited, VacateSlots, KeepEpochs, sockets
<1>6. CASE SweepFreesGuest
  BY <1>6 DEF SweepFreesGuest, VacateSlots, KeepEpochs, HostHandoffExpired, GuestHandoffExpired, sockets
<1>7. ASSUME NEW silent \in SUBSET Players, SweepStale(silent)
      PROVE EpochOrder
  <2>1. CASE status \in HeartbeatGuarded /\ silent # {}
    <3>1. roomEpoch' = roomEpoch + 1 /\ sessionEpoch' = sessionEpoch + 1
      BY <1>7, <2>1, Zenon DEF SweepStale, EnterRecovery, BumpRoomEpoch, BumpSessionEpoch
    <3> QED
      BY <1>0, <3>1, Zenon
  <2>2. CASE ~(status \in HeartbeatGuarded /\ silent # {})
    BY <1>7, <2>2, Zenon DEF SweepStale, room
  <2> QED
    BY <2>1, <2>2
<1>8. CASE PinWindowElapses \/ JoinWindowElapses \/ IdleTimeoutElapses
  BY <1>8, SMTT(30) DEF PinWindowElapses, JoinWindowElapses, IdleTimeoutElapses, room, slots, sockets
<1>9. CASE SessionStep
  <2>1. UNCHANGED <<roomEpoch, occupied>> /\ (status' = "Recovering" => status = "Recovering")
    BY <1>9, Zenon DEF SessionStep, SessionFrame, SessionCompatibility, SessionReady, SessionSchedule, SessionStarts, SessionPause, SessionRepair, SessionCommit, slots
  <2>2. sessionEpoch' \in {sessionEpoch, sessionEpoch + 1}
    BY <1>9, Zenon DEF SessionStep, SessionFrame, SessionCompatibility, SessionReady, SessionSchedule, SessionStarts, SessionPause, SessionRepair, SessionCommit, BumpSessionEpoch
  <2> QED
    BY <2>1, <2>2, Zenon
<1>10. CASE UNCHANGED <<status, roomEpoch, sessionEpoch, occupied>>
  BY <1>10 DEF room, slots
<1> QED
  BY <1>1, <1>2, <1>3, <1>4, <1>5, <1>6, <1>7, <1>8, <1>9, <1>10, Zenon
  DEF Next, SocketStep, Sweep, TimePasses, AttachHost, room, ArmRunnerHandoff, ArmRefused, slots, DeliverRoomJoined, CancelRunnerHandoff, ConnectInputSocket, SweepCloses, RemoveRoom, sockets, ReconnectGraceElapses, HandoffGraceElapses, lifecycleVars

-----------------------------------------------------------------------------
\* The inductive invariant.
LifecycleInv ==
  TypeOK /\ CapabilityBinding /\ DeadlineDiscipline /\ OrphanOnlyAfterExit

\* create_room establishes the invariant.
LEMMA LifecycleInit == Init => LifecycleInv
<1> SUFFICES ASSUME Init PROVE LifecycleInv
  OBVIOUS
<1>1. TypeOK
  BY TypeInit
<1>2. PICK c \in Conns : /\ conn = [p \in Players |-> IF p = Host THEN c ELSE None]
                         /\ inTok = [p \in Players |-> IF p = Host THEN c ELSE None]
  BY DEF Init
<1>3. CapabilityBinding
  BY <1>2, ConnsAssumption DEF Init, CapabilityBinding, Players, Host, Guest
<1>4. DeadlineDiscipline
  BY <1>2 DEF Init, DeadlineDiscipline, Players, Host, Guest
<1>5. OrphanOnlyAfterExit
  BY <1>2, ConnsAssumption DEF Init, OrphanOnlyAfterExit, Occupied, Players, Host, Guest
<1> QED
  BY <1>1, <1>3, <1>4, <1>5 DEF LifecycleInv

\* Every registry operation, sweep, timeout and in-room step keeps it.
LEMMA LifecycleStep == LifecycleInv /\ [Next]_lifecycleVars => LifecycleInv'
  BY TypeStep, BindingStep, DeadlineStep, OrphanStep DEF LifecycleInv

\* The strengthened invariant gives the property the runs check.
LEMMA OrphanStrengthens == OrphanOnlyAfterExit /\ TypeOK => NoOrphanSlot
  BY DEF OrphanOnlyAfterExit, NoOrphanSlot, TypeOK

\* The invariant holds in every reachable state.
THEOREM LifecycleInvariance == SafetySpec => []LifecycleInv
  BY LifecycleInit, LifecycleStep, PTL DEF SafetySpec

\* Every reachable room state is well typed.
THEOREM TypeCorrect == SafetySpec => []TypeOK
<1>1. LifecycleInv => TypeOK
  BY DEF LifecycleInv
<1> QED
  BY <1>1, LifecycleInvariance, PTL

\* However joins, takeovers, handoffs, reconnects, disconnects and sweeps interleave,
\* an input capability or input socket belongs to the control connection that owns
\* the slot (attach_input_socket, reconnect_player, attach_host).
THEOREM CapabilitiesAreBound == SafetySpec => []CapabilityBinding
<1>1. LifecycleInv => CapabilityBinding
  BY DEF LifecycleInv
<1> QED
  BY <1>1, LifecycleInvariance, PTL

\* A slot never waits for a reconnect and for a runner at once, and an empty guest
\* slot holds nothing (mark_slot_reconnecting, clear_disconnected_slot).
THEOREM DeadlinesAreDisciplined == SafetySpec => []DeadlineDiscipline
<1>1. LifecycleInv => DeadlineDiscipline
  BY DEF LifecycleInv
<1> QED
  BY <1>1, LifecycleInvariance, PTL

\* While a room is open every occupied slot can be claimed back or runs against a
\* deadline (disconnect_with_recovery, expire_runner_handoffs).
THEOREM NoSlotIsOrphaned == SafetySpec => []NoOrphanSlot
<1>1. LifecycleInv => NoOrphanSlot
  BY OrphanStrengthens DEF LifecycleInv
<1> QED
  BY <1>1, LifecycleInvariance, PTL

\* Epochs only grow, and entering Recovering or taking the guest slot leaves the old
\* epochs behind (enter_recovery_state, reset_sync_for_checking_compatibility).
THEOREM EpochsFence == SafetySpec => EpochFence
<1>1. TypeOK /\ [Next]_lifecycleVars => [EpochOrder]_lifecycleVars
  BY EpochStep
<1> QED
  BY <1>1, TypeCorrect, PTL DEF SafetySpec, EpochFence

-----------------------------------------------------------------------------
(* The full room implements the membership.                                *)

\* Every membership operation of the full room is the lifecycle action it is built on.
LEMMA MembershipStep ==
  ASSUME Membership PROVE Next
<1>1. ASSUME NEW c \in Conns,
             \/ HostAttaches(c) \/ GuestJoins(c) \/ \E p \in Players : PlayerReconnects(p, c)
             \/ ControlCloses(c) \/ InputCloses(c) \/ PlayerLeaves(c) \/ SocketOnly(c)
      PROVE  SocketStep
  <2>1. CASE HostAttaches(c)
    BY <2>1, SessionAssumption, Zenon DEF HostAttaches, SocketStep
  <2>2. CASE GuestJoins(c)
    BY <2>2, SessionAssumption, Zenon DEF GuestJoins, SocketStep
  <2>3. CASE \E p \in Players : PlayerReconnects(p, c)
    BY <2>3 DEF PlayerReconnects, SocketStep
  <2>4. CASE ControlCloses(c)
    BY <2>4 DEF ControlCloses, SocketStep
  <2>5. CASE InputCloses(c)
    BY <2>5, Zenon DEF InputCloses, SocketStep
  <2>6. CASE PlayerLeaves(c)
    BY <2>6 DEF PlayerLeaves, SocketStep
  <2>7. CASE SocketOnly(c)
    BY <2>7 DEF SocketOnly, SocketStep
  <2> QED
    BY <1>1, <2>1, <2>2, <2>3, <2>4, <2>5, <2>6, <2>7
<1>2. CASE RoomSweep
  BY <1>2 DEF RoomSweep, Sweep, Next
<1>3. CASE RoomTime
  BY <1>3 DEF RoomTime, TimePasses, Next
<1> QED
  BY <1>1, <1>2, <1>3 DEF Membership, Next

\* Between compatibility and the scheduled start the membership sees a status change
\* or nothing.
LEMMA StartingUpStep ==
  ASSUME StartingUp PROVE Next \/ UNCHANGED lifecycleVars
<1>1. ASSUME NEW p \in Players, RejectCompatibility(p)
      PROVE  SessionCompatibility
  BY <1>1 DEF RejectCompatibility, Speaks, SessionCompatibility, Connected
<1>2. ASSUME NEW p \in Players, NEW f \in Fingerprints, SetCompatibility(p, f)
      PROVE  SessionCompatibility \/ UNCHANGED lifecycleVars
  BY <1>2 DEF SetCompatibility, Speaks, SessionFrame, SessionCompatibility, Connected,
              lifecycleVars, room
<1>3. ASSUME NEW p \in Players, MarkReady(p)
      PROVE  SessionReady
  BY <1>3 DEF MarkReady, MayGetReady, Speaks, SessionReady
<1>4. ASSUME NEW s, NEW d, TrySchedule(s, d), SessionFrame, UNCHANGED <<sessionEpoch, pin>>
      PROVE  SessionSchedule \/ UNCHANGED lifecycleVars
  BY <1>4 DEF TrySchedule, SessionFrame, SessionSchedule, lifecycleVars, room
<1>5. ASSUME NEW p \in Players, AcceptClockSyncSample(p)
      PROVE  SessionSchedule \/ UNCHANGED lifecycleVars
  BY <1>4, <1>5 DEF AcceptClockSyncSample, Speaks
<1>6. ASSUME NEW p \in Players, MarkDeterministicReady(p)
      PROVE  SessionSchedule \/ UNCHANGED lifecycleVars
  BY <1>4, <1>6 DEF MarkDeterministicReady, Speaks
<1>7. ASSUME NEW m \in Manifests, SnapshotChunk(m) \/ SnapshotComplete(m)
      PROVE  UNCHANGED lifecycleVars
  BY <1>7 DEF SnapshotChunk, SnapshotComplete, SnapshotFits, Speaks, SessionFrame,
              lifecycleVars, room
<1>8. CASE StartTimeComes
  BY <1>8 DEF StartTimeComes, SessionFrame, lifecycleVars, room
<1> QED
  BY <1>1, <1>2, <1>3, <1>5, <1>6, <1>7, <1>8 DEF StartingUp, SessionStep, Next

\* Frames, pauses and the tasks behind them reach the membership through the start of
\* the game, the pause and its resume.
LEMMA PlayingStep ==
  ASSUME Playing PROVE Next \/ UNCHANGED lifecycleVars
<1> DEFINE Quiet == SessionFrame /\ UNCHANGED <<status, sessionEpoch, pin>>
<1>0. Quiet => UNCHANGED lifecycleVars
  BY DEF SessionFrame, lifecycleVars, room
<1>1. ASSUME NEW p \in Players, NEW e \in 0..MaxFrame, StrictInputBatch(p, e)
      PROVE  UNCHANGED lifecycleVars
  BY <1>0, <1>1 DEF StrictInputBatch, Inputs
<1>2. ASSUME NEW p \in Players, NEW lead \in 0..LocalLead, RequestPause(p, lead)
      PROVE  UNCHANGED lifecycleVars
  BY <1>0, <1>2 DEF RequestPause, Speaks
<1>3. ASSUME NEW f, NEW p \in Players, Speaks(p), PauseResume(f)
      PROVE  SessionPause
  BY <1>3 DEF PauseResume, Speaks, SessionPause, Connected
<1>4. ASSUME NEW p \in Players, PauseReached(p)
      PROVE  SessionPause \/ UNCHANGED lifecycleVars
  <2>1. CASE PauseResume(pause.at + 1)
    BY <1>3, <1>4, <2>1 DEF PauseReached
  <2>2. ASSUME NEW new, PauseChanges(new), UNCHANGED status \/ status' = "Paused"
        PROVE  SessionPause \/ UNCHANGED lifecycleVars
    BY <1>0, <1>4, <2>2 DEF PauseChanges, PauseReached, Speaks, SessionPause, Connected
  <2> QED
    BY <1>4, <2>1, <2>2 DEF PauseReached
<1>5. ASSUME NEW p \in Players, RequestResume(p)
      PROVE  SessionPause \/ UNCHANGED lifecycleVars
  <2>1. CASE PauseResume(pause.at + 1)
    BY <1>3, <1>5, <2>1 DEF RequestResume
  <2>2. ASSUME NEW new, PauseChanges(new), UNCHANGED status
        PROVE  UNCHANGED lifecycleVars
    BY <1>0, <1>5, <2>2 DEF PauseChanges, RequestResume, Speaks
  <2> QED
    BY <1>5, <2>1, <2>2 DEF RequestResume
<1>6. CASE HostFrameOpen
  BY <1>0, <1>6 DEF HostFrameOpen, HostMayOpen, Inputs, EnterPlaying, ReleaseFrame, SessionStarts,
                    SessionStep, Next
<1>7. CASE HostFrameOpenEarly
  BY <1>0, <1>7 DEF HostFrameOpenEarly, HostMayOpen, Inputs
<1>8. ASSUME NEW t \in tasks, ReleaseScheduled(t)
      PROVE  SessionStarts \/ UNCHANGED lifecycleVars
  BY <1>0, <1>8 DEF ReleaseScheduled, EnterPlaying, ReleaseFrame, SessionStarts
<1> QED
  BY <1>1, <1>2, <1>4, <1>5, <1>6, <1>7, <1>8 DEF Playing, Frames, SessionStep, Next

\* A divergence opens a repair or closes the room, the host's pin commits it; a digest
\* that decides nothing is not seen by the membership.
LEMMA RepairingStep ==
  ASSUME Repairing PROVE Next \/ UNCHANGED lifecycleVars
<1>1. ASSUME NEW p \in Players, NEW d \in Digests, ReportStateHash(p, d)
      PROVE  SessionRepair \/ UNCHANGED lifecycleVars
  <2>1. ASSUME NEW kept, NEW new, BeginRecovery(kept, new)
        PROVE  SessionRepair
    BY <1>1, <2>1 DEF BeginRecovery, ReportStateHash, Speaks, SessionRepair, Connected
  <2>2. CASE UNCHANGED <<status, pin>>
    BY <1>1, <2>2 DEF ReportStateHash, Speaks, SessionFrame, lifecycleVars, room
  <2> QED
    BY <1>1, <2>1, <2>2 DEF ReportStateHash
<1>2. ASSUME NEW m \in Manifests, PinRecovery(m)
      PROVE  SessionCommit
  BY <1>2 DEF PinRecovery, Speaks, SessionCommit
<1> QED
  BY <1>1, <1>2 DEF Repairing, SessionStep, Next

\* The protocol-v5 room, with every in-room operation in full, implements the
\* membership specification: whatever clients send and whatever tasks wake when, the
\* status, epochs, slots and deadlines move only as RoomLifecycle lets them.
THEOREM RoomImplementsLifecycle == RoomSpec => SafetySpec
<1>1. RoomInit => Init
  BY DEF RoomInit
<1>2. [RoomNext]_roomVars => [Next]_lifecycleVars
  <2>1. CASE RoomNext
    BY <2>1, MembershipStep, StartingUpStep, PlayingStep, RepairingStep DEF RoomNext
  <2>2. CASE UNCHANGED roomVars
    BY <2>2 DEF roomVars
  <2> QED
    BY <2>1, <2>2
<1> QED
  BY <1>1, <1>2, PTL DEF RoomSpec, SafetySpec

\* In the full room an input capability or input socket always belongs to the control
\* connection that owns the slot.
THEOREM RoomCapabilitiesAreBound == RoomSpec => []CapabilityBinding
  BY RoomImplementsLifecycle, CapabilitiesAreBound, PTL

\* In the full room no slot is left without a connection and without a deadline.
THEOREM RoomSlotsAreNotOrphaned == RoomSpec => []NoOrphanSlot
  BY RoomImplementsLifecycle, NoSlotIsOrphaned, PTL

\* In the full room the epochs only grow, and recovery and joins leave both behind.
THEOREM RoomEpochsFence == RoomSpec => EpochFence
  BY RoomImplementsLifecycle, EpochsFence, PTL

-----------------------------------------------------------------------------
(* Type correctness.                                                       *)

\* SessionTypeOK by the groups of variables that change together.
HandshakeOK ==
  /\ compat \in [Players -> Fingerprints \cup {None}]
  /\ ready \subseteq Players
  /\ xfer \in Manifests \cup {None} /\ snapshot \in Manifests \cup {None}

StartSyncOK ==
  /\ clockReq \in BOOLEAN
  /\ samples \subseteq Players /\ detReady \subseteq Players
  /\ sched \in Schedules \cup {None}

\* A pause frame leaves room for the frame play resumes at.
FramesOK ==
  /\ syncStart \in Frames /\ nextRelease \in 0..MaxFrame + 1
  /\ pending \in Frames \cup {None}
  /\ nextIn \in [Players -> 0..MaxFrame + 1]
  /\ pause \in Pauses \cup {None}
  /\ pause # None => pause.at < MaxFrame

RepairOK ==
  /\ hashes \in [Players -> Digests \cup {None}]
  /\ nextHash \in Nat
  /\ rec \in Repairs \cup {None}

RecordsOK ==
  /\ caps \in [Players -> BOOLEAN]
  /\ tasks \subseteq Releases
  /\ attempts \in 0..MaxAttempts
  /\ relayed \in Seq(Frames)

SessionOK == HandshakeOK /\ StartSyncOK /\ FramesOK /\ RepairOK /\ RecordsOK

LEMMA SessionOKTyped == TypeOK /\ SessionOK => SessionTypeOK
  BY DEF SessionOK, HandshakeOK, StartSyncOK, FramesOK, RepairOK, RecordsOK, SessionTypeOK

\* Checkpoints are frame numbers.
LEMMA CheckpointsAreNat ==
  ASSUME NEW f \in Nat
  PROVE  CheckpointAfter(f) \in Nat /\ CheckpointAtOrAfter(f) \in Nat
<1>1. HashInterval \in Nat /\ HashInterval > 0
  BY SessionAssumption
<1>2. \A x \in Nat : x \div HashInterval \in Nat
  BY <1>1
<1>3. \A x \in Nat : x * HashInterval \in Nat
  BY <1>1
<1>4. f + HashInterval - 1 \in Nat
  BY <1>1
<1>5. (f \div HashInterval + 1) * HashInterval \in Nat
  <2>1. f \div HashInterval + 1 \in Nat
    BY <1>2
  <2> QED
    BY <1>3, <2>1
<1>6. ((f + HashInterval - 1) \div HashInterval) * HashInterval \in Nat
  BY <1>2, <1>3, <1>4
<1> QED
  BY <1>1, <1>5, <1>6, Zenon DEF CheckpointAfter, CheckpointAtOrAfter

LEMMA BoundsAreNat ==
  MaxFrame \in Nat /\ MaxAttempts \in Nat /\ PauseLead \in Nat /\ LocalLead \in Nat /\ HashInterval \in Nat
  BY SessionAssumption

\* reset_sync_state_to a frame of the run leaves everything typed.
LEMMA ResetTyped ==
  ASSUME NEW f \in Frames, ResetTo(f)
  PROVE  /\ HandshakeOK' /\ StartSyncOK' /\ FramesOK'
         /\ hashes' \in [Players -> Digests \cup {None}] /\ nextHash' \in Nat
<1>1. f \in Nat /\ f \in 0..MaxFrame + 1
  BY BoundsAreNat DEF Frames
<1>2. CheckpointAfter(f) \in Nat
  BY <1>1, CheckpointsAreNat
<1>3. HandshakeOK'
  BY DEF ResetTo, HandshakeOK
<1>4. StartSyncOK'
  BY Zenon DEF ResetTo, StartSyncOK
<1>5. FramesOK'
  BY <1>1 DEF ResetTo, FramesOK
<1> QED
  BY <1>2, <1>3, <1>4, <1>5 DEF ResetTo, NoHashes

LEMMA ResetSyncTyped ==
  ASSUME ResetSync
  PROVE  HandshakeOK' /\ StartSyncOK' /\ FramesOK' /\ RepairOK'
<1>1. 0 \in Frames
  BY BoundsAreNat DEF Frames
<1> QED
  BY <1>1, ResetTyped DEF ResetSync, RepairOK

LEMMA UnchangedTyped ==
  /\ HandshakeOK /\ UNCHANGED handshake => HandshakeOK'
  /\ StartSyncOK /\ UNCHANGED startSync => StartSyncOK'
  /\ FramesOK /\ UNCHANGED frames => FramesOK'
  /\ RepairOK /\ UNCHANGED repair => RepairOK'
<1>1. HandshakeOK /\ UNCHANGED handshake => HandshakeOK'
  BY Zenon DEF HandshakeOK, handshake
<1>2. StartSyncOK /\ UNCHANGED startSync => StartSyncOK'
  BY Zenon DEF StartSyncOK, startSync
<1>3. FramesOK /\ UNCHANGED frames => FramesOK'
  BY Zenon DEF FramesOK, frames
<1>4. RepairOK /\ UNCHANGED repair => RepairOK'
  BY Zenon DEF RepairOK, repair
<1> QED
  BY <1>1, <1>2, <1>3, <1>4

\* A frame, and the one after it, as the next frame to expect.
LEMMA FramesAfter ==
  /\ \A f \in Frames : f \in Nat /\ f \in 0..MaxFrame + 1 /\ f + 1 \in Nat /\ f + 1 \in 0..MaxFrame + 1
  /\ \A f \in Frames : f < MaxFrame => f + 1 \in Frames
  /\ \A f \in 0..MaxFrame + 1 : f \in Nat /\ (f <= MaxFrame => f \in Frames)
<1>1. MaxFrame \in Nat
  BY BoundsAreNat
<1> QED
  BY <1>1 DEF Frames

\* The frame a room resumes at after a pause.
LEMMA FrameAfterPause ==
  ASSUME FramesOK, pause # None
  PROVE  pause.at \in Frames /\ pause.at + 1 \in Frames /\ pause.at + 1 \in Nat
         /\ pause.at + 1 \in 0..MaxFrame + 1
<1>1. pause \in Pauses /\ pause.at < MaxFrame
  BY Zenon DEF FramesOK
<1>2. pause.at \in Frames
  BY <1>1 DEF Pauses
<1> QED
  BY <1>1, <1>2, FramesAfter, Zenon

\* A slot that loses its input or its control connection.
LEMMA SlotDropTyped ==
  ASSUME FramesOK, NEW p \in Players, SlotDropsInput(p),
         UNCHANGED <<syncStart, nextRelease, pending, pause>>
  PROVE  FramesOK'
<1>1. syncStart \in 0..MaxFrame + 1
  <2>1. syncStart \in Frames
    BY Zenon DEF FramesOK
  <2> QED
    BY <2>1, FramesAfter, Zenon
<1> QED
  BY <1>1 DEF FramesOK, SlotDropsInput

LEMMA LossTyped ==
  ASSUME SessionOK, NEW p \in Players, SessionLosesControl(p)
  PROVE  HandshakeOK' /\ StartSyncOK' /\ FramesOK' /\ RepairOK'
<1>1. CASE handoff[p] # "armed" /\ status = "Recovering"
  <2>1. HandshakeOK'
    BY <1>1 DEF SessionLosesControl, SessionOK, HandshakeOK
  <2>2. FramesOK'
    BY <1>1, SlotDropTyped DEF SessionLosesControl, SessionOK
  <2> QED
    BY <1>1, <2>1, <2>2, UnchangedTyped DEF SessionLosesControl, SessionOK
<1>2. CASE ~(handoff[p] # "armed" /\ status = "Recovering")
  BY <1>2, ResetSyncTyped DEF SessionLosesControl
<1> QED
  BY <1>1, <1>2

LEMMA SessionKeptTyped ==
  ASSUME SessionOK, UNCHANGED session
  PROVE  HandshakeOK' /\ StartSyncOK' /\ FramesOK' /\ RepairOK'
  BY UnchangedTyped DEF SessionOK, session

LEMMA SessionTyped ==
  ASSUME SessionOK, Membership
  PROVE  HandshakeOK' /\ StartSyncOK' /\ FramesOK' /\ RepairOK'
<1>1. ASSUME NEW c \in Conns, HostAttaches(c)
      PROVE  HandshakeOK' /\ StartSyncOK' /\ FramesOK' /\ RepairOK'
  <2>1. HandshakeOK'
    BY <1>1 DEF HostAttaches, SessionOK, HandshakeOK
  <2> QED
    BY <1>1, <2>1, UnchangedTyped DEF HostAttaches, SessionOK
<1>2. ASSUME NEW c \in Conns, GuestJoins(c) \/ PlayerLeaves(c)
      PROVE  HandshakeOK' /\ StartSyncOK' /\ FramesOK' /\ RepairOK'
  BY <1>2, ResetSyncTyped, Zenon DEF GuestJoins, PlayerLeaves
<1>3. ASSUME NEW c \in Conns, NEW p \in Players, PlayerReconnects(p, c)
      PROVE  HandshakeOK' /\ StartSyncOK' /\ FramesOK' /\ RepairOK'
  BY <1>3, ResetSyncTyped, SessionKeptTyped, Zenon DEF PlayerReconnects
<1>4. ASSUME NEW c \in Conns, ControlCloses(c)
      PROVE  HandshakeOK' /\ StartSyncOK' /\ FramesOK' /\ RepairOK'
  BY <1>4, LossTyped, SessionKeptTyped, Zenon DEF ControlCloses
<1>5. ASSUME NEW c \in Conns, InputCloses(c)
      PROVE  HandshakeOK' /\ StartSyncOK' /\ FramesOK' /\ RepairOK'
  <2>1. ASSUME NEW p \in Players, SlotDropsInput(p),
               UNCHANGED <<handshake, startSync, syncStart, nextRelease, pending, pause, repair>>
        PROVE  HandshakeOK' /\ StartSyncOK' /\ FramesOK' /\ RepairOK'
    BY <2>1, SlotDropTyped, UnchangedTyped DEF SessionOK
  <2> QED
    BY <1>5, <2>1, LossTyped, SessionKeptTyped, Zenon DEF InputCloses
<1>6. ASSUME NEW c \in Conns, SocketOnly(c)
      PROVE  HandshakeOK' /\ StartSyncOK' /\ FramesOK' /\ RepairOK'
  BY <1>6, SessionKeptTyped DEF SocketOnly
<1>7. CASE RoomSweep
  BY <1>7, ResetSyncTyped, SessionKeptTyped, Zenon DEF RoomSweep
<1>8. CASE RoomTime
  BY <1>8, SessionKeptTyped DEF RoomTime
<1> QED
  BY <1>1, <1>2, <1>3, <1>4, <1>5, <1>6, <1>7, <1>8, Zenon DEF Membership

LEMMA CapsTyped ==
  ASSUME RecordsOK, Membership
  PROVE  caps' \in [Players -> BOOLEAN]
<1>1. ASSUME NEW p \in Players, NEW b \in ClientCaps[p], caps' = [caps EXCEPT ![p] = b]
      PROVE  caps' \in [Players -> BOOLEAN]
  <2>1. b \in BOOLEAN
    BY <1>1, SessionAssumption
  <2> QED
    BY <1>1, <2>1 DEF RecordsOK
<1>2. ASSUME UNCHANGED caps PROVE caps' \in [Players -> BOOLEAN]
  BY <1>2 DEF RecordsOK
<1> QED
  BY <1>1, <1>2, HostAndGuest, Zenon
  DEF Membership, HostAttaches, GuestJoins, PlayerReconnects, ControlCloses, InputCloses, PlayerLeaves,
      SocketOnly, RoomSweep, RoomTime

LEMMA MembershipTyped ==
  ASSUME SessionOK, Membership
  PROVE  SessionOK'
<1>1. relayed' \in Seq(Frames)
  BY DEF Membership, MembershipFrame, RecordEpoch, SessionOK, RecordsOK
<1>2. tasks' \subseteq Releases /\ attempts' \in 0..MaxAttempts
  BY DEF Membership, MembershipFrame, SessionOK, RecordsOK
<1> QED
  BY <1>1, <1>2, SessionTyped, CapsTyped, Zenon DEF SessionOK, RecordsOK

LEMMA ScheduleTyped ==
  ASSUME TypeOK, SessionOK, NEW s, NEW d, TrySchedule(s, d)
  PROVE  sched' \in Schedules \cup {None}
<1>1. [session |-> sessionEpoch, frame |-> syncStart, due |-> FALSE] \in Schedules
  BY DEF TypeOK, SessionOK, FramesOK, Schedules
<1>2. sched \in Schedules \cup {None}
  BY DEF SessionOK, StartSyncOK
<1> QED
  BY <1>1, <1>2, Zenon DEF TrySchedule

LEMMA StartingUpTyped ==
  ASSUME TypeOK, SessionOK, StartingUp
  PROVE  SessionOK'
<1>0. RecordsOK'
  BY DEF StartingUp, SessionOK, RecordsOK
<1>1. ASSUME NEW p \in Players, RejectCompatibility(p)
      PROVE  HandshakeOK' /\ StartSyncOK' /\ FramesOK' /\ RepairOK'
  <2>1. HandshakeOK'
    BY <1>1 DEF RejectCompatibility, SessionOK, HandshakeOK
  <2> QED
    BY <1>1, <2>1, UnchangedTyped DEF RejectCompatibility, SessionOK
<1>2. ASSUME NEW p \in Players, NEW f \in Fingerprints, SetCompatibility(p, f)
      PROVE  HandshakeOK' /\ StartSyncOK' /\ FramesOK' /\ RepairOK'
  <2>1. HandshakeOK'
    BY <1>2 DEF SetCompatibility, SessionOK, HandshakeOK
  <2> QED
    BY <1>2, <2>1, UnchangedTyped DEF SetCompatibility, SessionOK
<1>3. ASSUME NEW p \in Players, MarkReady(p)
      PROVE  HandshakeOK' /\ StartSyncOK' /\ FramesOK' /\ RepairOK'
  <2>1. HandshakeOK'
    BY <1>3 DEF MarkReady, SessionOK, HandshakeOK
  <2>2. StartSyncOK'
    BY <1>3, Zenon DEF MarkReady, SessionOK, StartSyncOK
  <2>3. RepairOK'
    BY <1>3 DEF MarkReady, SessionOK, RepairOK
  <2> QED
    BY <1>3, <2>1, <2>2, <2>3, UnchangedTyped DEF MarkReady, SessionOK
<1>4. ASSUME NEW p \in Players, AcceptClockSyncSample(p)
      PROVE  HandshakeOK' /\ StartSyncOK' /\ FramesOK' /\ RepairOK'
  <2>1. StartSyncOK'
    BY <1>4, ScheduleTyped DEF AcceptClockSyncSample, SessionOK, StartSyncOK
  <2> QED
    BY <1>4, <2>1, UnchangedTyped DEF AcceptClockSyncSample, SessionOK
<1>5. ASSUME NEW p \in Players, MarkDeterministicReady(p)
      PROVE  HandshakeOK' /\ StartSyncOK' /\ FramesOK' /\ RepairOK'
  <2>1. StartSyncOK'
    BY <1>5, ScheduleTyped DEF MarkDeterministicReady, SessionOK, StartSyncOK
  <2> QED
    BY <1>5, <2>1, UnchangedTyped DEF MarkDeterministicReady, SessionOK
<1>6. ASSUME NEW m \in Manifests, SnapshotChunk(m) \/ SnapshotComplete(m)
      PROVE  HandshakeOK' /\ StartSyncOK' /\ FramesOK' /\ RepairOK'
  <2>1. HandshakeOK'
    BY <1>6 DEF SnapshotChunk, SnapshotComplete, SessionOK, HandshakeOK
  <2> QED
    BY <1>6, <2>1, UnchangedTyped DEF SnapshotChunk, SnapshotComplete, SessionOK
<1>7. CASE StartTimeComes
  <2>1. sched' \in Schedules
    BY <1>7, Zenon DEF StartTimeComes, SessionOK, StartSyncOK, Schedules
  <2>2. StartSyncOK'
    BY <1>7, <2>1 DEF StartTimeComes, SessionOK, StartSyncOK
  <2> QED
    BY <1>0, <1>7, <2>2, UnchangedTyped DEF StartTimeComes, SessionOK
<1> QED
  BY <1>0, <1>1, <1>2, <1>3, <1>4, <1>5, <1>6, <1>7, Zenon DEF StartingUp, SessionOK

\* A released frame.
LEMMA ReleaseTyped ==
  ASSUME SessionOK, ReleaseFrame
  PROVE  /\ HandshakeOK' /\ StartSyncOK' /\ FramesOK' /\ relayed' \in Seq(Frames)
         /\ hashes' \in [Players -> Digests \cup {None}] /\ nextHash' \in Nat
<1>1. nextRelease \in Frames /\ nextRelease + 1 \in 0..MaxFrame + 1
  <2>1. nextRelease \in 0..MaxFrame + 1 /\ nextRelease <= MaxFrame
    BY Zenon DEF ReleaseFrame, SessionOK, FramesOK
  <2> QED
    BY <2>1, FramesAfter, Zenon
<1>2. FramesOK'
  BY <1>1 DEF ReleaseFrame, SessionOK, FramesOK
<1>3. relayed' \in Seq(Frames)
  BY <1>1 DEF ReleaseFrame, SessionOK, RecordsOK
<1>4. hashes' \in [Players -> Digests \cup {None}] /\ nextHash' \in Nat
  BY DEF ReleaseFrame, SessionOK, RepairOK
<1> QED
  BY <1>2, <1>3, <1>4, UnchangedTyped DEF ReleaseFrame, SessionOK

\* begin_v5_pause_resume right after a pause frame.
LEMMA ResumeTyped ==
  ASSUME TypeOK, SessionOK, pause # None, PauseResume(pause.at + 1)
  PROVE  /\ HandshakeOK' /\ StartSyncOK' /\ FramesOK' /\ RepairOK'
         /\ relayed' \in Seq(Frames) /\ tasks' \subseteq Releases
<1>1. pause.at + 1 \in Frames /\ pause.at + 1 \in Nat /\ pause.at + 1 \in 0..MaxFrame + 1
  BY FrameAfterPause, Zenon DEF SessionOK
<1>2. HandshakeOK'
  BY DEF PauseResume, SessionOK, HandshakeOK
<1>3. sessionEpoch + 1 \in 1..MaxSessionEpoch
  BY NextSessionEpoch, Zenon DEF PauseResume
<1>4. sched' \in Schedules
  BY <1>1, <1>3 DEF PauseResume, ResumeSchedule, Schedules
<1>5. StartSyncOK'
  BY <1>4 DEF PauseResume, SessionOK, StartSyncOK
<1>6. FramesOK'
  BY <1>1 DEF PauseResume, FramesOK
<1>7. RepairOK'
  BY <1>1, CheckpointsAreNat, Zenon DEF PauseResume, NoHashes, SessionOK, RepairOK
<1> QED
  BY <1>2, <1>5, <1>6, <1>7, SMTT(30) DEF PauseResume, SessionOK, RecordsOK

\* The acknowledgements and holders of a pause change, its frame does not.
LEMMA PauseChangesTyped ==
  ASSUME SessionOK, NEW new \in Pauses, new.at < MaxFrame, PauseChanges(new)
  PROVE  /\ HandshakeOK' /\ StartSyncOK' /\ FramesOK' /\ RepairOK'
         /\ relayed' \in Seq(Frames) /\ tasks' \subseteq Releases
<1>1. FramesOK'
  BY DEF PauseChanges, SessionOK, FramesOK
<1> QED
  BY <1>1, UnchangedTyped DEF PauseChanges, SessionOK, RecordsOK

LEMMA PlayingTyped ==
  ASSUME TypeOK, SessionOK, Playing
  PROVE  SessionOK'
<1> DEFINE Typed == /\ HandshakeOK' /\ StartSyncOK' /\ FramesOK' /\ RepairOK'
                    /\ relayed' \in Seq(Frames) /\ tasks' \subseteq Releases
<1>0. caps' \in [Players -> BOOLEAN] /\ attempts' \in 0..MaxAttempts
  BY DEF Playing, SessionOK, RecordsOK
<1>1. ASSUME NEW p \in Players, NEW e \in Frames, StrictInputBatch(p, e)
      PROVE  Typed
  <2>1. e + 1 \in 0..MaxFrame + 1
    BY BoundsAreNat DEF Frames
  <2>2. FramesOK'
    BY <1>1, <2>1 DEF StrictInputBatch, SessionOK, FramesOK
  <2> QED
    BY <1>1, <2>2, UnchangedTyped DEF StrictInputBatch, SessionOK, RecordsOK
<1>2. ASSUME NEW p \in Players, NEW lead \in 0..LocalLead, RequestPause(p, lead)
      PROVE  Typed
  <2>1. RoomFrame \in Nat
    <3>1. syncStart \in Nat /\ nextRelease \in Nat
      BY FramesAfter, Zenon DEF SessionOK, FramesOK
    <3> QED
      BY <3>1 DEF RoomFrame, Released
  <2>2. RoomFrame + lead + PauseLead \in Nat
    BY <2>1, BoundsAreNat
  <2>3. ASSUME pause = None PROVE pause' \in Pauses /\ pause'.at < MaxFrame
    <3> DEFINE at == RoomFrame + lead + PauseLead
    <3>1. pause' = [at |-> at, holders |-> {p}, acked |-> {}]
      BY <1>2, <2>3 DEF RequestPause
    <3>2. at < MaxFrame
      BY <1>2, <3>1 DEF RequestPause
    <3>3. pause' \in Pauses /\ pause'.at < MaxFrame
      <4>1. at \in Frames
        BY <2>2, <3>2, BoundsAreNat DEF Frames
      <4> HIDE DEF at
      <4>2. pause' \in Pauses
        BY <1>2, <3>1, <4>1 DEF Pauses
      <4> QED
        BY <3>1, <3>2, <4>2
    <3> QED
      BY <3>3
  <2>4. ASSUME pause # None PROVE pause' \in Pauses /\ pause'.at < MaxFrame
    <3>1. pause \in Pauses
      BY <2>4 DEF SessionOK, FramesOK
    <3>2. pause' = [pause EXCEPT !.holders = @ \cup {p}]
      BY <1>2, <2>4 DEF RequestPause
    <3>3. pause' \in Pauses
      BY <3>1, <3>2 DEF Pauses
    <3> QED
      BY <1>2, <3>3 DEF RequestPause
  <2>5. pause' \in Pauses /\ pause'.at < MaxFrame
    BY <2>3, <2>4
  <2>6. FramesOK'
    BY <1>2, <2>5 DEF RequestPause, SessionOK, FramesOK
  <2> QED
    BY <1>2, <2>6, UnchangedTyped DEF RequestPause, SessionOK, RecordsOK
<1>3. ASSUME NEW p \in Players, PauseReached(p)
      PROVE  Typed
  <2>1. pause \in Pauses /\ pause # None /\ pause.at < MaxFrame
    BY <1>3 DEF PauseReached, SessionOK, FramesOK
  <2> DEFINE new == [pause EXCEPT !.acked = @ \cup {p}]
  <2>2. new \in Pauses /\ new.at < MaxFrame
    BY <2>1 DEF Pauses
  <2>3. PauseChanges(new) \/ PauseResume(pause.at + 1)
    BY <1>3, Zenon DEF PauseReached
  <2> QED
    BY <2>1, <2>2, <2>3, ResumeTyped, PauseChangesTyped, Zenon
<1>4. ASSUME NEW p \in Players, RequestResume(p)
      PROVE  Typed
  <2>1. pause \in Pauses /\ pause # None /\ pause.at < MaxFrame
    BY <1>4 DEF RequestResume, SessionOK, FramesOK
  <2> DEFINE new == [pause EXCEPT !.holders = @ \ {p}]
  <2>2. new \in Pauses /\ new.at < MaxFrame
    BY <2>1 DEF Pauses
  <2>3. PauseChanges(new) \/ PauseResume(pause.at + 1)
    BY <1>4, Zenon DEF RequestResume
  <2> QED
    BY <2>1, <2>2, <2>3, ResumeTyped, PauseChangesTyped, Zenon
<1>5. CASE HostFrameOpen
  <2>1. RepairOK'
    BY <1>5, ReleaseTyped DEF HostFrameOpen, EnterPlaying, SessionOK, RepairOK
  <2>2. tasks' \subseteq Releases
    BY <1>5 DEF HostFrameOpen, SessionOK, RecordsOK
  <2>3. Typed
    BY <1>5, <2>1, <2>2, ReleaseTyped DEF HostFrameOpen
  <2> QED
    BY <1>0, <2>3 DEF SessionOK, RecordsOK
<1>6. CASE HostFrameOpenEarly
  <2>1. sched \in Schedules /\ nextRelease = sched.frame
    BY <1>6 DEF HostFrameOpenEarly, SessionOK, StartSyncOK
  <2>2. nextRelease \in Frames
    BY <2>1 DEF Schedules
  <2>3. [room |-> roomEpoch, session |-> sessionEpoch, frame |-> nextRelease] \in Releases
    BY <2>2 DEF TypeOK, Releases
  <2>4. tasks' \subseteq Releases
    BY <1>6, <2>3 DEF HostFrameOpenEarly, SessionOK, RecordsOK
  <2>5. FramesOK'
    BY <1>6, <2>2, Zenon DEF HostFrameOpenEarly, SessionOK, FramesOK
  <2>6. Typed
    BY <1>6, <2>4, <2>5, UnchangedTyped DEF HostFrameOpenEarly, SessionOK, RecordsOK
  <2> QED
    BY <1>0, <2>6 DEF SessionOK, RecordsOK
<1>7. ASSUME NEW t \in tasks, ReleaseScheduled(t)
      PROVE  Typed
  <2>1. tasks' \subseteq Releases
    BY <1>7 DEF ReleaseScheduled, SessionOK, RecordsOK
  <2>2. CASE EnterPlaying /\ ReleaseFrame
    BY <2>1, <2>2, ReleaseTyped DEF EnterPlaying, RepairOK
  <2>3. CASE UNCHANGED <<session, relayed>>
    BY <2>1, <2>3, SessionKeptTyped DEF SessionOK, RecordsOK
  <2> QED
    BY <1>7, <2>2, <2>3, Zenon DEF ReleaseScheduled
<1>8. ASSUME Typed PROVE SessionOK'
  BY <1>0, <1>8 DEF SessionOK, RecordsOK
<1> QED
  BY <1>1, <1>2, <1>3, <1>4, <1>5, <1>6, <1>7, <1>8, Zenon DEF Playing

LEMMA RepairingTyped ==
  ASSUME TypeOK, SessionOK, Repairing
  PROVE  SessionOK'
<1>1. ASSUME NEW p \in Players, NEW d \in Digests, ReportStateHash(p, d)
      PROVE  /\ HandshakeOK' /\ StartSyncOK' /\ FramesOK' /\ RepairOK'
             /\ relayed' \in Seq(Frames) /\ attempts' \in 0..MaxAttempts
  <2> DEFINE new == [hashes EXCEPT ![p] = d]
  <2>1. new \in [Players -> Digests \cup {None}]
    BY DEF SessionOK, RepairOK
  <2>2. HandshakeOK'
    BY <1>1, UnchangedTyped DEF ReportStateHash, SessionOK
  <2>3. FramesOK'
    <3>1. pending' \in {pending, None}
      BY <1>1, Zenon DEF ReportStateHash, BeginRecovery
    <3> QED
      BY <1>1, <3>1 DEF ReportStateHash, SessionOK, FramesOK
  <2>4. StartSyncOK'
    <3>1. sched' \in {sched, None}
      BY <1>1, Zenon DEF ReportStateHash, BeginRecovery
    <3> QED
      BY <1>1, <3>1 DEF ReportStateHash, SessionOK, StartSyncOK
  <2>5. NoHashes \in [Players -> Digests \cup {None}] /\ nextHash + HashInterval \in Nat
    BY BoundsAreNat DEF NoHashes, SessionOK, RepairOK
  <2>6. ASSUME NEW kept \in 0..attempts, BeginRecovery(kept, new)
        PROVE  RepairOK' /\ attempts' \in 0..MaxAttempts
    <3>1. rec' \in Repairs
      BY <2>6, Zenon DEF BeginRecovery, TypeOK, SessionOK, RepairOK, Repairs
    <3>2. attempts' \in 0..MaxAttempts
      <4>1. attempts \in 0..MaxAttempts /\ MaxAttempts \in Nat
        BY BoundsAreNat, Zenon DEF SessionOK, RecordsOK
      <4>2. \/ kept >= MaxAttempts /\ attempts' = kept
            \/ ~(kept >= MaxAttempts) /\ attempts' = kept + 1
        BY <2>6, Zenon DEF BeginRecovery
      <4> QED
        BY <2>6, <4>1, <4>2
    <3>3. CheckpointAfter(nextHash) \in Nat
      BY CheckpointsAreNat DEF SessionOK, RepairOK
    <3>4. hashes' \in [Players -> Digests \cup {None}] /\ nextHash' \in Nat
      BY <2>1, <2>5, <2>6, <3>3 DEF BeginRecovery, SessionOK, RepairOK
    <3> QED
      BY <3>1, <3>2, <3>4 DEF RepairOK
  <2>7. ASSUME UNCHANGED <<rec, attempts>>, hashes' \in {new, NoHashes},
               nextHash' \in {nextHash, nextHash + HashInterval}
        PROVE  RepairOK' /\ attempts' \in 0..MaxAttempts
    BY <2>1, <2>5, <2>7 DEF SessionOK, RepairOK, RecordsOK
  <2>8. RepairOK' /\ attempts' \in 0..MaxAttempts
    BY <1>1, <2>6, <2>7, Zenon DEF ReportStateHash
  <2> QED
    BY <1>1, <2>2, <2>3, <2>4, <2>8 DEF ReportStateHash, SessionOK, RecordsOK
<1>2. ASSUME NEW m \in Manifests, PinRecovery(m)
      PROVE  /\ HandshakeOK' /\ StartSyncOK' /\ FramesOK' /\ RepairOK'
             /\ relayed' \in Seq(Frames) /\ attempts' \in 0..MaxAttempts
  <2>1. rec \in Repairs /\ rec.frame \in Frames
    BY <1>2 DEF PinRecovery, Preparing, SessionOK, RepairOK, Manifests
  <2>2. rec' \in Repairs
    BY <1>2, <2>1 DEF PinRecovery, Repairs
  <2> QED
    BY <1>2, <2>1, <2>2, ResetTyped DEF PinRecovery, SessionOK, RepairOK, RecordsOK
<1>3. caps' \in [Players -> BOOLEAN] /\ tasks' \subseteq Releases
  BY DEF Repairing, SessionOK, RecordsOK
<1> QED
  BY <1>1, <1>2, <1>3, Zenon DEF Repairing, SessionOK, RecordsOK

\* create_room leaves a typed session.
LEMMA SessionInit == RoomInit => SessionOK
<1> SUFFICES ASSUME RoomInit PROVE SessionOK
  OBVIOUS
<1>1. 0 \in Frames /\ 0 \in 0..MaxFrame + 1 /\ 0 \in 0..MaxAttempts
  BY BoundsAreNat DEF Frames
<1>2. HandshakeOK
  BY DEF RoomInit, HandshakeOK
<1>3. StartSyncOK
  BY Zenon DEF RoomInit, StartSyncOK
<1>4. FramesOK
  BY <1>1 DEF RoomInit, FramesOK
<1>5. RepairOK
  BY BoundsAreNat DEF RoomInit, NoHashes, RepairOK
<1>6. RecordsOK
  BY <1>1 DEF RoomInit, RecordsOK
<1> QED
  BY <1>2, <1>3, <1>4, <1>5, <1>6 DEF SessionOK

LEMMA SessionStepTyped ==
  ASSUME TypeOK, SessionOK, [RoomNext]_roomVars
  PROVE  SessionOK'
<1>1. CASE UNCHANGED roomVars
  BY <1>1, SessionKeptTyped DEF roomVars, SessionOK, RecordsOK
<1> QED
  BY <1>1, MembershipTyped, StartingUpTyped, PlayingTyped, RepairingTyped DEF RoomNext

LEMMA RoomTypeInduction == RoomSpec => [](TypeOK /\ SessionOK)
<1>1. RoomSpec => []TypeOK
  BY RoomImplementsLifecycle, TypeCorrect, PTL
<1> QED
  BY <1>1, SessionInit, SessionStepTyped, PTL DEF RoomSpec

\* Whatever clients send, the room's session state stays well typed: frames, cursors and
\* the log stay within the run, a pause frame leaves room for the frame play resumes at,
\* and repair attempts never exceed their limit.
THEOREM SessionTypeCorrect == RoomSpec => []SessionTypeOK
  BY RoomTypeInduction, SessionOKTyped, PTL

-----------------------------------------------------------------------------
(* What membership does to the session.                                    *)

\* From Ready on both players are needed.
Engaged == {"Ready", "StartScheduled", "Playing", "Paused", "RepairingState"}

\* A player who is lost with an armed handoff marker, and whose slot is kept for the
\* runner, is lost before the room engages and before it released a frame.
HandedOffInTime ==
  \A p \in Players :
    handoff[p] = "armed" /\ conn[p] # None /\ conn'[p] = None /\ status' = status
      => status \notin Engaged /\ relayed = << >>

\* Nobody can play in this room again before it gets a new session epoch.
Deserted == ~present \/ ~occupied \/ (status = "Closed" /\ Connected = {})

\* While a slot waits for its player the session epoch has released nothing.
NothingReleasedYet ==
  /\ status = "Recovering" => relayed = << >>
  /\ \A p \in Players : recDl[p] # "none" => relayed = << >>

KeepsSession ==
  /\ UNCHANGED <<status, sessionEpoch, occupied, relayed>>
  /\ UNCHANGED <<xfer, snapshot, startSync, syncStart, nextRelease, pending, pause, repair>>
  /\ ready' \subseteq ready
  /\ pin' = "none" <=> pin = "none"
  /\ present' => present
  /\ Connected \subseteq Connected' \/ status = "Recovering"
  /\ status = "Closed" /\ Connected = {} => Connected' = {}
  /\ nextIn' = nextIn \/ status \notin {"StartScheduled", "Playing", "Paused"}
  /\ \A p \in Players : recDl'[p] # "none" => recDl[p] # "none" \/ status = "Recovering"

ResetsSession ==
  /\ ResetSync
  /\ pin' = "none"
  /\ status' \notin Engaged
  /\ NothingReleasedYet'
  /\ relayed' = << >> \/ Deserted'

\* What RecordEpoch records when the session epoch stays and when it moves.
LEMMA Recorded ==
  ASSUME TypeOK, RecordEpoch
  PROVE  /\ BumpSessionEpoch => relayed' = << >>
         /\ UNCHANGED sessionEpoch => relayed' = relayed
         /\ relayed = << >> => relayed' = << >>
  BY EpochsAreNat DEF RecordEpoch, BumpSessionEpoch

LEMMA NobodyIsNone ==
  ASSUME NEW c \in Conns
  PROVE  c # None
  BY ConnsAssumption

\* disconnect_with_recovery, from the control or the input socket.
LEMMA LossEffect ==
  ASSUME LifecycleInv, NothingReleasedYet, HandedOffInTime, RecordEpoch,
         NEW p \in Players, conn[p] # None, LoseControl(p), SessionLosesControl(p), present
  PROVE  KeepsSession \/ ResetsSession
<1> USE DEF LifecycleInv
<1>0. conn' = [conn EXCEPT ![p] = None] /\ conn'[p] = None
  BY Zenon DEF LoseControl, PreserveHandoff, LoseToRecovery, LeaveSlot, VacateSlots, TypeOK
<1>1. CASE PreserveHandoff(p)
  <2>1. status \notin Engaged /\ relayed = << >>
    BY <1>0, <1>1 DEF HandedOffInTime, PreserveHandoff
  <2>2. relayed' = << >>
    BY <2>1, Recorded
  <2>3. ResetSync
    BY <1>1, Zenon DEF SessionLosesControl, PreserveHandoff
  <2>4. status' = status /\ pin' = "none"
    BY <1>1, Zenon DEF PreserveHandoff
  <2> QED
    BY <2>1, <2>2, <2>3, <2>4, Zenon DEF ResetsSession, NothingReleasedYet
<1>2. CASE LoseToRecovery(p) /\ status = "Recovering"
  <2>1. UNCHANGED room /\ UNCHANGED <<present, occupied>>
    BY <1>2 DEF LoseToRecovery
  <2>2. relayed' = relayed
    BY <2>1, Recorded DEF room
  <2>3. SessionLosesControl(p) /\ handoff[p] # "armed"
    BY <1>2 DEF LoseToRecovery
  <2> QED
    BY <1>0, <1>2, <2>1, <2>2, <2>3, Zenon DEF KeepsSession, SessionLosesControl, room
<1>3. CASE LoseToRecovery(p) /\ status # "Recovering"
  <2>1. status' = "Recovering" /\ pin' = "none" /\ BumpSessionEpoch
    BY <1>3 DEF LoseToRecovery, EnterRecovery
  <2>2. relayed' = << >>
    BY <2>1, Recorded
  <2>3. ResetSync
    BY <1>3 DEF SessionLosesControl
  <2> QED
    BY <2>1, <2>2, <2>3 DEF ResetsSession, NothingReleasedYet, Engaged
<1>4. CASE LeaveSlot(p)
  <2>1. relayed' = relayed /\ pin' = "none" /\ status' \in {"Closed", "WaitingForGuest"}
    BY <1>4, Recorded, Zenon DEF LeaveSlot, KeepEpochs
  <2>2. ~present' \/ ~occupied'
    BY <1>4, Zenon DEF LeaveSlot
  <2>3. recDl' = [recDl EXCEPT ![p] = "none"]
    BY <1>4 DEF LeaveSlot
  <2>4. ResetSync
    BY <1>4 DEF SessionLosesControl, LeaveSlot, Recoverable
  <2>5. NothingReleasedYet'
    BY <2>1, <2>3 DEF NothingReleasedYet, TypeOK
  <2> QED
    BY <2>1, <2>2, <2>4, <2>5 DEF ResetsSession, Engaged, Deserted
<1> QED
  BY <1>1, <1>2, <1>3, <1>4 DEF LoseControl

\* A control connection holds one slot, and so does an input socket.
LEMMA OneSlotEach ==
  ASSUME LifecycleInv, NEW c \in Conns, NEW p \in Players, NEW q \in Players,
         (conn[p] = c /\ conn[q] = c) \/ (inp[p] = c /\ inp[q] = c)
  PROVE  p = q
<1>1. c # None
  BY ConnsAssumption
<1>2. /\ \A x \in Players : inp[x] \in {None, conn[x]}
      /\ conn[Host] = conn[Guest] => conn[Host] = None
  BY Zenon DEF LifecycleInv, CapabilityBinding
<1>3. conn[p] = c /\ conn[q] = c
  BY <1>1, <1>2, Zenon
<1>4. p = q \/ (conn[Host] = c /\ conn[Guest] = c)
  <2>1. (p = Host \/ p = Guest) /\ (q = Host \/ q = Guest)
    BY DEF Players
  <2>2. CASE p = q
    BY <2>2
  <2>3. CASE p = Host /\ q = Guest
    BY <1>3, <2>3, Zenon
  <2>4. CASE p = Guest /\ q = Host
    BY <1>3, <2>4, Zenon
  <2> QED
    BY <2>1, <2>2, <2>3, <2>4, SMTT(30)
<1> QED
  BY <1>1, <1>2, <1>4, Zenon

\* A socket that takes a slot over leaves the session, but for the host's own readiness.
LEMMA TakeoverEffect ==
  ASSUME LifecycleInv, RecordEpoch, NEW p \in Players, NEW c \in Conns,
         present, status # "Closed",
         conn' = [conn EXCEPT ![p] = c], recDl' = [recDl EXCEPT ![p] = "none"],
         UNCHANGED <<present, status, sessionEpoch, pin, occupied>>,
         ready' \subseteq ready,
         UNCHANGED <<xfer, snapshot, startSync, frames, repair>>
  PROVE  KeepsSession
<1>1. Connected \subseteq Connected'
  BY NobodyIsNone DEF Connected, LifecycleInv, TypeOK
<1>2. relayed' = relayed
  BY Recorded DEF LifecycleInv
<1>3. \A q \in Players : recDl'[q] # "none" => recDl[q] # "none"
  BY DEF LifecycleInv, TypeOK
<1> QED
  BY <1>1, <1>2, <1>3 DEF KeepsSession, frames

\* The sockets, the sweeper and the clock change nothing of the session.
LEMMA QuietEffect ==
  ASSUME LifecycleInv, RecordEpoch, present,
         UNCHANGED <<status, sessionEpoch, occupied, conn>>,
         pin' = "none" <=> pin = "none",
         \A p \in Players : recDl'[p] # "none" => recDl[p] # "none",
         UNCHANGED session
  PROVE  KeepsSession
<1>1. relayed' = relayed
  BY Recorded DEF LifecycleInv
<1>2. Connected' = Connected
  BY DEF Connected
<1> QED
  BY <1>1, <1>2, Zenon DEF KeepsSession, session, handshake, frames

LEMMA SocketOnlyEffect ==
  ASSUME LifecycleInv, RecordEpoch, NEW c \in Conns, SocketOnly(c)
  PROVE  KeepsSession
<1>1. present /\ UNCHANGED <<room, occupied, conn, recDl>>
  BY Zenon DEF SocketOnly, ArmRunnerHandoff, ArmRefused, DeliverRoomJoined, CancelRunnerHandoff,
               ConnectInputSocket, slots
<1>2. UNCHANGED session
  BY DEF SocketOnly
<1> QED
  BY <1>1, <1>2, QuietEffect DEF room

LEMMA TimeEffect ==
  ASSUME LifecycleInv, RecordEpoch, RoomTime
  PROVE  KeepsSession
<1>1. present /\ UNCHANGED <<status, sessionEpoch, occupied, conn>> /\ (pin' = "none" <=> pin = "none")
  BY DEF RoomTime, ReconnectGraceElapses, HandoffGraceElapses, PinWindowElapses, JoinWindowElapses,
         IdleTimeoutElapses, room, slots
<1>2. \A p \in Players : recDl'[p] # "none" => recDl[p] # "none"
  BY Zenon DEF RoomTime, ReconnectGraceElapses, HandoffGraceElapses, PinWindowElapses, JoinWindowElapses,
         IdleTimeoutElapses, slots, LifecycleInv, TypeOK
<1>3. UNCHANGED session
  BY DEF RoomTime
<1> QED
  BY <1>1, <1>2, <1>3, QuietEffect, Zenon

LEMMA SweepEffect ==
  ASSUME LifecycleInv, NothingReleasedYet, RecordEpoch, RoomSweep
  PROVE  KeepsSession \/ ResetsSession
<1>1. CASE SweepCloses /\ UNCHANGED session
  BY <1>1, QuietEffect DEF SweepCloses, RemoveRoom, room, slots
<1>2. CASE SweepFreesGuest /\ ResetSync
  <2>1. relayed' = relayed
    BY <1>2, Recorded DEF SweepFreesGuest, KeepEpochs, LifecycleInv
  <2>2. recDl' = [recDl EXCEPT ![Guest] = "none"] /\ status' = "WaitingForGuest" /\ ~occupied' /\ pin' = "none"
    BY <1>2 DEF SweepFreesGuest
  <2>3. NothingReleasedYet'
    BY <2>1, <2>2 DEF NothingReleasedYet, LifecycleInv, TypeOK
  <2> QED
    BY <1>2, <2>2, <2>3 DEF ResetsSession, Engaged, Deserted
<1>3. ASSUME NEW silent \in SUBSET Players, SweepStale(silent),
             IF roomEpoch' # roomEpoch THEN ResetSync ELSE UNCHANGED session
      PROVE  KeepsSession \/ ResetsSession
  <2>1. CASE status \in HeartbeatGuarded /\ silent # {}
    <3>1. EnterRecovery(silent, roomEpoch)
      BY <1>3, <2>1, Zenon DEF SweepStale
    <3>2. ResetSync
      <4>1. roomEpoch' = roomEpoch + 1
        BY <3>1, Zenon DEF EnterRecovery, BumpRoomEpoch
      <4>2. roomEpoch' # roomEpoch
        BY <4>1, EpochsAreNat, NextDiffers, Zenon DEF LifecycleInv
      <4> QED
        BY <1>3, <4>2, Zenon
    <3>3. relayed' = << >>
      BY <3>1, Recorded DEF EnterRecovery, LifecycleInv
    <3> QED
      BY <3>1, <3>2, <3>3 DEF ResetsSession, NothingReleasedYet, EnterRecovery, Engaged
  <2>2. CASE ~(status \in HeartbeatGuarded /\ silent # {})
    <3>1. present /\ UNCHANGED <<room, conn, recDl, occupied>>
      BY <1>3, <2>2 DEF SweepStale
    <3>2. UNCHANGED session
      BY <1>3, <3>1 DEF room
    <3> QED
      BY <3>1, <3>2, QuietEffect DEF room
  <2> QED
    BY <2>1, <2>2
<1> QED
  BY <1>1, <1>2, <1>3, Zenon DEF RoomSweep

\* The end of a control socket.
LEMMA ControlCloseEffect ==
  ASSUME LifecycleInv, NothingReleasedYet, HandedOffInTime, RecordEpoch,
         NEW c \in Conns, ControlCloses(c)
  PROVE  KeepsSession \/ ResetsSession
<1>0. present
  BY Zenon DEF ControlCloses, Disconnect
<1>1. ASSUME NEW p \in Players, conn[p] = c, LoseControl(p)
      PROVE  KeepsSession \/ ResetsSession
  <2>1. SessionLosesControl(p)
    BY <1>1, OneSlotEach DEF ControlCloses
  <2> QED
    BY <1>0, <1>1, <2>1, LossEffect, NobodyIsNone
<1>2. ASSUME \A p \in Players : conn[p] # c, UNCHANGED <<present, room, slots>>
      PROVE  KeepsSession
  <2>1. UNCHANGED session
    BY <1>2 DEF ControlCloses
  <2> QED
    BY <1>0, <1>2, <2>1, QuietEffect, Zenon DEF room, slots
<1> QED
  BY <1>1, <1>2, Zenon DEF ControlCloses, Disconnect

\* The end of an input socket: in play the control connection is given up with it, before
\* play the slot's input cursor goes back to the sync start.
LEMMA InputCloseEffect ==
  ASSUME LifecycleInv, NothingReleasedYet, HandedOffInTime, RecordEpoch,
         NEW c \in Conns, InputCloses(c)
  PROVE  KeepsSession \/ ResetsSession
<1>0. present
  BY Zenon DEF InputCloses, DisconnectInputSocket
<1>1. ASSUME NEW p \in Players, inp[p] = c, status \in InputLossRecovers, conn[p] # None, LoseControl(p)
      PROVE  KeepsSession \/ ResetsSession
  <2>1. SessionLosesControl(p)
    BY <1>1, OneSlotEach, Zenon DEF InputCloses
  <2> QED
    BY <1>0, <1>1, <2>1, LossEffect, Zenon
<1>2. ASSUME NEW p \in Players, inp[p] = c, status \notin InputLossRecovers \/ conn[p] = None,
             UNCHANGED <<present, room, occupied, conn, recDl, recEpoch, handoff>>
      PROVE  KeepsSession
  <2>1. conn[p] = c
    BY <1>2, NobodyIsNone, Zenon DEF LifecycleInv, CapabilityBinding
  <2>2. status \notin {"StartScheduled", "Playing", "Paused"}
    BY <1>2, <2>1, NobodyIsNone, Zenon DEF InputLossRecovers
  <2>3. UNCHANGED <<handshake, startSync, syncStart, nextRelease, pending, pause, repair>>
    BY <1>2, OneSlotEach, Zenon DEF InputCloses
  <2>4. relayed' = relayed
    BY <1>2, Recorded, Zenon DEF LifecycleInv, room
  <2>5. Connected' = Connected
    BY <1>2, Zenon DEF Connected
  <2> QED
    BY <1>0, <1>2, <2>2, <2>3, <2>4, <2>5, Zenon DEF KeepsSession, handshake, room
<1>3. ASSUME \A p \in Players : inp[p] # c, UNCHANGED <<present, room, slots>>
      PROVE  KeepsSession
  <2>1. UNCHANGED session
    BY <1>3, Zenon DEF InputCloses
  <2> QED
    BY <1>0, <1>3, <2>1, QuietEffect, Zenon DEF room, slots
<1> QED
  BY <1>1, <1>2, <1>3, Zenon DEF InputCloses, DisconnectInputSocket

\* A guest joins, or a lost player comes back.
LEMMA ArrivalEffect ==
  ASSUME LifecycleInv, NothingReleasedYet, RecordEpoch, NEW c \in Conns,
         \/ HostAttaches(c) \/ GuestJoins(c) \/ \E p \in Players : PlayerReconnects(p, c)
  PROVE  KeepsSession \/ ResetsSession
<1>1. CASE HostAttaches(c)
  <2>1. /\ present /\ status # "Closed" /\ UNCHANGED <<present, room, occupied>>
        /\ conn' = [conn EXCEPT ![Host] = c] /\ recDl' = [recDl EXCEPT ![Host] = "none"]
    BY <1>1, Zenon DEF HostAttaches, AttachHost, SeatConnection
  <2>2. ready' \subseteq ready /\ UNCHANGED <<xfer, snapshot, startSync, frames, repair>>
    BY <1>1, Zenon DEF HostAttaches
  <2> QED
    BY <2>1, <2>2, TakeoverEffect, HostAndGuest, Zenon DEF room
<1>2. CASE GuestJoins(c)
  <2>1. BumpSessionEpoch /\ status' = "CheckingCompatibility" /\ pin' = "none"
    BY <1>2, Zenon DEF GuestJoins, JoinGuest, RestoreCheckingCompatibility
  <2>2. relayed' = << >>
    BY <2>1, Recorded DEF LifecycleInv
  <2> QED
    BY <1>2, <2>1, <2>2, Zenon DEF GuestJoins, ResetsSession, NothingReleasedYet, Engaged
<1>3. ASSUME NEW p \in Players, PlayerReconnects(p, c), handoff[p] # "none"
      PROVE  KeepsSession
  <2>1. /\ present /\ status # "Closed" /\ UNCHANGED <<present, status, pin, sessionEpoch, occupied>>
        /\ conn' = [conn EXCEPT ![p] = c] /\ recDl' = [recDl EXCEPT ![p] = "none"]
    BY <1>3, Zenon DEF PlayerReconnects, ReconnectPlayer, SeatConnection
  <2>2. UNCHANGED session
    BY <1>3, Zenon DEF PlayerReconnects
  <2> QED
    BY <2>1, <2>2, TakeoverEffect, Zenon DEF session, handshake
<1>4. ASSUME NEW p \in Players, PlayerReconnects(p, c), handoff[p] = "none"
      PROVE  ResetsSession
  <2>1. /\ recDl[p] # "none" /\ status' = "CheckingCompatibility" /\ pin' = "none"
        /\ UNCHANGED sessionEpoch
    BY <1>4, Zenon DEF PlayerReconnects, ReconnectPlayer, RestoreCheckingCompatibility
  <2>2. relayed' = << >>
    BY <2>1, Recorded DEF NothingReleasedYet, LifecycleInv
  <2>3. ResetSync
    BY <1>4, Zenon DEF PlayerReconnects
  <2> QED
    BY <2>1, <2>2, <2>3, Zenon DEF ResetsSession, NothingReleasedYet, Engaged
<1> QED
  BY <1>1, <1>2, <1>3, <1>4

LEMMA ExitEffect ==
  ASSUME LifecycleInv, NothingReleasedYet, RecordEpoch, NEW c \in Conns, PlayerLeaves(c)
  PROVE  ResetsSession
<1>1. status' = "Closed" /\ pin' = "none" /\ UNCHANGED sessionEpoch /\ ResetSync
  BY DEF PlayerLeaves, PlayerExited, KeepEpochs
<1>2. \A p \in Players : conn'[p] = None /\ recDl'[p] = "none"
  BY DEF PlayerLeaves, PlayerExited, VacateSlots
<1>3. Connected' = {}
  BY <1>2 DEF Connected
<1> QED
  BY <1>1, <1>2, <1>3, Zenon DEF ResetsSession, NothingReleasedYet, Engaged, Deserted

\* Every membership operation keeps the session or resets it.
LEMMA MembershipEffect ==
  ASSUME LifecycleInv, NothingReleasedYet, HandedOffInTime, Membership
  PROVE  KeepsSession \/ ResetsSession
<1>1. RecordEpoch
  BY DEF Membership, MembershipFrame
<1> QED
  BY <1>1, ArrivalEffect, ControlCloseEffect, InputCloseEffect, ExitEffect, SocketOnlyEffect, SweepEffect,
     TimeEffect, Zenon DEF Membership

-----------------------------------------------------------------------------
(* The inductive invariant of a session in which handoffs end in time.     *)

\* From Ready on both players are there and the host's snapshot is complete; a scheduled
\* start is the current one.
StartInv ==
  /\ status \in Engaged => Connected = Players
  /\ SnapshotGate
  /\ pause # None => snapshot # None
  /\ ScheduleIsCurrent

\* How far a pause, a waiting open and the released frames may be apart.
FramesInv ==
  /\ nextRelease >= syncStart
  /\ pending # None => pending = nextRelease /\ nextRelease = syncStart /\ sched # None
  /\ pause # None => Connected = Players /\ syncStart <= pause.at
  /\ status = "Recovering" => pause = None
  /\ ReleaseGate

\* A repair is committed in the epoch that diverged, and then starts without a pause.
RepairInv ==
  /\ PinnedRepair
  /\ status = "RepairingState" => rec.session = sessionEpoch
  /\ rec # None /\ rec.pinned # None => pause = None

\* The log of released frames runs from the sync start to the last released frame.
LogInv ==
  /\ NothingReleasedYet
  /\ \/ Deserted
     \/ /\ Len(relayed) = nextRelease - syncStart
        /\ relayed # << >> => relayed[Len(relayed)] = nextRelease - 1

SessionInv == LifecycleInv /\ SessionOK /\ StartInv /\ FramesInv /\ RepairInv /\ LogInv

LEMMA NoneIsNothing ==
  /\ \A x \in Frames : x # None
  /\ \A x \in Manifests : x # None
  /\ \A x \in Schedules : x # None
  /\ \A x \in Pauses : x # None
  /\ \A x \in Repairs : x # None
  BY NoneAssumption

LEMMA FramesAreInts ==
  ASSUME SessionOK
  PROVE  /\ syncStart \in Nat /\ nextRelease \in Nat
         /\ \A p \in Players : nextIn[p] \in Nat
         /\ pause # None => pause \in Pauses /\ pause.at \in Nat
         /\ sched # None => sched \in Schedules
         /\ rec # None => rec \in Repairs
         /\ pending # None => pending \in Nat
<1>1. \A f \in 0..MaxFrame + 1 : f \in Nat
  OBVIOUS
<1>2. \A f \in Frames : f \in Nat
  BY DEF Frames
<1>3. syncStart \in Frames /\ nextRelease \in 0..MaxFrame + 1 /\ pending \in Frames \cup {None}
  BY Zenon DEF SessionOK, FramesOK
<1>4. \A p \in Players : nextIn[p] \in 0..MaxFrame + 1
  BY DEF SessionOK, FramesOK
<1>5. pause # None => pause \in Pauses
  BY Zenon DEF SessionOK, FramesOK
<1>6. \A x \in Pauses : x.at \in Frames
  BY DEF Pauses
<1>7. (sched # None => sched \in Schedules) /\ (rec # None => rec \in Repairs)
  BY Zenon DEF SessionOK, StartSyncOK, RepairOK
<1> QED
  BY <1>1, <1>2, <1>3, <1>4, <1>5, <1>6, <1>7, Zenon

\* Membership operations keep it.
LEMMA KeepStep ==
  ASSUME SessionInv, KeepsSession
  PROVE  StartInv' /\ FramesInv' /\ RepairInv' /\ LogInv'
<1>0. Connected' \subseteq Players
  BY DEF Connected
<1>1. StartInv'
  BY <1>0, Zenon DEF SessionInv, StartInv, KeepsSession, SnapshotGate, ScheduleIsCurrent, startSync, Engaged
<1>2. FramesInv'
  <2>1. status = "Paused" => Connected = Players /\ Players \subseteq pause.acked
    BY Zenon DEF SessionInv, StartInv, FramesInv, ReleaseGate, Engaged
  <2>2. ReleaseGate'
    BY <1>0, <2>1, Zenon DEF SessionInv, FramesInv, KeepsSession, ReleaseGate, startSync
  <2> QED
    BY <1>0, <2>2, Zenon DEF SessionInv, FramesInv, KeepsSession, startSync
<1>3. RepairInv'
  BY Zenon DEF SessionInv, RepairInv, PinnedRepair, Preparing, KeepsSession, repair
<1>4. LogInv'
  <2>1. NothingReleasedYet'
    BY Zenon DEF SessionInv, LogInv, NothingReleasedYet, KeepsSession
  <2>2. Deserted => Deserted'
    BY Zenon DEF Deserted, KeepsSession
  <2> QED
    BY <2>1, <2>2, Zenon DEF SessionInv, LogInv, KeepsSession
<1> QED
  BY <1>1, <1>2, <1>3, <1>4

LEMMA ResetStep ==
  ASSUME SessionInv, ResetsSession
  PROVE  StartInv' /\ FramesInv' /\ RepairInv' /\ LogInv'
<1>1. StartInv'
  BY DEF ResetsSession, ResetSync, ResetTo, StartInv, SnapshotGate, ScheduleIsCurrent, Engaged
<1>2. FramesInv'
  <2>1. pending' = None /\ pause' = None /\ syncStart' = 0 /\ nextRelease' = 0
    BY Zenon DEF ResetsSession, ResetSync, ResetTo
  <2>2. status' \notin {"StartScheduled", "Paused"}
    BY Zenon DEF ResetsSession, Engaged
  <2>3. nextRelease' >= syncStart'
    BY <2>1
  <2> QED
    BY <2>1, <2>2, <2>3, Zenon DEF FramesInv, ReleaseGate
<1>3. RepairInv'
  BY DEF ResetsSession, ResetSync, ResetTo, RepairInv, PinnedRepair, Preparing, Engaged
<1>4. LogInv'
  BY DEF ResetsSession, ResetSync, ResetTo, LogInv
<1> QED
  BY <1>1, <1>2, <1>3, <1>4

\* What an in-room operation leaves alone.
LEMMA FrameFacts ==
  ASSUME SessionFrame
  PROVE  /\ present /\ UNCHANGED <<present, occupied, conn, recDl, Connected>>
         /\ Deserted' <=> ~occupied \/ (status' = "Closed" /\ Connected = {})
<1>1. present /\ UNCHANGED <<present, occupied, conn, recDl>>
  BY DEF SessionFrame, slots
<1>2. Connected' = Connected
  BY <1>1 DEF Connected
<1> QED
  BY <1>1, <1>2 DEF Deserted

\* A guest slot that is taken and a player who is there.
LEMMA BothThere ==
  ASSUME LifecycleInv, present, Connected = Players
  PROVE  occupied /\ Connected # {} /\ ~Deserted
<1>1. Guest \in Connected
  BY HostAndGuest
<1> QED
  BY <1>1, Zenon DEF LifecycleInv, DeadlineDiscipline, Connected, Deserted

\* Compatibility reports may take the status back, but leave the session standing.
LEMMA CompatibilityStep ==
  ASSUME SessionInv, NEW p \in Players,
         RejectCompatibility(p) \/ \E f \in Fingerprints : SetCompatibility(p, f),
         UNCHANGED relayed
  PROVE  StartInv' /\ FramesInv' /\ RepairInv' /\ LogInv'
<1>0. /\ SessionFrame /\ status # "Closed"
      /\ ready' \subseteq ready
      /\ UNCHANGED <<sessionEpoch, pin, snapshot, startSync, frames, repair>>
  BY DEF RejectCompatibility, SetCompatibility, Speaks
<1>1. status' \in {status, "CheckingCompatibility", "SyncingState"}
  BY DEF RejectCompatibility, SetCompatibility
<1>2. StartInv'
  BY <1>0, <1>1, FrameFacts DEF SessionInv, StartInv, SnapshotGate, ScheduleIsCurrent, startSync, frames, Engaged
<1>3. FramesInv'
  BY <1>0, <1>1, FrameFacts, Zenon DEF SessionInv, FramesInv, ReleaseGate, startSync, frames
<1>4. RepairInv'
  BY <1>0, <1>1, Zenon DEF SessionInv, RepairInv, PinnedRepair, Preparing, frames, repair
<1>5. LogInv'
  BY <1>0, <1>1, FrameFacts DEF SessionInv, LogInv, NothingReleasedYet, Deserted, frames
<1> QED
  BY <1>2, <1>3, <1>4, <1>5

\* The host's snapshot arrives.
LEMMA SnapshotStep ==
  ASSUME SessionInv, NEW m \in Manifests, SnapshotChunk(m) \/ SnapshotComplete(m), UNCHANGED relayed
  PROVE  StartInv' /\ FramesInv' /\ RepairInv' /\ LogInv'
<1>0. /\ SessionFrame /\ snapshot = None
      /\ snapshot' \in {None, m}
      /\ rec # None /\ rec.pinned # None => m = rec.pinned
      /\ UNCHANGED <<status, sessionEpoch, pin, ready, startSync, frames, repair>>
  BY Zenon DEF SnapshotChunk, SnapshotComplete, SnapshotFits, Speaks
<1>2. StartInv'
  BY <1>0, FrameFacts DEF SessionInv, StartInv, SnapshotGate, ScheduleIsCurrent, startSync, frames
<1>3. FramesInv'
  BY <1>0, FrameFacts, Zenon DEF SessionInv, FramesInv, ReleaseGate, startSync, frames
<1>4. RepairInv'
  BY <1>0, Zenon DEF SessionInv, RepairInv, PinnedRepair, Preparing, frames, repair
<1>5. LogInv'
  BY <1>0, FrameFacts DEF SessionInv, LogInv, NothingReleasedYet, Deserted, frames
<1> QED
  BY <1>2, <1>3, <1>4, <1>5

\* A player gets ready; without scheduled starts the last one starts the game.
LEMMA ReadyStep ==
  ASSUME SessionInv, NEW p \in Players, MarkReady(p), UNCHANGED relayed
  PROVE  StartInv' /\ FramesInv' /\ RepairInv' /\ LogInv'
<1>0. /\ SessionFrame /\ snapshot # None /\ Connected = Players
      /\ status \in {"SyncingState", "Ready"}
      /\ \/ status' = "Playing" /\ rec' = None /\ pin' = "none"
         \/ status' = "Ready" /\ UNCHANGED <<rec, pin>>
      /\ UNCHANGED <<sessionEpoch, snapshot, sched, frames>>
  BY Zenon DEF MarkReady, MayGetReady, Speaks
<1>2. StartInv'
  BY <1>0, FrameFacts DEF SessionInv, StartInv, SnapshotGate, ScheduleIsCurrent, frames
<1>3. FramesInv'
  BY <1>0, FrameFacts, Zenon DEF SessionInv, FramesInv, ReleaseGate, frames
<1>4. RepairInv'
  BY <1>0, Zenon DEF SessionInv, RepairInv, PinnedRepair, Preparing, frames
<1>5. LogInv'
  BY <1>0, FrameFacts DEF SessionInv, LogInv, NothingReleasedYet, Deserted, frames
<1> QED
  BY <1>2, <1>3, <1>4, <1>5

\* A clock sample or a deterministic-ready report, which may schedule the start.
LEMMA ScheduleStep ==
  ASSUME SessionInv, NEW p \in Players, AcceptClockSyncSample(p) \/ MarkDeterministicReady(p),
         UNCHANGED relayed
  PROVE  StartInv' /\ FramesInv' /\ RepairInv' /\ LogInv'
<1> DEFINE start == [session |-> sessionEpoch, frame |-> syncStart, due |-> FALSE]
<1>0. /\ SessionFrame /\ snapshot # None
      /\ UNCHANGED <<sessionEpoch, pin, snapshot, ready, clockReq, frames, repair>>
  BY Zenon DEF AcceptClockSyncSample, MarkDeterministicReady, Speaks, handshake, SessionInv, StartInv, SnapshotGate
<1>1. \/ UNCHANGED <<status, sched>>
      \/ sched = None /\ Connected = Players /\ status' = "StartScheduled" /\ sched' = start
  BY Zenon DEF AcceptClockSyncSample, MarkDeterministicReady, TrySchedule
<1>2. start # None /\ start.session = sessionEpoch /\ start.frame = syncStart
  <2>1. start \in Schedules
    BY Zenon DEF SessionInv, LifecycleInv, TypeOK, SessionOK, FramesOK, Schedules
  <2> QED
    BY <2>1, NoneIsNothing, Zenon
<1> HIDE DEF start
<1>3. StartInv'
  BY <1>0, <1>1, <1>2, FrameFacts DEF SessionInv, StartInv, SnapshotGate, ScheduleIsCurrent, frames
<1>4. FramesInv'
  BY <1>0, <1>1, <1>2, FrameFacts, Zenon DEF SessionInv, FramesInv, ReleaseGate, frames
<1>5. RepairInv'
  BY <1>0, <1>1, Zenon DEF SessionInv, RepairInv, PinnedRepair, Preparing, frames, repair
<1>6. LogInv'
  <2>1. Deserted => Deserted'
    BY <1>0, <1>1, FrameFacts, BothThere DEF SessionInv, Deserted
  <2> QED
    BY <1>0, <1>1, <2>1, FrameFacts, Zenon DEF SessionInv, LogInv, NothingReleasedYet, frames
<1> QED
  BY <1>3, <1>4, <1>5, <1>6

\* The scheduled time comes.
LEMMA StartTimeStep ==
  ASSUME SessionInv, StartTimeComes, UNCHANGED relayed
  PROVE  StartInv' /\ FramesInv' /\ RepairInv' /\ LogInv'
<1>0. /\ SessionFrame /\ sched # None
      /\ sched' = [sched EXCEPT !.due = TRUE]
      /\ UNCHANGED <<status, sessionEpoch, pin, snapshot, ready, clockReq, detReady, frames, repair>>
  BY DEF StartTimeComes, handshake
<1>1. sched \in Schedules
  BY <1>0, FramesAreInts DEF SessionInv
<1>2. sched' # None /\ sched'.session = sched.session /\ sched'.frame = sched.frame
  <2>1. sched' \in Schedules /\ sched'.session = sched.session /\ sched'.frame = sched.frame
    BY <1>0, <1>1, Zenon DEF Schedules
  <2> QED
    BY <2>1, NoneIsNothing
<1>3. StartInv'
  BY <1>0, <1>2, FrameFacts DEF SessionInv, StartInv, SnapshotGate, ScheduleIsCurrent, frames
<1>4. FramesInv'
  BY <1>0, <1>2, FrameFacts DEF SessionInv, FramesInv, ReleaseGate, frames
<1>5. RepairInv'
  BY <1>0 DEF SessionInv, RepairInv, PinnedRepair, Preparing, frames, repair
<1>6. LogInv'
  BY <1>0, FrameFacts DEF SessionInv, LogInv, NothingReleasedYet, Deserted, frames
<1> QED
  BY <1>3, <1>4, <1>5, <1>6

\* Input moves a cursor forward.
LEMMA InputStep ==
  ASSUME SessionInv, NEW p \in Players, NEW e \in Frames, StrictInputBatch(p, e)
  PROVE  StartInv' /\ FramesInv' /\ RepairInv' /\ LogInv'
<1>0. /\ SessionFrame
      /\ nextIn' = [nextIn EXCEPT ![p] = e + 1] /\ nextIn[p] <= e
      /\ UNCHANGED <<status, sessionEpoch, pin, handshake, startSync, syncStart, nextRelease, pending,
                     pause, repair, relayed>>
  BY Zenon DEF StrictInputBatch, Inputs
<1>1. \A q \in Players : nextIn[q] \in Nat /\ nextIn'[q] \in Nat /\ nextIn'[q] >= nextIn[q]
  <2>1. nextIn \in [Players -> 0..MaxFrame + 1]
    BY Zenon DEF SessionInv, SessionOK, FramesOK
  <2>3. e \in Nat
    BY BoundsAreNat DEF Frames
  <2>2. \A q \in Players : nextIn[q] \in Nat
    BY FramesAreInts, Zenon DEF SessionInv
  <2> QED
    BY <1>0, <2>1, <2>3, <2>2, SMTT(30)
<1>2. StartInv'
  BY <1>0, FrameFacts, Zenon DEF SessionInv, StartInv, SnapshotGate, ScheduleIsCurrent, handshake, startSync
<1>3. FramesInv'
  <2>1. ReleaseGate'
    <3>1. Connected' = Connected /\ UNCHANGED <<status, pending, pause, nextRelease>>
      BY <1>0, FrameFacts, Zenon
    <3>2. pending # None => pending \in Nat
      BY FramesAreInts, Zenon DEF SessionInv
    <3>3. pause # None => pause.at \in Nat
      BY FramesAreInts, Zenon DEF SessionInv
    <3>4. ReleaseGate
      BY Zenon DEF SessionInv, FramesInv
    <3>5. \A q \in Players, n \in Nat : nextIn[q] > n => nextIn'[q] > n
      BY <1>1, SMTT(30)
    <3>6. status = "StartScheduled" /\ pending # None => nextIn'[Host] > pending
      BY <3>2, <3>4, <3>5, HostAndGuest, Zenon DEF ReleaseGate
    <3>7. status = "Paused" => \A q \in Players : nextIn'[q] > pause.at
      BY <3>3, <3>4, <3>5, Zenon DEF ReleaseGate
    <3> QED
      BY <3>1, <3>4, <3>6, <3>7, Zenon DEF ReleaseGate
  <2> QED
    BY <1>0, <2>1, FrameFacts, Zenon DEF SessionInv, FramesInv, startSync
<1>4. RepairInv'
  BY <1>0, Zenon DEF SessionInv, RepairInv, PinnedRepair, Preparing, handshake, repair
<1>5. LogInv'
  BY <1>0, FrameFacts, Zenon DEF SessionInv, LogInv, NothingReleasedYet, Deserted
<1> QED
  BY <1>2, <1>3, <1>4, <1>5

\* A frame is released while no pause frame has been passed.
LEMMA ReleaseStep ==
  ASSUME SessionInv, SessionFrame, ReleaseFrame,
         status \in {"Playing", "StartScheduled"},
         pause # None => nextRelease <= pause.at,
         status' = "Playing" /\ rec' = None /\ pin' = "none"
  PROVE  StartInv' /\ FramesInv' /\ RepairInv' /\ LogInv'
<1>0. /\ nextRelease' = nextRelease + 1 /\ pending' = None /\ nextRelease <= MaxFrame
      /\ relayed' = IF Len(relayed) < MaxRelayed THEN Append(relayed, nextRelease) ELSE relayed
      /\ UNCHANGED <<sessionEpoch, ready, snapshot, startSync, syncStart, nextIn, pause>>
  BY Zenon DEF ReleaseFrame, handshake
<1>1. Connected = Players
  BY DEF SessionInv, StartInv, Engaged
<1>2. nextRelease \in Nat /\ syncStart \in Nat /\ syncStart <= nextRelease
      /\ (pause # None => pause.at \in Nat)
  BY FramesAreInts, Zenon DEF SessionInv, FramesInv
<1>3. StartInv'
  BY <1>0, <1>1, FrameFacts, Zenon DEF SessionInv, StartInv, SnapshotGate, ScheduleIsCurrent, startSync
<1>4. FramesInv'
  <2>1. nextRelease' >= syncStart' /\ (pause # None => nextRelease' <= pause.at + 1)
    BY <1>0, <1>2
  <2>2. pause # None => Connected = Players /\ syncStart <= pause.at
    BY <1>2, Zenon DEF SessionInv, FramesInv
  <2> QED
    BY <1>0, <1>1, <2>1, <2>2, FrameFacts, Zenon DEF FramesInv, ReleaseGate
<1>5. RepairInv'
  BY DEF RepairInv, PinnedRepair, Preparing
<1>6. LogInv'
  <2>1. ~Deserted /\ present /\ occupied
    BY <1>1, BothThere DEF SessionInv, SessionFrame
  <2>2. /\ Len(relayed) = nextRelease - syncStart
        /\ \A p \in Players : recDl[p] # "none" => relayed = << >>
    BY <2>1 DEF SessionInv, LogInv, NothingReleasedYet
  <2>3. relayed' = Append(relayed, nextRelease)
    BY <1>0, <1>2, <2>2, BoundsAreNat, SMTT(30) DEF MaxRelayed
  <2>4. relayed \in Seq(Frames) /\ nextRelease \in Frames
    BY <1>0, <1>2, BoundsAreNat, SMTT(30) DEF SessionInv, SessionOK, RecordsOK, Frames
  <2>5. Len(relayed') = Len(relayed) + 1 /\ relayed'[Len(relayed')] = nextRelease
    BY <2>3, <2>4
  <2>6. \A p \in Players : recDl'[p] = "none"
    BY <1>1, FrameFacts, Zenon DEF SessionInv, LifecycleInv, DeadlineDiscipline, Connected
  <2> QED
    <3>1. status' # "Recovering"
      BY <1>1, FrameFacts, Zenon
    <3>2. NothingReleasedYet'
      BY <2>6, <3>1, Zenon DEF NothingReleasedYet
    <3>3. Len(relayed') = nextRelease' - syncStart' /\ relayed'[Len(relayed')] = nextRelease' - 1
      <4>1. (nextRelease - syncStart) + 1 = (nextRelease + 1) - syncStart /\ (nextRelease + 1) - 1 = nextRelease
        BY <1>2
      <4> QED
        BY <1>0, <2>2, <2>5, <4>1, Zenon
    <3> QED
      BY <3>2, <3>3, Zenon DEF LogInv
<1> QED
  BY <1>3, <1>4, <1>5, <1>6

\* The host opens a frame, or a waiting first frame is released at the scheduled time.
LEMMA OpenStep ==
  ASSUME SessionInv, HostFrameOpen
  PROVE  StartInv' /\ FramesInv' /\ RepairInv' /\ LogInv'
<1>1. /\ SessionFrame /\ ReleaseFrame /\ status \in {"Playing", "StartScheduled"}
      /\ pause # None => nextRelease <= pause.at
  BY DEF HostFrameOpen, HostMayOpen, Inputs
<1>2. status = "Playing" => rec = None /\ pin = "none"
  BY DEF SessionInv, RepairInv, PinnedRepair, Preparing
<1>3. status' = "Playing" /\ rec' = None /\ pin' = "none"
  BY <1>2 DEF HostFrameOpen, EnterPlaying
<1> QED
  BY <1>1, <1>3, ReleaseStep

LEMMA ScheduledReleaseStep ==
  ASSUME SessionInv, NEW t \in tasks, ReleaseScheduled(t)
  PROVE  StartInv' /\ FramesInv' /\ RepairInv' /\ LogInv'
<1>0. SessionFrame
  BY DEF ReleaseScheduled
<1>1. CASE ~Superseded(t) /\ status = "StartScheduled" /\ EnterPlaying /\ ReleaseFrame
  <2>1. pending = t.frame /\ t.frame \in Frames
    BY <1>1 DEF Superseded, SessionInv, SessionOK, RecordsOK, Releases
  <2>2. nextRelease = syncStart
    BY <2>1, NoneIsNothing DEF SessionInv, FramesInv
  <2>3. pause # None => nextRelease <= pause.at
    BY <2>2 DEF SessionInv, FramesInv
  <2> QED
    BY <1>0, <1>1, <2>3, ReleaseStep DEF EnterPlaying
<1>2. CASE UNCHANGED <<status, sessionEpoch, pin, session, relayed>>
  <2>1. UNCHANGED <<ready, snapshot, clockReq, detReady, sched, syncStart, nextRelease, pending, nextIn,
                    pause, rec>>
    BY <1>2 DEF session, handshake, startSync, frames, repair
  <2>2. StartInv'
    BY <1>0, <1>2, <2>1, FrameFacts DEF SessionInv, StartInv, SnapshotGate, ScheduleIsCurrent
  <2>3. FramesInv'
    BY <1>0, <1>2, <2>1, FrameFacts, Zenon DEF SessionInv, FramesInv, ReleaseGate
  <2>4. RepairInv'
    BY <1>2, <2>1, Zenon DEF SessionInv, RepairInv, PinnedRepair, Preparing
  <2>5. LogInv'
    BY <1>0, <1>2, <2>1, FrameFacts DEF SessionInv, LogInv, NothingReleasedYet, Deserted
  <2> QED
    BY <2>2, <2>3, <2>4, <2>5
<1> QED
  BY <1>1, <1>2, Zenon DEF ReleaseScheduled

\* An open before its time waits.
LEMMA EarlyOpenStep ==
  ASSUME SessionInv, HostFrameOpenEarly
  PROVE  StartInv' /\ FramesInv' /\ RepairInv' /\ LogInv'
<1>0. /\ SessionFrame /\ nextIn[Host] > nextRelease
      /\ sched # None /\ nextRelease = sched.frame /\ pending' = nextRelease
      /\ UNCHANGED <<status, sessionEpoch, pin, handshake, startSync, syncStart, nextRelease, nextIn,
                     pause, repair, relayed>>
  BY Zenon DEF HostFrameOpenEarly, HostMayOpen, Inputs
<1>1. nextRelease = syncStart
  BY <1>0 DEF SessionInv, StartInv, ScheduleIsCurrent
<1>2. StartInv'
  BY <1>0, FrameFacts DEF SessionInv, StartInv, SnapshotGate, ScheduleIsCurrent, handshake, startSync
<1>3. FramesInv'
  BY <1>0, <1>1, FrameFacts, Zenon DEF SessionInv, FramesInv, ReleaseGate, startSync
<1>4. RepairInv'
  BY <1>0, Zenon DEF SessionInv, RepairInv, PinnedRepair, Preparing, handshake, repair
<1>5. LogInv'
  BY <1>0, FrameFacts DEF SessionInv, LogInv, NothingReleasedYet, Deserted
<1> QED
  BY <1>2, <1>3, <1>4, <1>5

\* A pause that is set or changed, of which only the frame matters here.
LEMMA PauseSetStep ==
  ASSUME SessionInv, SessionFrame, pause' \in Pauses,
         status \in Engaged \/ pause # None, Connected = Players, snapshot # None,
         rec # None => rec.pinned = None,
         syncStart <= pause'.at, nextRelease <= pause'.at + 1,
         status' \in {status, "Paused"}, status # "Recovering",
         status' = "Paused" => /\ nextRelease = pause'.at + 1
                               /\ Connected \subseteq pause'.acked
                               /\ \A q \in Players : nextIn[q] > pause'.at,
         UNCHANGED <<sessionEpoch, pin, handshake, startSync, syncStart, nextRelease, pending, nextIn,
                     repair, relayed>>
  PROVE  StartInv' /\ FramesInv' /\ RepairInv' /\ LogInv'
<1>0. pause' # None
  BY NoneIsNothing
<1>1. StartInv'
  BY FrameFacts, Zenon DEF SessionInv, StartInv, SnapshotGate, ScheduleIsCurrent, handshake, startSync
<1>2. FramesInv'
  BY <1>0, FrameFacts, Zenon DEF SessionInv, FramesInv, ReleaseGate, startSync
<1>3. RepairInv'
  BY Zenon DEF SessionInv, RepairInv, PinnedRepair, Preparing, handshake, repair
<1>4. LogInv'
  <2>1. Deserted => Deserted'
    BY FrameFacts, BothThere, Zenon DEF SessionInv, SessionFrame
  <2> QED
    BY <2>1, FrameFacts, Zenon DEF SessionInv, LogInv, NothingReleasedYet
<1> QED
  BY <1>1, <1>2, <1>3, <1>4, Zenon

\* Play resumes right after the pause frame, in a new session epoch.
LEMMA ResumeStep ==
  ASSUME SessionInv, SessionFrame, pause # None, PauseResume(pause.at + 1)
  PROVE  StartInv' /\ FramesInv' /\ RepairInv' /\ LogInv'
<1> DEFINE f == pause.at + 1
<1>0. /\ status' = "StartScheduled" /\ BumpSessionEpoch
      /\ pause' = None /\ pending' = None /\ syncStart' = f /\ nextRelease' = f
      /\ sched' = ResumeSchedule(f) /\ relayed' = << >>
      /\ UNCHANGED <<pin, ready, snapshot, clockReq, detReady, rec>>
  BY Zenon DEF PauseResume
<1>1. f \in Frames /\ f \in Nat
  BY FrameAfterPause, Zenon DEF SessionInv, SessionOK
<1>2. sched' # None /\ sched'.session = sessionEpoch' /\ sched'.frame = f
  <2>1. sessionEpoch + 1 \in 1..MaxSessionEpoch
    BY <1>0, NextSessionEpoch, Zenon DEF SessionInv, LifecycleInv
  <2>2. ResumeSchedule(f) \in Schedules
    BY <1>1, <2>1 DEF ResumeSchedule, Schedules
  <2> QED
    BY <1>0, <2>2, NoneIsNothing, Zenon DEF ResumeSchedule, BumpSessionEpoch
<1>3. Connected = Players /\ snapshot # None /\ (rec # None => rec.pinned = None)
  BY Zenon DEF SessionInv, StartInv, FramesInv, RepairInv
<1> HIDE DEF f
<1>4. StartInv'
  BY <1>0, <1>2, <1>3, FrameFacts, Zenon DEF StartInv, SnapshotGate, ScheduleIsCurrent
<1>5. FramesInv'
  <2>1. nextRelease' >= syncStart'
    BY <1>0, <1>1
  <2> QED
    BY <1>0, <2>1, Zenon DEF FramesInv, ReleaseGate
<1>6. RepairInv'
  BY <1>0, <1>3, Zenon DEF SessionInv, RepairInv, PinnedRepair, Preparing
<1>7. LogInv'
  BY <1>0, <1>1, SMTT(30) DEF LogInv, NothingReleasedYet
<1> QED
  BY <1>4, <1>5, <1>6, <1>7

LEMMA RequestPauseStep ==
  ASSUME SessionInv, NEW p \in Players, NEW lead \in 0..LocalLead, RequestPause(p, lead)
  PROVE  StartInv' /\ FramesInv' /\ RepairInv' /\ LogInv'
<1>0. /\ SessionFrame /\ status \in {"Playing", "Paused"}
      /\ UNCHANGED <<status, sessionEpoch, pin, handshake, startSync, syncStart, nextRelease, pending,
                     nextIn, repair, relayed>>
  BY DEF RequestPause, Speaks
<1>1. Connected = Players /\ snapshot # None /\ (rec # None => rec.pinned = None)
  BY <1>0, Zenon DEF SessionInv, StartInv, SnapshotGate, FramesInv, ReleaseGate, RepairInv, PinnedRepair, Engaged
<1>2. CASE pause # None
  <2>1. pause \in Pauses /\ pause' = [pause EXCEPT !.holders = @ \cup {p}]
    BY <1>2, FramesAreInts DEF RequestPause, SessionInv
  <2>2. pause' \in Pauses /\ pause'.at = pause.at /\ pause'.acked = pause.acked
    BY <2>1 DEF Pauses
  <2>3. syncStart <= pause.at /\ nextRelease <= pause.at + 1
    BY <1>2, Zenon DEF SessionInv, FramesInv, ReleaseGate
  <2>4. status = "Paused" => /\ nextRelease = pause.at + 1 /\ Connected \subseteq pause.acked
                             /\ \A q \in Players : nextIn[q] > pause.at
    BY Zenon DEF SessionInv, FramesInv, ReleaseGate
  <2> QED
    BY <1>0, <1>1, <1>2, <2>2, <2>3, <2>4, PauseSetStep, Zenon DEF Engaged
<1>3. CASE pause = None
  <2> DEFINE at == RoomFrame + lead + PauseLead
  <2>1. pause' = [at |-> at, holders |-> {p}, acked |-> {}] /\ pause'.at < MaxFrame
    BY <1>3 DEF RequestPause
  <2>2. syncStart \in Nat /\ nextRelease \in Nat /\ nextRelease >= syncStart
    BY FramesAreInts, Zenon DEF SessionInv, FramesInv
  <2>3. RoomFrame \in Nat /\ syncStart <= RoomFrame /\ nextRelease <= RoomFrame + 1
    BY <2>2 DEF RoomFrame, Released
  <2>4. at \in Nat /\ syncStart <= at /\ nextRelease <= at + 1
    BY <2>2, <2>3, BoundsAreNat
  <2>5. pause'.at = at
    BY <2>1
  <2>6. pause' \in Pauses
    <3>1. at \in Frames
      <4>1. at < MaxFrame
        BY <2>1, <2>5, Zenon
      <4>2. at \in Nat
        BY <2>4, Zenon
      <4> HIDE DEF at
      <4> QED
        BY <4>1, <4>2, BoundsAreNat DEF Frames
    <3> HIDE DEF at
    <3> QED
      BY <2>1, <3>1, Zenon DEF Pauses
  <2>7. status = "Playing"
    BY <1>0, <1>3, Zenon DEF SessionInv, FramesInv, ReleaseGate
  <2> HIDE DEF at
  <2> QED
    BY <1>0, <1>1, <2>4, <2>5, <2>6, <2>7, PauseSetStep, Zenon DEF Engaged
<1> QED
  BY <1>2, <1>3

LEMMA PauseReachedStep ==
  ASSUME SessionInv, NEW p \in Players, PauseReached(p)
  PROVE  StartInv' /\ FramesInv' /\ RepairInv' /\ LogInv'
<1> DEFINE new == [pause EXCEPT !.acked = @ \cup {p}]
<1>0. /\ SessionFrame /\ pause # None /\ nextRelease > pause.at
      /\ \A q \in Connected : nextIn[q] > pause.at
  BY DEF PauseReached, Speaks
<1>1. pause \in Pauses /\ pause.at \in Nat /\ nextRelease \in Nat
  BY <1>0, FramesAreInts, Zenon DEF SessionInv
<1>2. new \in Pauses /\ new.at = pause.at /\ pause.acked \subseteq new.acked
  BY <1>1 DEF Pauses
<1>3. /\ Connected = Players /\ snapshot # None /\ (rec # None => rec.pinned = None)
      /\ syncStart <= pause.at /\ nextRelease = pause.at + 1 /\ status # "Recovering"
  <2>1. nextRelease <= pause.at + 1
    BY <1>0, Zenon DEF SessionInv, FramesInv, ReleaseGate
  <2>2. nextRelease = pause.at + 1
    BY <1>0, <1>1, <2>1
  <2> QED
    BY <1>0, <2>2, Zenon DEF SessionInv, StartInv, FramesInv, RepairInv
<1>4. ASSUME PauseChanges(new), status' = status \/ (status' = "Paused" /\ Connected \subseteq new.acked)
      PROVE  StartInv' /\ FramesInv' /\ RepairInv' /\ LogInv'
  <2>1. status' = "Paused" => Connected \subseteq new.acked
    BY <1>2, <1>4 DEF SessionInv, FramesInv, ReleaseGate
  <2>2. /\ pause' = new
        /\ UNCHANGED <<sessionEpoch, pin, handshake, startSync, syncStart, nextRelease, pending, nextIn,
                       repair, relayed>>
    BY <1>4 DEF PauseChanges
  <2> HIDE DEF new
  <2>3. pause' \in Pauses /\ pause'.at = pause.at
    BY <1>2, <2>2, Zenon
  <2>4. /\ syncStart <= pause'.at /\ nextRelease <= pause'.at + 1 /\ nextRelease = pause'.at + 1
        /\ \A q \in Players : nextIn[q] > pause'.at
    <3>1. nextRelease <= nextRelease
      BY <1>1
    <3> QED
      BY <1>0, <1>3, <2>3, <3>1, Zenon
  <2>5. status' \in {status, "Paused"} /\ (status' = "Paused" => Connected \subseteq pause'.acked)
    BY <1>4, <2>1, <2>2, Zenon
  <2> QED
    BY <1>0, <1>3, <2>2, <2>3, <2>4, <2>5, PauseSetStep, Zenon
<1>5. CASE PauseResume(pause.at + 1)
  BY <1>0, <1>5, ResumeStep
<1> QED
  BY <1>4, <1>5, Zenon DEF PauseReached

LEMMA RequestResumeStep ==
  ASSUME SessionInv, NEW p \in Players, RequestResume(p)
  PROVE  StartInv' /\ FramesInv' /\ RepairInv' /\ LogInv'
<1> DEFINE new == [pause EXCEPT !.holders = @ \ {p}]
<1>0. SessionFrame /\ pause # None
  BY DEF RequestResume, Speaks
<1>1. pause \in Pauses
  BY <1>0, FramesAreInts, Zenon DEF SessionInv
<1>2. new \in Pauses /\ new.at = pause.at /\ new.acked = pause.acked
  BY <1>1 DEF Pauses
<1>3. /\ Connected = Players /\ snapshot # None /\ (rec # None => rec.pinned = None)
      /\ syncStart <= pause.at /\ nextRelease <= pause.at + 1 /\ status # "Recovering"
      /\ status = "Paused" => /\ nextRelease = pause.at + 1 /\ Connected \subseteq pause.acked
                              /\ \A q \in Players : nextIn[q] > pause.at
  BY <1>0, Zenon DEF SessionInv, StartInv, FramesInv, ReleaseGate, RepairInv
<1>4. ASSUME PauseChanges(new), status' = status
      PROVE  StartInv' /\ FramesInv' /\ RepairInv' /\ LogInv'
  <2>1. /\ pause' = new
        /\ UNCHANGED <<sessionEpoch, pin, handshake, startSync, syncStart, nextRelease, pending, nextIn,
                       repair, relayed>>
    BY <1>4 DEF PauseChanges
  <2> HIDE DEF new
  <2> QED
    BY <1>0, <1>2, <1>3, <1>4, <2>1, PauseSetStep, Zenon
<1>5. CASE PauseResume(pause.at + 1)
  BY <1>0, <1>5, ResumeStep
<1> QED
  BY <1>4, <1>5, Zenon DEF RequestResume

\* A digest completes a checkpoint, opens a repair, or waits for the other player's.
LEMMA ReportStep ==
  ASSUME SessionInv, NEW p \in Players, NEW d \in Digests, ReportStateHash(p, d)
  PROVE  StartInv' /\ FramesInv' /\ RepairInv' /\ LogInv'
<1>0. /\ SessionFrame /\ status \in {"Playing", "Paused"}
      /\ UNCHANGED <<sessionEpoch, handshake, clockReq, samples, detReady, syncStart, nextRelease,
                     nextIn, pause, relayed>>
  BY DEF ReportStateHash, Speaks
<1>1. Connected = Players /\ ~Deserted /\ occupied /\ Connected # {}
  BY <1>0, BothThere DEF SessionInv, StartInv, Engaged, SessionFrame
<1>2. CASE UNCHANGED <<status, pin, pending, sched, rec>>
  <2>1. StartInv'
    BY <1>0, <1>2, FrameFacts, Zenon DEF SessionInv, StartInv, SnapshotGate, ScheduleIsCurrent, handshake
  <2>2. FramesInv'
    BY <1>0, <1>2, FrameFacts, Zenon DEF SessionInv, FramesInv, ReleaseGate
  <2>3. RepairInv'
    BY <1>0, <1>2, Zenon DEF SessionInv, RepairInv, PinnedRepair, Preparing, handshake
  <2>4. LogInv'
    BY <1>0, <1>2, FrameFacts, Zenon DEF SessionInv, LogInv, NothingReleasedYet, Deserted
  <2> QED
    BY <2>1, <2>2, <2>3, <2>4
<1>3. ASSUME NEW kept \in 0..attempts, NEW new, BeginRecovery(kept, new), rec = None
      PROVE  StartInv' /\ FramesInv' /\ RepairInv' /\ LogInv'
  <2>0. /\ rec' = [frame |-> nextHash, session |-> sessionEpoch, pinned |-> None]
        /\ pin' = "armed" /\ pending' = None /\ sched' = None
        /\ status' \in {"RepairingState", "Closed"}
    BY <1>3 DEF BeginRecovery
  <2>1. rec' # None /\ rec'.pinned = None /\ rec'.session = sessionEpoch
    <3>1. rec' \in Repairs /\ rec'.pinned = None /\ rec'.session = sessionEpoch
      BY <2>0, Zenon DEF SessionInv, LifecycleInv, TypeOK, SessionOK, RepairOK, Repairs
    <3> QED
      BY <3>1, NoneIsNothing, Zenon
  <2>2. StartInv'
    BY <1>0, <1>1, <2>0, FrameFacts, Zenon DEF SessionInv, StartInv, SnapshotGate, ScheduleIsCurrent, handshake
  <2>3. FramesInv'
    BY <1>0, <1>1, <2>0, FrameFacts, Zenon DEF SessionInv, FramesInv, ReleaseGate
  <2>4. RepairInv'
    BY <1>0, <2>0, <2>1, Zenon DEF RepairInv, PinnedRepair, Preparing
  <2>5. LogInv'
    BY <1>0, <1>1, <2>0, FrameFacts, Zenon DEF SessionInv, LogInv, NothingReleasedYet
  <2> QED
    BY <2>2, <2>3, <2>4, <2>5
<1> QED
  BY <1>2, <1>3, Zenon DEF ReportStateHash

\* The host's pin commits the repair.
LEMMA PinStep ==
  ASSUME SessionInv, NEW m \in Manifests, PinRecovery(m)
  PROVE  StartInv' /\ FramesInv' /\ RepairInv' /\ LogInv'
<1>0. /\ SessionFrame /\ status = "RepairingState" /\ Preparing
      /\ ResetTo(rec.frame) /\ rec' = [rec EXCEPT !.pinned = m]
      /\ BumpSessionEpoch /\ status' = "CheckingCompatibility" /\ pin' = "none" /\ relayed' = << >>
      /\ m.frame = rec.frame
  BY DEF PinRecovery, Speaks
<1>1. rec \in Repairs
  BY <1>0, FramesAreInts DEF SessionInv, Preparing
<1>2. /\ rec' # None /\ rec'.pinned = m /\ m # None
      /\ rec'.frame = rec.frame /\ rec'.session = rec.session
  <2>1. rec' \in Repairs /\ rec'.pinned = m /\ rec'.frame = rec.frame /\ rec'.session = rec.session
    BY <1>0, <1>1 DEF Repairs
  <2> QED
    BY <2>1, NoneIsNothing
<1>3. rec.session = sessionEpoch /\ sessionEpoch' = sessionEpoch + 1
  BY <1>0 DEF SessionInv, RepairInv, BumpSessionEpoch
<1>4. rec.frame \in Nat
  BY <1>1 DEF Repairs
<1>5. StartInv'
  BY <1>0 DEF ResetTo, StartInv, SnapshotGate, ScheduleIsCurrent, Engaged
<1>6. FramesInv'
  BY <1>0, <1>4 DEF ResetTo, FramesInv, ReleaseGate
<1>7. RepairInv'
  BY <1>0, <1>2, <1>3 DEF ResetTo, RepairInv, PinnedRepair, Preparing
<1>8. LogInv'
  BY <1>0, <1>4 DEF ResetTo, LogInv, NothingReleasedYet
<1> QED
  BY <1>5, <1>6, <1>7, <1>8

LEMMA SessionInvInit == RoomInit => SessionInv
<1> SUFFICES ASSUME RoomInit PROVE SessionInv
  OBVIOUS
<1>1. LifecycleInv /\ SessionOK
  BY LifecycleInit, SessionInit DEF RoomInit
<1>2. status = "WaitingForGuest" /\ pin = "none" /\ recDl = [p \in Players |-> "none"] /\ sessionEpoch = 1
  BY Zenon DEF RoomInit, Init
<1>3. StartInv
  BY <1>2, Zenon DEF RoomInit, StartInv, SnapshotGate, ScheduleIsCurrent, Engaged
<1>4. FramesInv
  <2>1. pending = None /\ pause = None /\ syncStart = 0 /\ nextRelease = 0
    BY Zenon DEF RoomInit
  <2>2. nextRelease >= syncStart
    BY <2>1
  <2> QED
    BY <1>2, <2>1, <2>2, Zenon DEF FramesInv, ReleaseGate
<1>5. RepairInv
  BY <1>2, Zenon DEF RoomInit, RepairInv, PinnedRepair, Preparing
<1>6. LogInv
  <2>1. relayed = << >> /\ nextRelease = 0 /\ syncStart = 0
    BY Zenon DEF RoomInit
  <2>2. Len(relayed) = nextRelease - syncStart
    BY <2>1
  <2> QED
    BY <2>1, <2>2, Zenon DEF LogInv, NothingReleasedYet
<1> QED
  BY <1>1, <1>3, <1>4, <1>5, <1>6 DEF SessionInv

LEMMA SessionInvStep ==
  ASSUME SessionInv, [RoomNext /\ HandedOffInTime]_roomVars
  PROVE  SessionInv'
<1>1. LifecycleInv' /\ SessionOK'
  <2>1. [Next]_lifecycleVars
    BY MembershipStep, StartingUpStep, PlayingStep, RepairingStep DEF RoomNext, roomVars
  <2> QED
    BY <2>1, LifecycleStep, SessionStepTyped DEF SessionInv, LifecycleInv
<1> SUFFICES StartInv' /\ FramesInv' /\ RepairInv' /\ LogInv'
  BY <1>1 DEF SessionInv
<1>2. CASE Membership /\ HandedOffInTime
  BY <1>2, MembershipEffect, KeepStep, ResetStep DEF SessionInv, LogInv
<1>3. CASE StartingUp
  BY <1>3, CompatibilityStep, SnapshotStep, ReadyStep, ScheduleStep, StartTimeStep, Zenon DEF StartingUp
<1>4. CASE Playing
  BY <1>4, InputStep, OpenStep, EarlyOpenStep, ScheduledReleaseStep, RequestPauseStep, PauseReachedStep,
     RequestResumeStep, Zenon DEF Playing
<1>5. CASE Repairing
  BY <1>5, ReportStep, PinStep, Zenon DEF Repairing
<1>6. CASE UNCHANGED roomVars
  <2>1. /\ UNCHANGED <<present, status, sessionEpoch, pin, occupied, conn, recDl, ready, snapshot, clockReq,
                       detReady, sched, syncStart, nextRelease, pending, nextIn, pause, rec, relayed>>
        /\ Connected' = Connected
    BY <1>6, Zenon DEF roomVars, lifecycleVars, room, slots, session, handshake, startSync, frames, repair, Connected
  <2>2. StartInv'
    BY <2>1 DEF SessionInv, StartInv, SnapshotGate, ScheduleIsCurrent
  <2>3. FramesInv'
    BY <2>1, Zenon DEF SessionInv, FramesInv, ReleaseGate
  <2>4. RepairInv'
    BY <2>1, Zenon DEF SessionInv, RepairInv, PinnedRepair, Preparing
  <2>5. LogInv'
    BY <2>1, Zenon DEF SessionInv, LogInv, NothingReleasedYet, Deserted
  <2> QED
    BY <2>2, <2>3, <2>4, <2>5
<1> QED
  BY <1>2, <1>3, <1>4, <1>5, <1>6, Zenon DEF RoomNext

-----------------------------------------------------------------------------
(* The results.                                                            *)

LEMMA SessionInvHolds == RoomSpec /\ [][HandedOffInTime]_roomVars => []SessionInv
<1>1. RoomInit => SessionInv
  BY SessionInvInit
<1>2. SessionInv /\ [RoomNext]_roomVars /\ [HandedOffInTime]_roomVars => SessionInv'
  BY SessionInvStep
<1> QED
  BY <1>1, <1>2, PTL DEF RoomSpec

\* Wherever handed-off players are lost in time, nobody is ready, no clock is sampled, no
\* start is scheduled and nothing is played without the complete host snapshot of the
\* sync: no disconnect, reconnect, sweep, resume or repair leaves one of them behind.
THEOREM SnapshotGates == RoomSpec /\ [][HandedOffInTime]_roomVars => []SnapshotGate
<1>1. SessionInv => SnapshotGate
  BY DEF SessionInv, StartInv
<1> QED
  BY <1>1, SessionInvHolds, PTL

\* Under the same premise a scheduled start is about the current epoch and the frame that
\* is released next, and StartScheduled is never left without one.
THEOREM SchedulesAreCurrent == RoomSpec /\ [][HandedOffInTime]_roomVars => []ScheduleIsCurrent
<1>1. SessionInv => ScheduleIsCurrent
  BY DEF SessionInv, StartInv
<1> QED
  BY <1>1, SessionInvHolds, PTL

\* Under the same premise a waiting first frame stays covered by the host's input, no
\* frame is released past a pause, and a paused room stands exactly at the pause frame
\* that everybody acknowledged and sent input for.
THEOREM ReleasesAreGated == RoomSpec /\ [][HandedOffInTime]_roomVars => []ReleaseGate
<1>1. SessionInv => ReleaseGate
  BY DEF SessionInv, FramesInv
<1> QED
  BY <1>1, SessionInvHolds, PTL

\* Under the same premise a repair is one transaction: its deadline runs exactly while the
\* host's pin is awaited, it is committed in the epoch after the one that diverged, and
\* the room does not play before it is over.
THEOREM RepairsArePinned == RoomSpec /\ [][HandedOffInTime]_roomVars => []PinnedRepair
<1>1. SessionInv => PinnedRepair
  BY DEF SessionInv, RepairInv
<1> QED
  BY <1>1, SessionInvHolds, PTL

\* A released frame follows the last one, or is the announced start.
LEMMA ReleaseInOrder ==
  ASSUME SessionInv, SessionFrame, ReleaseFrame, status \in {"Playing", "StartScheduled"}
  PROVE  [Order!Next]_<<sessionEpoch, syncStart, relayed>>
<1>1. /\ nextRelease <= MaxFrame
      /\ relayed' = IF Len(relayed) < MaxRelayed THEN Append(relayed, nextRelease) ELSE relayed
      /\ UNCHANGED <<sessionEpoch, syncStart>>
  BY DEF ReleaseFrame
<1>2. ~Deserted
  BY BothThere DEF SessionInv, SessionFrame, StartInv, Engaged
<1>3. /\ Len(relayed) = nextRelease - syncStart
      /\ relayed # << >> => relayed[Len(relayed)] = nextRelease - 1
  BY <1>2 DEF SessionInv, LogInv
<1>4. nextRelease \in Nat /\ syncStart \in Nat
  BY FramesAreInts, Zenon DEF SessionInv
<1>5. nextRelease = IF relayed = << >> THEN syncStart ELSE relayed[Len(relayed)] + 1
  BY <1>3, <1>4
<1> QED
  BY <1>1, <1>5 DEF Order!Next, Order!Release

LEMMA OrderStep ==
  ASSUME SessionInv, SessionInv', [RoomNext /\ HandedOffInTime]_roomVars
  PROVE  [Order!Next]_<<sessionEpoch, syncStart, relayed>>
<1>0. sessionEpoch \in Nat /\ syncStart' \in Nat
  <2>1. TypeOK /\ syncStart' \in Frames
    BY Zenon DEF SessionInv, LifecycleInv, SessionOK, FramesOK
  <2>2. Frames \subseteq Nat
    BY BoundsAreNat DEF Frames
  <2> QED
    BY <2>1, <2>2, EpochsAreNat, Zenon
<1>1. ASSUME UNCHANGED <<sessionEpoch, relayed>>
      PROVE  [Order!Next]_<<sessionEpoch, syncStart, relayed>>
  BY <1>0, <1>1 DEF Order!Next, Order!Announce
<1>2. ASSUME sessionEpoch' = sessionEpoch + 1, relayed' = << >>
      PROVE  [Order!Next]_<<sessionEpoch, syncStart, relayed>>
  BY <1>0, <1>2 DEF Order!Next, Order!NewEpoch
<1>3. CASE Membership
  <2>1. [Next]_lifecycleVars
    BY <1>3, MembershipStep
  <2>2. sessionEpoch' \in {sessionEpoch, sessionEpoch + 1}
    BY <2>1, EpochStep DEF SessionInv, LifecycleInv, EpochOrder
  <2>3. RecordEpoch
    BY <1>3 DEF Membership, MembershipFrame
  <2> QED
    BY <1>0, <1>1, <1>2, <2>2, <2>3 DEF RecordEpoch
<1>4. CASE StartingUp
  <2>1. UNCHANGED <<sessionEpoch, relayed>>
    BY <1>4 DEF StartingUp, RejectCompatibility, SetCompatibility, MarkReady, AcceptClockSyncSample,
                MarkDeterministicReady, SnapshotChunk, SnapshotComplete, StartTimeComes
  <2> QED
    BY <1>1, <2>1
<1>5. CASE Playing
  <2>1. ASSUME NEW f, PauseResume(f)
        PROVE  [Order!Next]_<<sessionEpoch, syncStart, relayed>>
    BY <1>2, <2>1 DEF PauseResume, BumpSessionEpoch
  <2>2. ASSUME NEW p \in Players, PauseReached(p) \/ RequestResume(p)
        PROVE  [Order!Next]_<<sessionEpoch, syncStart, relayed>>
    BY <1>1, <2>1, <2>2 DEF PauseReached, RequestResume, PauseChanges
  <2>3. CASE HostFrameOpen
    BY <2>3, ReleaseInOrder, Zenon DEF HostFrameOpen, HostMayOpen, Inputs
  <2>4. ASSUME NEW t \in tasks, ReleaseScheduled(t)
        PROVE  [Order!Next]_<<sessionEpoch, syncStart, relayed>>
    BY <1>1, <2>4, ReleaseInOrder DEF ReleaseScheduled
  <2>5. ASSUME NEW p \in Players, NEW e \in Frames, StrictInputBatch(p, e)
        PROVE  [Order!Next]_<<sessionEpoch, syncStart, relayed>>
    BY <1>1, <2>5, Zenon DEF StrictInputBatch
  <2>6. ASSUME NEW p \in Players, NEW lead \in 0..LocalLead, RequestPause(p, lead)
        PROVE  [Order!Next]_<<sessionEpoch, syncStart, relayed>>
    BY <1>1, <2>6 DEF RequestPause
  <2>7. CASE HostFrameOpenEarly
    BY <1>1, <2>7, Zenon DEF HostFrameOpenEarly
  <2> QED
    BY <1>5, <2>2, <2>3, <2>4, <2>5, <2>6, <2>7, Zenon DEF Playing
<1>6. CASE Repairing
  <2>1. ASSUME NEW p \in Players, NEW d \in Digests, ReportStateHash(p, d)
        PROVE  [Order!Next]_<<sessionEpoch, syncStart, relayed>>
    BY <1>1, <2>1 DEF ReportStateHash
  <2>2. ASSUME NEW m \in Manifests, PinRecovery(m)
        PROVE  [Order!Next]_<<sessionEpoch, syncStart, relayed>>
    BY <1>2, <2>2 DEF PinRecovery, BumpSessionEpoch
  <2> QED
    BY <1>6, <2>1, <2>2, Zenon DEF Repairing
<1>7. CASE UNCHANGED roomVars
  BY <1>1, <1>7, Zenon DEF roomVars, lifecycleVars, room
<1> QED
  BY <1>3, <1>4, <1>5, <1>6, <1>7, Zenon DEF RoomNext

\* Under the same premise the room implements FrameRelease: within a session epoch the
\* released frames start at the announced frame and go up by one, whatever resets,
\* resumes, repairs and late release tasks happen in between.
THEOREM ReleasesFramesInOrder == RoomSpec /\ [][HandedOffInTime]_roomVars => FramesInOrder
<1>1. RoomInit => Order!Init
  BY Zenon DEF RoomInit, Init, Order!Init
<1>2. SessionInv /\ SessionInv' /\ [RoomNext]_roomVars /\ [HandedOffInTime]_roomVars
        => [Order!Next]_<<sessionEpoch, syncStart, relayed>>
  BY OrderStep
<1> QED
  BY <1>1, <1>2, SessionInvHolds, PTL DEF RoomSpec, FramesInOrder, Order!Spec, Order!vars

-----------------------------------------------------------------------------
(* Rooms without runner handoffs.                                          *)

\* No marker is armed, and no join is about to arm one.
Unarmed ==
  /\ \A p \in Players : handoff[p] = "none"
  /\ \A c \in Conns : stage[c] # "arm"

LEMMA InRoomStep ==
  ASSUME StartingUp \/ Playing \/ Repairing
  PROVE  SessionFrame
<1>1. CASE StartingUp
  BY <1>1, Zenon DEF StartingUp, RejectCompatibility, SetCompatibility, MarkReady, MayGetReady,
              AcceptClockSyncSample, MarkDeterministicReady, SnapshotChunk, SnapshotComplete, SnapshotFits,
              StartTimeComes, Speaks
<1>2. CASE Playing
  BY <1>2, Zenon DEF Playing, StrictInputBatch, RequestPause, PauseReached, RequestResume, HostFrameOpen,
              HostFrameOpenEarly, HostMayOpen, ReleaseScheduled, Speaks, Inputs
<1>3. CASE Repairing
  BY <1>3, Zenon DEF Repairing, ReportStateHash, PinRecovery, Speaks
<1> QED
  BY <1>1, <1>2, <1>3

LEMMA UnarmedStep ==
  ASSUME Handoffs = {FALSE}, TypeOK, Unarmed, [RoomNext]_roomVars
  PROVE  Unarmed'
<1>0. handoff \in [Players -> Deadlines] /\ stage \in [Conns -> Stages] /\ Host \in Players /\ Guest \in Players
  BY Zenon DEF TypeOK, Players
<1>1. ASSUME UNCHANGED <<handoff, stage>> PROVE Unarmed'
  BY <1>1 DEF Unarmed
<1>2. ASSUME NEW c \in Conns, NEW p \in Players, NEW n \in {"open", "closing", "free"},
             SeatConnection(p, c) \/ handoff' = [handoff EXCEPT ![p] = "none"]
               \/ handoff' = [q \in Players |-> "none"] \/ UNCHANGED handoff,
             stage' = [stage EXCEPT ![c] = n] \/ UNCHANGED stage
      PROVE  Unarmed'
  <2>1. \A q \in Players : handoff'[q] = "none"
    BY <1>0, <1>2, Zenon DEF Unarmed, SeatConnection
  <2>2. \A d \in Conns : stage'[d] # "arm"
    BY <1>0, <1>2, Zenon DEF Unarmed
  <2> QED
    BY <2>1, <2>2, Zenon DEF Unarmed
<1>3. ASSUME NEW c \in Conns, HostAttaches(c) \/ GuestJoins(c) \/ \E p \in Players : PlayerReconnects(p, c)
      PROVE  Unarmed'
  <2>1. \E p \in Players : SeatConnection(p, c)
    BY <1>0, <1>3, Zenon DEF HostAttaches, GuestJoins, PlayerReconnects, AttachHost, JoinGuest, ReconnectPlayer
  <2>2. stage' = [stage EXCEPT ![c] = "open"]
    BY <1>3, Zenon DEF HostAttaches, GuestJoins, PlayerReconnects, AttachHost, JoinGuest, ReconnectPlayer
  <2> QED
    BY <1>2, <2>1, <2>2, Zenon
<1>4. ASSUME NEW p \in Players, LoseControl(p)
      PROVE  handoff' = [handoff EXCEPT ![p] = "none"]
  BY <1>0, <1>4, Zenon DEF LoseControl, PreserveHandoff, LoseToRecovery, LeaveSlot, Unarmed
<1>5. ASSUME NEW c \in Conns, ControlCloses(c) \/ InputCloses(c)
      PROVE  Unarmed'
  <2>1. stage' = [stage EXCEPT ![c] = "free"] \/ UNCHANGED stage
    BY <1>5, Zenon DEF ControlCloses, InputCloses, Disconnect, DisconnectInputSocket
  <2>2. (\E p \in Players : LoseControl(p)) \/ UNCHANGED handoff
    BY <1>5, Zenon DEF ControlCloses, InputCloses, Disconnect, DisconnectInputSocket, slots
  <2> QED
    BY <1>0, <1>2, <1>4, <2>1, <2>2
<1>6. ASSUME NEW c \in Conns, PlayerLeaves(c)
      PROVE  Unarmed'
  <2>1. handoff' = [p \in Players |-> "none"] /\ UNCHANGED stage
    BY <1>6, Zenon DEF PlayerLeaves, PlayerExited, sockets
  <2> QED
    BY <1>0, <1>2, <2>1, Zenon
<1>7. ASSUME NEW c \in Conns, SocketOnly(c)
      PROVE  Unarmed'
  <2>1. CASE ArmRunnerHandoff(c) \/ ArmRefused(c)
    BY <2>1, Zenon DEF ArmRunnerHandoff, ArmRefused, Unarmed
  <2>2. CASE DeliverRoomJoined(c) \/ CancelRunnerHandoff(c)
    <3>1. stage' = [stage EXCEPT ![c] = "open"] \/ stage' = [stage EXCEPT ![c] = "closing"]
      BY <2>2, Zenon DEF DeliverRoomJoined, CancelRunnerHandoff
    <3>2. handoff' = [p \in Players |-> IF conn[p] = c THEN "none" ELSE handoff[p]] \/ UNCHANGED handoff
      BY <2>2, Zenon DEF DeliverRoomJoined, CancelRunnerHandoff, slots
    <3>3. handoff' = [p \in Players |-> "none"] \/ UNCHANGED handoff
      BY <1>0, <3>2 DEF Unarmed
    <3> QED
      BY <1>0, <1>2, <3>1, <3>3
  <2>3. CASE \E p \in Players : ConnectInputSocket(p, c)
    BY <1>1, <2>3, Zenon DEF ConnectInputSocket
  <2> QED
    BY <1>7, <2>1, <2>2, <2>3, Zenon DEF SocketOnly
<1>8. CASE RoomSweep
  <2>1. UNCHANGED stage
    BY <1>8, Zenon DEF RoomSweep, SweepCloses, RemoveRoom, SweepFreesGuest, SweepStale, sockets
  <2>2. \/ UNCHANGED handoff
        \/ handoff' = [p \in Players |-> IF handoff[p] = "elapsed" THEN "none" ELSE handoff[p]]
        \/ \E silent \in SUBSET Players :
             handoff' = [p \in Players |->
                           IF handoff[p] = "elapsed" \/ (status \in HeartbeatGuarded /\ p \in silent)
                           THEN "none" ELSE handoff[p]]
    BY <1>8, Zenon DEF RoomSweep, SweepCloses, RemoveRoom, SweepFreesGuest, SweepStale, slots
  <2>3. \A p \in Players : handoff'[p] = "none"
    BY <2>2 DEF Unarmed
  <2> QED
    BY <2>1, <2>3, Zenon DEF Unarmed
<1>9. CASE RoomTime
  <2>1. \A p \in Players : ~HandoffGraceElapses(p)
    BY DEF HandoffGraceElapses, Unarmed
  <2>2. UNCHANGED <<handoff, stage>>
    BY <1>9, <2>1, Zenon DEF RoomTime, ReconnectGraceElapses, PinWindowElapses, JoinWindowElapses,
                      IdleTimeoutElapses, slots, sockets
  <2> QED
    BY <1>1, <2>2
<1>10. CASE StartingUp \/ Playing \/ Repairing
  BY <1>1, <1>10, InRoomStep DEF SessionFrame, slots, sockets
<1>11. CASE UNCHANGED roomVars
  BY <1>1, <1>11 DEF roomVars, lifecycleVars, slots, sockets
<1> QED
  BY <1>3, <1>5, <1>6, <1>7, <1>8, <1>9, <1>10, <1>11, Zenon DEF RoomNext, Membership

\* Without runner handoffs the premise of the results above is met.
LEMMA NothingHandedOff ==
  ASSUME Handoffs = {FALSE}
  PROVE  RoomSpec => [][HandedOffInTime]_roomVars
<1>1. RoomInit => Unarmed
  BY Zenon DEF RoomInit, Init, Unarmed
<1>2. TypeOK /\ Unarmed /\ [RoomNext]_roomVars => Unarmed'
  BY UnarmedStep
<1>3. Unarmed => [HandedOffInTime]_roomVars
  BY Zenon DEF Unarmed, HandedOffInTime
<1>4. RoomSpec => []TypeOK
  BY RoomImplementsLifecycle, TypeCorrect, PTL
<1> QED
  BY <1>1, <1>2, <1>3, <1>4, PTL DEF RoomSpec

\* A room without runner handoffs keeps all of it, whatever its players, its sweeper and
\* its release tasks do: the snapshot gates the start, a scheduled start is current,
\* releases and pauses are gated, a repair is one transaction, and frames are released
\* in order.
THEOREM RoomWithoutHandoffs ==
  ASSUME Handoffs = {FALSE}
  PROVE  RoomSpec => /\ [](SnapshotGate /\ ScheduleIsCurrent /\ ReleaseGate /\ PinnedRepair)
                     /\ FramesInOrder
  BY NothingHandedOff, SnapshotGates, SchedulesAreCurrent, ReleasesAreGated, RepairsArePinned,
     ReleasesFramesInOrder, PTL
=============================================================================
