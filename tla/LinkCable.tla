------------------------------ MODULE LinkCable ------------------------------
(***************************************************************************)
(* A two-player link-cable room: the players declare what they run, the    *)
(* room compares the declarations, starts without a snapshot and relays    *)
(* opaque cable packets whose sequence numbers it checks.  Membership,     *)
(* pauses and the scheduled start are the operations all rooms share       *)
(* (RoomLifecycle, RoomSession, InputRelay); here they are reduced to what *)
(* they do to the link state.                                              *)
(*                                                                         *)
(* A declaration is its system-data hash, whether its protocol version is  *)
(* the room's and whether it fits the room's link descriptor.              *)
(* agreed, kept and wire are history.                                      *)
(***************************************************************************)
EXTENDS Naturals, Sequences, FiniteSets

CONSTANTS Hashes,        \* system-data hashes
          Uses,          \* what one behaviour does, and its bounds: whether the
                         \* clients can schedule the start, pauses, handoffs, the
                         \* number of packets of a round and of resets
          NoDeclaration  \* an absent entry of the compatibility map

ASSUME LinkAssumption == /\ NoDeclaration \notin Hashes
                         /\ Uses \subseteq [able : BOOLEAN, pause : BOOLEAN,
                                           handoff : BOOLEAN, packets : Nat, rounds : Nat]

VARIABLES linkStatus,    \* room.status
          here,          \* slots with a control connection
          compat,        \* link_cable_state.compatibility
          lastSeq,       \* link_cable_state.last_sequences, 0 when absent
          ready,         \* ready_players
          sync,          \* start sync: whether samples were asked for, who has sent
                         \* them, deterministic_ready_players, scheduled_start
          hold,          \* pause_state: whether there is one, its holders, its acks
          handoff,       \* slots with a runner_handoff_deadline
          agreed,        \* whether all declarations matched once in this round
          kept,          \* whether a handoff cleared a started round in place
          wire,          \* packets relayed in this round
          rounds,        \* resets so far
          use            \* the chosen member of Uses

linkState == <<compat, lastSeq, ready, sync, hold, agreed, wire, rounds>>
linkVars == <<linkStatus, here, handoff, kept, linkState, use>>

Slots == {1, 2}
Declarations == [hash : Hashes, version : BOOLEAN, fits : BOOLEAN]
NoHold == [set |-> FALSE, holders |-> {}, acked |-> {}]
NoSync == [asked |-> FALSE, sampled |-> {}, steady |-> {}, start |-> FALSE]
Undeclared == [p \in Slots |-> NoDeclaration]

\* A room whose host and guest have just connected.
LinkInit ==
  /\ linkStatus = "CheckingCompatibility" /\ here = Slots
  /\ compat = Undeclared /\ lastSeq = [p \in Slots |-> 0]
  /\ ready = {} /\ sync = NoSync /\ hold = NoHold
  /\ use \in Uses
  /\ handoff \in SUBSET (IF use.handoff THEN Slots ELSE {})
  /\ agreed = FALSE /\ kept = FALSE
  /\ wire = << >> /\ rounds = 0

-----------------------------------------------------------------------------
(* Compatibility.                                                          *)

\* compatibility_values_match: protocol, family and profile are the room's in
\* every stored declaration, so matches_peer is equality of the hashes.
PeersMatch(c) == \A p, q \in Slots : c[p] = c[q]

Declared(c) == here = Slots /\ \A p \in Slots : c[p] # NoDeclaration

\* set_link_cable_compatibility_for_connection.  A wrong version leaves the
\* stored declaration, a wrong descriptor removes it; a room that is not
\* complete keeps its status.
SetLinkCompatibility(p, d) ==
  /\ p \in here
  /\ linkStatus \notin {"Closed", "Playing"}
  /\ compat' = IF ~d.version THEN compat
               ELSE [compat EXCEPT ![p] = IF d.fits THEN d.hash ELSE NoDeclaration]
  /\ ready' = ready \ {p}
  /\ IF d.version /\ d.fits
     THEN linkStatus' = IF ~Declared(compat') THEN linkStatus
                        ELSE IF PeersMatch(compat') THEN "SyncingState"
                        ELSE "CheckingCompatibility"
     ELSE linkStatus' = "CheckingCompatibility"
  /\ agreed' = (agreed \/ (d.version /\ d.fits /\ Declared(compat') /\ PeersMatch(compat')))
  /\ UNCHANGED <<here, lastSeq, sync, hold, handoff, kept, wire, rounds>>

-----------------------------------------------------------------------------
(* Start.                                                                  *)

\* Mutant of Startable: a room that checks compatibility takes ready as well.
StartableEarly == {"CheckingCompatibility", "SyncingState", "Ready"}
\* The statuses in which mark_ready is accepted.
Startable == {"SyncingState", "Ready"}

\* mark_ready in a link room: no snapshot, no input sockets.  The last ready
\* player starts the room, or has clock samples asked for.
LinkReady(p) ==
  /\ p \in here /\ linkStatus \in Startable
  /\ ready' = ready \cup {p}
  /\ LET all == here = Slots /\ ready' = Slots
     IN  /\ linkStatus' = IF all /\ ~use.able THEN "Playing" ELSE "Ready"
         /\ sync' = [sync EXCEPT !.asked = @ \/ (all /\ use.able /\ ~sync.start
                                                     /\ sync.sampled # Slots)]
  /\ UNCHANGED <<here, compat, lastSeq, hold, handoff, agreed, kept, wire, rounds>>

\* try_schedule_start: once, when everybody is sampled and steady.
TrySchedule(s) ==
  IF here = Slots /\ ~s.start /\ s.sampled = Slots /\ s.steady = Slots
  THEN sync' = [s EXCEPT !.start = TRUE] /\ linkStatus' = "StartScheduled"
  ELSE sync' = s /\ UNCHANGED linkStatus

\* accept_clock_sync_sample, the last sample of one player: it needs a request,
\* not a status.
ClockSampled(p) ==
  /\ use.able /\ here = Slots /\ sync.asked
  /\ TrySchedule([sync EXCEPT !.sampled = @ \cup {p}])
  /\ UNCHANGED <<here, compat, lastSeq, ready, hold, handoff, agreed, kept, wire, rounds>>

\* mark_deterministic_ready
DeterministicReady(p) ==
  /\ use.able /\ here = Slots /\ linkStatus \in {"Ready", "StartScheduled"}
  /\ TrySchedule([sync EXCEPT !.steady = @ \cup {p}])
  /\ UNCHANGED <<here, compat, lastSeq, ready, hold, handoff, agreed, kept, wire, rounds>>

\* The frame clock reaches the scheduled time.
ScheduledTimeComes ==
  /\ linkStatus = "StartScheduled" /\ sync.start
  /\ linkStatus' = "Playing"
  /\ UNCHANGED <<here, handoff, kept, linkState>>

-----------------------------------------------------------------------------
(* Packets and pauses.                                                     *)

\* OutOfOrderLinkPacket
SequenceIsNew(p, n) == n > lastSeq[p]

\* accept_link_cable_packet and its broadcast; sequence numbers start at one.
RelayLinkPacket(p, n) ==
  /\ p \in here /\ linkStatus = "Playing" /\ Len(wire) < use.packets
  /\ SequenceIsNew(p, n)
  /\ lastSeq' = [lastSeq EXCEPT ![p] = n]
  /\ wire' = Append(wire, [player |-> p, seq |-> n])
  /\ UNCHANGED <<linkStatus, here, compat, ready, sync, hold, handoff, agreed, kept, rounds>>

HoldChanges == UNCHANGED <<here, compat, lastSeq, ready, sync, handoff, agreed, kept, wire, rounds>>

\* request_session_pause_with_id
HoldLink(p) ==
  /\ use.pause /\ p \in here /\ linkStatus \in {"Playing", "Paused"}
  /\ hold' = [hold EXCEPT !.set = TRUE, !.holders = @ \cup {p}]
  /\ UNCHANGED linkStatus /\ HoldChanges

\* mark_session_pause_reached, whatever the status.
HoldReached(p) ==
  /\ p \in here /\ hold.set
  /\ LET acked == hold.acked \cup {p}
         all == here \subseteq acked
     IN  /\ hold' = IF all /\ hold.holders = {} THEN NoHold ELSE [hold EXCEPT !.acked = acked]
         /\ linkStatus' = IF ~all THEN linkStatus
                          ELSE IF hold.holders = {} THEN "Playing" ELSE "Paused"
  /\ HoldChanges

\* request_session_resume
ReleaseLink(p) ==
  /\ p \in here /\ hold.set
  /\ LET rest == hold.holders \ {p}
         resumes == rest = {} /\ linkStatus = "Paused"
     IN  /\ hold' = IF resumes THEN NoHold ELSE [hold EXCEPT !.holders = rest]
         /\ linkStatus' = IF resumes THEN "Playing" ELSE linkStatus
  /\ HoldChanges

-----------------------------------------------------------------------------
(* Membership.                                                             *)

\* reset_sync_state_to with LinkCableRoomState::reset.
ResetLink ==
  /\ rounds < use.rounds /\ rounds' = rounds + 1
  /\ compat' = Undeclared /\ lastSeq' = [p \in Slots |-> 0]
  /\ ready' = {} /\ sync' = NoSync /\ hold' = NoHold
  /\ agreed' = FALSE /\ wire' = << >>

Underway == {"SyncingState", "Ready", "StartScheduled", "Playing", "Paused"}

\* disconnect_with_recovery: an armed handoff clears the round and keeps the
\* status; a started room recovers; before that a guest leaves the slot and a
\* host takes the room along.
LoseLinkPlayer(p) ==
  /\ p \in here /\ here' = here \ {p} /\ UNCHANGED handoff
  /\ \/ /\ p \in handoff /\ ResetLink /\ UNCHANGED linkStatus
        /\ kept' = (linkStatus \in Underway)
     \/ /\ p \notin handoff /\ linkStatus \in {"StartScheduled", "Playing", "Paused"}
        /\ ResetLink /\ linkStatus' = "Recovering" /\ kept' = FALSE
     \/ /\ p \notin handoff /\ linkStatus = "Recovering"
        /\ ready' = ready \ {p}
        /\ UNCHANGED <<linkStatus, kept, compat, lastSeq, sync, hold, agreed, wire, rounds>>
     \/ /\ p \notin handoff
        /\ linkStatus \notin {"StartScheduled", "Playing", "Paused", "Recovering"}
        /\ linkStatus' = IF p = 1 THEN "Closed" ELSE "WaitingForGuest"
        /\ ready' = ready \ {p}
        /\ UNCHANGED <<kept, compat, lastSeq, sync, hold, agreed, wire, rounds>>

\* reconnect_player and join_guest_with_resume start a new round; a join may arm
\* a handoff.
ReturnLinkPlayer(p) ==
  /\ p \notin here /\ p \notin handoff /\ linkStatus # "Closed"
  /\ here' = here \cup {p}
  /\ handoff' \in {handoff} \cup (IF use.handoff THEN {handoff \cup {p}} ELSE {})
  /\ ResetLink /\ linkStatus' = "CheckingCompatibility" /\ kept' = FALSE

\* The runner claims the slot (reconnect_player with a handoff marker), or the
\* host attaches again: the round goes on.
TakeOverSlot(p) ==
  /\ linkStatus # "Closed" /\ p \in handoff \cup {1}
  /\ here' = here \cup {p} /\ handoff' = handoff \ {p}
  /\ <<here', handoff'>> # <<here, handoff>>
  /\ UNCHANGED <<linkStatus, kept, linkState>>

\* expire_runner_handoffs: the marker of a connected slot is dropped, a
\* disconnected guest is removed, a disconnected host closes the room.
ExpireLinkHandoff(p) ==
  /\ p \in handoff /\ linkStatus # "Closed"
  /\ handoff' = handoff \ {p}
  /\ linkStatus' = IF p \in here THEN linkStatus
                   ELSE IF p = 1 THEN "Closed" ELSE "WaitingForGuest"
  /\ UNCHANGED <<here, kept, linkState>>

\* player_exited
LinkPlayerExits(p) ==
  /\ p \in here /\ ResetLink
  /\ linkStatus' = "Closed" /\ here' = {} /\ handoff' = {} /\ kept' = FALSE

LinkStep ==
  \E p \in Slots :
     \/ \E d \in Declarations : SetLinkCompatibility(p, d)
     \/ \E n \in 1 .. use.packets : RelayLinkPacket(p, n)
     \/ LinkReady(p) \/ ClockSampled(p) \/ DeterministicReady(p) \/ ScheduledTimeComes
     \/ HoldLink(p) \/ HoldReached(p) \/ ReleaseLink(p)
     \/ LoseLinkPlayer(p) \/ ReturnLinkPlayer(p) \/ TakeOverSlot(p)
     \/ ExpireLinkHandoff(p) \/ LinkPlayerExits(p)

LinkNext == LinkStep /\ UNCHANGED use

LinkSpec == LinkInit /\ [][LinkNext]_linkVars

-----------------------------------------------------------------------------
(* Properties.                                                             *)

\* Types; between two pauses nothing of the last one is left.
LinkTypeOK ==
  /\ linkStatus \in Underway \cup {"WaitingForGuest", "CheckingCompatibility",
                                    "Recovering", "Closed"}
  /\ here \subseteq Slots /\ ready \subseteq Slots /\ handoff \subseteq Slots
  /\ compat \in [Slots -> Hashes \cup {NoDeclaration}]
  /\ lastSeq \in [Slots -> Nat]
  /\ sync \in [asked : BOOLEAN, sampled : SUBSET Slots, steady : SUBSET Slots, start : BOOLEAN]
  /\ hold \in [set : BOOLEAN, holders : SUBSET Slots, acked : SUBSET Slots]
  /\ ~hold.set => hold = NoHold
  /\ agreed \in BOOLEAN /\ kept \in BOOLEAN /\ rounds \in 0 .. use.rounds /\ use \in Uses
  /\ wire \in Seq([player : Slots, seq : Nat])

\* A link room is synchronizing, ready, started or paused only after all of its
\* players declared matching runtimes in this round, however the start came about
\* (mark_ready, a late clock sample, a pause that ends).  The one exception is a
\* handoff that cleared the round of a room underway.
LinkAgreedFirst == linkStatus \in Underway => agreed \/ kept

\* The packets a player's peer receives in one round have strictly increasing
\* sequence numbers, over pauses and takeovers of the slot as well.
CableOrder ==
  \A i, j \in DOMAIN wire :
     i < j /\ wire[i].player = wire[j].player => wire[i].seq < wire[j].seq
==============================================================================
