----------------------------- MODULE InputDelay -----------------------------
(***************************************************************************)
(* The input delay of a controller room.  Clients report round trip,       *)
(* jitter and pressure with heartbeats and ready messages; when the room   *)
(* starts, the relay derives the delay both clients use from the reports   *)
(* that are still fresh.  Protocol 5 adds up both paths and wants both     *)
(* reports, protocol 4 takes the worst player.  A room of protocol 4 whose *)
(* clients schedule the start keeps the configured delay.                  *)
(*                                                                         *)
(* Times are in milliseconds for reports and in ticks for freshness.       *)
(* Report values stay below the width of their fields.  heard is history.  *)
(***************************************************************************)
EXTENDS Integers, FiniteSets

CONSTANTS Rooms,       \* kinds of room: protocol, scheduled start, frame rate, delay,
                       \* what its clients report, how many frames they are ahead
          Freshness,   \* HEALTH_SAMPLE_FRESHNESS
          LastTick,    \* bound: time
          NewRounds,   \* bound: resets
          Absent       \* an Option that is None

MinimumDelay == 2   \* MIN_AUTOMATIC_INPUT_DELAY_FRAMES
MaximumDelay == 8   \* MAX_CONTROLLER_INPUT_DELAY_FRAMES
DefaultDelay == 3   \* DEFAULT_CONTROLLER_INPUT_DELAY_FRAMES
SafetyFrames == 1   \* LATENCY_SAFETY_FRAMES
HighPressure == 45  \* HIGH_PREDICTION_PRESSURE_FRAMES

ASSUME InputDelayAssumption ==
  /\ \A r \in Rooms :
       /\ r.strict \in BOOLEAN /\ r.scheduled \in BOOLEAN
       /\ r.rate \in Nat \X Nat /\ r.delay \in 1 .. MaximumDelay
       /\ r.reports \subseteq [rtt : Nat \cup {Absent}, jitter : Nat \cup {Absent}, pressure : BOOLEAN]
       /\ r.frames \subseteq Nat
  /\ Freshness \in Nat /\ LastTick \in Nat /\ NewRounds \in Nat

VARIABLES stage,       \* room.status: Ready, StartScheduled or Playing
          delay,       \* session.controller.input_delay_frames
          report,      \* latest_network_report of each slot, with its time
          local,       \* latest_local_frame of each slot less the baseline frame, with its time
          done,        \* ready_players, deterministic_ready_players, and whether
                       \* scheduled_start is set
          tick,        \* now
          resets,      \* resets so far
          heard,       \* slots whose client reported its network in this round
          room         \* the chosen member of Rooms

delayVars == <<stage, delay, report, local, done, tick, resets, heard, room>>

Pair == {1, 2}
Nothing == [p \in Pair |-> Absent]
NoneDone == [ready |-> {}, steady |-> {}, set |-> FALSE]

DelayInit ==
  /\ room \in Rooms /\ delay = room.delay
  /\ stage = "Ready" /\ report = Nothing /\ local = Nothing
  /\ done = NoneDone /\ tick = 0 /\ resets = 0 /\ heard = {}

-----------------------------------------------------------------------------
(* The policy.                                                             *)

Least(a, b) == IF a < b THEN a ELSE b
Most(a, b) == IF a > b THEN a ELSE b
\* u8::clamp to the range of automatic delays.
Clamp(n) == Most(MinimumDelay, Least(n, MaximumDelay))
\* An Option's unwrap_or(0).
OrZero(x) == IF x = Absent THEN 0 ELSE x

\* Mutant of FramesForMs: rounds down.
FramesForMsDown(ms, rate) ==
  Least((ms * rate[1]) \div Most(1000 * rate[2], 1), MaximumDelay)
\* frames_for_ms_at_rate
FramesForMs(ms, rate) ==
  LET divisor == Most(1000 * rate[2], 1)
  IN  Least((ms * rate[1] + divisor - 1) \div divisor, MaximumDelay)

\* nominal_frame_rate, with its default.
Rate == IF room.rate[1] > 0 /\ room.rate[2] > 0 THEN room.rate ELSE <<60, 1>>

OneWay(rtt) == (rtt + 1) \div 2

IsFresh(entry) == entry # Absent /\ tick - entry.at <= Freshness

\* The path budget of initial_v5_decision: both one-way times and jitters.
PathBudget(rs) ==
  LET path(p) == OneWay(rs[p].value.rtt) + rs[p].value.jitter
  IN  path(1) + path(2)

Complete(entry) == IsFresh(entry) /\ entry.value.rtt # Absent /\ entry.value.jitter # Absent

\* initial_v5_decision; the delay stays when there is no decision.
InitialV5(rs) ==
  IF \A p \in Pair : Complete(rs[p])
  THEN Clamp(FramesForMs(PathBudget(rs), Rate) + SafetyFrames) ELSE delay

\* delay_for_report
DelayForReport(r) ==
  Clamp(FramesForMs(OneWay(r.rtt) + OrZero(r.jitter), <<60, 1>>)
          + SafetyFrames + (IF r.pressure THEN 1 ELSE 0))

Sampled(rs) == {p \in Pair : IsFresh(rs[p]) /\ rs[p].value.rtt # Absent}
Pressed == {p \in Pair : IsFresh(local[p]) /\ local[p].value >= HighPressure}

\* target_delay: the worst of the fresh reports and of the local frames.
TargetDelay(rs) ==
  LET wanted == {DelayForReport(rs[p].value) : p \in Sampled(rs)}
                  \cup {DefaultDelay + 1 : p \in Pressed} \cup {MinimumDelay}
  IN  CHOOSE n \in wanted : \A k \in wanted : k <= n

\* initial_decision
InitialDecision(rs) ==
  IF Sampled(rs) \cup Pressed = {} THEN delay
  ELSE IF TargetDelay(rs) < delay /\ Sampled(rs) # Pair THEN delay
  ELSE TargetDelay(rs)

-----------------------------------------------------------------------------
(* Operations of the room.                                                 *)

\* record_network_report; r is Absent when the message carries none.
Noted(p, r) == IF r = Absent THEN report ELSE [report EXCEPT ![p] = [value |-> r, at |-> tick]]
Hear(p, r) == /\ report' = Noted(p, r)
              /\ heard' = IF r = Absent THEN heard ELSE heard \cup {p}

\* record_heartbeat; maybe_schedule_adaptive_input_delay never schedules anything.
HeartbeatReport(p, r, f) ==
  /\ Hear(p, r)
  /\ local' = IF f = Absent THEN local ELSE [local EXCEPT ![p] = [value |-> f, at |-> tick]]
  /\ UNCHANGED <<stage, delay, done, tick, resets, room>>

\* mark_ready: the last player starts a room without a scheduled start, with the
\* policy of protocol 4 whatever the room's protocol.
ReadyReport(p, r) ==
  /\ stage = "Ready"
  /\ Hear(p, r)
  /\ done' = [done EXCEPT !.ready = @ \cup {p}]
  /\ IF done'.ready = Pair /\ ~room.scheduled
     THEN delay' = InitialDecision(Noted(p, r)) /\ stage' = "Playing"
     ELSE UNCHANGED <<delay, stage>>
  /\ UNCHANGED <<local, tick, resets, room>>

\* try_schedule_start once everybody is steady and sampled; a start that is set
\* already is only told again.
Schedule(rs) ==
  /\ stage = "Ready" /\ ~done.set
  /\ delay' = IF room.strict THEN InitialV5(rs) ELSE delay
  /\ stage' = "StartScheduled"

\* mark_deterministic_ready; the clock samples may be in or not.
SteadyReport(p, r) ==
  /\ room.scheduled /\ stage \in {"Ready", "StartScheduled"}
  /\ Hear(p, r)
  /\ \/ /\ done.steady \cup {p} = Pair /\ Schedule(Noted(p, r))
        /\ done' = [done EXCEPT !.steady = Pair, !.set = TRUE]
     \/ /\ done' = [done EXCEPT !.steady = @ \cup {p}]
        /\ UNCHANGED <<delay, stage>>
  /\ UNCHANGED <<local, tick, resets, room>>

\* accept_clock_sync_sample with the last missing sample.
LastClockSample ==
  /\ room.scheduled /\ done.steady = Pair
  /\ Schedule(report) /\ done' = [done EXCEPT !.set = TRUE]
  /\ UNCHANGED <<report, local, tick, resets, heard, room>>

\* The scheduled time comes.
StartPlaying ==
  /\ stage = "StartScheduled" /\ stage' = "Playing"
  /\ UNCHANGED <<delay, report, local, done, tick, resets, heard, room>>

\* set_compatibility_for_connection sends the room back to the checks and the setup
\* without a reset.
CompatibilityAgain(p) ==
  /\ stage' = "Ready" /\ done' = [done EXCEPT !.ready = @ \ {p}]
  /\ UNCHANGED <<delay, report, local, tick, resets, heard, room>>

\* Whose reports a reset of the room clears: the slots that players leave or take
\* over, in a strict room all of them.
Cleared(gone) == IF room.strict THEN Pair ELSE gone

\* reset_sync_state_to, and the setup up to SyncingState; the delay stays.
NewRound(gone) ==
  /\ resets < NewRounds /\ resets' = resets + 1
  /\ stage' = "Ready" /\ done' = NoneDone /\ heard' = {}
  /\ report' = [p \in Pair |-> IF p \in Cleared(gone) THEN Absent ELSE report[p]]
  /\ local' = [p \in Pair |-> IF p \in Cleared(gone) THEN Absent ELSE local[p]]
  /\ UNCHANGED <<delay, tick, room>>

DelayTick ==
  /\ tick < LastTick /\ tick' = tick + 1
  /\ UNCHANGED <<stage, delay, report, local, done, resets, heard, room>>

DelayNext ==
  \/ \E p \in Pair, r \in room.reports \cup {Absent} :
       \/ \E f \in room.frames \cup {Absent} : HeartbeatReport(p, r, f)
       \/ ReadyReport(p, r) \/ SteadyReport(p, r)
  \/ \E p \in Pair : CompatibilityAgain(p)
  \/ \E gone \in SUBSET Pair : NewRound(gone)
  \/ LastClockSample \/ StartPlaying \/ DelayTick

DelaySpec == DelayInit /\ [][DelayNext]_delayVars

-----------------------------------------------------------------------------
(* Properties.                                                             *)

\* Types; the delay never leaves the range that session descriptors allow.
DelayTypeOK ==
  /\ stage \in {"Ready", "StartScheduled", "Playing"} /\ delay \in 1 .. MaximumDelay
  /\ report \in [Pair -> {Absent} \cup [value : room.reports, at : 0 .. tick]]
  /\ local \in [Pair -> {Absent} \cup [value : room.frames, at : 0 .. tick]]
  /\ done \in [ready : SUBSET Pair, steady : SUBSET Pair, set : BOOLEAN]
  /\ heard \subseteq Pair /\ tick \in 0 .. LastTick /\ resets \in 0 .. NewRounds /\ room \in Rooms

Decides == stage = "Ready" /\ stage' # "Ready"

\* A room that starts strictly with complete reports gets a delay that covers both
\* paths and the safety frame, or the largest there is: integer rounding never
\* leaves it short.  It is the smallest such delay.
DelayCoversPaths ==
  [][Decides /\ room.strict /\ room.scheduled /\ (\A p \in Pair : Complete(report'[p])) =>
       LET covers(n) == (n - SafetyFrames) * 1000 * Rate[2] >= PathBudget(report') * Rate[1]
       IN  /\ covers(delay') \/ delay' = MaximumDelay
           /\ \A n \in MinimumDelay .. delay' - 1 : ~covers(n)]_delayVars

\* The delay is lowered only on full evidence: recent reports of both clients, in
\* a strict room of this round.  One client alone never lowers it, nor does what
\* was measured before a player of a strict room was replaced.
LoweredOnEvidence ==
  [][delay' < delay => Sampled(report') = Pair /\ (room.strict => heard' = Pair)]_delayVars

\* Once the start is scheduled both clients rely on the delay: heartbeats, repeated
\* ready messages and time leave it alone until the next round starts.
DelayFixed == [][delay' # delay => Decides]_delayVars
==============================================================================
