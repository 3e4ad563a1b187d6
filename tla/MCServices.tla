----------------------------- MODULE MCServices -----------------------------
(***************************************************************************)
(* Four parts of the relay that share no state, checked in one run: the   *)
(* initial state chooses the part that moves, the others stay as they      *)
(* began.                                                                  *)
(***************************************************************************)
EXTENDS Telemetry, LinkCable, Admission, InputDelay

VARIABLE part   \* the part this behaviour is about

(* Link rooms: pauses, the scheduled start and handoffs each in behaviours *)
(* of their own.                                                           *)
MCUses ==
  { [able |-> FALSE, pause |-> TRUE, handoff |-> FALSE, packets |-> 2, rounds |-> 1],
    [able |-> TRUE, pause |-> FALSE, handoff |-> FALSE, packets |-> 1, rounds |-> 2],
    [able |-> FALSE, pause |-> FALSE, handoff |-> TRUE, packets |-> 2, rounds |-> 2] }

(* Admission: protocol 5 is enabled and required of android.               *)
MCLimits == [CreateRoom |-> 2, WebSocketJoin |-> 2, RoomStatus |-> 2]
MCMinimum == [desktop |-> 4, android |-> 5]
Answer(s, v, a, k, e) ==
  [status |-> s, valid |-> v, authorized |-> a, kind |-> k, entitled |-> e]
MCAnswers == { Answer("ok", "none", "true", "same", FALSE),
               Answer("ok", "true", "none", "none", TRUE),
               Answer("ok", "true", "true", "other", TRUE),
               Answer("ok", "false", "false", "same", TRUE),
               Answer("refused", "none", "none", "none", FALSE) }
Mixed == {<<"desktop", 4, 4>>, <<"android", 4, 4>>}
MCPlans ==
  { [routes |-> {"roomStatus"}, clients |-> {<<"desktop", 5, 5>>}, until |-> 6],
    [routes |-> {"createRoom", "websocketRoom", "input"}, until |-> 0,
     clients |-> {<<"desktop", 4, 4>>, <<"desktop", 4, 5>>}],
    [routes |-> {"createRoom", "resume"}, until |-> 0,
     clients |-> {<<"desktop", 4, 4>>, <<"android", 4, 5>>}],
    [routes |-> {"createLobby", "joinLobby", "lobbyStatus"}, clients |-> Mixed, until |-> 0],
    [routes |-> {"publicLobbies", "directory", "websocketLobby"}, clients |-> Mixed, until |-> 0] }

(* Input delay: reports that make the delay rise, fall, saturate, and that *)
(* are incomplete.                                                         *)
Report(t, j, p) == [rtt |-> t, jitter |-> j, pressure |-> p]
Near == Report(5, 0, FALSE)
Late == Report(61, 13, TRUE)
MCRooms ==
  { [strict |-> TRUE, scheduled |-> TRUE, rate |-> <<60000, 1001>>, delay |-> 5, frames |-> {},
     reports |-> {Near, Late, Report(70, Absent, FALSE), Report(300, 40, FALSE)}],
    [strict |-> TRUE, scheduled |-> FALSE, rate |-> <<0, 0>>, delay |-> 5, frames |-> {45},
     reports |-> {Near}],
    [strict |-> FALSE, scheduled |-> FALSE, rate |-> <<60, 1>>, delay |-> 3, frames |-> {45},
     reports |-> {Near, Report(Absent, 4, FALSE)}],
    [strict |-> FALSE, scheduled |-> TRUE, rate |-> <<60, 1>>, delay |-> 3, frames |-> {},
     reports |-> {Late}] }

Init ==
  /\ part \in {"telemetry", "link", "admission", "delay"}
  /\ TelInit /\ LinkInit /\ AdmInit /\ DelayInit
  /\ part # "link" => use = (CHOOSE u \in Uses : TRUE) /\ handoff = {}
  /\ part # "admission" => plan = CHOOSE p \in Plans : TRUE
  /\ part # "delay" => room = CHOOSE r \in Rooms : TRUE

DrainTask == part = "telemetry" /\ Drain /\ UNCHANGED <<linkVars, admVars, delayVars, part>>

Next ==
  \/ part = "telemetry" /\ TelNext /\ UNCHANGED <<linkVars, admVars, delayVars, part>>
  \/ part = "link" /\ LinkNext /\ UNCHANGED <<telVars, admVars, delayVars, part>>
  \/ part = "admission" /\ AdmNext /\ UNCHANGED <<telVars, linkVars, delayVars, part>>
  \/ part = "delay" /\ DelayNext /\ UNCHANGED <<telVars, linkVars, admVars, part>>

vars == <<telVars, linkVars, admVars, delayVars, part>>

\* The state of each part keeps its type and its bounds: the queue and the batch of
\* telemetry, the buckets of the limiter, the range of the delay.
ServicesTypeOK == TelTypeOK /\ LinkTypeOK /\ AdmTypeOK /\ DelayTypeOK

\* The drain task is one of the runtime's tasks and its select! is never disabled.
Live == Init /\ [][Next]_vars /\ WF_vars(DrainTask)
==============================================================================
