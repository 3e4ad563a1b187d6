---------------------------- MODULE FrameRelease ----------------------------
(***************************************************************************)
(* What a room promises both emulators about released frames.  Within one  *)
(* session epoch the released frames start at the announced start frame and*)
(* go up by one: none is released twice, none is skipped, and no older     *)
(* frame follows a newer one.  A frame number may only come back in a later*)
(* session epoch.                                                          *)
(***************************************************************************)
EXTENDS Integers, Sequences

VARIABLES epoch,   \* the session epoch of the released frames
          start,   \* the announced first frame
          log      \* the frames released in this epoch

vars == <<epoch, start, log>>

Init == epoch = 1 /\ start = 0 /\ log = << >>

Release ==
  /\ log' = Append(log, IF log = << >> THEN start ELSE log[Len(log)] + 1)
  /\ UNCHANGED <<epoch, start>>

Announce ==
  /\ start' \in Nat
  /\ UNCHANGED <<epoch, log>>

NewEpoch ==
  /\ epoch' = epoch + 1
  /\ start' \in Nat
  /\ log' = << >>

Next == Release \/ Announce \/ NewEpoch

Spec == Init /\ [][Next]_vars
=============================================================================
