-------------------------- MODULE MCRoomLifecycle --------------------------
(* Model-checking instances of RoomLifecycle.                              *)
EXTENDS RoomLifecycle, TLC

\* Connection ids are only compared for equality.
ConnSymmetry == Permutations(Conns)
=============================================================================
