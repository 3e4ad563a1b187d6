--------------------------- MODULE MCRoomSession ---------------------------
EXTENDS RoomSession, TLC

\* Connection ids, fingerprints, snapshots and digests are interchangeable.
SessionSymmetry == Permutations(Conns) \cup Permutations(Snapshots) \cup Permutations(Digests)

\* Both players' clients support scheduled starts; none does; the guest's may or may not.
AllScheduled == [p \in Players |-> {TRUE}]
NoneScheduled == [p \in Players |-> {FALSE}]
GuestMayDiffer == [p \in Players |-> IF p = Host THEN {TRUE} ELSE BOOLEAN]
=============================================================================
