--------------------------- MODULE MCRoomTransfers ---------------------------
(* RoomTransfers for TLC: the snapshot ids are interchangeable. *)
EXTENDS RoomTransfers, TLC

Interchangeable == Permutations(Ids)
SmallUses == {{"inline", "file"}, {"file", "rom"}, {"voice"}}
=============================================================================
