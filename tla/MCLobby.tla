------------------------------- MODULE MCLobby -------------------------------
(* Symmetry for model checking the lobby. *)
EXTENDS Lobby, TLC

Interchangeable == Permutations(Conns) \cup Permutations(Guests)
==============================================================================
