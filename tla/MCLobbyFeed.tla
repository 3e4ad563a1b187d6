----------------------------- MODULE MCLobbyFeed -----------------------------
(* The lobby with its followers, as TLC checks it. *)
EXTENDS LobbyFeed, TLC

CONSTANT Followed  \* the connection of the one lobby session that is followed

FollowedOrWatcher == {{Followed}, Watchers}
Interchangeable == Permutations(Conns \ {Followed})
==============================================================================
