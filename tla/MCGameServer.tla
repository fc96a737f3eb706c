---------------------------- MODULE MCGameServer ----------------------------
(***************************************************************************)
(* Constants of the GameServer runs.  The peers send what clients do send  *)
(* and what they should not: either player's request for an early turn,    *)
(* one with an illegal path, a body that does not parse, a bad length.     *)
(***************************************************************************)
EXTENDS GameServer, TLC

Moves(turns) == [playerId : {0, 1}, turnId : turns, legal : {TRUE}]

\* For the runs about seats: the opening move, and a frame that ends the reading.
SeatFrames == {[playerId |-> 0, turnId |-> 1, legal |-> TRUE], BadLength}

\* For the runs about the game: moves of two turns, one of them illegal, and garbage.
PlayFrames == Moves({1, 2}) \cup {[playerId |-> 0, turnId |-> 1, legal |-> FALSE], Garbage}

Connections == Permutations(Clients)
=============================================================================
