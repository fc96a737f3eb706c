---------------------------- MODULE MCGuiClient ----------------------------
(***************************************************************************)
(* Constants of the GuiClient runs: the requests that clients and other    *)
(* peers send, of two turns, legal and not.                                *)
(***************************************************************************)
EXTENDS GuiClient, TLC

Moves(turns, verdicts) == [playerId : {0, 1}, turnId : turns, legal : verdicts]

\* What any client may send in two turns.
AllMoves == Moves({1, 2}, BOOLEAN)

\* For the liveness run: the one opening move.
OpeningMove == {[playerId |-> FirstPlayer, turnId |-> 1, legal |-> TRUE]}

Connections == Permutations(Clients)
=============================================================================
