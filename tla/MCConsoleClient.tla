-------------------------- MODULE MCConsoleClient --------------------------
(***************************************************************************)
(* Constants of the ConsoleClient runs: the requests of the first turns.   *)
(***************************************************************************)
EXTENDS ConsoleClient

Move(p, turn, verdict) == [playerId |-> p, turnId |-> turn, legal |-> verdict]

\* The opening move, and its answer, drawn on the right half or not.  Each may be
\* sent twice.
AllMoves == {Move(0, 1, TRUE), Move(1, 2, TRUE), Move(1, 2, FALSE)}

\* For the liveness run: the one opening move.
OpeningMove == {Move(0, 1, TRUE)}
=============================================================================
