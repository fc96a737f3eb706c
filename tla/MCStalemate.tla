---------------------------- MODULE MCStalemate -----------------------------
(***************************************************************************)
(* Three turns of the only game the server deals, at the board's real      *)
(* size: GameServer.cpp:21 seeds the session with 42, so the first board   *)
(* and the boxes that refill it are the draws of std::mt19937(42), in the  *)
(* order of initializeRandom and of the collapses.  The paths are the      *)
(* players' choice; who dies in the combats is left open.  Colours 0..3    *)
(* are red, yellow, green and blue.                                        *)
(***************************************************************************)
EXTENDS BoxBoard, TLC

Dealt == <<
  <<1, 3, 3, 0, 2>>,
  <<3, 2, 2, 0, 1>>,
  <<0, 0, 0, 1, 3>>,
  <<1, 2, 0, 2, 2>>,
  <<0, 0, 3, 2, 3>>,
  <<3, 0, 0, 0, 3>>,
  <<0, 2, 1, 2, 2>>,
  <<0, 1, 0, 1, 2>>,
  <<2, 1, 0, 0, 1>>,
  <<3, 1, 0, 1, 0>> >>

\* The path of each turn, and the boxes drawn when its columns collapse.
Played == <<
  [path   |-> << <<6, 2>>, <<7, 3>>, <<8, 4>>, <<9, 3>> >>,
   refill |-> <<0, 2>> :> 3 @@ <<0, 3>> :> 2 @@ <<0, 4>> :> 0],
  [path   |-> << <<2, 0>>, <<2, 1>>, <<3, 2>>, <<4, 1>>, <<4, 0>> >>,
   refill |-> <<9, 0>> :> 1 @@ <<8, 1>> :> 2 @@ <<9, 1>> :> 3 @@ <<9, 2>> :> 2],
  [path   |-> << <<5, 2>>, <<6, 2>>, <<6, 3>>, <<7, 2>> >>,
   refill |-> <<1, 2>> :> 1 @@ <<0, 2>> :> 0 @@ <<0, 3>> :> 3] >>

DealtInit ==
  /\ cells = [position \in Positions |->
                Box(Dealt[Row(position) + 1][Column(position) + 1], position)]
  /\ nextHeroId = 1
  /\ mover = 0
  /\ turn = 1

DealtNext ==
  /\ turn <= Len(Played)
  /\ Validate(cells, mover, Played[turn].path)
  /\ \E dead \in SUBSET (1..nextHeroId) :
        PlayTurn(Played[turn].path, Played[turn].refill, dead)

DealtSpec == DealtInit /\ [][DealtNext]_vars
=============================================================================
