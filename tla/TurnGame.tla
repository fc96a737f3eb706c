------------------------------ MODULE TurnGame ------------------------------
(***************************************************************************)
(* What a match promises its two players, whatever program carries it out: *)
(* a lobby, then turns taken strictly in alternation, of which only the    *)
(* mover's opponent can be hurt and none in the opening turn, until a      *)
(* tower falls (the mover wins) or the match is abandoned (nobody wins).   *)
(* GameSession, GameServer and Combat are shown to implement it.           *)
(***************************************************************************)
EXTENDS Integers

CONSTANTS FirstPlayer,   \* who takes turn 1
          TowerMaxHp     \* hit points of an undamaged tower

VARIABLES stage,   \* "lobby", "playing" or "over"
          turn,    \* number of the turn to be taken, from 1
          winner,  \* the player who won, -1 while nobody has
          hp       \* hit points of each player's tower

matchVars == <<stage, turn, winner, hp>>

\* Turns alternate: the odd ones are the first player's.
Mover(n) == IF n % 2 = 1 THEN FirstPlayer ELSE 1 - FirstPlayer

MatchInit == /\ stage = "lobby"
             /\ turn = 1
             /\ winner = -1
             /\ hp = [p \in {0, 1} |-> TowerMaxHp]

Begin == /\ stage = "lobby"
         /\ stage' = "playing"
         /\ UNCHANGED <<turn, winner, hp>>

OpeningTurn == /\ stage = "playing"
               /\ turn = 1
               /\ turn' = 2
               /\ UNCHANGED <<stage, winner, hp>>

BattleTurn == /\ stage = "playing"
              /\ turn > 1
              /\ \E left \in 1..hp[1 - Mover(turn)] :
                    hp' = [hp EXCEPT ![1 - Mover(turn)] = left]
              /\ turn' = turn + 1
              /\ UNCHANGED <<stage, winner>>

Victory == /\ stage = "playing"
           /\ turn > 1
           /\ stage' = "over"
           /\ winner' = Mover(turn)
           /\ hp' = [hp EXCEPT ![1 - Mover(turn)] = 0]
           /\ UNCHANGED turn

Abandon == /\ stage # "over"
           /\ stage' = "over"
           /\ UNCHANGED <<turn, winner, hp>>

MatchNext == Begin \/ OpeningTurn \/ BattleTurn \/ Victory \/ Abandon

MatchSpec == MatchInit /\ [][MatchNext]_matchVars
=============================================================================
