---------------------------- MODULE GameSession ----------------------------
(***************************************************************************)
(* The turn protocol of src/game/GameSession.cpp: the lobby, the opening   *)
(* turn, the alternation of turns, and the end of the game.  Each public   *)
(* operation is an operator from the session's state to its next state, so *)
(* that a handler which calls several of them (GameServer::onConnected)    *)
(* composes them; the actions below call them one at a time, in any order, *)
(* as the tests do.                                                        *)
(*                                                                         *)
(* Abstracted here: the board (a request carries the verdict legal of      *)
(* EliminationRule::validate) and the combat (the damage it does to the    *)
(* defender's tower is any amount the tower can lose).                     *)
(***************************************************************************)
EXTENDS Integers, Sequences

CONSTANTS FirstPlayer,   \* firstPlayerId of the constructor
          TowerMaxHp,    \* Tower::MaxHp
          MaxTurn        \* bound: no turn after this one is played

ASSUME FirstPlayerAssumption == FirstPlayer \in {0, 1}
ASSUME TowerAssumption == TowerMaxHp \in Nat \ {0}
ASSUME MaxTurnAssumption == MaxTurn \in Nat

VARIABLES game,  \* the members of a GameSession
          log    \* history: the accepted requests, in order

sessionVars == <<game, log>>

Players == {0, 1}
NoPlayer == -1   \* an empty std::optional<int>
Opponent(p) == 1 - p

\* GamePhase::Combat is left out: handleEliminateRequest enters and leaves it
\* before it returns, and nothing runs in between.
GamePhase == {"WaitingForPlayers", "Elimination", "Finished"}

Session == [phase : GamePhase,
            currentPlayerId : Players,
            turnId : Nat \ {0},
            winnerPlayerId : Players \cup {NoPlayer},
            readyPlayers : [Players -> BOOLEAN],
            openingTurnPending : BOOLEAN,
            towerHp : [Players -> 0..TowerMaxHp]]

NewSession == [phase |-> "WaitingForPlayers",
               currentPlayerId |-> FirstPlayer,
               turnId |-> 1,
               winnerPlayerId |-> NoPlayer,
               readyPlayers |-> [p \in Players |-> FALSE],
               openingTurnPending |-> TRUE,
               towerHp |-> [p \in Players |-> TowerMaxHp]]

-----------------------------------------------------------------------------
(* The operations.  A call that the code refuses leaves the state alone.   *)

MarkPlayerReady(g, p) ==
  IF g.phase = "WaitingForPlayers" /\ p \in Players
  THEN [g EXCEPT !.readyPlayers[p] = TRUE]
  ELSE g

CanStart(g) == /\ g.phase = "WaitingForPlayers"
               /\ \A p \in Players : g.readyPlayers[p]

Start(g) ==
  IF CanStart(g)
  THEN [g EXCEPT !.openingTurnPending = TRUE, !.phase = "Elimination"]
  ELSE g

\* Mutant: the game goes back to the lobby instead of ending.
MarkPlayerDisconnectedReopens(g, p) ==
  IF p \notin Players THEN g
  ELSE [g EXCEPT !.readyPlayers[p] = FALSE, !.phase = "WaitingForPlayers"]

MarkPlayerDisconnected(g, p) ==
  IF p \notin Players
  THEN g
  ELSE [g EXCEPT !.readyPlayers[p] = FALSE,
                 !.phase = IF @ = "WaitingForPlayers" THEN @ ELSE "Finished"]

EndGame(g) == [g EXCEPT !.phase = "Finished"]

\* Mutant: the check of the turn is dropped.
AcceptsStale(g, req) == /\ g.phase = "Elimination"
                        /\ req.playerId = g.currentPlayerId
                        /\ req.legal

\* The guards of handleEliminateRequest, in its order.
Accepts(g, req) == /\ g.phase = "Elimination"
                   /\ req.playerId = g.currentPlayerId
                   /\ req.turnId = g.turnId
                   /\ req.legal

\* The turn passes: both the opening branch and the combat branch end so.
PassTurn(g) == [g EXCEPT !.currentPlayerId = Opponent(@),
                         !.turnId = @ + 1,
                         !.phase = "Elimination"]

OpeningElimination(g) == PassTurn([g EXCEPT !.openingTurnPending = FALSE])

\* Mutant: the winner is read after the turn has passed.
CombatEliminationLateWinner(g, damage) ==
  LET defender == Opponent(g.currentPlayerId)
      passed   == PassTurn([g EXCEPT !.towerHp[defender] = @ - damage])
  IN  IF passed.towerHp[defender] = 0
      THEN [passed EXCEPT !.phase = "Finished", !.winnerPlayerId = passed.currentPlayerId]
      ELSE passed

\* Combat takes damage hit points from the defender's tower; the game is
\* over when it falls, and then the turn does not pass.
CombatElimination(g, damage) ==
  LET defender == Opponent(g.currentPlayerId)
      fought   == [g EXCEPT !.towerHp[defender] = @ - damage]
  IN  IF fought.towerHp[defender] = 0
      THEN [fought EXCEPT !.phase = "Finished", !.winnerPlayerId = g.currentPlayerId]
      ELSE PassTurn(fought)

\* Mutant: the opening turn fights.
HandleEliminateRequestFights(g, req, damage) ==
  IF ~Accepts(g, req) THEN g
  ELSE [CombatElimination(g, damage) EXCEPT !.openingTurnPending = FALSE]

HandleEliminateRequest(g, req, damage) ==
  IF ~Accepts(g, req) THEN g
  ELSE IF g.openingTurnPending THEN OpeningElimination(g)
  ELSE CombatElimination(g, damage)

\* What the combat of the next accepted request may take from the tower.
PossibleDamage(g) == 0..g.towerHp[Opponent(g.currentPlayerId)]

-----------------------------------------------------------------------------
(* The specification: any caller, any order.                               *)

\* Arguments the interface lets through: two real ids and one on each side.
PlayerArguments == -1..2

Requests == [playerId : PlayerArguments, turnId : 0..MaxTurn, legal : BOOLEAN]

SessionInit == game = NewSession /\ log = << >>

Ready(p) == game' = MarkPlayerReady(game, p) /\ UNCHANGED log

Begin == game' = Start(game) /\ UNCHANGED log

Disconnect(p) == game' = MarkPlayerDisconnected(game, p) /\ UNCHANGED log

End == game' = EndGame(game) /\ UNCHANGED log

Request(req, damage) ==
  /\ game' = HandleEliminateRequest(game, req, damage)
  /\ log' = IF Accepts(game, req)
            THEN Append(log, [playerId |-> req.playerId, turnId |-> req.turnId])
            ELSE log

SessionNext == \/ \E p \in PlayerArguments : Ready(p) \/ Disconnect(p)
               \/ Begin
               \/ End
               \/ \E req \in Requests, damage \in PossibleDamage(game) :
                     Request(req, damage)

SessionSpec == SessionInit /\ [][SessionNext]_sessionVars

-----------------------------------------------------------------------------
(* Properties.                                                             *)

\* Who moves at turn n, had the players alternated from the first one on.
MoverOf(n) == IF n % 2 = 1 THEN FirstPlayer ELSE Opponent(FirstPlayer)

\* Every member keeps its type; the history is a list of requests.
SessionTypeOK == /\ game \in Session
                 /\ log \in Seq([playerId : Players, turnId : Nat \ {0}])

\* A tower is down exactly when its owner's opponent is recorded as the
\* winner, and then the game has finished: no session plays on with a fallen
\* tower, none has a winner without one, and a game that a disconnection or
\* endGame stopped keeps no winner (GameSession.cpp:42-50, 108-111).
WinnerAgreesWithTowers(g) ==
  \A p \in Players : /\ g.towerHp[p] = 0 <=> g.winnerPlayerId = Opponent(p)
                     /\ g.towerHp[p] = 0 => g.phase = "Finished"

WinnerIffTowerDown == WinnerAgreesWithTowers(game)

\* Exactly one request was accepted for each turn up to the present one, and
\* by the players in alternation, however many stale, duplicated, foreign or
\* illegal requests came in between (GameSession.cpp:66-80, 112-113).  The
\* present turn has one only when its combat ended the game.
LogMatchesTurn(g, l) ==
  /\ \A i \in 1..Len(l) : l[i] = [playerId |-> MoverOf(i), turnId |-> i]
  /\ Len(l) = IF g.winnerPlayerId = NoPlayer THEN g.turnId - 1 ELSE g.turnId
  /\ g.currentPlayerId = MoverOf(g.turnId)

OneRequestPerTurn == LogMatchesTurn(game, log)

\* The opening turn is the first turn and never fights: nobody's tower is
\* hurt in it, and the second player's not before the third turn
\* (GameSession.cpp:84-102).
PeacefulOpening(g) ==
  /\ g.openingTurnPending <=> g.turnId = 1
  /\ g.turnId = 1 => g.towerHp[FirstPlayer] = TowerMaxHp
  /\ g.turnId <= 2 => g.towerHp[Opponent(FirstPlayer)] = TowerMaxHp

OpeningTurnFightsNobody == PeacefulOpening(game)

\* A finished game is final: nothing that comes after, a late request or a
\* second disconnection, touches the phase, the turn, the winner, the towers
\* or the history.
FinishedIsFinal ==
  [][game.phase = "Finished" =>
       /\ log' = log
       /\ \E ready \in [Players -> BOOLEAN] :
             game' = [game EXCEPT !.readyPlayers = ready]]_sessionVars

Stage(g) == CASE g.phase = "WaitingForPlayers" -> "lobby"
              [] g.phase = "Finished" -> "over"
              [] OTHER -> "playing"

\* The session implements the abstract match.
Match == INSTANCE TurnGame WITH stage <- Stage(game), turn <- game.turnId,
                                winner <- game.winnerPlayerId, hp <- game.towerHp
ImplementsTurnGame == Match!MatchSpec
=============================================================================
