------------------------- MODULE GameServer_proofs --------------------------
(***************************************************************************)
(* The session, and the server's seats around it.                          *)
(*                                                                         *)
(* First the turn protocol proved for every first player, tower size and   *)
(* bound on the turns.  The operations are taken one by one, as lemmas     *)
(* about the session before and after a call, so that the proofs about a   *)
(* handler that makes several calls can reuse them.                        *)
(*                                                                         *)
(* Then the seats of the server, for any set of connections and any        *)
(* frames they send: no connection is lost or seated twice, the session's  *)
(* readiness is the seats' occupation, the game the server carries is the  *)
(* abstract match, and what is sent tells every client the one history of  *)
(* that match, in order.                                                   *)
(***************************************************************************)
EXTENDS GameServer, FiniteSetTheorems, TLAPS

-----------------------------------------------------------------------------
(* THE SESSION.                                                            *)

\* What a session and its history keep from call to call.  It is inductive:
\* the invariants need one another's facts.
GoodSession(g, l) == /\ g \in Session
                     /\ l \in Seq([playerId : Players, turnId : Nat \ {0}])
                     /\ WinnerAgreesWithTowers(g)
                     /\ LogMatchesTurn(g, l)
                     /\ PeacefulOpening(g)
                     /\ g.phase = "WaitingForPlayers" => g.turnId = 1

SessionInv == GoodSession(game, log)

-----------------------------------------------------------------------------
(* The operations, one lemma each.                                         *)

\* Passing the turn keeps the alternation: the player after the mover of
\* turn n is the mover of turn n + 1.
LEMMA MoverAlternates ==
  ASSUME NEW n \in Nat
  PROVE  /\ MoverOf(n) \in Players
         /\ MoverOf(n + 1) = Opponent(MoverOf(n))
BY FirstPlayerAssumption DEF MoverOf, Opponent, Players

\* A new session with an empty history is good.
LEMMA NewSessionIsGood == GoodSession(NewSession, << >>)
<1>1. NewSession \in Session
  BY FirstPlayerAssumption, TowerAssumption DEF NewSession, Session, GamePhase, Players, NoPlayer
<1>2. WinnerAgreesWithTowers(NewSession)
  BY TowerAssumption DEF NewSession, WinnerAgreesWithTowers, Players, NoPlayer, Opponent
<1>3. LogMatchesTurn(NewSession, << >>)
  BY DEF NewSession, LogMatchesTurn, NoPlayer, MoverOf
<1>4. PeacefulOpening(NewSession)
  BY FirstPlayerAssumption DEF NewSession, PeacefulOpening, Players, Opponent
<1> QED
  BY <1>1, <1>2, <1>3, <1>4 DEF GoodSession, NewSession

\* markPlayerReady keeps a session good: it touches the readiness only.
LEMMA ReadyKeepsGood ==
  ASSUME NEW g, NEW l, NEW p, GoodSession(g, l)
  PROVE  GoodSession(MarkPlayerReady(g, p), l)
BY DEF GoodSession, MarkPlayerReady, Session, Players, WinnerAgreesWithTowers,
       LogMatchesTurn, PeacefulOpening

\* start keeps a session good: a session that waits has fought nothing, so
\* setting openingTurnPending again agrees with the turn.
LEMMA StartKeepsGood ==
  ASSUME NEW g, NEW l, GoodSession(g, l)
  PROVE  GoodSession(Start(g), l)
<1>1. CASE CanStart(g)
  <2> DEFINE h == [g EXCEPT !.openingTurnPending = TRUE, !.phase = "Elimination"]
  <2>1. /\ h \in Session
        /\ h.phase = "Elimination" /\ h.openingTurnPending
        /\ h.turnId = g.turnId /\ h.winnerPlayerId = g.winnerPlayerId
        /\ h.currentPlayerId = g.currentPlayerId /\ h.towerHp = g.towerHp
    BY DEF GoodSession, Session, GamePhase
  <2>2. g.turnId = 1 /\ \A p \in Players : g.towerHp[p] # 0
    BY <1>1 DEF GoodSession, CanStart, WinnerAgreesWithTowers
  <2> QED
    BY <1>1, <2>1, <2>2
       DEF GoodSession, Start, WinnerAgreesWithTowers, LogMatchesTurn, PeacefulOpening
<1>2. CASE ~CanStart(g)
  BY <1>2 DEF Start
<1> QED
  BY <1>1, <1>2

\* markPlayerDisconnected keeps a session good: the game it stops has no
\* winner unless a tower was already down.
LEMMA DisconnectKeepsGood ==
  ASSUME NEW g, NEW l, NEW p, GoodSession(g, l)
  PROVE  GoodSession(MarkPlayerDisconnected(g, p), l)
<1> DEFINE h == [g EXCEPT !.readyPlayers[p] = FALSE,
                          !.phase = IF @ = "WaitingForPlayers" THEN @ ELSE "Finished"]
<1>1. CASE p \in Players
  <2>1. /\ h \in Session
        /\ h.phase = "Finished" \/ h.phase = g.phase
        /\ h.turnId = g.turnId /\ h.winnerPlayerId = g.winnerPlayerId
        /\ h.currentPlayerId = g.currentPlayerId /\ h.towerHp = g.towerHp
        /\ h.openingTurnPending = g.openingTurnPending
    BY <1>1 DEF GoodSession, Session, GamePhase, Players
  <2> QED
    BY <1>1, <2>1 DEF GoodSession, MarkPlayerDisconnected, WinnerAgreesWithTowers,
                      LogMatchesTurn, PeacefulOpening
<1>2. CASE p \notin Players
  BY <1>2 DEF MarkPlayerDisconnected
<1> QED
  BY <1>1, <1>2

\* endGame keeps a session good, for the same reason.
LEMMA EndKeepsGood ==
  ASSUME NEW g, NEW l, GoodSession(g, l)
  PROVE  GoodSession(EndGame(g), l)
BY DEF GoodSession, EndGame, Session, GamePhase, WinnerAgreesWithTowers, LogMatchesTurn,
       PeacefulOpening
\* An accepted request keeps a session good: it is the one request of its
\* turn and comes from its mover; either the turn passes to the other player
\* or the defender's tower falls and the mover wins.
LEMMA AcceptedKeepsGood ==
  ASSUME NEW g, NEW l, NEW req, NEW damage \in PossibleDamage(g),
         GoodSession(g, l), Accepts(g, req)
  PROVE  GoodSession(HandleEliminateRequest(g, req, damage),
                     Append(l, [playerId |-> req.playerId, turnId |-> req.turnId]))
<1> DEFINE entry == [playerId |-> req.playerId, turnId |-> req.turnId]
           l2 == Append(l, entry)
           mover == g.currentPlayerId
           defender == Opponent(mover)
<1>1. /\ g \in Session /\ mover \in Players /\ defender \in Players
      /\ g.phase = "Elimination" /\ g.turnId \in Nat \ {0}
      /\ g.winnerPlayerId \in Players \cup {NoPlayer}
      /\ g.towerHp \in [Players -> 0..TowerMaxHp]
  BY DEF GoodSession, Accepts, Session, Players, Opponent
<1>2. \A p \in Players : g.towerHp[p] # 0 /\ g.winnerPlayerId # p
  BY <1>1, Z3 DEF GoodSession, WinnerAgreesWithTowers, Players, Opponent
<1>3. g.winnerPlayerId = NoPlayer
  BY <1>1, <1>2
<1>4. Len(l) = g.turnId - 1 /\ mover = MoverOf(g.turnId)
  BY <1>3 DEF GoodSession, LogMatchesTurn
<1>5. entry = [playerId |-> MoverOf(g.turnId), turnId |-> g.turnId]
  BY <1>4 DEF Accepts
<1>6. /\ l2 \in Seq([playerId : Players, turnId : Nat \ {0}])
      /\ Len(l2) = g.turnId
      /\ \A i \in 1..Len(l2) : l2[i] = [playerId |-> MoverOf(i), turnId |-> i]
  BY <1>1, <1>4, <1>5 DEF GoodSession, LogMatchesTurn
<1>7. MoverOf(g.turnId + 1) = defender
  BY <1>1, <1>4, MoverAlternates
<1>8. ASSUME NEW h, h \in Session, h.turnId = g.turnId,
             h.currentPlayerId = mover, h.winnerPlayerId = NoPlayer, ~h.openingTurnPending,
             \A p \in Players : h.towerHp[p] # 0,
             g.turnId # 1 => h.towerHp[mover] = g.towerHp[mover],
             g.turnId = 1 => h.towerHp = g.towerHp
      PROVE  GoodSession(PassTurn(h), l2)
  <2> DEFINE k == PassTurn(h)
  <2>a. h.turnId \in Nat \ {0} /\ h.currentPlayerId = mover
    BY <1>1, <1>8
  <2>b. h.turnId + 1 \in Nat \ {0}
    BY <2>a
  <2>1. /\ k \in Session
        /\ k.turnId = g.turnId + 1 /\ k.currentPlayerId = defender
        /\ k.phase = "Elimination" /\ k.winnerPlayerId = NoPlayer
        /\ ~k.openingTurnPending /\ k.towerHp = h.towerHp
    BY <1>1, <1>8, <2>a, <2>b DEF PassTurn, Session, GamePhase
  <2>2. WinnerAgreesWithTowers(k)
    BY <1>1, <1>8, <2>1 DEF WinnerAgreesWithTowers, Players, Opponent, NoPlayer
  <2>3. LogMatchesTurn(k, l2)
    BY <1>1, <1>6, <1>7, <2>1 DEF LogMatchesTurn
  <2>4. PeacefulOpening(k)
    <3>1. CASE g.turnId = 1
      BY <1>1, <1>8, <2>1, <3>1 DEF GoodSession, PeacefulOpening
    <3>2. CASE g.turnId # 1
      BY <1>1, <2>1, <3>2 DEF PeacefulOpening
    <3> QED
      BY <3>1, <3>2
  <2> QED
    BY <1>6, <2>1, <2>2, <2>3, <2>4 DEF GoodSession
<1>9. CASE g.openingTurnPending
  <2> DEFINE h == [g EXCEPT !.openingTurnPending = FALSE]
  <2>1. /\ h \in Session /\ h.turnId = g.turnId /\ h.currentPlayerId = mover
        /\ h.winnerPlayerId = NoPlayer /\ ~h.openingTurnPending /\ h.towerHp = g.towerHp
    BY <1>1, <1>3 DEF Session
  <2>2. GoodSession(PassTurn(h), l2)
    BY <1>2, <1>8, <2>1
  <2> QED
    BY <1>9, <2>2 DEF HandleEliminateRequest, OpeningElimination
<1>10. CASE ~g.openingTurnPending
  <2> DEFINE fought == [g EXCEPT !.towerHp[defender] = @ - damage]
             left == g.towerHp[defender] - damage
  <2>1. left \in 0..TowerMaxHp
    BY <1>1, TowerAssumption DEF PossibleDamage
  <2>2. mover # defender
    BY <1>1 DEF Opponent, Players
  <2>3. /\ fought \in Session /\ fought.turnId = g.turnId
        /\ fought.currentPlayerId = mover /\ fought.winnerPlayerId = NoPlayer
        /\ ~fought.openingTurnPending /\ fought.phase = "Elimination"
        /\ fought.towerHp[defender] = left
        /\ \A p \in Players : p # defender => fought.towerHp[p] = g.towerHp[p]
    BY <1>1, <1>3, <1>10, <2>1 DEF Session
  <2>4. g.turnId # 1
    BY <1>10 DEF GoodSession, PeacefulOpening
  <2>5. CASE left = 0
    <3> DEFINE k == [fought EXCEPT !.phase = "Finished", !.winnerPlayerId = mover]
    <3>1. /\ k \in Session /\ k.turnId = g.turnId /\ k.currentPlayerId = mover
          /\ k.winnerPlayerId = mover /\ k.phase = "Finished"
          /\ ~k.openingTurnPending /\ k.towerHp = fought.towerHp
      BY <1>1, <2>3 DEF Session, GamePhase
    <3>2. WinnerAgreesWithTowers(k)
      BY <1>1, <1>2, <2>2, <2>3, <2>5, <3>1 DEF WinnerAgreesWithTowers, Players, Opponent
    <3>3. LogMatchesTurn(k, l2)
      BY <1>1, <1>4, <1>6, <3>1 DEF LogMatchesTurn, NoPlayer, Players
    <3>4. PeacefulOpening(k)
      <4>1. CASE g.turnId = 2
        <5>1. mover = Opponent(FirstPlayer) /\ defender = FirstPlayer
          BY <1>1, <1>4, <4>1, FirstPlayerAssumption DEF MoverOf, Opponent
        <5> QED
          BY <1>1, <2>2, <2>3, <3>1, <4>1, <5>1 DEF GoodSession, PeacefulOpening
      <4>2. CASE g.turnId # 2
        BY <1>1, <2>4, <3>1, <4>2 DEF PeacefulOpening
      <4> QED
        BY <4>1, <4>2
    <3>5. GoodSession(k, l2)
      BY <1>6, <3>1, <3>2, <3>3, <3>4 DEF GoodSession
    <3> QED
      BY <1>10, <2>3, <2>5, <3>5 DEF HandleEliminateRequest, CombatElimination
  <2>6. CASE left # 0
    <3>1. \A p \in Players : fought.towerHp[p] # 0
      BY <1>2, <2>3, <2>6
    <3>2. GoodSession(PassTurn(fought), l2)
      BY <1>1, <1>8, <2>2, <2>3, <2>4, <3>1
    <3> QED
      BY <1>10, <2>3, <2>6, <3>2 DEF HandleEliminateRequest, CombatElimination
  <2> QED
    BY <2>5, <2>6
<1> QED
  BY <1>9, <1>10
-----------------------------------------------------------------------------
(* The specification.                                                      *)

\* A request, accepted or not, keeps the session and its history good.
LEMMA RequestKeepsGood ==
  ASSUME NEW req \in Requests, NEW damage \in PossibleDamage(game),
         SessionInv, Request(req, damage)
  PROVE  SessionInv'
<1>1. CASE Accepts(game, req)
  BY <1>1, AcceptedKeepsGood DEF SessionInv, Request
<1>2. CASE ~Accepts(game, req)
  BY <1>2 DEF SessionInv, Request, HandleEliminateRequest
<1> QED
  BY <1>1, <1>2

\* Every step of the session keeps the invariant.
LEMMA SessionInvStep == SessionInv /\ [SessionNext]_sessionVars => SessionInv'
<1> SUFFICES ASSUME SessionInv, [SessionNext]_sessionVars
             PROVE  SessionInv'
  OBVIOUS
<1>1. ASSUME NEW p \in PlayerArguments, Ready(p)
      PROVE  SessionInv'
  BY <1>1, ReadyKeepsGood DEF SessionInv, Ready
<1>2. ASSUME NEW p \in PlayerArguments, Disconnect(p)
      PROVE  SessionInv'
  BY <1>2, DisconnectKeepsGood DEF SessionInv, Disconnect
<1>3. CASE Begin
  BY <1>3, StartKeepsGood DEF SessionInv, Begin
<1>4. CASE End
  BY <1>4, EndKeepsGood DEF SessionInv, End
<1>5. ASSUME NEW req \in Requests, NEW damage \in PossibleDamage(game), Request(req, damage)
      PROVE  SessionInv'
  BY <1>5, RequestKeepsGood
<1>6. CASE UNCHANGED sessionVars
  BY <1>6 DEF SessionInv, sessionVars
<1> QED
  BY <1>1, <1>2, <1>3, <1>4, <1>5, <1>6 DEF SessionNext

\* The inductive invariant holds in every reachable state.
THEOREM SessionSafety == SessionSpec => []SessionInv
<1>1. SessionInit => SessionInv
  BY NewSessionIsGood DEF SessionInit, SessionInv
<1> QED
  BY <1>1, SessionInvStep, PTL DEF SessionSpec

\* Every member of the session always has its type.
THEOREM SessionTyped == SessionSpec => []SessionTypeOK
<1>1. SessionInv => SessionTypeOK
  BY DEF SessionInv, GoodSession, SessionTypeOK
<1> QED
  BY <1>1, SessionSafety, PTL

\* A tower is down exactly when its owner's opponent has won, and then the
\* game has finished.
THEOREM WinnerCorrect == SessionSpec => []WinnerIffTowerDown
<1>1. SessionInv => WinnerIffTowerDown
  BY DEF SessionInv, GoodSession, WinnerIffTowerDown
<1> QED
  BY <1>1, SessionSafety, PTL

\* However requests are repeated, delayed or forged, one is accepted per
\* turn and the accepted ones come from the players in alternation.
THEOREM TurnsAlternate == SessionSpec => []OneRequestPerTurn
<1>1. SessionInv => OneRequestPerTurn
  BY DEF SessionInv, GoodSession, OneRequestPerTurn
<1> QED
  BY <1>1, SessionSafety, PTL

\* The opening turn fights nobody.
THEOREM OpeningPeaceful == SessionSpec => []OpeningTurnFightsNobody
<1>1. SessionInv => OpeningTurnFightsNobody
  BY DEF SessionInv, GoodSession, OpeningTurnFightsNobody
<1> QED
  BY <1>1, SessionSafety, PTL

\* Nothing that happens after the end changes how the game ended.
THEOREM FinalOutcome == SessionSpec => FinishedIsFinal
<1> DEFINE Final == game.phase = "Finished" =>
                      /\ log' = log
                      /\ \E ready \in [Players -> BOOLEAN] :
                            game' = [game EXCEPT !.readyPlayers = ready]
<1>1. SessionInv /\ [SessionNext]_sessionVars => [Final]_sessionVars
  <2> SUFFICES ASSUME SessionInv, SessionNext, game.phase = "Finished"
               PROVE  Final
    OBVIOUS
  <2>1. game \in Session /\ game.readyPlayers \in [Players -> BOOLEAN]
        /\ game = [game EXCEPT !.readyPlayers = game.readyPlayers]
    BY DEF SessionInv, GoodSession, Session
  <2>2. CASE UNCHANGED <<game, log>>
    BY <2>1, <2>2
  <2>3. ASSUME NEW p \in PlayerArguments, Disconnect(p), p \in Players
        PROVE  Final
    <3> DEFINE ready == [game.readyPlayers EXCEPT ![p] = FALSE]
    <3>1. ready \in [Players -> BOOLEAN]
      BY <2>1
    <3>2. game' = [game EXCEPT !.readyPlayers = ready]
      BY <2>1, <2>3 DEF Disconnect, MarkPlayerDisconnected, Session
    <3> QED
      BY <2>3, <3>1, <3>2 DEF Disconnect
  <2>4. CASE End
    BY <2>1, <2>4 DEF End, EndGame, Session
  <2> QED
    BY <2>2, <2>3, <2>4
       DEF SessionNext, Ready, MarkPlayerReady, Disconnect, MarkPlayerDisconnected,
           Begin, Start, CanStart, Request, HandleEliminateRequest, Accepts
<1> QED
  BY <1>1, SessionSafety, PTL DEF SessionSpec, FinishedIsFinal
-----------------------------------------------------------------------------
(* The session implements the abstract match.                              *)

\* What the refinement sees of a session.
LEMMA StageOf ==
  ASSUME NEW g, g \in Session
  PROVE  /\ Stage(g) = "lobby" <=> g.phase = "WaitingForPlayers"
         /\ Stage(g) = "over" <=> g.phase = "Finished"
         /\ Stage(g) = "playing" <=> g.phase = "Elimination"
BY DEF Stage, Session, GamePhase

\* An accepted request is a turn of the match: the opening turn, a battle
\* turn the defender survives, or the mover's victory.
LEMMA RequestImplements ==
  ASSUME NEW req \in Requests, NEW damage \in PossibleDamage(game),
         SessionInv, Request(req, damage), Accepts(game, req)
  PROVE  Match!MatchNext
<1> DEFINE mover == game.currentPlayerId
           defender == Opponent(mover)
<1>1. /\ game \in Session /\ mover \in Players /\ defender \in Players
      /\ game.phase = "Elimination" /\ game.turnId \in Nat \ {0}
      /\ game.towerHp \in [Players -> 0..TowerMaxHp]
  BY DEF SessionInv, GoodSession, Accepts, Session, Players, Opponent
<1>2. \A p \in Players : game.towerHp[p] # 0
  BY <1>1 DEF SessionInv, GoodSession, WinnerAgreesWithTowers
<1>3. mover = Match!Mover(game.turnId) /\ defender = 1 - Match!Mover(game.turnId)
  BY DEF SessionInv, GoodSession, LogMatchesTurn, MoverOf, Match!Mover, Opponent
<1>4. Stage(game) = "playing"
  BY <1>1, StageOf
<1>5. game' \in Session
  BY RequestKeepsGood DEF SessionInv, GoodSession
<1>6. CASE game.openingTurnPending
  <2>1. game.turnId = 1
    BY <1>6 DEF SessionInv, GoodSession, PeacefulOpening
  <2>2. game' = [game EXCEPT !.openingTurnPending = FALSE, !.currentPlayerId = defender,
                             !.turnId = @ + 1, !.phase = "Elimination"]
    BY <1>6 DEF Request, HandleEliminateRequest, OpeningElimination, PassTurn
  <2>3. /\ game'.phase = "Elimination" /\ game'.turnId = 2
        /\ game'.winnerPlayerId = game.winnerPlayerId /\ game'.towerHp = game.towerHp
    BY <1>1, <2>1, <2>2 DEF Session
  <2>4. Match!OpeningTurn
    BY <1>4, <1>5, <2>1, <2>3, StageOf DEF Match!OpeningTurn
  <2> QED
    BY <2>4 DEF Match!MatchNext
<1>7. CASE ~game.openingTurnPending
  <2> DEFINE left == game.towerHp[defender] - damage
             fought == [game EXCEPT !.towerHp[defender] = left]
  <2>1. game.turnId > 1
    BY <1>1, <1>7 DEF SessionInv, GoodSession, PeacefulOpening
  <2>2. left \in 0..game.towerHp[defender]
    BY <1>1 DEF PossibleDamage
  <2>3. /\ fought.towerHp = [game.towerHp EXCEPT ![defender] = left]
        /\ fought.towerHp[defender] = left
        /\ fought.turnId = game.turnId /\ fought.winnerPlayerId = game.winnerPlayerId
    BY <1>1 DEF Session
  <2>4. CASE left = 0
    <3>1. game' = [fought EXCEPT !.phase = "Finished", !.winnerPlayerId = mover]
      BY <1>7, <2>3, <2>4 DEF Request, HandleEliminateRequest, CombatElimination
    <3>2. /\ game'.phase = "Finished" /\ game'.winnerPlayerId = mover
          /\ game'.turnId = game.turnId /\ game'.towerHp = fought.towerHp
      BY <1>1, <2>3, <3>1 DEF Session
    <3>3. Match!Victory
      BY <1>3, <1>4, <1>5, <2>1, <2>3, <2>4, <3>2, StageOf DEF Match!Victory
    <3> QED
      BY <3>3 DEF Match!MatchNext
  <2>5. CASE left # 0
    <3>1. game' = PassTurn(fought)
      BY <1>7, <2>3, <2>5 DEF Request, HandleEliminateRequest, CombatElimination
    <3>2. /\ game'.phase = "Elimination" /\ game'.winnerPlayerId = game.winnerPlayerId
          /\ game'.turnId = game.turnId + 1 /\ game'.towerHp = fought.towerHp
      BY <1>1, <2>3, <3>1 DEF PassTurn, Session
    <3>3. left \in 1..game.towerHp[defender]
      BY <1>1, <2>2, <2>5
    <3>4. Match!BattleTurn
      BY <1>3, <1>4, <1>5, <2>1, <2>3, <3>2, <3>3, StageOf DEF Match!BattleTurn
    <3> QED
      BY <3>4 DEF Match!MatchNext
  <2> QED
    BY <2>4, <2>5
<1> QED
  BY <1>6, <1>7

\* A step that moves only the phase, the way the lobby, a start, a disconnection
\* or an end do, is a step of the match or changes nothing of it.
LEMMA PhaseStepImplements ==
  ASSUME game \in Session, game' \in Session,
         game'.turnId = game.turnId, game'.winnerPlayerId = game.winnerPlayerId,
         game'.towerHp = game.towerHp,
         \/ game'.phase = game.phase
         \/ game.phase = "WaitingForPlayers" /\ game'.phase = "Elimination"
         \/ game'.phase = "Finished"
  PROVE  [Match!MatchNext]_(Match!matchVars)
<1>1. CASE game'.phase = game.phase
  BY <1>1 DEF Stage, Match!matchVars
<1>2. CASE game.phase = "WaitingForPlayers" /\ game'.phase = "Elimination"
  BY <1>2, StageOf DEF Match!MatchNext, Match!Begin
<1>3. CASE game.phase # "Finished" /\ game'.phase = "Finished"
  BY <1>3, StageOf DEF Match!MatchNext, Match!Abandon
<1> QED
  BY <1>1, <1>2, <1>3

\* What a disconnection does to the members of a session.
LEMMA DisconnectEffect ==
  ASSUME NEW g \in Session, NEW p \in Players
  PROVE  LET h == MarkPlayerDisconnected(g, p)
         IN  /\ h \in Session
             /\ h.turnId = g.turnId /\ h.winnerPlayerId = g.winnerPlayerId
             /\ h.towerHp = g.towerHp
             /\ h.phase = IF g.phase = "WaitingForPlayers" THEN g.phase ELSE "Finished"
             /\ ~h.readyPlayers[p]
             /\ \A q \in Players : q # p => h.readyPlayers[q] = g.readyPlayers[q]
BY DEF MarkPlayerDisconnected, Session, GamePhase

\* What readiness does to the members of a session that waits.
LEMMA ReadyEffect ==
  ASSUME NEW g \in Session, NEW p \in Players
  PROVE  LET h == MarkPlayerReady(g, p)
         IN  /\ h \in Session /\ h.phase = g.phase
             /\ h.turnId = g.turnId /\ h.winnerPlayerId = g.winnerPlayerId
             /\ h.towerHp = g.towerHp
             /\ g.phase = "WaitingForPlayers" => h.readyPlayers[p]
             /\ \A q \in Players : q # p => h.readyPlayers[q] = g.readyPlayers[q]
BY DEF MarkPlayerReady, Session

\* What a start does to the members of a session.
LEMMA StartEffect ==
  ASSUME NEW g \in Session
  PROVE  LET h == Start(g)
         IN  /\ h \in Session
             /\ h.turnId = g.turnId /\ h.winnerPlayerId = g.winnerPlayerId
             /\ h.towerHp = g.towerHp /\ h.readyPlayers = g.readyPlayers
             /\ h.phase = IF CanStart(g) THEN "Elimination" ELSE g.phase
<1>1. CASE CanStart(g)
  BY <1>1 DEF Start, Session, GamePhase
<1>2. CASE ~CanStart(g)
  BY <1>2 DEF Start
<1> QED
  BY <1>1, <1>2

\* Every step of the session is a step of the match or changes nothing of it.
LEMMA StepImplements ==
  SessionInv /\ SessionInv' /\ [SessionNext]_sessionVars => [Match!MatchNext]_(Match!matchVars)
<1> SUFFICES ASSUME SessionInv, SessionInv', [SessionNext]_sessionVars
             PROVE  [Match!MatchNext]_(Match!matchVars)
  OBVIOUS
<1>1. game \in Session /\ game' \in Session
  BY DEF SessionInv, GoodSession
<1>2. CASE UNCHANGED game
  BY <1>2 DEF Match!matchVars
<1>3. ASSUME NEW p \in PlayerArguments, Ready(p), p \in Players
      PROVE  [Match!MatchNext]_(Match!matchVars)
  BY <1>1, <1>3, ReadyEffect, PhaseStepImplements DEF Ready
<1>4. ASSUME NEW p \in PlayerArguments, Disconnect(p), p \in Players
      PROVE  [Match!MatchNext]_(Match!matchVars)
  BY <1>1, <1>4, DisconnectEffect, PhaseStepImplements DEF Disconnect
<1>5. CASE Begin
  BY <1>1, <1>5, StartEffect, PhaseStepImplements DEF Begin, CanStart
<1>6. CASE End
  <2>1. /\ game'.turnId = game.turnId /\ game'.winnerPlayerId = game.winnerPlayerId
        /\ game'.towerHp = game.towerHp /\ game'.phase = "Finished"
    BY <1>1, <1>6 DEF End, EndGame, Session
  <2> QED
    BY <1>1, <2>1, PhaseStepImplements
<1>7. ASSUME NEW req \in Requests, NEW damage \in PossibleDamage(game), Request(req, damage)
      PROVE  [Match!MatchNext]_(Match!matchVars)
  <2>1. CASE Accepts(game, req)
    BY <1>7, <2>1, RequestImplements
  <2>2. CASE ~Accepts(game, req)
    BY <1>2, <1>7, <2>2 DEF Request, HandleEliminateRequest
  <2> QED
    BY <2>1, <2>2
<1>8. ASSUME NEW p \in PlayerArguments, Ready(p) \/ Disconnect(p), p \notin Players
      PROVE  UNCHANGED game
  BY <1>8 DEF Ready, Disconnect, MarkPlayerReady, MarkPlayerDisconnected
<1> QED
  BY <1>2, <1>3, <1>4, <1>5, <1>6, <1>7, <1>8 DEF SessionNext, sessionVars

\* Whatever its callers do, a session plays the abstract match: turns in
\* strict alternation, only the mover's opponent hurt, and the right winner.
THEOREM SessionImplementsMatch == SessionSpec => ImplementsTurnGame
<1>1. SessionInit => Match!MatchInit
  BY DEF SessionInit, NewSession, Match!MatchInit, Stage, NoPlayer, Players
<1> QED
  BY <1>1, SessionSafety, StepImplements, PTL
     DEF SessionSpec, ImplementsTurnGame, Match!MatchSpec

-----------------------------------------------------------------------------
(* THE SERVER.                                                             *)

\* The inductive invariant: a good session, the types of what the seats are
\* made of, and the agreement of the two.
ServerInv == /\ GoodSession(game, log)
             /\ players \in [Players -> Clients \cup {NoClient}]
             /\ state \in [Clients -> {"new", "open", "closed"}]
             /\ slot \in [Clients -> {-1, 0, 1}]
             /\ SeatsMatchSession

\* A connection whose body is being read has a frame, and not one of a bad
\* length, at the head of what it sent.
FramesInv == /\ inbox \in [Clients -> Seq(Frames)]
             /\ reading \in [Clients -> {"idle", "header", "body"}]
             /\ \A c \in Clients : reading[c] = "body" =>
                   inbox[c] # << >> /\ Head(inbox[c]) # BadLength

-----------------------------------------------------------------------------

\* Under the invariant a seat is live exactly when it is taken, and the seat
\* offered to a new connection is a free one.
LEMMA FreeSeat ==
  ASSUME ServerInv
  PROVE  /\ \A p \in Players : Live(players, p) <=> players[p] # NoClient
         /\ FirstAvailablePlayerSlot \in {-1, 0, 1}
         /\ FirstAvailablePlayerSlot # -1 => /\ FirstAvailablePlayerSlot \in Players
                                             /\ players[FirstAvailablePlayerSlot] = NoClient
BY DEF ServerInv, SeatsMatchSession, Live, IsConnected, FirstAvailablePlayerSlot, Players

\* Turning a connection away changes neither the seats nor the session.
LEMMA TurnAwayKeeps ==
  ASSUME ServerInv, NEW c \in Clients, NEW message, state[c] = "new",
         state' = [state EXCEPT ![c] = "open"],
         TurnAway(c, FirstAvailablePlayerSlot, message)
  PROVE  ServerInv'
<1>1. \A p \in Players : players[p] # c
  BY NoClientAssumption DEF ServerInv, SeatsMatchSession
<1> QED
  BY <1>1, FreeSeat DEF ServerInv, SeatsMatchSession, TurnAway, Players

\* A seat offered in the lobby makes its player ready, and both are exactly if
\* the other seat is taken.
LEMMA SeatFacts ==
  ASSUME ServerInv, NEW c \in Clients, state[c] = "new", game.phase # "Finished",
         FirstAvailablePlayerSlot # -1
  PROVE  LET p == FirstAvailablePlayerSlot
             q == Opponent(p)
             ready == MarkPlayerReady(game, p)
         IN  /\ p \in Players /\ q \in Players /\ p # q /\ players[p] = NoClient
             /\ \A r \in Players : r = p \/ r = q
             /\ \A r \in Players : players[r] # c
             /\ game \in Session /\ game.phase = "WaitingForPlayers"
             /\ Live([players EXCEPT ![p] = c], q) <=> players[q] # NoClient
             /\ ready \in Session /\ ready.phase = "WaitingForPlayers" /\ ready.readyPlayers[p]
             /\ ready.readyPlayers[q] <=> players[q] # NoClient
             /\ ready.turnId = game.turnId /\ ready.winnerPlayerId = game.winnerPlayerId
             /\ ready.towerHp = game.towerHp
             /\ CanStart(ready) <=> players[q] # NoClient
<1> DEFINE p == FirstAvailablePlayerSlot
           q == Opponent(p)
           ready == MarkPlayerReady(game, p)
           seats == [players EXCEPT ![p] = c]
<1>1. /\ p \in Players /\ q \in Players /\ p # q /\ players[p] = NoClient
      /\ \A r \in Players : r = p \/ r = q
  BY FreeSeat DEF Opponent, Players
<1>2. \A r \in Players : players[r] # c
  BY NoClientAssumption DEF ServerInv, SeatsMatchSession
<1>3. game \in Session /\ game.phase = "WaitingForPlayers"
  BY <1>1 DEF ServerInv, SeatsMatchSession, GoodSession, Session, GamePhase
<1>4. Live(seats, q) <=> players[q] # NoClient
  BY <1>1, FreeSeat DEF ServerInv, Live
<1>5. /\ ready \in Session /\ ready.phase = "WaitingForPlayers" /\ ready.readyPlayers[p]
      /\ ready.readyPlayers[q] <=> players[q] # NoClient
      /\ ready.turnId = game.turnId /\ ready.winnerPlayerId = game.winnerPlayerId
      /\ ready.towerHp = game.towerHp
  <2>1. game.readyPlayers[q] <=> players[q] # NoClient
    BY <1>1, <1>3 DEF ServerInv, SeatsMatchSession
  <2>2. /\ ready \in Session /\ ready.phase = game.phase
        /\ ready.turnId = game.turnId /\ ready.winnerPlayerId = game.winnerPlayerId
        /\ ready.towerHp = game.towerHp
        /\ game.phase = "WaitingForPlayers" => ready.readyPlayers[p]
        /\ ready.readyPlayers[q] = game.readyPlayers[q]
    BY <1>1, <1>3, ReadyEffect
  <2> QED
    BY <1>3, <2>1, <2>2
<1>6. CanStart(ready) <=> players[q] # NoClient
  BY <1>1, <1>5 DEF CanStart
<1> QED
  BY <1>1, <1>2, <1>3, <1>4, <1>5, <1>6

\* Seating a connection either leaves it waiting alone, ready, or starts the
\* game for two.
LEMMA SeatKeeps ==
  ASSUME ServerInv, NEW c \in Clients, state[c] = "new", game.phase # "Finished",
         state' = [state EXCEPT ![c] = "open"],
         FirstAvailablePlayerSlot # -1,
         Seat(c, FirstAvailablePlayerSlot)
  PROVE  /\ ServerInv'
         /\ log' = log
         /\ [Match!MatchNext]_(Match!matchVars)
<1> DEFINE p == FirstAvailablePlayerSlot
           q == Opponent(p)
           ready == MarkPlayerReady(game, p)
           seats == [players EXCEPT ![p] = c]
<1>1. /\ p \in Players /\ q \in Players /\ p # q /\ players[p] = NoClient
      /\ \A r \in Players : r = p \/ r = q
  BY SeatFacts
<1>2. \A r \in Players : players[r] # c
  BY SeatFacts
<1>3. game \in Session /\ game.phase = "WaitingForPlayers"
  BY SeatFacts
<1>4. Live(seats, q) <=> players[q] # NoClient
  BY SeatFacts
<1>5. /\ ready \in Session /\ ready.phase = "WaitingForPlayers" /\ ready.readyPlayers[p]
      /\ ready.readyPlayers[q] <=> players[q] # NoClient
      /\ ready.turnId = game.turnId /\ ready.winnerPlayerId = game.winnerPlayerId
      /\ ready.towerHp = game.towerHp
  BY SeatFacts
<1>6. GoodSession(ready, log) /\ GoodSession(Start(ready), log)
  BY ReadyKeepsGood, StartKeepsGood DEF ServerInv
<1>7. CanStart(ready) <=> players[q] # NoClient
  BY SeatFacts
<1>8. /\ players' = seats /\ log' = log
      /\ slot' = [slot EXCEPT ![c] = p]
      /\ game' = IF players[q] # NoClient THEN Start(ready) ELSE ready
  BY <1>4 DEF Seat
<1>9. GoodSession(game', log')
  BY <1>6, <1>8
<1>10. /\ players' \in [Players -> Clients \cup {NoClient}]
       /\ state' \in [Clients -> {"new", "open", "closed"}]
       /\ slot' \in [Clients -> {-1, 0, 1}]
  BY <1>1, <1>8 DEF ServerInv, Players
<1>11. \A r \in Players : players'[r] # NoClient =>
                             state'[players'[r]] = "open" /\ slot'[players'[r]] = r
  BY <1>1, <1>2, <1>8 DEF ServerInv, SeatsMatchSession
<1>12. CASE players[q] # NoClient
  <2>1. /\ game' \in Session /\ game'.phase = "Elimination"
        /\ game'.turnId = game.turnId /\ game'.winnerPlayerId = game.winnerPlayerId
        /\ game'.towerHp = game.towerHp
    BY <1>5, <1>7, <1>8, <1>12, StartEffect
  <2>2. \A r \in Players : players'[r] # NoClient
    BY <1>1, <1>8, <1>12, NoClientAssumption DEF ServerInv
  <2>3. SeatsMatchSession'
    BY <1>11, <2>1, <2>2 DEF SeatsMatchSession
  <2>4. [Match!MatchNext]_(Match!matchVars)
    BY <1>3, <2>1, PhaseStepImplements
  <2> QED
    BY <1>8, <1>9, <1>10, <2>3, <2>4 DEF ServerInv
<1>13. CASE players[q] = NoClient
  <2>1. game' = ready
    BY <1>8, <1>13
  <2>2. players'[p] # NoClient /\ players'[q] = NoClient
    BY <1>1, <1>8, <1>13, NoClientAssumption DEF ServerInv
  <2>3. SeatsMatchSession'
    BY <1>1, <1>5, <1>11, <1>13, <2>1, <2>2 DEF SeatsMatchSession
  <2>4. [Match!MatchNext]_(Match!matchVars)
    BY <1>3, <1>5, <2>1, PhaseStepImplements
  <2> QED
    BY <1>8, <1>9, <1>10, <2>3, <2>4 DEF ServerInv
<1> QED
  BY <1>12, <1>13
\* Losing a connection frees its seat, if it had one, and then the session is
\* in the lobby with that player not ready, or over.
LEMMA DisconnectKeeps ==
  ASSUME ServerInv, NEW c \in Clients, DisconnectOnce(c)
  PROVE  /\ ServerInv'
         /\ log' = log
         /\ [Match!MatchNext]_(Match!matchVars)
<1>1. /\ state' = [state EXCEPT ![c] = "closed"] /\ players' = SeatsWithout(c)
      /\ game' = GameWithout(c) /\ UNCHANGED <<log, slot>>
  BY DEF DisconnectOnce
<1>2. game \in Session
  BY DEF ServerInv, GoodSession
<1>3. CASE Owns(c)
  <2> DEFINE p == slot[c]
  <2>1. p \in Players /\ players[p] = c /\ \A q \in Players : q # p => players[q] # c
    BY <1>3, NoClientAssumption DEF Owns, ServerInv, SeatsMatchSession
  <2>2. players' = [players EXCEPT ![p] = NoClient] /\ game' = MarkPlayerDisconnected(game, p)
    BY <1>1, <1>3 DEF SeatsWithout, GameWithout
  <2>3. /\ game' \in Session /\ ~game'.readyPlayers[p]
        /\ game'.phase = IF game.phase = "WaitingForPlayers" THEN game.phase ELSE "Finished"
        /\ \A q \in Players : q # p => game'.readyPlayers[q] = game.readyPlayers[q]
        /\ game'.turnId = game.turnId /\ game'.winnerPlayerId = game.winnerPlayerId
        /\ game'.towerHp = game.towerHp
    BY <1>2, <2>1, <2>2, DisconnectEffect
  <2>4. /\ players' \in [Players -> Clients \cup {NoClient}] /\ players'[p] = NoClient
        /\ \A q \in Players : q # p => players'[q] = players[q]
    BY <2>1, <2>2 DEF ServerInv
  <2>5. /\ state' \in [Clients -> {"new", "open", "closed"}]
        /\ \A d \in Clients : d # c => state'[d] = state[d]
    BY <1>1 DEF ServerInv
  <2>6. GoodSession(game', log')
    BY <1>1, <2>2, DisconnectKeepsGood DEF ServerInv
  <2>7. \A q \in Players : players'[q] # NoClient =>
                             state'[players'[q]] = "open" /\ slot'[players'[q]] = q
    BY <1>1, <2>1, <2>4, <2>5 DEF ServerInv, SeatsMatchSession
  <2>8. game'.phase = "WaitingForPlayers" =>
           /\ \A q \in Players : game'.readyPlayers[q] <=> players'[q] # NoClient
           /\ \E q \in Players : players'[q] = NoClient
    <3>1. SUFFICES ASSUME game.phase = "WaitingForPlayers", NEW q \in Players
                   PROVE  game'.readyPlayers[q] <=> players'[q] # NoClient
      BY <2>1, <2>3, <2>4
    <3>2. CASE q = p
      BY <2>3, <2>4, <3>2
    <3>3. CASE q # p
      <4>1. game.readyPlayers[q] <=> players[q] # NoClient
        BY <3>1 DEF ServerInv, SeatsMatchSession
      <4>2. game'.readyPlayers[q] = game.readyPlayers[q] /\ players'[q] = players[q]
        BY <2>3, <2>4, <3>3
      <4> QED
        BY <4>1, <4>2
    <3> QED
      BY <3>2, <3>3
  <2>9. game'.phase # "Elimination"
    BY <2>3
  <2>10. SeatsMatchSession'
    BY <2>7, <2>8, <2>9 DEF SeatsMatchSession
  <2>11. ServerInv'
    BY <1>1, <2>4, <2>5, <2>6, <2>10 DEF ServerInv
  <2>12. [Match!MatchNext]_(Match!matchVars)
    BY <1>2, <2>3, PhaseStepImplements
  <2> QED
    BY <1>1, <2>11, <2>12
<1>4. CASE ~Owns(c)
  <2>1. players' = players /\ game' = game
    BY <1>1, <1>4 DEF SeatsWithout, GameWithout
  <2>2. \A p \in Players : players[p] # c \/ c = NoClient
    BY <1>4 DEF Owns, ServerInv, SeatsMatchSession
  <2>3. ServerInv'
    BY <1>1, <2>1, <2>2, NoClientAssumption DEF ServerInv, SeatsMatchSession
  <2> QED
    BY <1>1, <2>1, <2>3 DEF Match!matchVars
<1> QED
  BY <1>3, <1>4

\* A message of a connection that has its seat, or of one that has lost it,
\* plays one request at most.
LEMMA ReadBodyKeeps ==
  ASSUME ServerInv, NEW c \in Clients, NEW damage \in PossibleDamage(game),
         FramesInv, ReadBody(c, damage)
  PROVE  /\ ServerInv'
         /\ [Match!MatchNext]_(Match!matchVars)
<1> DEFINE frame == Head(inbox[c])
<1>1. UNCHANGED <<players, state, slot>>
  BY DEF ReadBody
<1>2. CASE UNCHANGED <<game, log>>
  BY <1>1, <1>2 DEF ServerInv, SeatsMatchSession, Match!matchVars
<1>3. CASE frame \in Requests /\ Request(frame, damage)
  <2>1. SessionInv /\ SessionInv'
    BY <1>3, RequestKeepsGood DEF ServerInv, SessionInv
  <2>2. [Match!MatchNext]_(Match!matchVars)
    BY <1>3, <2>1, StepImplements DEF SessionNext
  <2>3. CASE ~Accepts(game, frame)
    BY <1>2, <1>3, <2>3 DEF Request, HandleEliminateRequest
  <2>4. CASE Accepts(game, frame)
    <3>1. game.phase = "Elimination" /\ game \in Session
      BY <2>4 DEF Accepts, ServerInv, GoodSession
    <3>2. game'.phase \in {"Elimination", "Finished"}
      BY <1>3, <2>4, <3>1
         DEF Request, HandleEliminateRequest, OpeningElimination, CombatElimination,
             PassTurn, Session
    <3>3. SeatsMatchSession'
      BY <1>1, <3>1, <3>2 DEF ServerInv, SeatsMatchSession
    <3> QED
      BY <1>1, <2>1, <2>2, <3>3 DEF ServerInv, SessionInv
  <2> QED
    BY <2>3, <2>4
<1>4. frame \in Frames /\ frame # BadLength
  BY DEF FramesInv, ReadBody
<1> QED
  BY <1>2, <1>3, <1>4, FramesAssumption DEF ReadBody, OnMessage, Answer
\* Stopping empties both seats, and leaves the session in the lobby with
\* nobody ready, or over.
LEMMA StopKeeps ==
  ASSUME ServerInv, Stop
  PROVE  /\ ServerInv'
         /\ log' = log
         /\ [Match!MatchNext]_(Match!matchVars)
<1> DEFINE first == IF players[0] # NoClient THEN MarkPlayerDisconnected(game, 0) ELSE game
<1>1. /\ game' = IF players[1] # NoClient THEN MarkPlayerDisconnected(first, 1) ELSE first
      /\ players' = [p \in Players |-> NoClient] /\ UNCHANGED <<log, slot>>
      /\ state' \in [Clients -> {"new", "open", "closed"}]
  BY DEF Stop, ServerInv
<1>2. GoodSession(first, log) /\ GoodSession(game', log')
  BY <1>1, DisconnectKeepsGood DEF ServerInv
<1>3. game \in Session /\ first \in Session /\ game' \in Session
  BY <1>2 DEF ServerInv, GoodSession
<1>4. /\ first.turnId = game.turnId /\ first.winnerPlayerId = game.winnerPlayerId
      /\ first.towerHp = game.towerHp
      /\ first.phase = game.phase \/ (players[0] # NoClient /\ first.phase = "Finished")
      /\ players[0] # NoClient => first.phase # "Elimination" /\ ~first.readyPlayers[0]
      /\ players[0] = NoClient => first = game
  BY <1>3, DisconnectEffect DEF Players, Session, GamePhase
<1>5. /\ game'.turnId = first.turnId /\ game'.winnerPlayerId = first.winnerPlayerId
      /\ game'.towerHp = first.towerHp
      /\ game'.phase = first.phase \/ game'.phase = "Finished"
      /\ players[1] # NoClient => game'.phase # "Elimination" /\ ~game'.readyPlayers[1]
      /\ game'.readyPlayers[0] = first.readyPlayers[0]
      /\ players[1] = NoClient => game' = first
  BY <1>1, <1>3, DisconnectEffect DEF Players, Session, GamePhase
<1>6. game'.phase # "Elimination"
  <2>1. CASE players[1] # NoClient
    BY <1>5, <2>1
  <2>2. CASE players[1] = NoClient
    <3>1. game.phase # "Elimination"
      BY <2>2 DEF ServerInv, SeatsMatchSession, Players
    <3> QED
      BY <1>4, <1>5, <2>2, <3>1
  <2> QED
    BY <2>1, <2>2
<1>7. game'.phase = "WaitingForPlayers" => \A p \in Players : ~game'.readyPlayers[p]
  <2> SUFFICES ASSUME game'.phase = "WaitingForPlayers"
               PROVE  ~game'.readyPlayers[0] /\ ~game'.readyPlayers[1]
    BY DEF Players
  <2>1. game.phase = "WaitingForPlayers"
    BY <1>4, <1>5
  <2>2. (game.readyPlayers[0] <=> players[0] # NoClient)
        /\ (game.readyPlayers[1] <=> players[1] # NoClient)
    BY <2>1 DEF ServerInv, SeatsMatchSession, Players
  <2>3. ~first.readyPlayers[0]
    BY <1>4, <2>2
  <2>4. players[1] = NoClient => ~first.readyPlayers[1]
    BY <1>3, <2>2, DisconnectEffect DEF Players
  <2> QED
    BY <1>5, <2>3, <2>4
<1>8. SeatsMatchSession'
  BY <1>1, <1>6, <1>7 DEF SeatsMatchSession, Players
<1>9. ServerInv'
  BY <1>1, <1>2, <1>8 DEF ServerInv
<1>10. [Match!MatchNext]_(Match!matchVars)
  BY <1>3, <1>4, <1>5, PhaseStepImplements
<1> QED
  BY <1>1, <1>9, <1>10

\* Every step of the server keeps the invariant, and is a step of the abstract
\* match or changes nothing of it.
LEMMA ServerStep ==
  ASSUME ServerInv, FramesInv, [Next]_vars
  PROVE  /\ ServerInv'
         /\ [Match!MatchNext]_(Match!matchVars)
<1>1. CASE UNCHANGED <<game, log, players, state, slot>>
  BY <1>1 DEF ServerInv, SeatsMatchSession, Match!matchVars
<1>2. ASSUME NEW c \in Clients, OnConnected(c)
      PROVE  ServerInv' /\ [Match!MatchNext]_(Match!matchVars)
  <2>1. state[c] = "new" /\ state' = [state EXCEPT ![c] = "open"]
    BY <1>2 DEF OnConnected
  <2>2. ASSUME NEW message, TurnAway(c, FirstAvailablePlayerSlot, message)
        PROVE  ServerInv' /\ game' = game
    BY <2>1, <2>2, TurnAwayKeeps DEF TurnAway
  <2>3. CASE /\ FirstAvailablePlayerSlot # -1 /\ game.phase # "Finished"
             /\ Seat(c, FirstAvailablePlayerSlot)
    BY <2>1, <2>3, SeatKeeps
  <2> QED
    BY <1>2, <2>2, <2>3 DEF OnConnected, Match!matchVars
<1>3. ASSUME NEW c \in Clients, DisconnectOnce(c)
      PROVE  ServerInv' /\ [Match!MatchNext]_(Match!matchVars)
  BY <1>3, DisconnectKeeps
<1>4. ASSUME NEW c \in Clients, Read(c) \/ Write(c)
      PROVE  ServerInv' /\ [Match!MatchNext]_(Match!matchVars)
  BY <1>1, <1>3, <1>4, ReadBodyKeeps
     DEF Read, Write, ReadHeader, ReadFails, WriteDone, WriteFails
<1>5. ASSUME NEW c \in Clients, PeerLeaves(c) \/ \E frame \in Frames : PeerSends(c, frame)
      PROVE  UNCHANGED <<game, log, players, state, slot>>
  BY <1>5 DEF PeerLeaves, PeerSends, connectionVars
<1>6. CASE Stop
  BY <1>6, StopKeeps
<1> QED
  BY <1>1, <1>2, <1>4, <1>5, <1>6 DEF Next, vars, connectionVars

\* Reading keeps its own invariant: a frame stays at the head until its body
\* is handled, whatever else the peer sends.
LEMMA FramesStep ==
  ASSUME FramesInv, [Next]_vars
  PROVE  FramesInv'
<1>1. CASE UNCHANGED <<inbox, reading>>
  BY <1>1 DEF FramesInv
<1>2. ASSUME NEW c \in Clients, OnConnected(c)
      PROVE  FramesInv'
  <2>1. inbox' = inbox
    BY <1>2 DEF OnConnected, peerVars
  <2>2. reading' = reading \/ reading' = [reading EXCEPT ![c] = "header"]
    BY <1>2 DEF OnConnected, TurnAway, Seat
  <2> QED
    BY <2>1, <2>2 DEF FramesInv
<1>3. ASSUME NEW c \in Clients, ReadHeader(c)
      PROVE  FramesInv'
  <2>1. inbox[c] # << >> /\ inbox[c] \in Seq(Frames)
    BY <1>3 DEF ReadHeader, FramesInv
  <2>2. CASE Head(inbox[c]) = BadLength
    <3>1. /\ inbox' = [inbox EXCEPT ![c] = Tail(inbox[c])]
          /\ reading' = [reading EXCEPT ![c] = "idle"]
      BY <1>3, <2>2 DEF ReadHeader
    <3>2. Tail(inbox[c]) \in Seq(Frames)
      BY <2>1
    <3> QED
      BY <3>1, <3>2 DEF FramesInv
  <2>3. CASE Head(inbox[c]) # BadLength
    BY <1>3, <2>1, <2>3 DEF ReadHeader, FramesInv
  <2> QED
    BY <2>2, <2>3
<1>4. ASSUME NEW c \in Clients, NEW damage \in PossibleDamage(game), ReadBody(c, damage)
      PROVE  FramesInv'
  BY <1>4 DEF FramesInv, ReadBody
<1>5. ASSUME NEW c \in Clients, DisconnectOnce(c), UNCHANGED inbox
      PROVE  FramesInv'
  BY <1>5 DEF FramesInv, DisconnectOnce
<1>6. ASSUME NEW c \in Clients, NEW frame \in Frames, PeerSends(c, frame)
      PROVE  FramesInv'
  <2>1. inbox' = [inbox EXCEPT ![c] = Append(@, frame)] /\ UNCHANGED reading
    BY <1>6 DEF PeerSends, connectionVars
  <2>2. inbox[c] # << >> => Head(Append(inbox[c], frame)) = Head(inbox[c])
    BY DEF FramesInv
  <2> QED
    BY <2>1, <2>2 DEF FramesInv
<1>7. ASSUME NEW c \in Clients, PeerLeaves(c) \/ WriteDone(c) \/ WriteFails(c) \/ ReadFails(c)
      PROVE  FramesInv'
  BY <1>1, <1>5, <1>7
     DEF PeerLeaves, WriteDone, WriteFails, ReadFails, connectionVars, peerVars
<1> QED
  BY <1>1, <1>2, <1>3, <1>4, <1>6, <1>7 DEF Next, Read, Write, Stop, vars, connectionVars, peerVars

\* The inductive invariant of the server holds in every reachable state.
THEOREM ServerSafety == Spec => [](ServerInv /\ FramesInv)
<1>1. Init => ServerInv /\ FramesInv
  BY NewSessionIsGood, NoClientAssumption
     DEF Init, SessionInit, ServerInv, FramesInv, SeatsMatchSession, NewSession, Players
<1>2. ServerInv /\ FramesInv /\ [Next]_vars => (ServerInv /\ FramesInv)'
  BY ServerStep, FramesStep
<1> QED
  BY <1>1, <1>2, PTL DEF Spec

\* In every reachable state the seats are held by the live connections that
\* know them, the waiting session's ready players are the seated ones, and a
\* game is played only with both seats taken: a start never fails.
THEOREM SeatsAgree == Spec => []SeatsMatchSession
<1>1. ServerInv => SeatsMatchSession
  BY DEF ServerInv
<1> QED
  BY <1>1, ServerSafety, PTL

\* Whatever the connections send and however they come and go, the game the
\* server carries is the abstract match.
THEOREM ServerImplementsMatch == Spec => ImplementsTurnGame
<1>1. Init => Match!MatchInit
  BY DEF Init, SessionInit, NewSession, Match!MatchInit, Stage, NoPlayer, Players
<1>2. ServerInv /\ FramesInv /\ [Next]_vars => [Match!MatchNext]_(Match!matchVars)
  BY ServerStep
<1> QED
  BY <1>1, <1>2, ServerSafety, PTL DEF Spec, ImplementsTurnGame, Match!MatchSpec

\* Once the game has started seats only empty.
LEMMA SeatsOnlyEmpty ==
  ASSUME ServerInv, [Next]_vars, game.phase # "WaitingForPlayers"
  PROVE  \A p \in Players : players'[p] \in {players[p], NoClient}
<1> DEFINE OnlyEmptied == \A p \in Players : players'[p] \in {players[p], NoClient}
<1>1. CASE UNCHANGED players
  BY <1>1
<1>2. ASSUME NEW c \in Clients, OnConnected(c)
      PROVE  UNCHANGED players
  <2>1. game.phase = "Finished" \/ game.phase = "Elimination"
    BY DEF ServerInv, GoodSession, Session, GamePhase
  <2>2. game.phase = "Elimination" => FirstAvailablePlayerSlot = -1
    BY FreeSeat DEF ServerInv, SeatsMatchSession, FirstAvailablePlayerSlot, Players
  <2> QED
    BY <1>2, <2>1, <2>2 DEF OnConnected, TurnAway
<1>3. ASSUME NEW c \in Clients, DisconnectOnce(c)
      PROVE  OnlyEmptied
  BY <1>3 DEF DisconnectOnce, SeatsWithout, ServerInv, Players
<1>4. ASSUME NEW c \in Clients, Read(c) \/ Write(c)
      PROVE  OnlyEmptied
  BY <1>1, <1>3, <1>4 DEF Read, Write, ReadHeader, ReadBody, ReadFails, WriteDone, WriteFails
<1>5. CASE Stop
  BY <1>5 DEF Stop
<1>6. ASSUME NEW c \in Clients, PeerLeaves(c) \/ \E frame \in Frames : PeerSends(c, frame)
      PROVE  UNCHANGED players
  BY <1>6 DEF PeerLeaves, PeerSends
<1> QED
  BY <1>1, <1>2, <1>4, <1>5, <1>6 DEF Next, vars

\* So nobody takes a seat then, however many connect: the players who started
\* the game are the ones who finish it, or leave.
THEOREM NobodyReplaced == Spec => NoReplacement
<1>1. ServerInv /\ [Next]_vars =>
        [game.phase # "WaitingForPlayers" =>
           \A p \in Players : players'[p] \in {players[p], NoClient}]_vars
  BY SeatsOnlyEmpty
<1> QED
  BY <1>1, ServerSafety, PTL DEF Spec, NoReplacement

\* A request that is handled after its connection closed changes nothing and
\* is told to nobody, whoever holds the seat by then.
THEOREM LateRequestsIgnored == Spec => LateRequestIgnored
<1>1. ASSUME ServerInv, [Next]_vars,
             NEW c \in Clients, ~IsConnected(c), inbox'[c] # inbox[c]
      PROVE  UNCHANGED <<game, log, players, out>>
  <2>1. ~Owns(c)
    BY <1>1, NoClientAssumption DEF Owns, IsConnected, ServerInv, SeatsMatchSession
  <2>2. PICK damage \in PossibleDamage(game) : ReadBody(c, damage)
    <3>1. ~UNCHANGED inbox
      BY <1>1
    <3>2. ~Stop
      BY <3>1 DEF Stop, peerVars
    <3>3. PICK d \in Clients : \/ OnConnected(d) \/ Read(d) \/ Write(d) \/ PeerLeaves(d)
                             \/ \E frame \in Frames : PeerSends(d, frame)
      BY <1>1, <3>1, <3>2 DEF Next, vars, peerVars
    <3>4. ~OnConnected(d) /\ ~Write(d) /\ ~PeerLeaves(d) /\ ~ReadFails(d)
      BY <3>1 DEF OnConnected, Write, WriteDone, WriteFails, PeerLeaves, ReadFails, peerVars
    <3>5. ASSUME IsConnected(d), \E g : inbox' = [inbox EXCEPT ![d] = g]
          PROVE  FALSE
      BY <1>1, <3>5
    <3>6. ~ReadHeader(d)
      BY <3>1, <3>5 DEF ReadHeader
    <3>7. ~\E frame \in Frames : PeerSends(d, frame)
      BY <3>5 DEF PeerSends
    <3>8. PICK damage \in PossibleDamage(game) : ReadBody(d, damage)
      BY <3>3, <3>4, <3>6, <3>7 DEF Read
    <3>9. d = c
      BY <1>1, <3>8 DEF ReadBody
    <3> QED
      BY <3>8, <3>9
  <2> QED
    BY <2>1, <2>2 DEF ReadBody
<1>2. ServerInv /\ [Next]_vars =>
        [\A c \in Clients : ~IsConnected(c) /\ inbox'[c] # inbox[c] =>
                              UNCHANGED <<game, log, players, out>>]_vars
  BY <1>1
<1> QED
  BY <1>2, ServerSafety, PTL DEF Spec, LateRequestIgnored

-----------------------------------------------------------------------------
(* What is sent: seats that are the receiver's own, and true news of turns.  *)

\* What a snapshot of the session up to turn t may show: its turn's own mover.
Seen(t) == {s \in [phase : GamePhase, currentPlayerId : Players, turnId : Nat \ {0},
                   winnerPlayerId : Players \cup {NoPlayer}, towerHp : [Players -> 0..TowerMaxHp],
                   openingTurnPending : BOOLEAN] :
              s.turnId <= t /\ s.currentPlayerId = MoverOf(s.turnId)}

ErrorTexts == {"RoomFull", "unable to start game", "invalid message length",
               "expected a request", "not your playerId"}

\* What may be sent to the connection in seat p up to turn t.
Sendable(p, t) ==
  {PlayerReady, OpponentDisconnected, GameEnded}
    \cup [type : {"Error"}, text : ErrorTexts]
    \cup [type : {"JoinRoom"}, playerId : {p}]
    \cup [type : {"GameStarted"}, game : Seen(t)]
    \cup [type : {"EliminateResult"}, success : BOOLEAN, game : Seen(t)]

StreamInv == /\ out = [c \in Clients |-> out[c]]
             /\ \A c \in Clients : out[c] \in Seq(Sendable(slot[c], game.turnId))
             /\ written \in [Clients -> Nat]
             /\ \A c \in Clients : written[c] <= Len(out[c])
             /\ \A c \in Clients : state[c] = "new" => written[c] = 0

LEMMA LengthNat == \A p, t : \A q \in Seq(Sendable(p, t)) : Len(q) \in Nat
OBVIOUS

\* Later turns leave what may be sent as it is, and add to it.
LEMMA SendableGrows ==
  ASSUME NEW p, NEW t \in Nat, NEW u \in Nat, t <= u
  PROVE  Seq(Sendable(p, t)) \subseteq Seq(Sendable(p, u))
<1>1. Seen(t) \subseteq Seen(u)
  BY DEF Seen
<1>2. Sendable(p, t) \subseteq Sendable(p, u)
  BY <1>1 DEF Sendable
<1> QED
  BY <1>2

\* The words without news of the game may be sent to anybody.
LEMMA WordsSendable ==
  ASSUME NEW p, NEW t
  PROVE  /\ PlayerReady \in Sendable(p, t) /\ GameEnded \in Sendable(p, t)
         /\ OpponentDisconnected \in Sendable(p, t) /\ JoinRoom(p) \in Sendable(p, t)
         /\ \A text \in ErrorTexts : Error(text) \in Sendable(p, t)
BY DEF Sendable, Error, JoinRoom

\* A good session's snapshot is true news of its turn.
LEMMA SnapshotSeen ==
  ASSUME NEW g, NEW l, GoodSession(g, l)
  PROVE  Snapshot(g) \in Seen(g.turnId)
BY DEF GoodSession, Session, Snapshot, Seen, LogMatchesTurn

\* Broadcasting what anybody may be sent keeps the streams.
LEMMA BroadcastKeeps ==
  ASSUME NEW t, NEW seats, NEW slots, NEW queues, NEW ms,
         \A c \in Clients : queues[c] \in Seq(Sendable(slots[c], t)),
         \A p : ms \in Seq(Sendable(p, t)), NEW c \in Clients
  PROVE  /\ Broadcast(queues, seats, ms)[c] \in Seq(Sendable(slots[c], t))
         /\ Len(queues[c]) <= Len(Broadcast(queues, seats, ms)[c])
<1> DEFINE S == Sendable(slots[c], t)
           q == queues[c]
<1>1. Broadcast(queues, seats, ms)[c] \in {q, q \o ms}
  BY DEF Broadcast
<1>2. q \in Seq(S) /\ ms \in Seq(S)
  OBVIOUS
<1> HIDE DEF S, q
<1>3. /\ q \o ms \in Seq(S) /\ Len(q \o ms) = Len(q) + Len(ms)
      /\ Len(q) \in Nat /\ Len(ms) \in Nat
  BY <1>2
<1>4. ASSUME NEW b, b = q \/ b = q \o ms
      PROVE  b \in Seq(S) /\ Len(q) <= Len(b)
  <2>1. CASE b = q
    BY <1>2, <1>3, <2>1
  <2>2. CASE b = q \o ms
    <3>1. Len(b) = Len(q) + Len(ms)
      BY <1>3, <2>2
    <3>2. b \in Seq(S)
      BY <1>3, <2>2
    <3> QED
      BY <1>3, <3>1, <3>2
  <2> QED
    BY <1>4, <2>1, <2>2
<1>5. /\ Broadcast(queues, seats, ms)[c] \in Seq(S)
      /\ Len(q) <= Len(Broadcast(queues, seats, ms)[c])
  BY <1>1, <1>4
<1> QED
  BY <1>5 DEF S, q

LEMMA NewsSendable ==
  ASSUME NEW t, NEW p, NEW c
  PROVE  DisconnectNews(c) \in Seq(Sendable(p, t))
<1> DEFINE S == Sendable(p, t)
<1>1. PlayerReady \in S /\ OpponentDisconnected \in S /\ GameEnded \in S
  BY DEF Sendable
<1> HIDE DEF S
<1>2. << >> \in Seq(S) /\ <<PlayerReady>> \in Seq(S) /\ <<OpponentDisconnected, GameEnded>> \in Seq(S)
  BY <1>1
<1>3. DisconnectNews(c) \in Seq(S)
  BY <1>2 DEF DisconnectNews
<1> QED
  BY <1>3 DEF S

\* Turns only go up.
LEMMA TurnGrows ==
  ASSUME ServerInv, [Next]_vars
  PROVE  game.turnId \in Nat /\ (game.turnId)' \in {game.turnId, game.turnId + 1}
<1>0. game \in Session
  BY DEF ServerInv, GoodSession
<1>1. CASE UNCHANGED game
  BY <1>0, <1>1 DEF Session
<1>2. ASSUME NEW p, game' = MarkPlayerReady(game, p) \/ game' = Start(MarkPlayerReady(game, p))
      PROVE  (game.turnId)' = game.turnId
  BY <1>0, <1>2 DEF MarkPlayerReady, Start, CanStart, Session
<1>3. ASSUME NEW g \in Session, NEW p
      PROVE  /\ MarkPlayerDisconnected(g, p) \in Session
             /\ MarkPlayerDisconnected(g, p).turnId = g.turnId
  BY <1>0 DEF MarkPlayerDisconnected, Session, GamePhase, Players
<1>4. ASSUME NEW req, NEW damage, game' = HandleEliminateRequest(game, req, damage)
      PROVE  (game.turnId)' \in {game.turnId, game.turnId + 1}
  BY <1>0, <1>4 DEF HandleEliminateRequest, OpeningElimination, CombatElimination, PassTurn, Session
<1>5. ASSUME NEW c \in Clients, OnConnected(c)
      PROVE  (game.turnId)' = game.turnId
  BY <1>1, <1>2, <1>5 DEF OnConnected, TurnAway, Seat
<1>6. ASSUME NEW c \in Clients, DisconnectOnce(c)
      PROVE  (game.turnId)' = game.turnId
  BY <1>0, <1>1, <1>3, <1>6 DEF DisconnectOnce, GameWithout
<1>7. ASSUME NEW c \in Clients, NEW damage, ReadBody(c, damage)
      PROVE  (game.turnId)' \in {game.turnId, game.turnId + 1}
  BY <1>1, <1>4, <1>7 DEF ReadBody, OnMessage, Answer, Request
<1>8. CASE Stop
  <2> DEFINE first == IF players[0] # NoClient THEN MarkPlayerDisconnected(game, 0) ELSE game
  <2>1. first \in Session /\ first.turnId = game.turnId
    BY <1>0, <1>3
  <2>2. game' = IF players[1] # NoClient THEN MarkPlayerDisconnected(first, 1) ELSE first
    BY <1>8 DEF Stop
  <2> QED
    BY <1>0, <1>3, <2>1, <2>2 DEF Session
<1> QED
  BY <1>0, <1>1, <1>5, <1>6, <1>7, <1>8
  DEF Next, Read, Write, ReadHeader, ReadFails, WriteDone, WriteFails, PeerLeaves, PeerSends,
      vars, Session

\* A step that only lengthens the queues by what may be sent, if anything, and
\* writes no more than there is, keeps the streams.
LEMMA LongerStreams ==
  ASSUME StreamInv, NEW u \in Nat, game.turnId \in Nat, game.turnId <= u, (game.turnId)' = u,
         out' = [c \in Clients |-> out'[c]], slot' = slot,
         \A c \in Clients : /\ out'[c] \in Seq(Sendable(slot[c], u))
                            /\ Len(out[c]) <= Len(out'[c])
                            /\ state'[c] = "new" => state[c] = "new" /\ written'[c] = written[c]
                            /\ \/ written'[c] = written[c]
                               \/ written'[c] = written[c] + 1 /\ written[c] < Len(out[c]),
         written' \in [Clients -> Nat]
  PROVE  StreamInv'
<1>1. ASSUME NEW c \in Clients
      PROVE  written'[c] <= Len(out'[c])
  <2>1. Len(out[c]) \in Nat /\ Len(out'[c]) \in Nat /\ written[c] \in Nat
    <3> DEFINE S == Sendable(slot[c], game.turnId)
               T == Sendable(slot[c], u)
    <3>1. out[c] \in Seq(S) /\ out'[c] \in Seq(T) /\ written[c] \in Nat
      BY DEF StreamInv
    <3> HIDE DEF S, T
    <3> QED
      BY <3>1
  <2>2. written[c] <= Len(out[c])
    BY DEF StreamInv
  <2> QED
    BY <2>1, <2>2
<1> QED
  BY <1>1 DEF StreamInv

\* One message, alone or after others, of what may be sent.
LEMMA OneMessage ==
  ASSUME NEW p, NEW t, NEW m \in Sendable(p, t)
  PROVE  /\ <<m>> \in Seq(Sendable(p, t))
         /\ \A q \in Seq(Sendable(p, t)) : /\ Append(q, m) \in Seq(Sendable(p, t))
                                           /\ Len(q) <= Len(Append(q, m))
<1> DEFINE S == Sendable(p, t)
<1>1. m \in S
  OBVIOUS
<1> HIDE DEF S
<1>2. /\ <<m>> \in Seq(S)
      /\ \A q \in Seq(S) : Append(q, m) \in Seq(S) /\ Len(q) <= Len(Append(q, m))
  BY <1>1
<1> QED
  BY <1>2 DEF S

\* A new connection is sent its seat first, or a word of farewell.
LEMMA ConnectedStream ==
  ASSUME StreamInv, ServerInv, ServerInv', NEW c \in Clients, OnConnected(c),
         game.turnId \in Nat, (game.turnId)' = game.turnId
  PROVE  StreamInv'
<1> DEFINE t == game.turnId
<1>1. \A p : /\ PlayerReady \in Sendable(p, t) /\ GameEnded \in Sendable(p, t)
             /\ JoinRoom(p) \in Sendable(p, t) /\ Error("RoomFull") \in Sendable(p, t)
             /\ Error("unable to start game") \in Sendable(p, t)
  BY WordsSendable DEF ErrorTexts
<1>2. written' = written /\ written[c] = 0 /\ state' = [state EXCEPT ![c] = "open"]
  BY DEF OnConnected, TurnAway, Seat, StreamInv
<1>3. state \in [Clients -> {"new", "open", "closed"}] /\ slot \in [Clients -> {-1, 0, 1}]
  BY DEF ServerInv
<1>4. ASSUME out' = [d \in Clients |-> out'[d]],
             \A d \in Clients : out'[d] \in Seq(Sendable(slot'[d], t)),
             \A d \in Clients \ {c} : Len(out[d]) <= Len(out'[d])
      PROVE  StreamInv'
  <2>1. ASSUME NEW d \in Clients
        PROVE  written'[d] <= Len(out'[d])
    <3>1. Len(out[d]) \in Nat /\ Len(out'[d]) \in Nat
      BY <1>4, LengthNat DEF StreamInv
    <3>2. /\ written[d] \in Nat /\ written[d] <= Len(out[d])
          /\ d # c => Len(out[d]) <= Len(out'[d])
          /\ written'[d] = written[d] /\ written[c] = 0
      BY <1>2, <1>4 DEF StreamInv
    <3> QED
      BY <3>1, <3>2
  <2>2. \A d \in Clients : state'[d] = "new" => written'[d] = 0
    BY <1>2, <1>3 DEF StreamInv
  <2> QED
    BY <1>2, <1>4, <2>1, <2>2 DEF StreamInv
<1>5. ASSUME NEW p, NEW m, TurnAway(c, p, m), m \in {Error("RoomFull"), GameEnded}
      PROVE  StreamInv'
  <2>1. <<m>> \in Seq(Sendable(p, t))
    BY <1>1, <1>5, OneMessage
  <2>2. /\ out' = [out EXCEPT ![c] = <<m>>] /\ slot' = [slot EXCEPT ![c] = p]
    BY <1>5 DEF TurnAway
  <2>3. \A d \in Clients \ {c} : out'[d] = out[d] /\ slot'[d] = slot[d]
    BY <2>2, <1>3 DEF StreamInv
  <2>4. out'[c] = <<m>> /\ slot'[c] = p /\ out' = [d \in Clients |-> out'[d]]
    BY <2>2, <1>3 DEF StreamInv
  <2>5. \A d \in Clients \ {c} : Len(out[d]) <= Len(out'[d])
    <3>1. \A d \in Clients : Len(out[d]) \in Nat
      BY LengthNat DEF StreamInv
    <3> QED
      BY <3>1, <2>3
  <2> QED
    BY <1>4, <2>1, <2>3, <2>4, <2>5 DEF StreamInv
<1>6. ASSUME NEW p \in Players, Seat(c, p)
      PROVE  StreamInv'
  <2> DEFINE seats == [players EXCEPT ![p] = c]
             ready == MarkPlayerReady(game, p)
             join == [out EXCEPT ![c] = <<JoinRoom(p)>>]
  <2>1. slot' = [slot EXCEPT ![c] = p]
    BY <1>6 DEF Seat
  <2>2. \A d \in Clients : join[d] \in Seq(Sendable(slot'[d], t))
    BY <1>1, <1>3, <2>1, OneMessage DEF StreamInv
  <2>3. join = [d \in Clients |-> join[d]] /\ \A d \in Clients \ {c} : join[d] = out[d]
    BY DEF StreamInv
  <2>4. \/ out' = [join EXCEPT ![c] = Append(@, PlayerReady)]
        \/ out' = Broadcast(join, seats, <<Error("unable to start game")>>)
        \/ game' = Start(ready) /\ out' = Broadcast(join, seats, <<GameStarted(Start(ready))>>)
    BY <1>6 DEF Seat
  <2> HIDE DEF join, seats, ready
  <2>5. CASE out' = [join EXCEPT ![c] = Append(@, PlayerReady)]
    <3>1. \A d \in Clients \ {c} : out'[d] = join[d]
      BY <2>3, <2>5
    <3>2. out'[c] = Append(join[c], PlayerReady) /\ out' = [d \in Clients |-> out'[d]]
      BY <2>3, <2>5
    <3>3. \A d \in Clients : out'[d] \in Seq(Sendable(slot'[d], t))
      <4>1. Append(join[c], PlayerReady) \in Seq(Sendable(slot'[c], t))
        BY <1>1, <2>2, OneMessage
      <4> QED
        BY <2>2, <3>1, <3>2, <4>1
    <3>4. \A d \in Clients \ {c} : Len(out[d]) <= Len(out'[d])
      BY <2>3, <3>1, <3>3, LengthNat
    <3> QED
      BY <1>4, <3>2, <3>3, <3>4
  <2>6. ASSUME NEW ms, \A q : ms \in Seq(Sendable(q, t)), out' = Broadcast(join, seats, ms)
        PROVE  StreamInv'
    <3>1. \A d \in Clients : /\ out'[d] \in Seq(Sendable(slot'[d], t))
                             /\ Len(join[d]) <= Len(out'[d])
      BY <2>2, <2>6, BroadcastKeeps
    <3>2. out' = [d \in Clients |-> out'[d]]
      BY <2>6 DEF Broadcast
    <3> QED
      BY <1>4, <2>3, <3>1, <3>2
  <2>7. \A q : <<Error("unable to start game")>> \in Seq(Sendable(q, t))
    BY <1>1, OneMessage
  <2>8. ASSUME game' = Start(ready)
        PROVE  \A q : <<GameStarted(Start(ready))>> \in Seq(Sendable(q, t))
    <3>1. Snapshot(game') \in Seen(t)
      BY SnapshotSeen DEF ServerInv
    <3>2. \A q : GameStarted(game') \in Sendable(q, t)
      BY <3>1 DEF GameStarted, Sendable
    <3> QED
      BY <2>8, <3>2, OneMessage
  <2> QED
    BY <2>4, <2>5, <2>6, <2>7, <2>8
<1> QED
  BY <1>5, <1>6, FreeSeat DEF OnConnected

\* A connection that closes tells the others.
LEMMA DisconnectStream ==
  ASSUME StreamInv, NEW c \in Clients, DisconnectOnce(c)
  PROVE  /\ out' = [d \in Clients |-> out'[d]]
         /\ \A d \in Clients : /\ out'[d] \in Seq(Sendable(slot[d], game.turnId))
                               /\ Len(out[d]) <= Len(out'[d])
<1>1. out' = Broadcast(out, SeatsWithout(c), DisconnectNews(c))
  BY DEF DisconnectOnce
<1>2. out' = [d \in Clients |-> out'[d]]
  BY <1>1 DEF Broadcast
<1>3. \A p : DisconnectNews(c) \in Seq(Sendable(p, game.turnId))
  BY NewsSendable
<1>4. \A d \in Clients : /\ out'[d] \in Seq(Sendable(slot[d], game.turnId))
                         /\ Len(out[d]) <= Len(out'[d])
  <2> DEFINE t == game.turnId
             told == Broadcast(out, SeatsWithout(c), DisconnectNews(c))
  <2>1. \A d \in Clients : out[d] \in Seq(Sendable(slot[d], t))
    BY DEF StreamInv
  <2>2. \A d \in Clients : /\ told[d] \in Seq(Sendable(slot[d], t))
                           /\ Len(out[d]) <= Len(told[d])
    BY <1>3, <2>1, BroadcastKeeps
  <2> QED
    BY <1>1, <2>2
<1> QED
  BY <1>2, <1>4

\* The answer to a request shows the turn that it has led to.
LEMMA ReadBodyStream ==
  ASSUME StreamInv, ServerInv, ServerInv', NEW c \in Clients, NEW damage, ReadBody(c, damage),
         NEW u \in Nat, game.turnId \in Nat, game.turnId <= u, (game.turnId)' = u
  PROVE  /\ out' = [d \in Clients |-> out'[d]]
         /\ \A d \in Clients : /\ out'[d] \in Seq(Sendable(slot[d], u))
                               /\ Len(out[d]) <= Len(out'[d])
<1>1. \A d \in Clients : out[d] \in Seq(Sendable(slot[d], u)) /\ Len(out[d]) <= Len(out[d])
  BY SendableGrows, LengthNat DEF StreamInv
<1>2. CASE out' = out
  BY <1>1, <1>2 DEF StreamInv
<1>3. ASSUME NEW text \in ErrorTexts, out' = [out EXCEPT ![c] = Append(@, Error(text))]
      PROVE  /\ out' = [d \in Clients |-> out'[d]]
             /\ \A d \in Clients : /\ out'[d] \in Seq(Sendable(slot[d], u))
                                   /\ Len(out[d]) <= Len(out'[d])
  <2>1. Error(text) \in Sendable(slot[c], u)
    BY WordsSendable
  <2>2. /\ Append(out[c], Error(text)) \in Seq(Sendable(slot[c], u))
        /\ Len(out[c]) <= Len(Append(out[c], Error(text)))
    BY <1>1, <2>1, OneMessage
  <2>3. out' = [d \in Clients |-> out'[d]] /\ out'[c] = Append(out[c], Error(text))
        /\ \A d \in Clients \ {c} : out'[d] = out[d]
    BY <1>3 DEF StreamInv
  <2> QED
    BY <1>1, <2>2, <2>3
<1>4. ASSUME NEW success \in BOOLEAN,
             out' = Broadcast(out, players, <<EliminateResult(success, game')>>)
      PROVE  /\ out' = [d \in Clients |-> out'[d]]
             /\ \A d \in Clients : /\ out'[d] \in Seq(Sendable(slot[d], u))
                                   /\ Len(out[d]) <= Len(out'[d])
  <2>1. Snapshot(game') \in Seen(u)
    BY SnapshotSeen DEF ServerInv
  <2>2. \A p : <<EliminateResult(success, game')>> \in Seq(Sendable(p, u))
    <3>1. \A p : EliminateResult(success, game') \in Sendable(p, u)
      BY <2>1 DEF EliminateResult, Sendable
    <3> QED
      BY <3>1, OneMessage
  <2>3. out' = [d \in Clients |-> out'[d]]
    BY <1>4 DEF Broadcast
  <2>4. \A d \in Clients : /\ out'[d] \in Seq(Sendable(slot[d], u))
                           /\ Len(out[d]) <= Len(out'[d])
    BY <1>1, <1>4, <2>2, BroadcastKeeps
  <2> QED
    BY <2>3, <2>4
<1>5. \A req : Accepts(game, req) \in BOOLEAN
  BY DEF Accepts
<1> QED
  BY <1>2, <1>3, <1>4, <1>5 DEF ReadBody, OnMessage, Answer, ErrorTexts

LEMMA StreamStep ==
  ASSUME StreamInv, ServerInv, ServerInv', [Next]_vars
  PROVE  StreamInv'
<1> DEFINE u == (game.turnId)'
           Longer == /\ out' = [d \in Clients |-> out'[d]]
                     /\ \A d \in Clients : /\ out'[d] \in Seq(Sendable(slot[d], u))
                                           /\ Len(out[d]) <= Len(out'[d])
           Writes == /\ slot' = slot
                     /\ written' \in [Clients -> Nat]
                     /\ \A d \in Clients :
                          /\ state'[d] = "new" => state[d] = "new" /\ written'[d] = written[d]
                          /\ \/ written'[d] = written[d]
                             \/ written'[d] = written[d] + 1 /\ written[d] < Len(out[d])
<1>0. game.turnId \in Nat /\ u \in Nat /\ game.turnId <= u
  BY TurnGrows
<1>1. ASSUME Longer, Writes
      PROVE  StreamInv'
  BY <1>0, <1>1, LongerStreams
<1>2. ASSUME out' = out
      PROVE  Longer
  BY <1>0, <1>2, SendableGrows, LengthNat DEF StreamInv
<1>3. ASSUME NEW c \in Clients, DisconnectOnce(c)
      PROVE  Longer
  <2>1. u = game.turnId
    <3>1. game \in Session
      BY DEF ServerInv, GoodSession
    <3> QED
      BY <1>3, <3>1 DEF DisconnectOnce, GameWithout, MarkPlayerDisconnected, Session
  <2> QED
    BY <1>3, <2>1, DisconnectStream
<1>4. ASSUME slot' = slot, written' = written,
             \A d \in Clients : state'[d] = state[d] \/ state'[d] = "closed"
      PROVE  Writes
  BY <1>4 DEF StreamInv
<1>5. state \in [Clients -> {"new", "open", "closed"}]
  BY DEF ServerInv
<1>6. CASE UNCHANGED vars
  BY <1>1, <1>2, <1>4, <1>6 DEF vars, connectionVars
<1>7. ASSUME NEW c \in Clients, OnConnected(c)
      PROVE  StreamInv'
  <2>1. u = game.turnId
    <3>1. game \in Session
      BY DEF ServerInv, GoodSession
    <3> QED
      BY <1>7, <3>1 DEF OnConnected, TurnAway, Seat, MarkPlayerReady, Start, Session
  <2> QED
    BY <1>0, <1>7, <2>1, ConnectedStream
<1>8. ASSUME NEW c \in Clients, ReadHeader(c)
      PROVE  StreamInv'
  <2>1. Writes
    BY <1>4, <1>8 DEF ReadHeader
  <2>2. u = game.turnId
    BY <1>8 DEF ReadHeader
  <2>3. ASSUME out' = [out EXCEPT ![c] = Append(@, Error("invalid message length"))]
        PROVE  Longer
    <3>1. Error("invalid message length") \in Sendable(slot[c], u)
      BY WordsSendable DEF ErrorTexts
    <3>2. \A d \in Clients : /\ out[d] \in Seq(Sendable(slot[d], u))
                             /\ Len(out[d]) <= Len(out[d])
      BY <2>2, LengthNat DEF StreamInv
    <3>3. /\ Append(out[c], Error("invalid message length")) \in Seq(Sendable(slot[c], u))
          /\ Len(out[c]) <= Len(Append(out[c], Error("invalid message length")))
      BY <3>1, <3>2, OneMessage
    <3>4. /\ out' = [d \in Clients |-> out'[d]]
          /\ out'[c] = Append(out[c], Error("invalid message length"))
          /\ \A d \in Clients \ {c} : out'[d] = out[d]
      BY <2>3 DEF StreamInv
    <3> QED
      BY <3>2, <3>3, <3>4
  <2>4. Longer
    BY <1>2, <1>8, <2>3 DEF ReadHeader
  <2> QED
    BY <1>1, <2>1, <2>4
<1>9. ASSUME NEW c \in Clients, NEW damage, ReadBody(c, damage)
      PROVE  StreamInv'
  <2>1. Writes
    BY <1>4, <1>9 DEF ReadBody
  <2>2. Longer
    BY <1>0, <1>9, ReadBodyStream
  <2> QED
    BY <1>1, <2>1, <2>2
<1>10. ASSUME NEW c \in Clients, ReadFails(c) \/ WriteFails(c)
       PROVE  StreamInv'
  <2>1. Longer
    BY <1>3, <1>10 DEF ReadFails, WriteFails
  <2>2. slot' = slot /\ written' = written /\ state' = [state EXCEPT ![c] = "closed"]
    BY <1>10 DEF ReadFails, WriteFails, DisconnectOnce
  <2>3. Writes
    BY <1>4, <1>5, <2>2
  <2> QED
    BY <1>1, <2>1, <2>3
<1>11. ASSUME NEW c \in Clients, WriteDone(c)
       PROVE  StreamInv'
  <2>1. Longer
    BY <1>2, <1>3, <1>11 DEF WriteDone
  <2>2. slot' = slot /\ written' = [written EXCEPT ![c] = @ + 1] /\ written[c] < Len(out[c])
    BY <1>11 DEF WriteDone, DisconnectOnce, Pending
  <2>3. state[c] = "open" /\ state' \in {state, [state EXCEPT ![c] = "closed"]}
    BY <1>11 DEF WriteDone, DisconnectOnce, IsConnected
  <2>4. Writes
    BY <1>5, <2>2, <2>3 DEF StreamInv
  <2> QED
    BY <1>1, <2>1, <2>4
<1>12. ASSUME NEW c \in Clients, PeerLeaves(c) \/ \E frame \in Frames : PeerSends(c, frame)
       PROVE  StreamInv'
  BY <1>1, <1>2, <1>4, <1>12 DEF PeerLeaves, PeerSends, connectionVars
<1>13. CASE Stop
  <2>1. Writes
    BY <1>4, <1>13 DEF Stop, peerVars
  <2>2. \A p : DisconnectNews(players[0]) \in Seq(Sendable(p, u))
    BY NewsSendable
  <2>3. \A d \in Clients : out[d] \in Seq(Sendable(slot[d], u))
    BY <1>0, SendableGrows DEF StreamInv
  <2>4. ASSUME out' = Broadcast(out, SeatsWithout(players[0]), DisconnectNews(players[0]))
        PROVE  Longer
    <3>1. out' = [d \in Clients |-> out'[d]]
      BY <2>4 DEF Broadcast
    <3>2. \A d \in Clients : /\ out'[d] \in Seq(Sendable(slot[d], u))
                             /\ Len(out[d]) <= Len(out'[d])
      BY <2>2, <2>3, <2>4, BroadcastKeeps
    <3> QED
      BY <3>1, <3>2
  <2> QED
    BY <1>1, <1>2, <1>13, <2>1, <2>4 DEF Stop
<1> QED
  BY <1>6, <1>7, <1>8, <1>9, <1>10, <1>11, <1>12, <1>13 DEF Next, Read, Write

\* Whatever the connections do, each is only told of the seat that is its own,
\* and of turns the match has reached with the player whose turn they are.
THEOREM StreamsTrue == Spec => []StreamInv
<1>1. Init => StreamInv
  BY DEF Init, StreamInv
<1>2. StreamInv /\ ServerInv /\ ServerInv' /\ [Next]_vars => StreamInv'
  BY StreamStep
<1> QED
  BY <1>1, <1>2, ServerSafety, PTL DEF Spec

-----------------------------------------------------------------------------
(* The order and the history of what is sent.                              *)

\* Counting the places of a stream when it grows by one.
LEMMA CountOneMore ==
  ASSUME NEW n \in Nat, NEW I \in SUBSET (1..n)
  PROVE  /\ Cardinality(I) \in Nat
         /\ Cardinality(I \cup {n + 1}) = Cardinality(I) + 1
         /\ Nth(I \cup {n + 1}, n + 1) = Cardinality(I) + 1
         /\ \A i \in I : /\ Nth(I \cup {n + 1}, i) = Nth(I, i)
                         /\ Nth(I, i) \in 1..Cardinality(I)
<1>1. IsFiniteSet(1..n)
  BY FS_Interval
<1>2. IsFiniteSet(I) /\ Cardinality(I) \in Nat
  BY <1>1, FS_Subset, FS_CardinalityType
<1>3. Cardinality(I \cup {n + 1}) = Cardinality(I) + 1
  BY <1>2, FS_AddElement
<1>4. {j \in I \cup {n + 1} : j <= n + 1} = I \cup {n + 1}
  <2>1. \A j \in I \cup {n + 1} : j <= n + 1
    OBVIOUS
  <2> QED
    BY <2>1
<1>5. ASSUME NEW i \in I
      PROVE  /\ Nth(I \cup {n + 1}, i) = Nth(I, i)
             /\ Nth(I, i) \in 1..Cardinality(I)
  <2> DEFINE J == {j \in I : j <= i}
  <2>1. {j \in I \cup {n + 1} : j <= i} = J
    OBVIOUS
  <2>2. IsFiniteSet(J) /\ Cardinality(J) \in Nat /\ Cardinality(J) <= Cardinality(I)
    BY <1>2, FS_Subset, FS_CardinalityType
  <2>3. Cardinality(J) # 0
    BY <2>2, FS_EmptySet
  <2> QED
    BY <1>2, <2>1, <2>2, <2>3 DEF Nth
<1> QED
  BY <1>2, <1>3, <1>4, <1>5 DEF Nth

\* One more message leaves the others where they are, and is the last place
\* of its kind.
LEMMA OneMore ==
  ASSUME NEW S, NEW s \in Seq(S), NEW m \in S
  PROVE  LET t == Append(s, m)
         IN  /\ Len(s) \in Nat /\ Len(t) = Len(s) + 1 /\ t[Len(s) + 1] = m
             /\ \A i \in 1..Len(s) : t[i] = s[i]
             /\ GamePlaces(t) = IF TellsGame(m) THEN GamePlaces(s) \cup {Len(s) + 1}
                                ELSE GamePlaces(s)
             /\ SuccessPlaces(t) = IF TellsSuccess(m) THEN SuccessPlaces(s) \cup {Len(s) + 1}
                                   ELSE SuccessPlaces(s)
<1> DEFINE t == Append(s, m)
<1>1. /\ Len(s) \in Nat /\ Len(t) = Len(s) + 1 /\ t[Len(s) + 1] = m
      /\ \A i \in 1..Len(s) : t[i] = s[i]
  OBVIOUS
<1>2. 1..Len(t) = 1..Len(s) \cup {Len(s) + 1}
  BY <1>1
<1> HIDE DEF t
<1>3. GamePlaces(t) = IF TellsGame(m) THEN GamePlaces(s) \cup {Len(s) + 1} ELSE GamePlaces(s)
  BY <1>1, <1>2 DEF GamePlaces
<1>4. SuccessPlaces(t) = IF TellsSuccess(m) THEN SuccessPlaces(s) \cup {Len(s) + 1}
                         ELSE SuccessPlaces(s)
  BY <1>1, <1>2 DEF SuccessPlaces
<1> QED
  BY <1>1, <1>3, <1>4 DEF t

\* A stream may begin with the seat, with a farewell, or, without a seat, with
\* the reason.
LEMMA FirstInOrder ==
  /\ \A p : InOrder(<<JoinRoom(p)>>, p) /\ InOrder(<<GameEnded>>, p) /\ InOrder(<< >>, p)
  /\ \A text : InOrder(<<Error(text)>>, -1)
<1>1. \A m : <<m>>[1] = m /\ Len(<<m>>) = 1 /\ 1..Len(<<m>>) = {1}
  OBVIOUS
<1>2. ASSUME NEW m, NEW p, p \in Players => m \in {JoinRoom(p), GameEnded},
             m.type # "OpponentDisconnected"
      PROVE  InOrder(<<m>>, p)
  BY <1>1, <1>2 DEF InOrder
<1>3. \A p : InOrder(<< >>, p)
  BY DEF InOrder
<1>4. \A p : InOrder(<<JoinRoom(p)>>, p)
  BY <1>2 DEF JoinRoom
<1>5. \A p : InOrder(<<GameEnded>>, p)
  BY <1>2 DEF GameEnded
<1>6. \A text : InOrder(<<Error(text)>>, -1)
  BY <1>2 DEF Error, Players
<1> QED
  BY <1>3, <1>4, <1>5, <1>6

\* What may come next: no second start, and neither a start nor a success after
\* the end.
LEMMA NextInOrder ==
  ASSUME NEW S, NEW s \in Seq(S), NEW m \in S, NEW p, InOrder(s, p), s # << >>,
         m.type \notin {"JoinRoom", "OpponentDisconnected"},
         m.type = "GameStarted" => \A i \in 1..Len(s) : s[i].type \notin {"GameStarted", "GameEnded"},
         TellsSuccess(m) => \A i \in 1..Len(s) : s[i].type # "GameEnded"
  PROVE  InOrder(Append(s, m), p)
<1> DEFINE t == Append(s, m)
           n == Len(s)
<1>1. /\ n \in Nat /\ n > 0 /\ Len(t) = n + 1 /\ t[n + 1] = m
      /\ \A i \in 1..n : t[i] = s[i]
      /\ t # << >>
  OBVIOUS
<1>2. t[1] = s[1]
  BY <1>1
<1> HIDE DEF t
<1>3. ASSUME NEW i \in 1..n, NEW j \in 1..n
      PROVE  /\ i < j => t[j].type # "JoinRoom"
             /\ t[i].type = "GameStarted" /\ t[j].type = "GameStarted" => i = j
             /\ i < j /\ t[i].type = "GameEnded" =>
                  /\ t[j].type \notin {"GameStarted", "OpponentDisconnected"}
                  /\ ~TellsSuccess(t[j])
             /\ t[i].type = "OpponentDisconnected" =>
                  i < n + 1 /\ t[i + 1].type = "GameEnded"
  <2>1. t[i] = s[i] /\ t[j] = s[j] /\ (i < n => t[i + 1] = s[i + 1])
    BY <1>1
  <2> QED
    BY <2>1 DEF InOrder
<1>4. ASSUME NEW i \in 1..n + 1, NEW j \in 1..n + 1, i = n + 1 \/ j = n + 1
      PROVE  /\ i < j => t[j].type # "JoinRoom"
             /\ t[i].type = "GameStarted" /\ t[j].type = "GameStarted" => i = j
             /\ i < j /\ t[i].type = "GameEnded" =>
                  /\ t[j].type \notin {"GameStarted", "OpponentDisconnected"}
                  /\ ~TellsSuccess(t[j])
  <2>1. CASE i = n + 1 /\ j = n + 1
    BY <1>1, <2>1
  <2>2. CASE i = n + 1 /\ j # n + 1
    <3>1. j \in 1..n /\ t[j] = s[j] /\ t[i] = m
      BY <1>1, <2>2
    <3> QED
      BY <2>2, <3>1
  <2>3. CASE i # n + 1 /\ j = n + 1
    <3>1. i \in 1..n /\ t[i] = s[i] /\ t[j] = m
      BY <1>1, <2>3
    <3> QED
      BY <2>3, <3>1
  <2> QED
    BY <1>4, <2>1, <2>2, <2>3
<1>5. \A i \in 1..n + 1 : i \in 1..n \/ i = n + 1
  BY <1>1
<1>6. \A i \in 1..n + 1 : t[i].type = "OpponentDisconnected" =>
                  i < n + 1 /\ t[i + 1].type = "GameEnded"
  BY <1>1, <1>3, <1>5
<1> QED
  BY <1>1, <1>2, <1>3, <1>4, <1>5, <1>6 DEF InOrder

\* The end of a game goes on that was not ended.
LEMMA EndInOrder ==
  ASSUME NEW S, NEW s \in Seq(S), OpponentDisconnected \in S, GameEnded \in S, NEW p,
         InOrder(s, p), s # << >>, \A i \in 1..Len(s) : s[i].type # "GameEnded"
  PROVE  InOrder(Append(Append(s, OpponentDisconnected), GameEnded), p)
<1> DEFINE t == Append(Append(s, OpponentDisconnected), GameEnded)
           n == Len(s)
<1>1. /\ n \in Nat /\ n > 0 /\ Len(t) = n + 2 /\ t # << >>
      /\ t[n + 1] = OpponentDisconnected /\ t[n + 2] = GameEnded
      /\ \A i \in 1..n : t[i] = s[i]
  OBVIOUS
<1>2. /\ t[1] = s[1] /\ t[n + 1].type = "OpponentDisconnected" /\ t[n + 2].type = "GameEnded"
      /\ \A i \in 1..n : t[i].type # "GameEnded"
  BY <1>1 DEF OpponentDisconnected, GameEnded
<1> HIDE DEF t
<1>3. ASSUME NEW i \in 1..n, NEW j \in 1..n
      PROVE  /\ i < j => t[j].type # "JoinRoom"
             /\ t[i].type = "GameStarted" /\ t[j].type = "GameStarted" => i = j
             /\ t[i].type = "OpponentDisconnected" =>
                  i < n + 2 /\ t[i + 1].type = "GameEnded"
  <2>1. t[i] = s[i] /\ t[j] = s[j] /\ (i < n => t[i + 1] = s[i + 1])
    BY <1>1
  <2> QED
    BY <2>1 DEF InOrder
<1>4. \A i \in 1..n + 2 : i \in 1..n \/ i = n + 1 \/ i = n + 2
  BY <1>1
<1>5. ASSUME NEW i \in 1..n + 2, NEW j \in 1..n + 2
      PROVE  /\ i < j => t[j].type # "JoinRoom"
             /\ t[i].type = "GameStarted" /\ t[j].type = "GameStarted" => i = j
             /\ i < j => t[i].type # "GameEnded"
             /\ t[i].type = "OpponentDisconnected" =>
                  i < n + 2 /\ t[i + 1].type = "GameEnded"
  <2>1. CASE i \in 1..n /\ j \in 1..n
    BY <1>2, <1>3, <2>1
  <2>2. CASE i \in 1..n /\ j \notin 1..n
    BY <1>1, <1>2, <1>3, <1>4, <2>2
  <2>3. CASE i \notin 1..n
    BY <1>1, <1>2, <1>4, <2>3
  <2> QED
    BY <2>1, <2>2, <2>3
<1> QED
  BY <1>1, <1>2, <1>5 DEF InOrder

-----------------------------------------------------------------------------
(* What a step tells.                                                      *)

\* A word to one connection that is not about the game's course.
Words == {PlayerReady} \cup [type : {"Error"}, text : ErrorTexts \ {"RoomFull"}]

\* The game ends because a player is lost.
CutShort == /\ game.phase = "Elimination"
            /\ Snapshot(game') = [Snapshot(game) EXCEPT !.phase = "Finished"]

\* A connection is made: it is turned away, or waits for an opponent.
Greeted(c) ==
  /\ state[c] = "new" /\ state'[c] = "open"
  /\ \/ out'[c] = <<Error("RoomFull")>> /\ slot'[c] = -1 /\ ~Seated(c)'
     \/ out'[c] = <<GameEnded>> /\ ~Seated(c)' /\ game'.phase = "Finished"
     \/ /\ out'[c] = Append(<<JoinRoom(slot'[c])>>, PlayerReady)
        /\ game.phase = "WaitingForPlayers"

\* The opponent is gone, in the lobby or in the game.
Bereaved(c) ==
  \/ ~CutShort /\ out'[c] = Append(out[c], PlayerReady)
  \/ /\ CutShort
     /\ out'[c] = Append(Append(out[c], OpponentDisconnected), GameEnded)

\* Nobody is told of the game's course: the session stays as it is or ends.  A
\* complaint is the answer to a frame.
QuietStep ==
  /\ log' = log
  /\ Snapshot(game') = Snapshot(game) \/ CutShort
  /\ \A c \in Clients :
       \/ Greeted(c)
       \/ /\ state[c] = "new" <=> state'[c] = "new"
          /\ slot'[c] = slot[c]
          /\ Seated(c)' => Seated(c)
          /\ \/ out'[c] = out[c] /\ (CutShort => ~Seated(c)')
             \/ /\ state[c] # "new" /\ ~CutShort
                /\ \E m \in Words : /\ out'[c] = Append(out[c], m)
                                    /\ m = PlayerReady \/ inbox' # inbox
             \/ state[c] # "new" /\ Bereaved(c)

\* The game starts for the two that are seated then.
StartStep ==
  /\ log' = log
  /\ game.phase = "WaitingForPlayers"
  /\ Snapshot(game') = [Snapshot(game) EXCEPT !.phase = "Elimination"]
  /\ \A c \in Clients :
       \/ /\ state[c] = "new" /\ state'[c] = "open" /\ Seated(c)'
          /\ out'[c] = Append(<<JoinRoom(slot'[c])>>, GameStarted(game'))
       \/ /\ state'[c] = state[c] /\ slot'[c] = slot[c] /\ Seated(c)' = Seated(c)
          /\ out'[c] = IF Seated(c) THEN Append(out[c], GameStarted(game')) ELSE out[c]

\* What an accepted request makes of a session: nobody's tower heals, and the
\* turn passes or the game is over.
Passes(g, h) ==
  /\ g.turnId <= h.turnId
  /\ \A p \in Players : h.towerHp[p] <= g.towerHp[p]
  /\ \/ h.phase = "Elimination" /\ h.turnId = g.turnId + 1
     \/ h.phase = "Finished"

\* A request is answered.
AnswerStep ==
  /\ UNCHANGED <<players, state, slot>> /\ inbox' # inbox
  /\ \E success \in BOOLEAN :
       /\ success => /\ game.phase = "Elimination" /\ Len(log') = Len(log) + 1
                     /\ Passes(game, game')
       /\ ~success => game' = game /\ log' = log
       /\ \A c \in Clients :
            out'[c] = IF Seated(c) THEN Append(out[c], EliminateResult(success, game'))
                      ELSE out[c]

\* Every connection that is seated is told, and only those.
LEMMA BroadcastTells ==
  ASSUME NEW queues, NEW seats, NEW c \in Clients, NEW S, queues[c] \in Seq(S)
  PROVE  /\ ~(\E p \in Players : seats[p] = c) =>
              \A ms : Broadcast(queues, seats, ms)[c] = queues[c]
         /\ (\E p \in Players : seats[p] = c) =>
              /\ \A m : Broadcast(queues, seats, <<m>>)[c] = Append(queues[c], m)
              /\ \A m, n : Broadcast(queues, seats, <<m, n>>)[c] = Append(Append(queues[c], m), n)
         /\ Broadcast(queues, seats, << >>)[c] = queues[c]
<1> DEFINE q == queues[c]
<1>1. q \in Seq(S)
  OBVIOUS
<1> HIDE DEF q
<1>2. ASSUME NEW m, NEW n
      PROVE  q \o <<m>> = Append(q, m) /\ q \o <<m, n>> = Append(Append(q, m), n)
  <2>1. q \in Seq(S \cup {m, n}) /\ m \in S \cup {m, n} /\ n \in S \cup {m, n}
    BY <1>1
  <2> QED
    BY <2>1
<1>3. q \o << >> = q
  BY <1>1
<1> QED
  BY <1>2, <1>3 DEF Broadcast, q

\* The streams are sequences of some messages.
Message == UNION {Sendable(slot[c], game.turnId) : c \in Clients}

LEMMA StreamsTyped ==
  ASSUME StreamInv
  PROVE  \A c \in Clients : out[c] \in Seq(Message)
<1>1. ASSUME NEW c \in Clients
      PROVE  out[c] \in Seq(Message)
  <2> DEFINE S == Sendable(slot[c], game.turnId)
  <2>1. S \subseteq Message
    BY DEF Message
  <2>2. out[c] \in Seq(S)
    BY DEF StreamInv
  <2> HIDE DEF S
  <2> QED
    BY <2>1, <2>2
<1> QED
  BY <1>1

LEMMA OutTells ==
  ASSUME StreamInv, NEW seats, NEW d \in Clients, NEW seated, seated <=> \E p \in Players : seats[p] = d
  PROVE  /\ ~seated => \A ms : Broadcast(out, seats, ms)[d] = out[d]
         /\ seated =>
              /\ \A m : Broadcast(out, seats, <<m>>)[d] = Append(out[d], m)
              /\ \A m, n : Broadcast(out, seats, <<m, n>>)[d] = Append(Append(out[d], m), n)
         /\ Broadcast(out, seats, << >>)[d] = out[d]
<1>1. out[d] \in Seq(Message)
  BY StreamsTyped
<1>2. /\ ~(\E p \in Players : seats[p] = d) =>
              \A ms : Broadcast(out, seats, ms)[d] = out[d]
      /\ (\E p \in Players : seats[p] = d) =>
               /\ \A m : Broadcast(out, seats, <<m>>)[d] = Append(out[d], m)
               /\ \A m, n : Broadcast(out, seats, <<m, n>>)[d] = Append(Append(out[d], m), n)
      /\ Broadcast(out, seats, << >>)[d] = out[d]
  BY <1>1, BroadcastTells
<1> QED
  BY <1>2

\* What the calls of the server do to the session's snapshot.
LEMMA SnapshotPhase ==
  \A g \in Session :
    /\ Snapshot(g).phase = g.phase
    /\ g.phase = "Finished" => [Snapshot(g) EXCEPT !.phase = "Finished"] = Snapshot(g)
BY DEF Snapshot

LEMMA ReadySnapshot ==
  \A g \in Session, p \in Players : Snapshot(MarkPlayerReady(g, p)) = Snapshot(g)
BY DEF Snapshot, MarkPlayerReady, Session

LEMMA DisconnectSnapshot ==
  \A g \in Session, p \in Players :
    Snapshot(MarkPlayerDisconnected(g, p)) =
      IF g.phase = "WaitingForPlayers" THEN Snapshot(g)
      ELSE [Snapshot(g) EXCEPT !.phase = "Finished"]
BY DEF Snapshot, MarkPlayerDisconnected, Session

LEMMA StartSnapshot ==
  ASSUME NEW g \in Session, CanStart(g), g.openingTurnPending
  PROVE  Snapshot(Start(g)) = [Snapshot(g) EXCEPT !.phase = "Elimination"]
<1>1. Start(g) = [g EXCEPT !.openingTurnPending = TRUE, !.phase = "Elimination"]
  BY DEF Start
<1>2. g.openingTurnPending = TRUE
  BY DEF Session
<1>3. Start(g) = [g EXCEPT !.phase = "Elimination"]
  BY <1>1, <1>2 DEF Session
<1>4. ASSUME NEW h \in Session
      PROVE  Snapshot([h EXCEPT !.phase = "Elimination"]) = [Snapshot(h) EXCEPT !.phase = "Elimination"]
  BY DEF Snapshot, Session
<1> QED
  BY <1>3, <1>4

\* Losing a connection tells the other player, if the game was not over.
LEMMA DisconnectTells ==
  ASSUME ServerInv, StreamInv, NEW c \in Clients, DisconnectOnce(c), state[c] # "new"
  PROVE  QuietStep
<1>1. /\ out' = Broadcast(out, SeatsWithout(c), DisconnectNews(c)) /\ log' = log /\ slot' = slot
      /\ state' = [state EXCEPT ![c] = "closed"] /\ players' = SeatsWithout(c)
      /\ game' = GameWithout(c)
  BY DEF DisconnectOnce
<1>2. game \in Session
  BY DEF ServerInv, GoodSession
<1>3. Owns(c) => slot[c] \in Players
  BY DEF Owns
<1>4. /\ CutShort <=> Owns(c) /\ game.phase = "Elimination"
      /\ Snapshot(game') = Snapshot(game) \/ CutShort
  <2>1. game.phase \in {"WaitingForPlayers", "Elimination", "Finished"}
    BY <1>2 DEF Session, GamePhase
  <2>2. CASE Owns(c)
    <3>1. Snapshot(game') = IF game.phase = "WaitingForPlayers" THEN Snapshot(game)
                            ELSE [Snapshot(game) EXCEPT !.phase = "Finished"]
      BY <1>1, <1>2, <1>3, <2>2, DisconnectSnapshot DEF GameWithout
    <3>2. game.phase = "Finished" => [Snapshot(game) EXCEPT !.phase = "Finished"] = Snapshot(game)
      BY <1>2, SnapshotPhase
    <3> QED
      BY <2>1, <2>2, <3>1, <3>2 DEF CutShort
  <2>3. CASE ~Owns(c)
    <3>1. game' = game
      BY <1>1, <2>3 DEF GameWithout
    <3>2. ~CutShort
      BY <2>3, <3>1 DEF CutShort, Snapshot
    <3> QED
      BY <2>3, <3>1, <3>2
  <2> QED
    BY <2>2, <2>3
<1>5. ASSUME NEW d \in Clients
      PROVE  /\ state[d] = "new" <=> state'[d] = "new"
             /\ Seated(d)' => Seated(d)
             /\ Seated(d) => state[d] # "new"
  <2>1. \A p \in Players : players'[p] \in {players[p], NoClient}
    BY <1>1 DEF SeatsWithout, ServerInv, Players
  <2>2. d # NoClient
    BY NoClientAssumption
  <2> QED
    BY <1>1, <2>1, <2>2 DEF Seated, ServerInv, SeatsMatchSession
<1>6. ASSUME NEW d \in Clients
      PROVE  \/ out'[d] = out[d] /\ (CutShort => ~Seated(d)')
             \/ Seated(d)' /\ Bereaved(d)
  <2> DEFINE seats == SeatsWithout(c)
             told(ms) == Broadcast(out, seats, ms)[d]
  <2>1. Seated(d)' <=> \E p \in Players : seats[p] = d
    BY <1>1 DEF Seated
  <2>3. /\ ~Seated(d)' => \A ms : told(ms) = out[d]
        /\ Seated(d)' => /\ \A m : told(<<m>>) = Append(out[d], m)
                         /\ \A m, n : told(<<m, n>>) = Append(Append(out[d], m), n)
        /\ told(<< >>) = out[d]
    <3> HIDE DEF seats
    <3> QED
      BY <2>1, OutTells
  <2>4. out'[d] = told(DisconnectNews(c))
    BY <1>1
  <2> HIDE DEF told
  <2>5. CASE ~Seated(d)' \/ (DisconnectNews(c) = << >> /\ ~CutShort)
    BY <2>3, <2>4, <2>5
  <2>6. CASE Seated(d)' /\ Owns(c) /\ game.phase = "WaitingForPlayers"
    BY <1>4, <2>3, <2>4, <2>6 DEF DisconnectNews, Bereaved
  <2>7. CASE Seated(d)' /\ Owns(c) /\ game.phase = "Elimination"
    BY <1>4, <2>3, <2>4, <2>7 DEF DisconnectNews, Bereaved
  <2>8. game.phase \in {"WaitingForPlayers", "Elimination", "Finished"}
    BY <1>2 DEF Session, GamePhase
  <2> QED
    BY <1>4, <2>5, <2>6, <2>7, <2>8 DEF DisconnectNews
<1> QED
  BY <1>1, <1>4, <1>5, <1>6 DEF QuietStep

\* A new connection is greeted, or begins the game for both.
LEMMA ConnectTells ==
  ASSUME ServerInv, ServerInv', StreamInv, NEW c \in Clients, OnConnected(c),
         out[c] = << >>
  PROVE  QuietStep \/ StartStep
<1> DEFINE p == FirstAvailablePlayerSlot
<1>1. /\ state[c] = "new" /\ state' = [state EXCEPT ![c] = "open"]
      /\ state \in [Clients -> {"new", "open", "closed"}] /\ slot \in [Clients -> {-1, 0, 1}]
      /\ out = [d \in Clients |-> out[d]]
  BY DEF OnConnected, ServerInv, StreamInv
<1>2. ~Seated(c)
  BY <1>1, NoClientAssumption DEF Seated, ServerInv, SeatsMatchSession
<1>3. ASSUME Greeted(c), UNCHANGED <<game, log, players>>,
             \A d \in Clients : d # c => out'[d] = out[d] /\ slot'[d] = slot[d]
      PROVE  QuietStep
  <2>1. \A d \in Clients : d # c => state'[d] = state[d]
    BY <1>1
  <2>2. Snapshot(game') = Snapshot(game) /\ ~CutShort
    BY <1>3 DEF CutShort, Snapshot
  <2> QED
    BY <1>3, <2>1, <2>2 DEF QuietStep, Seated
<1>4. ASSUME p # -1, game.phase # "Finished", Seat(c, p)
      PROVE  QuietStep \/ StartStep
  <2> DEFINE q == Opponent(p)
             ready == MarkPlayerReady(game, p)
             seats == [players EXCEPT ![p] = c]
             join == [out EXCEPT ![c] = <<JoinRoom(p)>>]
             both == players[q] # NoClient
  <2>1. /\ p \in Players /\ q \in Players /\ p # q /\ players[p] = NoClient
        /\ \A r \in Players : r = p \/ r = q
        /\ \A r \in Players : players[r] # c
        /\ game.phase = "WaitingForPlayers"
        /\ Live(seats, q) <=> both
        /\ game \in Session /\ ready \in Session /\ ready.phase = "WaitingForPlayers"
        /\ CanStart(ready) <=> both
    BY <1>1, <1>4, SeatFacts
  <2>2. /\ players' = seats /\ log' = log /\ slot' = [slot EXCEPT ![c] = p]
        /\ game' = IF both THEN Start(ready) ELSE ready
        /\ out' = IF ~both THEN [join EXCEPT ![c] = Append(@, PlayerReady)]
                  ELSE Broadcast(join, seats, <<GameStarted(Start(ready))>>)
    BY <1>4, <2>1 DEF Seat
  <2>3. Seated(c)' /\ \A d \in Clients : d # c => Seated(d)' = Seated(d)
    BY <2>1, <2>2, NoClientAssumption DEF Seated, ServerInv
  <2>4. \A d \in Clients : d # c => /\ join[d] = out[d] /\ slot'[d] = slot[d]
                                    /\ state'[d] = state[d]
    BY <1>1, <2>2
  <2>5. join[c] = <<JoinRoom(p)>> /\ slot'[c] = p /\ state'[c] = "open" /\ join = [d \in Clients |-> join[d]]
    BY <1>1, <2>2
  <2>6. CASE ~both
    <3>1. /\ out'[c] = Append(<<JoinRoom(p)>>, PlayerReady)
          /\ \A d \in Clients : d # c => out'[d] = out[d]
      <4> HIDE DEF join
      <4> QED
        BY <2>2, <2>4, <2>5, <2>6
    <3>2. Greeted(c)
      BY <1>1, <2>1, <2>5, <3>1 DEF Greeted
    <3>3. Snapshot(game') = Snapshot(game) /\ ~CutShort
      BY <2>1, <2>2, <2>6, ReadySnapshot DEF CutShort
    <3> QED
      BY <2>1, <2>2, <2>3, <2>4, <2>6, <3>1, <3>2, <3>3 DEF QuietStep
  <2>7. CASE both
    <3>1. game' = Start(ready) /\ Snapshot(game') = [Snapshot(game) EXCEPT !.phase = "Elimination"]
      <4>1. game.openingTurnPending
        BY <2>1 DEF ServerInv, GoodSession, PeacefulOpening
      <4>2. ready.openingTurnPending
        BY <2>1, <4>1 DEF MarkPlayerReady, Session
      <4>3. Snapshot(ready) = Snapshot(game)
        BY <2>1, ReadySnapshot
      <4>4. game' = Start(ready)
        BY <2>2, <2>7
      <4> QED
        BY <2>1, <2>7, <4>2, <4>3, <4>4, StartSnapshot
    <3> DEFINE m == GameStarted(game')
    <3>2. out' = Broadcast(join, seats, <<m>>)
      BY <2>2, <2>7, <3>1
    <3>3. ASSUME NEW d \in Clients
          PROVE  out'[d] = IF Seated(d)' THEN Append(join[d], m) ELSE join[d]
      <4> DEFINE T == Message \cup {JoinRoom(p)}
      <4>1. join[d] \in Seq(T)
        <5>1. out[d] \in Seq(Message) /\ Message \subseteq T /\ JoinRoom(p) \in T
          BY StreamsTyped
        <5>2. (d # c => join[d] = out[d]) /\ (d = c => join[d] = <<JoinRoom(p)>>)
          BY <2>4, <2>5
        <5> HIDE DEF T, join
        <5>3. out[d] \in Seq(T) /\ <<JoinRoom(p)>> \in Seq(T)
          BY <5>1
        <5> QED
          BY <5>2, <5>3
      <4>2. Seated(d)' <=> \E r \in Players : seats[r] = d
        BY <2>2 DEF Seated
      <4> HIDE DEF join, seats, T
      <4>3. /\ ~(\E r \in Players : seats[r] = d) =>
                 \A ms : Broadcast(join, seats, ms)[d] = join[d]
            /\ (\E r \in Players : seats[r] = d) =>
                 /\ \A n : Broadcast(join, seats, <<n>>)[d] = Append(join[d], n)
                 /\ \A n, o : Broadcast(join, seats, <<n, o>>)[d] = Append(Append(join[d], n), o)
            /\ Broadcast(join, seats, << >>)[d] = join[d]
        BY <4>1, BroadcastTells
      <4> QED
        BY <3>2, <4>2, <4>3
    <3> HIDE DEF m, join
    <3>4. out'[c] = Append(<<JoinRoom(slot'[c])>>, m)
      BY <2>3, <2>5, <3>3
    <3>5. \A d \in Clients : d # c => out'[d] = IF Seated(d) THEN Append(out[d], m) ELSE out[d]
      BY <2>3, <2>4, <3>3
    <3> QED
      BY <1>1, <2>1, <2>2, <2>3, <2>4, <2>5, <3>1, <3>4, <3>5 DEF StartStep, m
  <2> QED
    BY <2>6, <2>7
<1>5. CASE p = -1 /\ TurnAway(c, p, Error("RoomFull"))
  <2>1. /\ out' = [out EXCEPT ![c] = <<Error("RoomFull")>>] /\ slot' = [slot EXCEPT ![c] = -1]
        /\ UNCHANGED <<game, log, players>>
    BY <1>5 DEF TurnAway
  <2>2. Greeted(c)
    BY <1>1, <1>2, <2>1 DEF Greeted, Seated
  <2> QED
    BY <1>1, <1>3, <2>1, <2>2
<1>6. CASE p # -1 /\ game.phase = "Finished" /\ TurnAway(c, p, GameEnded)
  <2>1. /\ out' = [out EXCEPT ![c] = <<GameEnded>>] /\ slot' = [slot EXCEPT ![c] = p]
        /\ UNCHANGED <<game, log, players>>
    BY <1>6 DEF TurnAway
  <2>2. Greeted(c)
    BY <1>1, <1>2, <1>6, <2>1 DEF Greeted, Seated
  <2> QED
    BY <1>1, <1>3, <2>1, <2>2
<1>7. CASE p # -1 /\ game.phase # "Finished" /\ Seat(c, p)
  BY <1>4, <1>7
<1> QED
  BY <1>5, <1>6, <1>7 DEF OnConnected

\* What is said to one connection, or to nobody, is not about the game's course.
LEMMA WordTells ==
  ASSUME StreamInv, UNCHANGED <<game, log, players, state, slot>>, NEW c \in Clients,
         \/ out' = out
         \/ /\ state[c] # "new" /\ inbox' # inbox
            /\ \E text \in ErrorTexts \ {"RoomFull"} :
                 out' = [out EXCEPT ![c] = Append(@, Error(text))]
  PROVE  QuietStep
<1>0. Snapshot(game') = Snapshot(game) /\ ~CutShort
  BY DEF CutShort, Snapshot
<1>1. \A text \in ErrorTexts \ {"RoomFull"} : Error(text) \in Words
  BY DEF Words, Error
<1>2. ASSUME NEW d \in Clients
      PROVE  \/ out'[d] = out[d]
             \/ /\ state[d] # "new"
                /\ \E m \in Words : out'[d] = Append(out[d], m) /\ inbox' # inbox
  BY <1>1 DEF StreamInv
<1> QED
  BY <1>0, <1>2 DEF QuietStep, Seated

\* An accepted request moves the match on.
LEMMA AcceptedPasses ==
  ASSUME NEW g \in Session, NEW req, Accepts(g, req), NEW damage \in PossibleDamage(g)
  PROVE  Passes(g, HandleEliminateRequest(g, req, damage))
<1> DEFINE defender == Opponent(g.currentPlayerId)
           h == HandleEliminateRequest(g, req, damage)
<1>1. /\ defender \in Players /\ g.towerHp[defender] \in Nat /\ damage \in Nat
      /\ damage <= g.towerHp[defender] /\ g.turnId \in Nat
      /\ \A p \in Players : g.towerHp[p] \in Nat
  BY TowerAssumption DEF Session, Opponent, Players, PossibleDamage
<1>2. CASE g.openingTurnPending
  <2>1. h.turnId = g.turnId + 1 /\ h.phase = "Elimination" /\ h.towerHp = g.towerHp
    BY <1>2 DEF HandleEliminateRequest, OpeningElimination, PassTurn, Session
  <2> QED
    BY <1>1, <2>1 DEF Passes
<1>3. CASE ~g.openingTurnPending
  <2>1. h = CombatElimination(g, damage)
    BY <1>3 DEF HandleEliminateRequest
  <2>2. /\ \/ h.turnId = g.turnId + 1 /\ h.phase = "Elimination"
           \/ h.turnId = g.turnId /\ h.phase = "Finished"
        /\ h.towerHp = [g.towerHp EXCEPT ![defender] = @ - damage]
    BY <2>1 DEF CombatElimination, PassTurn, Session
  <2>3. \A p \in Players : h.towerHp[p] <= g.towerHp[p]
    BY <1>1, <2>2 DEF Session
  <2> QED
    BY <1>1, <2>2, <2>3 DEF Passes
<1> QED
  BY <1>2, <1>3

\* To take a frame changes what the peer has sent.
LEMMA FrameTaken ==
  ASSUME FramesInv, NEW c \in Clients, inbox[c] # << >>,
         inbox' = [inbox EXCEPT ![c] = Tail(@)]
  PROVE  inbox' # inbox
<1> DEFINE q == inbox[c]
<1>1. q \in Seq(Frames) /\ q # << >> /\ inbox'[c] = Tail(q)
  BY DEF FramesInv
<1> HIDE DEF q
<1>2. Len(Tail(q)) = Len(q) - 1 /\ Len(q) \in Nat
  BY <1>1
<1>3. Tail(q) # q
  BY <1>2
<1> QED
  BY <1>1, <1>3 DEF q

\* A request is accepted or refused, and every player is told which.
LEMMA AnswerTells ==
  ASSUME ServerInv, StreamInv, NEW c \in Clients, NEW frame \in Requests,
         NEW damage \in PossibleDamage(game), Answer(c, frame, damage)
  PROVE  LET success == Accepts(game, frame)
         IN  /\ success => /\ game.phase = "Elimination" /\ Len(log') = Len(log) + 1
                           /\ Passes(game, game')
             /\ ~success => game' = game /\ log' = log
             /\ \A d \in Clients :
                  out'[d] = IF Seated(d) THEN Append(out[d], EliminateResult(success, game'))
                            ELSE out[d]
<1> DEFINE success == Accepts(game, frame)
           m == EliminateResult(success, game')
<1>1. success \in BOOLEAN
  BY DEF Accepts
<1>2. ~success => game' = game /\ log' = log
  BY DEF Answer, Request, HandleEliminateRequest
<1>3. success => /\ game.phase = "Elimination" /\ Len(log') = Len(log) + 1
                 /\ Passes(game, game')
  <2> SUFFICES ASSUME success
               PROVE  /\ game.phase = "Elimination" /\ Len(log') = Len(log) + 1
                      /\ Passes(game, game')
    OBVIOUS
  <2>1. game \in Session /\ game.phase = "Elimination" /\ log \in Seq([playerId : Players, turnId : Nat \ {0}])
    BY DEF ServerInv, GoodSession, Accepts
  <2>2. Passes(game, game')
    <3>1. game' = HandleEliminateRequest(game, frame, damage)
      BY DEF Answer, Request
    <3> QED
      BY <2>1, <3>1, AcceptedPasses
  <2>3. Len(log') = Len(log) + 1
    BY <2>1 DEF Answer, Request
  <2> QED
    BY <2>1, <2>2, <2>3
<1>4. out' = Broadcast(out, players, <<m>>)
  BY DEF Answer
<1> HIDE DEF success, m
<1>5. ASSUME NEW d \in Clients
      PROVE  out'[d] = IF Seated(d) THEN Append(out[d], m) ELSE out[d]
  <2>1. Seated(d) <=> \E p \in Players : players[p] = d
    BY DEF Seated
  <2>2. /\ ~Seated(d) => \A ms : Broadcast(out, players, ms)[d] = out[d]
        /\ Seated(d) =>
             /\ \A n : Broadcast(out, players, <<n>>)[d] = Append(out[d], n)
             /\ \A n, o : Broadcast(out, players, <<n, o>>)[d] = Append(Append(out[d], n), o)
        /\ Broadcast(out, players, << >>)[d] = out[d]
    BY <2>1, OutTells
  <2> QED
    BY <1>4, <2>2
<1>6. \A d \in Clients : out'[d] = IF Seated(d) THEN Append(out[d], EliminateResult(success, game'))
                                   ELSE out[d]
  BY <1>5 DEF m
<1> QED
  BY <1>2, <1>3, <1>6 DEF success

\* A request is answered to both, if it is one.
LEMMA BodyTells ==
  ASSUME ServerInv, StreamInv, FramesInv, NEW c \in Clients,
         NEW damage \in PossibleDamage(game), ReadBody(c, damage)
  PROVE  QuietStep \/ AnswerStep
<1> DEFINE frame == Head(inbox[c])
<1>1. UNCHANGED <<players, state, slot>>
  BY DEF ReadBody
<1>2. Owns(c) => state[c] # "new"
  BY NoClientAssumption DEF Owns, ServerInv, SeatsMatchSession
<1>3. frame \in Frames /\ frame # BadLength
  BY DEF FramesInv, ReadBody
<1>8. inbox' # inbox
  BY FrameTaken DEF FramesInv, ReadBody
<1>4. ASSUME frame \in Requests, Answer(c, frame, damage)
      PROVE  AnswerStep
  <2> DEFINE success == Accepts(game, frame)
  <2>1. success \in BOOLEAN
    BY DEF Accepts
  <2>2. /\ success => /\ game.phase = "Elimination" /\ Len(log') = Len(log) + 1
                      /\ Passes(game, game')
        /\ ~success => game' = game /\ log' = log
        /\ \A d \in Clients :
             out'[d] = IF Seated(d) THEN Append(out[d], EliminateResult(success, game'))
                       ELSE out[d]
    BY <1>4, AnswerTells
  <2> HIDE DEF success
  <2> QED
    BY <1>1, <1>8, <2>1, <2>2 DEF AnswerStep
<1>5. ASSUME NEW text \in ErrorTexts \ {"RoomFull"}, UNCHANGED <<game, log>>, Owns(c),
             out' = [out EXCEPT ![c] = Append(@, Error(text))]
      PROVE  QuietStep
  BY <1>1, <1>2, <1>5, <1>8, WordTells
<1>6. CASE ~Owns(c)
  BY <1>1, <1>6, WordTells DEF ReadBody
<1>7. CASE Owns(c)
  <2>1. OnMessage(c, frame, damage)
    BY <1>7 DEF ReadBody
  <2> QED
    BY <1>3, <1>4, <1>5, <1>7, <2>1, FramesAssumption DEF OnMessage, ErrorTexts
<1> QED
  BY <1>6, <1>7

\* Stopping tells who is left what losing the other one means.
LEMMA StopTells ==
  ASSUME ServerInv, StreamInv, Stop
  PROVE  QuietStep
<1> DEFINE first == IF players[0] # NoClient THEN MarkPlayerDisconnected(game, 0) ELSE game
           a == players[0]
<1>1. /\ game' = IF players[1] # NoClient THEN MarkPlayerDisconnected(first, 1) ELSE first
      /\ players' = [p \in Players |-> NoClient] /\ log' = log /\ slot' = slot
      /\ state' = [c \in Clients |-> IF \E p \in Players : players[p] = c THEN "closed" ELSE state[c]]
      /\ out' = IF a = NoClient THEN out
                 ELSE Broadcast(out, SeatsWithout(a), DisconnectNews(a))
  BY DEF Stop
<1>2. game \in Session /\ first \in Session
  BY DisconnectKeepsGood DEF ServerInv, GoodSession
<1>3. game.phase \in {"WaitingForPlayers", "Elimination", "Finished"}
  BY <1>2 DEF Session, GamePhase
<1>4. /\ CutShort => a # NoClient
      /\ game.phase = "Elimination" => CutShort
      /\ Snapshot(game') = Snapshot(game) \/ CutShort
  <2>1. game.phase = "Elimination" => a # NoClient
    BY DEF ServerInv, SeatsMatchSession, Players
  <2>2. Snapshot(first) = IF a = NoClient \/ game.phase = "WaitingForPlayers" THEN Snapshot(game)
                          ELSE [Snapshot(game) EXCEPT !.phase = "Finished"]
    BY <1>2, DisconnectSnapshot DEF Players
  <2>3. Snapshot(game') = IF players[1] = NoClient \/ first.phase = "WaitingForPlayers"
                          THEN Snapshot(first)
                          ELSE [Snapshot(first) EXCEPT !.phase = "Finished"]
    <3> HIDE DEF first
    <3> QED
      BY <1>1, <1>2, DisconnectSnapshot DEF Players
  <2> HIDE DEF first
  <2>4. /\ Snapshot(game).phase = game.phase /\ Snapshot(first).phase = first.phase
        /\ game.phase = "Finished" => [Snapshot(game) EXCEPT !.phase = "Finished"] = Snapshot(game)
        /\ first.phase = "Finished" => [Snapshot(first) EXCEPT !.phase = "Finished"] = Snapshot(first)
    BY <1>2, SnapshotPhase
  <2>5. CASE game.phase = "WaitingForPlayers"
    <3>1. Snapshot(game') = Snapshot(game)
      BY <2>2, <2>3, <2>4, <2>5
    <3> QED
      BY <2>5, <3>1 DEF CutShort
  <2>6. CASE game.phase = "Finished"
    <3>1. Snapshot(first) = Snapshot(game)
      BY <2>2, <2>4, <2>6
    <3>2. first.phase = "Finished"
      BY <2>4, <2>6, <3>1
    <3>3. Snapshot(game') = Snapshot(game)
      BY <2>3, <2>4, <3>1, <3>2
    <3> QED
      BY <2>6, <3>3 DEF CutShort
  <2>7. CASE game.phase = "Elimination"
    <3>1. Snapshot(first) = [Snapshot(game) EXCEPT !.phase = "Finished"] /\ a # NoClient
      BY <2>1, <2>2, <2>7
    <3>2. first.phase = "Finished"
      BY <2>4, <3>1 DEF Snapshot
    <3>3. Snapshot(game') = Snapshot(first)
      BY <2>3, <2>4, <3>2
    <3> QED
      BY <2>7, <3>1, <3>3 DEF CutShort
  <2> QED
    BY <1>3, <2>5, <2>6, <2>7
<1>5. ASSUME NEW d \in Clients
      PROVE  /\ state[d] = "new" <=> state'[d] = "new"
             /\ ~Seated(d)'
             /\ Seated(d) => state[d] # "new"
  BY <1>1, NoClientAssumption DEF Seated, ServerInv, SeatsMatchSession
<1>6. ASSUME NEW d \in Clients
      PROVE  \/ out'[d] = out[d]
             \/ Seated(d) /\ Bereaved(d)
  <2>0. CutShort => game.phase = "Elimination"
    BY DEF CutShort
  <2> DEFINE seats == SeatsWithout(a)
             seated == \E p \in Players : seats[p] = d
             told(ms) == Broadcast(out, seats, ms)[d]
  <2>1. seated => Seated(d)
    <3>1. \A p \in Players : seats[p] \in {players[p], NoClient}
      BY DEF SeatsWithout, ServerInv, Players
    <3> QED
      BY <3>1, NoClientAssumption DEF Seated
  <2>2. /\ ~seated => \A ms : told(ms) = out[d]
        /\ seated => /\ \A m : told(<<m>>) = Append(out[d], m)
                     /\ \A m, n : told(<<m, n>>) = Append(Append(out[d], m), n)
        /\ told(<< >>) = out[d]
    <3>1. seated <=> \E p \in Players : seats[p] = d
      OBVIOUS
    <3> HIDE DEF seats, seated
    <3> QED
      BY <3>1, OutTells
  <2>3. a # NoClient => out'[d] = told(DisconnectNews(a))
    BY <1>1
  <2> HIDE DEF told, seated
  <2>4. CASE ~seated \/ a = NoClient \/ DisconnectNews(a) = << >>
    BY <1>1, <2>2, <2>3, <2>4
  <2>5. CASE seated /\ a # NoClient /\ game.phase = "WaitingForPlayers" /\ Owns(a)
    BY <2>0, <2>1, <2>2, <2>3, <2>5 DEF DisconnectNews, Bereaved
  <2>6. CASE seated /\ a # NoClient /\ game.phase = "Elimination" /\ Owns(a)
    BY <1>4, <2>1, <2>2, <2>3, <2>6 DEF DisconnectNews, Bereaved
  <2> QED
    BY <1>3, <2>4, <2>5, <2>6 DEF DisconnectNews
<1> QED
  BY <1>1, <1>4, <1>5, <1>6 DEF QuietStep

\* Every step is of one of the three kinds.
LEMMA StepTells ==
  ASSUME ServerInv, ServerInv', FramesInv, StreamInv, [Next]_vars,
         \A c \in Clients : state[c] = "new" => out[c] = << >>
  PROVE  QuietStep \/ StartStep \/ AnswerStep
<1>1. CASE UNCHANGED <<game, log, players, state, slot, out>>
  BY <1>1 DEF QuietStep, Seated, CutShort, Snapshot
<1>2. ASSUME NEW c \in Clients, OnConnected(c)
      PROVE  QuietStep \/ StartStep
  BY <1>2, ConnectTells DEF OnConnected
<1>3. ASSUME NEW c \in Clients, Read(c)
      PROVE  QuietStep \/ AnswerStep
  <2>1. CASE ReadHeader(c)
    <3>1. state[c] # "new" /\ "invalid message length" \in ErrorTexts \ {"RoomFull"}
      BY <2>1 DEF ReadHeader, IsConnected, ErrorTexts
    <3>2. out' = out \/ inbox' # inbox
      BY <2>1, FrameTaken DEF ReadHeader
    <3> QED
      BY <2>1, <3>1, <3>2, WordTells DEF ReadHeader
  <2>2. ASSUME NEW damage \in PossibleDamage(game), ReadBody(c, damage)
        PROVE  QuietStep \/ AnswerStep
    BY <2>2, BodyTells
  <2>3. CASE ReadFails(c)
    BY <2>3, DisconnectTells DEF ReadFails, IsConnected
  <2> QED
    BY <1>3, <2>1, <2>2, <2>3 DEF Read
<1>4. ASSUME NEW c \in Clients, Write(c)
      PROVE  QuietStep
  <2>1. state[c] # "new"
    BY <1>4 DEF Write, WriteDone, WriteFails, IsConnected
  <2>2. CASE DisconnectOnce(c)
    BY <2>1, <2>2, DisconnectTells
  <2>3. CASE UNCHANGED <<game, log, players, state, slot, out>>
    BY <2>3, WordTells
  <2> QED
    BY <1>4, <2>2, <2>3 DEF Write, WriteDone, WriteFails
<1>5. ASSUME NEW c \in Clients, PeerLeaves(c) \/ \E frame \in Frames : PeerSends(c, frame)
      PROVE  UNCHANGED <<game, log, players, state, slot, out>>
  BY <1>5 DEF PeerLeaves, PeerSends, connectionVars
<1>6. CASE Stop
  BY <1>6, StopTells
<1> QED
  BY <1>1, <1>2, <1>3, <1>4, <1>5, <1>6 DEF Next, vars, connectionVars

-----------------------------------------------------------------------------
(* What the streams keep.                                                  *)

\* A connection is told something as soon as it is made.
Begun == \A c \in Clients : out[c] = << >> <=> state[c] = "new"

\* A message with a board to show.
Shows(m) == m.type \in {"GameStarted", "EliminateResult"}

\* No start, result or end is told before there is one, and only a connection
\* without a seat (slot p) is told that there is no room.
Means(m, p, phase) ==
  /\ m.type = "GameStarted" \/ TellsGame(m) \/ TellsSuccess(m) => phase # "WaitingForPlayers"
  /\ m.type = "GameEnded" => phase = "Finished"
  /\ Shows(m) /\ m.game.phase = "Finished" => phase = "Finished"
  /\ m.type = "Error" /\ m.text = "RoomFull" => p = -1

InTime(stream, p, phase) == \A i \in 1..Len(stream) : Means(stream[i], p, phase)

ToldInTime == \A c \in Clients : InTime(out[c], slot[c], game.phase)

\* Nobody has been told more of the game than who is seated.
SeatedKnowAll ==
  \A c, d \in Clients : Seated(c) =>
    Cardinality(GamePlaces(out[d])) <= Cardinality(GamePlaces(out[c]))

\* The inductive invariant of the streams' history.
HistoryInv == /\ Begun
              /\ ToldInTime
              /\ SeatedKnowAll
              /\ game.phase = "WaitingForPlayers" => log = << >>
              /\ StreamsInOrder
              /\ OneHistory
              /\ SuccessPerAcceptedRequest

\* The news a stream held stay where they are; one more, m, may follow them.
NewsKept(c) ==
  /\ GamePlaces(out'[c]) = GamePlaces(out[c])
  /\ SuccessPlaces(out'[c]) = SuccessPlaces(out[c])
  /\ \A i \in GamePlaces(out[c]) \cup SuccessPlaces(out[c]) : out'[c][i] = out[c][i]

NewsTold(c, m) ==
  \E n \in Nat :
    /\ GamePlaces(out[c]) \subseteq 1..n /\ SuccessPlaces(out[c]) \subseteq 1..n
    /\ GamePlaces(out'[c]) = IF TellsGame(m) THEN GamePlaces(out[c]) \cup {n + 1}
                             ELSE GamePlaces(out[c])
    /\ SuccessPlaces(out'[c]) = IF TellsSuccess(m) THEN SuccessPlaces(out[c]) \cup {n + 1}
                                ELSE SuccessPlaces(out[c])
    /\ \A i \in GamePlaces(out[c]) \cup SuccessPlaces(out[c]) : out'[c][i] = out[c][i]
    /\ out'[c][n + 1] = m

\* Places are finitely many, and numbered from 1.
LEMMA PlacesCount ==
  ASSUME NEW S, NEW s \in Seq(S)
  PROVE  /\ Len(s) \in Nat
         /\ GamePlaces(s) \subseteq 1..Len(s) /\ SuccessPlaces(s) \subseteq 1..Len(s)
         /\ Cardinality(GamePlaces(s)) \in Nat /\ Cardinality(SuccessPlaces(s)) \in Nat
         /\ \A i \in GamePlaces(s) : Nth(GamePlaces(s), i) \in 1..Cardinality(GamePlaces(s))
         /\ \A i \in SuccessPlaces(s) : Nth(SuccessPlaces(s), i) \in 1..Cardinality(SuccessPlaces(s))
<1>1. Len(s) \in Nat
  OBVIOUS
<1>2. GamePlaces(s) \subseteq 1..Len(s) /\ SuccessPlaces(s) \subseteq 1..Len(s)
  BY DEF GamePlaces, SuccessPlaces
<1> QED
  BY <1>1, <1>2, CountOneMore

\* What is said quietly leaves the news in a stream as they are.
LEMMA QuietKeeps ==
  ASSUME StreamInv, Begun, QuietStep, NEW c \in Clients
  PROVE  NewsKept(c)
<1>1. out[c] \in Seq(Message)
  BY StreamsTyped
<1>2. ASSUME NEW S, NEW s \in Seq(S), NEW m \in S, ~TellsGame(m), ~TellsSuccess(m)
      PROVE  /\ GamePlaces(Append(s, m)) = GamePlaces(s)
             /\ SuccessPlaces(Append(s, m)) = SuccessPlaces(s)
             /\ \A i \in GamePlaces(s) \cup SuccessPlaces(s) : Append(s, m)[i] = s[i]
  <2>1. \A i \in GamePlaces(s) \cup SuccessPlaces(s) : i \in 1..Len(s)
    BY DEF GamePlaces, SuccessPlaces
  <2> QED
    BY <1>2, <2>1, OneMore
<1>3. \A m : m.type \notin {"GameStarted", "EliminateResult"} => ~TellsGame(m) /\ ~TellsSuccess(m)
  BY DEF TellsGame, TellsSuccess
<1>4. CASE out'[c] = out[c]
  BY <1>4 DEF NewsKept
<1>5. ASSUME NEW m, m.type \notin {"GameStarted", "EliminateResult"}, out'[c] = Append(out[c], m)
      PROVE  NewsKept(c)
  <2> DEFINE S == Message \cup {m}
             s == out[c]
  <2>1. s \in Seq(S) /\ m \in S
    BY <1>1
  <2> HIDE DEF S, s
  <2>2. /\ GamePlaces(Append(s, m)) = GamePlaces(s)
        /\ SuccessPlaces(Append(s, m)) = SuccessPlaces(s)
        /\ \A i \in GamePlaces(s) \cup SuccessPlaces(s) : Append(s, m)[i] = s[i]
    BY <1>2, <1>3, <1>5, <2>1
  <2> QED
    BY <1>5, <2>2 DEF NewsKept, s
<1>6. ASSUME NEW m, NEW n, m.type \notin {"GameStarted", "EliminateResult"},
             n.type \notin {"GameStarted", "EliminateResult"},
             out'[c] = Append(Append(out[c], m), n)
      PROVE  NewsKept(c)
  <2> DEFINE S == Message \cup {m, n}
             s == out[c]
             t == Append(s, m)
  <2>1. s \in Seq(S) /\ m \in S /\ n \in S
    BY <1>1
  <2> HIDE DEF S, s
  <2>2. t \in Seq(S)
    BY <2>1
  <2>3. /\ GamePlaces(t) = GamePlaces(s)
        /\ SuccessPlaces(t) = SuccessPlaces(s)
        /\ \A i \in GamePlaces(s) \cup SuccessPlaces(s) : t[i] = s[i]
    BY <1>2, <1>3, <1>6, <2>1
  <2> HIDE DEF t
  <2>4. /\ GamePlaces(Append(t, n)) = GamePlaces(t)
        /\ SuccessPlaces(Append(t, n)) = SuccessPlaces(t)
        /\ \A i \in GamePlaces(t) \cup SuccessPlaces(t) : Append(t, n)[i] = t[i]
    BY <1>2, <1>3, <1>6, <2>1, <2>2
  <2>5. out'[c] = Append(t, n)
    BY <1>6 DEF t, s
  <2>6. \A i \in GamePlaces(s) \cup SuccessPlaces(s) : Append(t, n)[i] = s[i]
    BY <2>3, <2>4
  <2> QED
    BY <2>3, <2>4, <2>5, <2>6 DEF NewsKept, s
<1>7. \A m \in Words : m.type \notin {"GameStarted", "EliminateResult"}
  BY DEF Words, PlayerReady
<1>8. /\ PlayerReady.type \notin {"GameStarted", "EliminateResult"}
      /\ OpponentDisconnected.type \notin {"GameStarted", "EliminateResult"}
      /\ GameEnded.type \notin {"GameStarted", "EliminateResult"}
      /\ \A p : JoinRoom(p).type \notin {"GameStarted", "EliminateResult"}
      /\ \A text : Error(text).type \notin {"GameStarted", "EliminateResult"}
  BY DEF PlayerReady, OpponentDisconnected, GameEnded, JoinRoom, Error
<1>9. CASE Greeted(c)
  <2>1. out[c] = << >>
    BY <1>9 DEF Begun, Greeted
  <2>2. /\ \A m : Append(out[c], m) = <<m>>
    BY <2>1
  <2>3. \/ \E m : m.type \notin {"GameStarted", "EliminateResult"} /\ out'[c] = Append(out[c], m)
        \/ \E m, n : /\ m.type \notin {"GameStarted", "EliminateResult"}
                     /\ n.type \notin {"GameStarted", "EliminateResult"}
                     /\ out'[c] = Append(Append(out[c], m), n)
    BY <1>8, <1>9, <2>2 DEF Greeted
  <2> QED
    BY <1>5, <1>6, <2>3
<1>10. CASE Bereaved(c)
  BY <1>5, <1>6, <1>8, <1>10 DEF Bereaved
<1>11. CASE \E m \in Words : out'[c] = Append(out[c], m)
  BY <1>5, <1>7, <1>11
<1> QED
  BY <1>4, <1>9, <1>10, <1>11 DEF QuietStep

\* News reach a stream at its end.
LEMMA AppendTells ==
  ASSUME NEW c \in Clients, NEW S, NEW s \in Seq(S), NEW m,
         GamePlaces(s) = GamePlaces(out[c]), SuccessPlaces(s) = SuccessPlaces(out[c]),
         \A i \in GamePlaces(s) \cup SuccessPlaces(s) : s[i] = out[c][i],
         out'[c] = Append(s, m)
  PROVE  NewsTold(c, m)
<1> DEFINE T == S \cup {m}
<1>1. s \in Seq(T) /\ m \in T
  OBVIOUS
<1> HIDE DEF T
<1> DEFINE n == Len(s)
           t == Append(s, m)
<1>2. /\ n \in Nat /\ t[n + 1] = m
      /\ \A i \in 1..n : t[i] = s[i]
      /\ GamePlaces(t) = IF TellsGame(m) THEN GamePlaces(s) \cup {n + 1} ELSE GamePlaces(s)
      /\ SuccessPlaces(t) = IF TellsSuccess(m) THEN SuccessPlaces(s) \cup {n + 1}
                            ELSE SuccessPlaces(s)
  BY <1>1, OneMore
<1>3. GamePlaces(s) \subseteq 1..n /\ SuccessPlaces(s) \subseteq 1..n
  BY DEF GamePlaces, SuccessPlaces
<1>4. out'[c] = t
  OBVIOUS
<1> HIDE DEF n, t
<1>5. \A i \in GamePlaces(s) \cup SuccessPlaces(s) : t[i] = s[i]
  BY <1>2, <1>3
<1> QED
  BY <1>2, <1>3, <1>4, <1>5 DEF NewsTold

\* A result, and the start, are told to those seated then.
LEMMA AnswerTold ==
  ASSUME StreamInv, NEW m, NEW c \in Clients,
         out'[c] = IF Seated(c) THEN Append(out[c], m) ELSE out[c]
  PROVE  IF Seated(c) THEN NewsTold(c, m) ELSE NewsKept(c)
<1>1. out[c] \in Seq(Message)
  BY StreamsTyped
<1>2. CASE Seated(c)
  BY <1>1, <1>2, AppendTells
<1>3. CASE ~Seated(c)
  BY <1>3 DEF NewsKept
<1> QED
  BY <1>2, <1>3

LEMMA StartTold ==
  ASSUME StreamInv, Begun, StartStep, NEW c \in Clients
  PROVE  IF Seated(c)' THEN NewsTold(c, GameStarted(game')) ELSE NewsKept(c)
<1> DEFINE m == GameStarted(game')
<1> HIDE DEF m
<1>1. CASE /\ state[c] = "new" /\ Seated(c)'
           /\ out'[c] = Append(<<JoinRoom(slot'[c])>>, m)
  <2> DEFINE s == <<JoinRoom(slot'[c])>>
             S == {JoinRoom(slot'[c])}
  <2>1. s \in Seq(S) /\ Len(s) = 1 /\ s[1] = JoinRoom(slot'[c])
    OBVIOUS
  <2>2. out[c] = << >>
    BY <1>1 DEF Begun
  <2>3. GamePlaces(out[c]) = {} /\ SuccessPlaces(out[c]) = {}
    <3>1. 1..Len(out[c]) = {}
      BY <2>2
    <3> QED
      BY <3>1 DEF GamePlaces, SuccessPlaces
  <2>4. ~TellsGame(JoinRoom(slot'[c])) /\ ~TellsSuccess(JoinRoom(slot'[c]))
    BY DEF JoinRoom, TellsGame, TellsSuccess
  <2> HIDE DEF s
  <2>5. GamePlaces(s) = {} /\ SuccessPlaces(s) = {}
    BY <2>1, <2>4 DEF GamePlaces, SuccessPlaces
  <2>6. out'[c] = Append(s, m)
    BY <1>1 DEF s
  <2> HIDE DEF S
  <2> QED
    BY <1>1, <2>1, <2>3, <2>5, <2>6, AppendTells DEF m
<1>2. CASE /\ Seated(c)' = Seated(c)
           /\ out'[c] = IF Seated(c) THEN Append(out[c], m) ELSE out[c]
  BY <1>2, AnswerTold DEF m
<1> QED
  BY <1>1, <1>2 DEF StartStep, m

\* A message that all who are seated then are told, and only they, goes on with
\* the one history: each of them knew all of it, or there was none.
LEMMA HistoryGoesOn ==
  ASSUME StreamInv, OneHistory, SeatedKnowAll, NEW m,
         \A c \in Clients : IF Seated(c)' THEN NewsTold(c, m) ELSE NewsKept(c),
         \A c \in Clients : /\ Seated(c)'
                            => Seated(c) \/ \A d \in Clients : GamePlaces(out[d]) = {}
  PROVE  OneHistory' /\ SeatedKnowAll'
<1> DEFINE P(c) == GamePlaces(out[c])
           Q(c) == GamePlaces(out'[c])
           N(c) == Cardinality(P(c))
<1>1. ASSUME NEW c \in Clients
      PROVE  /\ N(c) \in Nat
             /\ \A i \in P(c) : Nth(P(c), i) \in 1..N(c)
             /\ \A i \in P(c) : out'[c][i] = out[c][i]
  <2>1. out[c] \in Seq(Message)
    BY StreamsTyped
  <2>2. N(c) \in Nat /\ \A i \in P(c) : Nth(P(c), i) \in 1..N(c)
    BY <2>1, PlacesCount
  <2>3. \A i \in P(c) : out'[c][i] = out[c][i]
    BY DEF NewsTold, NewsKept
  <2> QED
    BY <2>2, <2>3
<1>2. ASSUME NEW c \in Clients, Q(c) = P(c)
      PROVE  \A i \in Q(c) : i \in P(c) /\ Nth(Q(c), i) = Nth(P(c), i)
  BY <1>2
<1>3. ASSUME NEW c \in Clients, Seated(c)', TellsGame(m)
      PROVE  /\ Cardinality(Q(c)) = N(c) + 1
             /\ \A i \in Q(c) : \/ i \in P(c) /\ Nth(Q(c), i) = Nth(P(c), i)
                                \/ out'[c][i] = m /\ Nth(Q(c), i) = N(c) + 1
  <2>1. PICK n \in Nat : /\ P(c) \subseteq 1..n
                         /\ Q(c) = P(c) \cup {n + 1}
                         /\ out'[c][n + 1] = m
    BY <1>3 DEF NewsTold
  <2> HIDE DEF P, Q
  <2>2. /\ Cardinality(P(c) \cup {n + 1}) = Cardinality(P(c)) + 1
        /\ Nth(P(c) \cup {n + 1}, n + 1) = Cardinality(P(c)) + 1
        /\ \A i \in P(c) : Nth(P(c) \cup {n + 1}, i) = Nth(P(c), i)
    BY <2>1, CountOneMore
  <2> QED
    BY <2>1, <2>2
<1>4. ASSUME NEW c \in Clients, ~(Seated(c)' /\ TellsGame(m))
      PROVE  Q(c) = P(c)
  BY <1>4 DEF NewsTold, NewsKept
<1>5. ASSUME NEW c \in Clients, NEW d \in Clients, Seated(c)'
      PROVE  N(d) <= N(c)
  <2>1. CASE Seated(c)
    BY <2>1 DEF SeatedKnowAll
  <2>2. CASE \A e \in Clients : P(e) = {}
    <3>1. N(c) = N(d)
      BY <2>2
    <3> QED
      BY <1>1, <3>1
  <2> QED
    BY <1>5, <2>1, <2>2
<1>6. OneHistory'
  <2> SUFFICES ASSUME NEW c \in Clients, NEW d \in Clients, NEW i \in Q(c), NEW j \in Q(d),
                      Nth(Q(c), i) = Nth(Q(d), j)
               PROVE  out'[c][i] = out'[d][j]
    BY DEF OneHistory
  <2>0. /\ i \in Q(c) /\ j \in Q(d)
        /\ Nth(Q(c), i) = Nth(Q(d), j)
    OBVIOUS
  <2> HIDE DEF P, Q, N
  <2>1. ASSUME i \in P(c), j \in P(d), Nth(P(c), i) = Nth(P(d), j)
        PROVE  out'[c][i] = out'[d][j]
    <3>1. out[c][i] = out[d][j]
      BY <2>1 DEF OneHistory, P
    <3> QED
      BY <1>1, <2>1, <3>1
  <2>2. /\ \/ i \in P(c) /\ Nth(Q(c), i) = Nth(P(c), i)
           \/ Seated(c)' /\ TellsGame(m) /\ out'[c][i] = m /\ Nth(Q(c), i) = N(c) + 1
        /\ \/ j \in P(d) /\ Nth(Q(d), j) = Nth(P(d), j)
           \/ Seated(d)' /\ TellsGame(m) /\ out'[d][j] = m /\ Nth(Q(d), j) = N(d) + 1
    BY <1>2, <1>3, <1>4
  <2>3. /\ N(c) \in Nat /\ N(d) \in Nat
        /\ \A k \in P(c) : Nth(P(c), k) \in 1..N(c)
        /\ \A k \in P(d) : Nth(P(d), k) \in 1..N(d)
        /\ Seated(c)' => N(d) <= N(c)
        /\ Seated(d)' => N(c) <= N(d)
    BY <1>1, <1>5
  <2>4. CASE i \in P(c) /\ Nth(Q(c), i) = Nth(P(c), i)
    <3>1. CASE j \in P(d) /\ Nth(Q(d), j) = Nth(P(d), j)
      BY <2>0, <2>1, <2>4, <3>1
    <3>2. CASE Seated(d)' /\ Nth(Q(d), j) = N(d) + 1
      <4>1. Nth(P(c), i) \in 1..N(c) /\ Nth(P(c), i) = N(d) + 1
        BY <2>0, <2>3, <2>4, <3>2
      <4> QED
        BY <2>3, <3>2, <4>1
    <3> QED
      BY <2>2, <3>1, <3>2
  <2>5. CASE Seated(c)' /\ out'[c][i] = m /\ Nth(Q(c), i) = N(c) + 1
    <3>1. CASE j \in P(d) /\ Nth(Q(d), j) = Nth(P(d), j)
      <4>1. Nth(P(d), j) \in 1..N(d) /\ Nth(P(d), j) = N(c) + 1
        BY <2>0, <2>3, <2>5, <3>1
      <4> QED
        BY <2>3, <2>5, <4>1
    <3>2. CASE out'[d][j] = m
      BY <2>5, <3>2
    <3> QED
      BY <2>2, <3>1, <3>2
  <2> QED
    BY <2>2, <2>4, <2>5
<1>7. SeatedKnowAll'
  <2> SUFFICES ASSUME NEW c \in Clients, NEW d \in Clients, Seated(c)'
               PROVE  Cardinality(Q(d)) <= Cardinality(Q(c))
    BY DEF SeatedKnowAll
  <2>1. N(c) \in Nat /\ N(d) \in Nat /\ N(d) <= N(c)
    BY <1>1, <1>5
  <2>2. CASE TellsGame(m)
    <3>1. Cardinality(Q(c)) = N(c) + 1 /\ Cardinality(Q(d)) \in {N(d), N(d) + 1}
      BY <1>3, <1>4, <2>2
    <3> HIDE DEF Q, N
    <3> QED
      BY <2>1, <3>1
  <2>3. CASE ~TellsGame(m)
    BY <1>4, <2>1, <2>3
  <2> QED
    BY <2>2, <2>3
<1> QED
  BY <1>6, <1>7

\* The session never goes back: from the lobby to the game to its end.
Forward(phase, next) == \/ next = phase
                        \/ next = "Finished"
                        \/ phase = "WaitingForPlayers" /\ next = "Elimination"

LEMMA InTimeStays ==
  ASSUME NEW s, NEW p, NEW phase, NEW next, InTime(s, p, phase), Forward(phase, next)
  PROVE  InTime(s, p, next)
<1>1. \A m : Means(m, p, phase) => Means(m, p, next)
  BY DEF Means, Forward
<1> QED
  BY <1>1 DEF InTime, Means

LEMMA InTimeNext ==
  ASSUME NEW S, NEW s \in Seq(S), NEW m, NEW p, NEW phase, InTime(s, p, phase), Means(m, p, phase)
  PROVE  InTime(Append(s, m), p, phase)
<1> DEFINE t == Append(s, m)
<1>1. /\ Len(s) \in Nat /\ Len(t) = Len(s) + 1 /\ t[Len(s) + 1] = m
      /\ \A i \in 1..Len(s) : t[i] = s[i]
  <2> DEFINE T == S \cup {m}
  <2>1. s \in Seq(T) /\ m \in T
    OBVIOUS
  <2> HIDE DEF T
  <2> QED
    BY <2>1
<1>2. \A i \in 1..Len(s) + 1 : i \in 1..Len(s) \/ i = Len(s) + 1
  BY <1>1
<1> HIDE DEF t
<1>3. InTime(t, p, phase)
  BY <1>1, <1>2 DEF InTime
<1> QED
  BY <1>3 DEF t

\* What one connection has been sent is in order and in time.
SentWell(c) == InOrder(out[c], slot[c]) /\ InTime(out[c], slot[c], game.phase)

LEMMA SentWellNext ==
  ASSUME NEW c \in Clients, NEW S, NEW s \in Seq(S), NEW m, s # << >>,
         InOrder(s, slot'[c]), InTime(s, slot'[c], game.phase),
         Forward(game.phase, game'.phase), out'[c] = Append(s, m),
         m.type \notin {"JoinRoom", "OpponentDisconnected", "GameEnded"},
         m.type = "GameStarted" => \A i \in 1..Len(s) : s[i].type \notin {"GameStarted", "GameEnded"},
         TellsSuccess(m) => \A i \in 1..Len(s) : s[i].type # "GameEnded",
         Means(m, slot'[c], game'.phase)
  PROVE  SentWell(c)'
<1>1. InTime(s, slot'[c], game'.phase)
  BY InTimeStays
<1>2. InTime(Append(s, m), slot'[c], game'.phase)
  BY <1>1, InTimeNext
<1>3. InOrder(Append(s, m), slot'[c])
  <2> DEFINE T == S \cup {m}
  <2>1. s \in Seq(T) /\ m \in T
    OBVIOUS
  <2> HIDE DEF T
  <2> QED
    BY <2>1, NextInOrder
<1> QED
  BY <1>2, <1>3 DEF SentWell

\* A new connection's first word, with a seat or without.
LEMMA FirstSentWell ==
  ASSUME NEW p, NEW phase
  PROVE  /\ <<JoinRoom(p)>> \in Seq({JoinRoom(p)}) /\ <<JoinRoom(p)>> # << >>
         /\ InOrder(<<JoinRoom(p)>>, p) /\ InTime(<<JoinRoom(p)>>, p, phase)
         /\ \A i \in 1..Len(<<JoinRoom(p)>>) :
              <<JoinRoom(p)>>[i].type \notin {"GameStarted", "GameEnded"}
         /\ InOrder(<<GameEnded>>, p) /\ InTime(<<GameEnded>>, p, "Finished")
         /\ \A text : InOrder(<<Error(text)>>, -1) /\ InTime(<<Error(text)>>, -1, phase)
<1>1. \A m : Len(<<m>>) = 1 /\ <<m>>[1] = m /\ 1..1 = {1} /\ <<m>> \in Seq({m}) /\ <<m>> # << >>
  OBVIOUS
<1>2. InTime(<<JoinRoom(p)>>, p, phase)
  BY <1>1 DEF InTime, Means, Shows, JoinRoom, TellsGame, TellsSuccess
<1>3. InTime(<<GameEnded>>, p, "Finished")
  BY <1>1 DEF InTime, Means, Shows, GameEnded, TellsGame, TellsSuccess
<1>4. \A text : InTime(<<Error(text)>>, -1, phase)
  BY <1>1 DEF InTime, Means, Shows, Error, TellsGame, TellsSuccess
<1>5. \A i \in 1..Len(<<JoinRoom(p)>>) :
              <<JoinRoom(p)>>[i].type \notin {"GameStarted", "GameEnded"}
  BY <1>1 DEF JoinRoom
<1> QED
  BY <1>1, <1>2, <1>3, <1>4, <1>5, FirstInOrder

LEMMA GreetedSentWell ==
  ASSUME NEW c \in Clients, Greeted(c), Forward(game.phase, game'.phase)
  PROVE  SentWell(c)' /\ out'[c] # << >>
<1> DEFINE p == slot'[c]
           s == <<JoinRoom(p)>>
<1>1. CASE out'[c] = <<Error("RoomFull")>> /\ p = -1
  <2>1. InOrder(<<Error("RoomFull")>>, -1) /\ InTime(<<Error("RoomFull")>>, -1, game'.phase)
    BY FirstSentWell
  <2>2. <<Error("RoomFull")>> # << >>
    OBVIOUS
  <2>3. InOrder(out'[c], p) /\ InTime(out'[c], p, game'.phase)
    BY <1>1, <2>1
  <2> QED
    BY <1>1, <2>2, <2>3 DEF SentWell
<1>2. CASE out'[c] = <<GameEnded>> /\ game'.phase = "Finished"
  <2>1. InOrder(<<GameEnded>>, p) /\ InTime(<<GameEnded>>, p, "Finished")
    BY FirstSentWell
  <2>2. <<GameEnded>> # << >>
    OBVIOUS
  <2>3. InOrder(out'[c], p) /\ InTime(out'[c], p, game'.phase)
    BY <1>2, <2>1
  <2> QED
    BY <1>2, <2>2, <2>3 DEF SentWell
<1>3. CASE out'[c] = Append(s, PlayerReady)
  <2>1. /\ s \in Seq({JoinRoom(p)}) /\ s # << >> /\ InOrder(s, p) /\ InTime(s, p, game.phase)
    BY FirstSentWell
  <2>2. /\ PlayerReady.type = "PlayerReady" /\ ~TellsGame(PlayerReady) /\ ~TellsSuccess(PlayerReady)
        /\ Means(PlayerReady, p, game'.phase)
    BY DEF PlayerReady, TellsGame, TellsSuccess, Means, Shows
  <2>3. out'[c] # << >>
    BY <1>3
  <2> DEFINE S == {JoinRoom(p)}
  <2> HIDE DEF s, S
  <2>4. s \in Seq(S)
    BY <2>1 DEF S
  <2>5. SentWell(c)'
    BY <1>3, <2>1, <2>2, <2>4, SentWellNext
  <2> QED
    BY <2>3, <2>5
<1> QED
  BY <1>1, <1>2, <1>3 DEF Greeted

\* The end of the game is told where it was not told before.
LEMMA EndSentWell ==
  ASSUME StreamInv, NEW c \in Clients, SentWell(c), out[c] # << >>, slot'[c] = slot[c],
         game.phase = "Elimination", game'.phase = "Finished",
         out'[c] = Append(Append(out[c], OpponentDisconnected), GameEnded)
  PROVE  SentWell(c)'
<1> DEFINE S == Message \cup {OpponentDisconnected, GameEnded}
           s == out[c]
           t == Append(s, OpponentDisconnected)
<1>1. s \in Seq(S) /\ OpponentDisconnected \in S /\ GameEnded \in S
  BY StreamsTyped
<1>2. s # << >> /\ InOrder(s, slot'[c]) /\ InTime(s, slot'[c], game.phase)
  BY DEF SentWell
<1> HIDE DEF S, s
<1>3. \A i \in 1..Len(s) : s[i].type # "GameEnded"
  BY <1>2 DEF InTime, Means
<1>4. InOrder(Append(t, GameEnded), slot'[c])
  BY <1>1, <1>2, <1>3, EndInOrder
<1>5. InTime(s, slot'[c], game'.phase)
  BY <1>2, InTimeStays DEF Forward
<1>6. /\ OpponentDisconnected.type = "OpponentDisconnected" /\ GameEnded.type = "GameEnded"
      /\ Means(OpponentDisconnected, slot'[c], game'.phase)
      /\ Means(GameEnded, slot'[c], game'.phase)
  BY DEF OpponentDisconnected, GameEnded, TellsGame, TellsSuccess, Means, Shows
<1>7. InTime(t, slot'[c], game'.phase) /\ t \in Seq(S)
  BY <1>1, <1>5, <1>6, InTimeNext
<1>8. out'[c] = Append(t, GameEnded)
  BY DEF s
<1> HIDE DEF t
<1>9. InTime(Append(t, GameEnded), slot'[c], game'.phase)
  BY <1>6, <1>7, InTimeNext
<1> QED
  BY <1>4, <1>8, <1>9 DEF SentWell

LEMMA AppendNotEmpty ==
  ASSUME NEW S, NEW s \in Seq(S), NEW m
  PROVE  Append(s, m) \in Seq(S \cup {m}) /\ Append(s, m) # << >>
<1> DEFINE T == S \cup {m}
<1>1. s \in Seq(T) /\ m \in T
  OBVIOUS
<1> HIDE DEF T
<1>2. Append(s, m) \in Seq(T) /\ Len(Append(s, m)) = Len(s) + 1 /\ Len(s) \in Nat
  BY <1>1
<1>3. Append(s, m) # << >>
  BY <1>2
<1> QED
  BY <1>2, <1>3 DEF T

\* A connection that says what it was said before keeps it well.
LEMMA SameSentWell ==
  ASSUME NEW c \in Clients, SentWell(c), out'[c] = out[c], slot'[c] = slot[c],
         Forward(game.phase, game'.phase)
  PROVE  SentWell(c)'
BY InTimeStays DEF SentWell

\* A message at the end of a stream that is begun; Append makes it longer.
LEMMA MoreSentWell ==
  ASSUME StreamInv, NEW c \in Clients, SentWell(c), out[c] # << >>, slot'[c] = slot[c], NEW m,
         out'[c] = Append(out[c], m), Forward(game.phase, game'.phase),
         m.type \notin {"JoinRoom", "OpponentDisconnected", "GameEnded"},
         m.type = "GameStarted" => game.phase = "WaitingForPlayers",
         TellsSuccess(m) => game.phase # "Finished", Means(m, slot'[c], game'.phase)
  PROVE  SentWell(c)' /\ out'[c] # << >>
<1> DEFINE s == out[c]
<1>1. s \in Seq(Message) /\ InOrder(s, slot'[c]) /\ InTime(s, slot'[c], game.phase) /\ s # << >>
  BY StreamsTyped DEF SentWell
<1> HIDE DEF s
<1>2. m.type = "GameStarted" => \A i \in 1..Len(s) : s[i].type \notin {"GameStarted", "GameEnded"}
  BY <1>1 DEF InTime, Means
<1>3. TellsSuccess(m) => \A i \in 1..Len(s) : s[i].type # "GameEnded"
  BY <1>1 DEF InTime, Means
<1>4. out'[c] = Append(s, m)
  BY DEF s
<1>5. SentWell(c)'
  BY <1>1, <1>2, <1>3, <1>4, SentWellNext
<1>6. Append(s, m) # << >>
  BY <1>1, AppendNotEmpty
<1> QED
  BY <1>4, <1>5, <1>6

\* Where the phase can go in a quiet step, and in the start.
LEMMA QuietPhase ==
  ASSUME QuietStep
  PROVE  /\ game'.phase \in {game.phase, "Finished"}
         /\ CutShort => game.phase = "Elimination" /\ game'.phase = "Finished"
<1>1. Snapshot(game').phase = game'.phase /\ Snapshot(game).phase = game.phase
  BY DEF Snapshot
<1>2. CutShort => Snapshot(game').phase = "Finished" /\ game.phase = "Elimination"
  BY DEF CutShort, Snapshot
<1> QED
  BY <1>1, <1>2 DEF QuietStep

LEMMA StartPhase ==
  ASSUME StartStep
  PROVE  game.phase = "WaitingForPlayers" /\ game'.phase = "Elimination"
<1>1. Snapshot(game').phase = game'.phase
  BY DEF Snapshot
<1>2. [Snapshot(game) EXCEPT !.phase = "Elimination"].phase = "Elimination"
  BY DEF Snapshot
<1> QED
  BY <1>1, <1>2 DEF StartStep

LEMMA QuietSentWell ==
  ASSUME StreamInv, Begun, QuietStep, NEW c \in Clients, SentWell(c)
  PROVE  SentWell(c)' /\ (out'[c] = << >> <=> state'[c] = "new")
<1>1. /\ Forward(game.phase, game'.phase)
      /\ CutShort => game.phase = "Elimination" /\ game'.phase = "Finished"
  BY QuietPhase DEF Forward
<1>2. CASE Greeted(c)
  BY <1>1, <1>2, GreetedSentWell DEF Greeted
<1>3. ASSUME state[c] = "new" <=> state'[c] = "new", slot'[c] = slot[c]
      PROVE  /\ out'[c] = out[c] => SentWell(c)' /\ (out'[c] = << >> <=> state'[c] = "new")
             /\ \A m \in Words : state[c] # "new" /\ out'[c] = Append(out[c], m) =>
                  SentWell(c)' /\ (out'[c] = << >> <=> state'[c] = "new")
             /\ state[c] # "new" /\ Bereaved(c) =>
                  SentWell(c)' /\ (out'[c] = << >> <=> state'[c] = "new")
  <2>1. out[c] = << >> <=> state[c] = "new"
    BY DEF Begun
  <2>2. ASSUME out'[c] = out[c]
        PROVE  SentWell(c)' /\ (out'[c] = << >> <=> state'[c] = "new")
    BY <1>1, <1>3, <2>1, <2>2, SameSentWell
  <2>3. ASSUME NEW m \in Words, state[c] # "new", out'[c] = Append(out[c], m)
        PROVE  SentWell(c)' /\ (out'[c] = << >> <=> state'[c] = "new")
    <3>1. /\ m.type \in {"PlayerReady", "Error"} /\ ~TellsGame(m) /\ ~TellsSuccess(m)
          /\ Means(m, slot'[c], game'.phase)
      BY DEF Words, PlayerReady, TellsGame, TellsSuccess, Means, Shows
    <3>2. SentWell(c)' /\ out'[c] # << >>
      BY <1>1, <1>3, <2>1, <2>3, <3>1, MoreSentWell
    <3> QED
      BY <1>3, <2>3, <3>2
  <2>4. ASSUME state[c] # "new", Bereaved(c)
        PROVE  SentWell(c)' /\ (out'[c] = << >> <=> state'[c] = "new")
    <3>1. CASE out'[c] = Append(out[c], PlayerReady)
      <4>1. PlayerReady \in Words
        BY DEF Words
      <4> QED
        BY <2>3, <2>4, <3>1, <4>1
    <3>2. CASE /\ game.phase = "Elimination" /\ game'.phase = "Finished"
               /\ out'[c] = Append(Append(out[c], OpponentDisconnected), GameEnded)
      <4>1. SentWell(c)'
        BY <1>3, <2>1, <2>4, <3>2, EndSentWell
      <4>2. out'[c] # << >>
        <5>1. out[c] \in Seq(Message)
          BY StreamsTyped
        <5>2. Append(Append(out[c], OpponentDisconnected), GameEnded) # << >>
          BY <5>1, AppendNotEmpty
        <5> QED
          BY <3>2, <5>2
      <4> QED
        BY <1>3, <2>4, <4>1, <4>2
    <3> QED
      BY <1>1, <2>4, <3>1, <3>2 DEF Bereaved
  <2> QED
    BY <2>2, <2>3, <2>4
<1> QED
  BY <1>2, <1>3 DEF QuietStep

LEMMA StartSentWell ==
  ASSUME StreamInv, ServerInv, Begun, StartStep, NEW c \in Clients, SentWell(c)
  PROVE  SentWell(c)' /\ (out'[c] = << >> <=> state'[c] = "new")
<1> DEFINE m == GameStarted(game')
<1>1. Forward(game.phase, game'.phase) /\ game.phase = "WaitingForPlayers"
      /\ game'.phase = "Elimination"
  BY StartPhase DEF Forward
<1>2. m.type = "GameStarted" /\ ~TellsSuccess(m) /\ Means(m, slot'[c], game'.phase)
  BY <1>1 DEF GameStarted, Snapshot, TellsSuccess, Means, Shows
<1>3. Seated(c) => out[c] # << >>
  BY NoClientAssumption DEF Begun, Seated, ServerInv, SeatsMatchSession
<1> HIDE DEF m
<1>4. CASE state'[c] = "open" /\ out'[c] = Append(<<JoinRoom(slot'[c])>>, m)
  <2> DEFINE p == slot'[c]
             S == {JoinRoom(p)}
             s == <<JoinRoom(p)>>
  <2>1. /\ s \in Seq(S) /\ s # << >> /\ InOrder(s, p) /\ InTime(s, p, game.phase)
        /\ \A i \in 1..Len(s) : s[i].type \notin {"GameStarted", "GameEnded"}
    BY FirstSentWell
  <2>2. Append(s, m) # << >>
    BY <2>1, AppendNotEmpty
  <2>3. out'[c] = Append(s, m)
    BY <1>4
  <2> HIDE DEF S, s
  <2>4. SentWell(c)'
    BY <1>1, <1>2, <2>1, <2>3, SentWellNext
  <2> QED
    BY <1>4, <2>2, <2>3, <2>4
<1>5. CASE state'[c] = state[c] /\ slot'[c] = slot[c] /\ ~Seated(c) /\ out'[c] = out[c]
  BY <1>1, <1>5, SameSentWell DEF Begun
<1>6. CASE state'[c] = state[c] /\ slot'[c] = slot[c] /\ Seated(c) /\ out'[c] = Append(out[c], m)
  <2>1. SentWell(c)' /\ out'[c] # << >>
    BY <1>1, <1>2, <1>3, <1>6, MoreSentWell
  <2> QED
    BY <1>3, <1>6, <2>1 DEF Begun
<1> QED
  BY <1>4, <1>5, <1>6 DEF StartStep, m

LEMMA AnswerSentWell ==
  ASSUME StreamInv, ServerInv, Begun, AnswerStep, NEW c \in Clients, SentWell(c),
         game'.phase \in GamePhase
  PROVE  SentWell(c)' /\ (out'[c] = << >> <=> state'[c] = "new")
<1>1. PICK success \in BOOLEAN :
       /\ success => /\ game.phase = "Elimination" /\ Len(log') = Len(log) + 1
                     /\ Passes(game, game')
       /\ ~success => game' = game /\ log' = log
       /\ \A d \in Clients :
            out'[d] = IF Seated(d) THEN Append(out[d], EliminateResult(success, game'))
                      ELSE out[d]
  BY DEF AnswerStep
<1> DEFINE m == EliminateResult(success, game')
<1>2. /\ m.type = "EliminateResult" /\ (TellsSuccess(m) => success)
      /\ Means(m, slot'[c], game'.phase)
  BY <1>1 DEF EliminateResult, Snapshot, TellsSuccess, TellsGame, Means, Shows, Passes
<1>3. Seated(c) => out[c] # << >>
  BY NoClientAssumption DEF Begun, Seated, ServerInv, SeatsMatchSession
<1>4. Forward(game.phase, game'.phase)
  BY <1>1 DEF Forward, Passes
<1>5. state'[c] = state[c] /\ slot'[c] = slot[c] /\ (out[c] = << >> <=> state[c] = "new")
  BY DEF AnswerStep, Begun
<1>6. out'[c] = IF Seated(c) THEN Append(out[c], m) ELSE out[c]
  BY <1>1
<1> HIDE DEF m
<1>7. CASE Seated(c)
  <2>1. SentWell(c)' /\ out'[c] # << >>
    BY <1>1, <1>2, <1>3, <1>4, <1>5, <1>6, <1>7, MoreSentWell
  <2> QED
    BY <1>3, <1>5, <1>7, <2>1
<1>8. CASE ~Seated(c)
  BY <1>4, <1>5, <1>6, <1>8, SameSentWell
<1> QED
  BY <1>7, <1>8

\* The successes of a stream stay as they are.
SuccessKept(c) ==
  /\ SuccessPlaces(out'[c]) = SuccessPlaces(out[c])
  /\ \A i \in SuccessPlaces(out[c]) : out'[c][i] = out[c][i]

\* With no request accepted and no success told, the two still agree.
LEMMA SuccessesStay ==
  ASSUME SuccessPerAcceptedRequest, log' = log, \A c \in Clients : SuccessKept(c),
         \A c \in Clients : Seated(c)' => Seated(c) \/ (SuccessPlaces(out[c]) = {} /\ log = << >>)
  PROVE  SuccessPerAcceptedRequest'
<1> SUFFICES ASSUME NEW c \in Clients
             PROVE  LET places == SuccessPlaces(out'[c])
                    IN  /\ Cardinality(places) <= Len(log')
                        /\ \A i \in places :
                             LET shown    == out'[c][i].game
                                 accepted == log'[Nth(places, i)]
                             IN  shown.turnId = IF shown.winnerPlayerId = NoPlayer
                                                THEN accepted.turnId + 1 ELSE accepted.turnId
                        /\ Seated(c)' => Cardinality(places) = Len(log')
  BY DEF SuccessPerAcceptedRequest
<1>1. SuccessPlaces(out'[c]) = SuccessPlaces(out[c])
      /\ \A i \in SuccessPlaces(out[c]) : out'[c][i] = out[c][i]
  BY DEF SuccessKept
<1> DEFINE places == SuccessPlaces(out[c])
<1>2. /\ Cardinality(places) <= Len(log)
      /\ \A i \in places :
           LET shown    == out[c][i].game
               accepted == log[Nth(places, i)]
           IN  shown.turnId = IF shown.winnerPlayerId = NoPlayer
                              THEN accepted.turnId + 1 ELSE accepted.turnId
      /\ Seated(c) => Cardinality(places) = Len(log)
  BY DEF SuccessPerAcceptedRequest
<1>3. Seated(c)' => Cardinality(places) = Len(log)
  <2>1. CASE Seated(c)
    BY <1>2, <2>1
  <2>2. CASE places = {} /\ log = << >>
    BY <2>2, FS_EmptySet
  <2> QED
    BY <2>1, <2>2
<1> HIDE DEF places
<1> QED
  BY <1>1, <1>2, <1>3 DEF places

\* One request more is accepted, and those seated are told one success more,
\* which shows the turn after it or the winner it made.
LEMMA SuccessesGoOn ==
  ASSUME StreamInv, SuccessPerAcceptedRequest, GoodSession(game, log), GoodSession(game', log'),
         Len(log') = Len(log) + 1, UNCHANGED players,
         \A c \in Clients : IF Seated(c) THEN NewsTold(c, EliminateResult(TRUE, game')) ELSE NewsKept(c)
  PROVE  SuccessPerAcceptedRequest'
<1>1. /\ Len(log) \in Nat /\ \A k \in 1..Len(log) : log[k].turnId = k
      /\ \A k \in 1..Len(log') : log'[k].turnId = k
      /\ Len(log') = IF game'.winnerPlayerId = NoPlayer THEN game'.turnId - 1 ELSE game'.turnId
      /\ game' \in Session
  <2>1. ASSUME NEW g, NEW l, GoodSession(g, l)
        PROVE  /\ Len(l) \in Nat /\ \A k \in 1..Len(l) : l[k].turnId = k
               /\ Len(l) = IF g.winnerPlayerId = NoPlayer THEN g.turnId - 1 ELSE g.turnId
               /\ g \in Session
    <3>1. l \in Seq([playerId : Players, turnId : Nat \ {0}])
      BY <2>1 DEF GoodSession
    <3>2. Len(l) \in Nat
      BY <3>1
    <3>3. \A k \in 1..Len(l) : l[k] = [playerId |-> MoverOf(k), turnId |-> k]
      BY <2>1 DEF GoodSession, LogMatchesTurn
    <3>4. ASSUME NEW k \in 1..Len(l)
          PROVE  l[k].turnId = k
      <4>1. l[k] = [playerId |-> MoverOf(k), turnId |-> k]
        BY <3>3
      <4> QED
        BY <4>1
    <3> QED
      BY <2>1, <3>2, <3>4 DEF GoodSession, LogMatchesTurn
  <2> QED
    BY <2>1
<1> DEFINE m == EliminateResult(TRUE, game')
<1>2. /\ TellsSuccess(m) /\ m.game.turnId = game'.turnId
      /\ m.game.winnerPlayerId = game'.winnerPlayerId
  BY DEF EliminateResult, Snapshot, TellsSuccess
<1>3. ASSUME NEW c \in Clients
      PROVE  LET places == SuccessPlaces(out'[c])
             IN  /\ Cardinality(places) <= Len(log')
                 /\ \A i \in places :
                      LET shown    == out'[c][i].game
                          accepted == log'[Nth(places, i)]
                      IN  shown.turnId = IF shown.winnerPlayerId = NoPlayer
                                         THEN accepted.turnId + 1 ELSE accepted.turnId
                 /\ Seated(c)' => Cardinality(places) = Len(log')
  <2> DEFINE P == SuccessPlaces(out[c])
             Q == SuccessPlaces(out'[c])
             N == Cardinality(P)
             right(i, k) == out'[c][i].game.turnId = IF out'[c][i].game.winnerPlayerId = NoPlayer
                                                     THEN k + 1 ELSE k
  <2>1. out[c] \in Seq(Message)
    BY StreamsTyped
  <2>2. N \in Nat /\ N <= Len(log) /\ (Seated(c) => N = Len(log))
    BY <2>1, PlacesCount DEF SuccessPerAcceptedRequest
  <2>3. Seated(c)' = Seated(c)
    BY DEF Seated
  <2>4. \A i \in P : Nth(P, i) \in 1..N
    BY <2>1, PlacesCount
  <2>5. \A i \in P : out'[c][i] = out[c][i]
    BY DEF NewsTold, NewsKept
  <2>6. \A i \in P : right(i, Nth(P, i))
    <3> SUFFICES ASSUME NEW i \in P
                 PROVE  right(i, Nth(P, i))
      OBVIOUS
    <3>1. Nth(P, i) \in 1..Len(log)
      BY <1>1, <2>2, <2>4
    <3>2. log[Nth(P, i)].turnId = Nth(P, i)
      BY <1>1, <3>1
    <3>3. out[c][i].game.turnId = IF out[c][i].game.winnerPlayerId = NoPlayer
                                  THEN log[Nth(P, i)].turnId + 1 ELSE log[Nth(P, i)].turnId
      BY DEF SuccessPerAcceptedRequest
    <3> QED
      BY <2>5, <3>2, <3>3
  <2> HIDE DEF right
  <2>7. ASSUME \A i \in Q : Nth(Q, i) \in 1..Len(log') /\ right(i, Nth(Q, i))
        PROVE  \A i \in Q : LET shown    == out'[c][i].game
                                accepted == log'[Nth(Q, i)]
                            IN  shown.turnId = IF shown.winnerPlayerId = NoPlayer
                                               THEN accepted.turnId + 1 ELSE accepted.turnId
    <3> SUFFICES ASSUME NEW i \in Q
                 PROVE  LET shown    == out'[c][i].game
                            accepted == log'[Nth(Q, i)]
                        IN  shown.turnId = IF shown.winnerPlayerId = NoPlayer
                                           THEN accepted.turnId + 1 ELSE accepted.turnId
      OBVIOUS
    <3>1. log'[Nth(Q, i)].turnId = Nth(Q, i)
      BY <1>1, <2>7
    <3>2. right(i, Nth(Q, i))
      BY <2>7
    <3> QED
      BY <3>1, <3>2 DEF right
  <2>8. CASE Seated(c)
    <3>1. PICK n \in Nat : /\ P \subseteq 1..n /\ Q = P \cup {n + 1} /\ out'[c][n + 1] = m
      BY <1>2, <2>8 DEF NewsTold
    <3> HIDE DEF P, Q, m
    <3>2. /\ Cardinality(P \cup {n + 1}) = Cardinality(P) + 1
          /\ Nth(P \cup {n + 1}, n + 1) = Cardinality(P) + 1
          /\ \A i \in P : Nth(P \cup {n + 1}, i) = Nth(P, i)
      BY <3>1, CountOneMore, ZenonT(30)
    <3>3. Cardinality(Q) = Len(log') /\ Nth(Q, n + 1) = Len(log')
      BY <2>2, <2>8, <3>1, <3>2
    <3>4. right(n + 1, Len(log'))
      BY <1>1, <1>2, <3>1 DEF right, Session
    <3>5. \A i \in Q : Nth(Q, i) \in 1..Len(log') /\ right(i, Nth(Q, i))
      <4> SUFFICES ASSUME NEW i \in Q
                   PROVE  Nth(Q, i) \in 1..Len(log') /\ right(i, Nth(Q, i))
        OBVIOUS
      <4>1. CASE i = n + 1
        BY <1>1, <3>3, <3>4, <4>1
      <4>2. CASE i \in P
        <5>1. Nth(Q, i) = Nth(P, i)
          BY <3>1, <3>2, <4>2
        <5>2. Nth(P, i) \in 1..N
          BY <2>4, <4>2
        <5> QED
          BY <1>1, <2>2, <2>6, <4>2, <5>1, <5>2
      <4> QED
        BY <3>1, <4>1, <4>2
    <3>6. Cardinality(Q) <= Len(log')
      BY <1>1, <3>3
    <3> QED
      BY <2>7, <3>3, <3>5, <3>6 DEF Q
  <2>9. CASE ~Seated(c)
    <3>1. Q = P
      BY <2>9 DEF NewsKept
    <3> HIDE DEF P, Q
    <3>2. Cardinality(Q) <= Len(log')
      BY <1>1, <2>2, <3>1
    <3>3. \A i \in Q : Nth(Q, i) \in 1..Len(log') /\ right(i, Nth(Q, i))
      <4> SUFFICES ASSUME NEW i \in P
                   PROVE  Nth(P, i) \in 1..Len(log') /\ right(i, Nth(P, i))
        BY <3>1
      <4>1. Nth(P, i) \in 1..N
        BY <2>4
      <4> QED
        BY <1>1, <2>2, <2>6, <4>1
    <3> QED
      BY <2>3, <2>7, <2>9, <3>2, <3>3 DEF Q
  <2> QED
    BY <2>8, <2>9
<1> QED
  BY <1>3 DEF SuccessPerAcceptedRequest

LEMMA HistoryQuiet ==
  ASSUME StreamInv, ServerInv, HistoryInv, QuietStep
  PROVE  HistoryInv'
<1>1. \A c \in Clients : SentWell(c)' /\ (out'[c] = << >> <=> state'[c] = "new")
  BY QuietSentWell DEF HistoryInv, SentWell, StreamsInOrder, ToldInTime
<1>2. Begun' /\ ToldInTime' /\ StreamsInOrder'
  BY <1>1 DEF Begun, ToldInTime, StreamsInOrder, SentWell
<1>3. log' = log /\ game'.phase \in {game.phase, "Finished"}
  BY QuietPhase DEF QuietStep
<1>4. \A c \in Clients : NewsKept(c)
  BY QuietKeeps DEF HistoryInv
<1>5. game.phase = "WaitingForPlayers" =>
        /\ log = << >>
        /\ \A c \in Clients : GamePlaces(out[c]) = {} /\ SuccessPlaces(out[c]) = {}
  BY DEF HistoryInv, ToldInTime, InTime, Means, GamePlaces, SuccessPlaces
<1>6. \A c \in Clients : Seated(c)' => Seated(c) \/ game.phase = "WaitingForPlayers"
  BY DEF QuietStep, Greeted
<1>7. SeatedKnowAll'
  <2> SUFFICES ASSUME NEW c \in Clients, NEW d \in Clients, Seated(c)'
               PROVE  Cardinality(GamePlaces(out'[d])) <= Cardinality(GamePlaces(out'[c]))
    BY DEF SeatedKnowAll
  <2>1. GamePlaces(out'[c]) = GamePlaces(out[c]) /\ GamePlaces(out'[d]) = GamePlaces(out[d])
    BY <1>4 DEF NewsKept
  <2>2. CASE Seated(c)
    BY <2>1, <2>2 DEF HistoryInv, SeatedKnowAll
  <2>3. CASE game.phase = "WaitingForPlayers"
    <3>1. GamePlaces(out'[c]) = {} /\ GamePlaces(out'[d]) = {}
      BY <1>5, <2>1, <2>3
    <3> QED
      BY <3>1, FS_EmptySet
  <2> QED
    BY <1>6, <2>2, <2>3
<1>8. OneHistory'
  <2> SUFFICES ASSUME NEW c \in Clients, NEW d \in Clients,
                      NEW i \in GamePlaces(out'[c]), NEW j \in GamePlaces(out'[d]),
                      Nth(GamePlaces(out'[c]), i) = Nth(GamePlaces(out'[d]), j)
               PROVE  out'[c][i] = out'[d][j]
    BY DEF OneHistory
  <2>1. /\ GamePlaces(out'[c]) = GamePlaces(out[c]) /\ GamePlaces(out'[d]) = GamePlaces(out[d])
        /\ out'[c][i] = out[c][i] /\ out'[d][j] = out[d][j]
    BY <1>4 DEF NewsKept
  <2> QED
    BY <2>1 DEF HistoryInv, OneHistory
<1>9. SuccessPerAcceptedRequest'
  <2>1. \A c \in Clients : SuccessKept(c)
    BY <1>4 DEF NewsKept, SuccessKept
  <2>2. \A c \in Clients : Seated(c)' => Seated(c) \/ (SuccessPlaces(out[c]) = {} /\ log = << >>)
    BY <1>5, <1>6
  <2> QED
    BY <1>3, <2>1, <2>2, SuccessesStay DEF HistoryInv
<1> QED
  BY <1>2, <1>3, <1>7, <1>8, <1>9 DEF HistoryInv

LEMMA HistoryStart ==
  ASSUME StreamInv, ServerInv, HistoryInv, StartStep
  PROVE  HistoryInv'
<1> DEFINE m == GameStarted(game')
<1>1. \A c \in Clients : SentWell(c)' /\ (out'[c] = << >> <=> state'[c] = "new")
  BY StartSentWell DEF HistoryInv, SentWell, StreamsInOrder, ToldInTime
<1>2. Begun' /\ ToldInTime' /\ StreamsInOrder'
  BY <1>1 DEF Begun, ToldInTime, StreamsInOrder, SentWell
<1>3. log' = log /\ game.phase = "WaitingForPlayers" /\ game'.phase = "Elimination"
  BY StartPhase DEF StartStep
<1>4. \A c \in Clients : IF Seated(c)' THEN NewsTold(c, m) ELSE NewsKept(c)
  BY StartTold DEF HistoryInv
<1>5. /\ log = << >>
      /\ \A c \in Clients : GamePlaces(out[c]) = {} /\ SuccessPlaces(out[c]) = {}
  BY <1>3 DEF HistoryInv, ToldInTime, InTime, Means, GamePlaces, SuccessPlaces
<1>6. ~TellsSuccess(m)
  BY DEF GameStarted, TellsSuccess
<1> HIDE DEF m
<1>7. OneHistory' /\ SeatedKnowAll'
  BY <1>4, <1>5, HistoryGoesOn DEF HistoryInv
<1>8. SuccessPerAcceptedRequest'
  <2>1. \A c \in Clients : SuccessKept(c)
    BY <1>4, <1>6 DEF NewsKept, NewsTold, SuccessKept
  <2> QED
    BY <1>3, <1>5, <2>1, SuccessesStay DEF HistoryInv
<1> QED
  BY <1>2, <1>3, <1>7, <1>8 DEF HistoryInv

LEMMA HistoryAnswer ==
  ASSUME StreamInv, ServerInv, ServerInv', HistoryInv, AnswerStep
  PROVE  HistoryInv'
<1>0. game'.phase \in GamePhase
  BY DEF ServerInv, GoodSession, Session
<1>1. \A c \in Clients : SentWell(c)' /\ (out'[c] = << >> <=> state'[c] = "new")
  BY <1>0, AnswerSentWell DEF HistoryInv, SentWell, StreamsInOrder, ToldInTime
<1>2. Begun' /\ ToldInTime' /\ StreamsInOrder'
  BY <1>1 DEF Begun, ToldInTime, StreamsInOrder, SentWell
<1>3. PICK success \in BOOLEAN :
       /\ success => /\ game.phase = "Elimination" /\ Len(log') = Len(log) + 1
                     /\ Passes(game, game')
       /\ ~success => game' = game /\ log' = log
       /\ \A c \in Clients :
            out'[c] = IF Seated(c) THEN Append(out[c], EliminateResult(success, game'))
                      ELSE out[c]
  BY DEF AnswerStep
<1> DEFINE m == EliminateResult(success, game')
<1>4. \A c \in Clients : IF Seated(c) THEN NewsTold(c, m) ELSE NewsKept(c)
  BY <1>3, AnswerTold
<1>5. \A c \in Clients : Seated(c)' = Seated(c)
  BY DEF AnswerStep, Seated
<1>6. OneHistory' /\ SeatedKnowAll'
  <2> HIDE DEF m
  <2> QED
    BY <1>4, <1>5, HistoryGoesOn DEF HistoryInv
<1>7. CASE success
  <2>1. \A c \in Clients : IF Seated(c) THEN NewsTold(c, EliminateResult(TRUE, game')) ELSE NewsKept(c)
    BY <1>4, <1>7
  <2>2. GoodSession(game, log) /\ GoodSession(game', log') /\ UNCHANGED players
    BY DEF ServerInv, AnswerStep
  <2>3. SuccessPerAcceptedRequest'
    BY <1>3, <1>7, <2>1, <2>2, SuccessesGoOn DEF HistoryInv
  <2> QED
    BY <1>2, <1>3, <1>6, <1>7, <2>3 DEF HistoryInv, Passes
<1>8. CASE ~success
  <2>1. ~TellsSuccess(m)
    BY <1>8 DEF EliminateResult, TellsSuccess
  <2>2. \A c \in Clients : SuccessKept(c)
    <3> HIDE DEF m
    <3> QED
      BY <1>4, <2>1 DEF NewsKept, NewsTold, SuccessKept
  <2>3. SuccessPerAcceptedRequest'
    BY <1>3, <1>5, <1>8, <2>2, SuccessesStay DEF HistoryInv
  <2> QED
    BY <1>2, <1>3, <1>6, <1>8, <2>3 DEF HistoryInv
<1> QED
  BY <1>7, <1>8

\* The history of the streams holds in every reachable state.
THEOREM HistoryTrue == Spec => []HistoryInv
<1>1. Init => HistoryInv
  <2> SUFFICES ASSUME Init
               PROVE  HistoryInv
    OBVIOUS
  <2>1. /\ \A c \in Clients : out[c] = << >> /\ state[c] = "new" /\ slot[c] = -1
        /\ log = << >> /\ players = [p \in Players |-> NoClient]
    BY DEF Init, SessionInit
  <2>2. 1..Len(<< >>) = {}
    OBVIOUS
  <2>3. GamePlaces(<< >>) = {} /\ SuccessPlaces(<< >>) = {}
    BY <2>2 DEF GamePlaces, SuccessPlaces
  <2>4. \A c \in Clients : ~Seated(c)
    BY <2>1, NoClientAssumption DEF Seated
  <2>5. Begun /\ ToldInTime /\ SeatedKnowAll
    BY <2>1, <2>2, <2>4 DEF Begun, ToldInTime, InTime, SeatedKnowAll
  <2>6. StreamsInOrder
    BY <2>1, FirstInOrder DEF StreamsInOrder
  <2>7. OneHistory
    BY <2>1, <2>3 DEF OneHistory
  <2>8. SuccessPerAcceptedRequest
    <3>1. Cardinality({}) = 0 /\ Len(<< >>) = 0
      BY FS_EmptySet
    <3>2. \A c \in Clients : SuccessPlaces(out[c]) = {}
      BY <2>1, <2>3
    <3>3. Len(log) = 0
      BY <2>1, <3>1
    <3>4. \A c \in Clients : ~\E i \in SuccessPlaces(out[c]) : TRUE
      BY <3>2
    <3>5. \A c \in Clients : Cardinality(SuccessPlaces(out[c])) <= Len(log)
      <4>1. \A c \in Clients : Cardinality(SuccessPlaces(out[c])) = 0
        BY <3>1, <3>2
      <4> QED
        BY <3>3, <4>1
    <3> QED
      BY <2>4, <3>4, <3>5 DEF SuccessPerAcceptedRequest
  <2> QED
    BY <2>1, <2>5, <2>6, <2>7, <2>8 DEF HistoryInv
<1>2. ServerInv /\ FramesInv /\ ServerInv' /\ StreamInv /\ HistoryInv /\ [Next]_vars => HistoryInv'
  <2> SUFFICES ASSUME ServerInv, FramesInv, ServerInv', StreamInv, HistoryInv, [Next]_vars
               PROVE  HistoryInv'
    OBVIOUS
  <2>1. QuietStep \/ StartStep \/ AnswerStep
    BY StepTells DEF HistoryInv, Begun
  <2> QED
    BY <2>1, HistoryQuiet, HistoryStart, HistoryAnswer
<1> QED
  BY <1>1, <1>2, ServerSafety, StreamsTrue, PTL DEF Spec

\* Whatever happens at the connections, each is told things in an order a
\* client can follow: its seat first, one start, nothing of the game after its
\* end, and no lost opponent without that end.
THEOREM ToldInOrder == Spec => []StreamsInOrder
<1>1. HistoryInv => StreamsInOrder
  BY DEF HistoryInv
<1> QED
  BY <1>1, HistoryTrue, PTL

\* The k-th news of the game is the same for every connection that gets it:
\* broadcasts interleave with losses and refusals, and no two players ever see
\* two histories.
THEOREM OneHistoryForAll == Spec => []OneHistory
<1>1. HistoryInv => OneHistory
  BY DEF HistoryInv
<1> QED
  BY <1>1, HistoryTrue, PTL

\* The successes a connection is told are the accepted requests, one for one
\* and in their order, and whoever is seated has been told them all.
THEOREM SuccessesAnswer == Spec => []SuccessPerAcceptedRequest
<1>1. HistoryInv => SuccessPerAcceptedRequest
  BY DEF HistoryInv
<1> QED
  BY <1>1, HistoryTrue, PTL
-----------------------------------------------------------------------------
(* The boards in a stream.                                                 *)

Counted(g) == g.turnId \in Nat /\ \A p \in Players : g.towerHp[p] \in Nat

\* The snapshot h may be shown after g: no turn back, and no tower repaired.
Later(g, h) == g.turnId <= h.turnId /\ \A p \in Players : h.towerHp[p] <= g.towerHp[p]

Refuses(m) == m.type = "EliminateResult" /\ ~m.success

\* The boards of the stream s come one after the other, none later than g; a
\* success that leaves the game going shows a turn that was not shown before.
MovesOn(s, g) ==
  \A i \in 1..Len(s) : Shows(s[i]) =>
    /\ Counted(s[i].game) /\ Later(s[i].game, g)
    /\ \A j \in 1..Len(s) : i < j /\ Shows(s[j]) =>
         /\ Later(s[i].game, s[j].game)
         /\ TellsSuccess(s[j]) /\ s[j].game.phase = "Elimination" =>
              s[i].game.turnId < s[j].game.turnId

\* The last of the first n messages that shows a board is the i-th.
LastShown(s, n, i) == /\ i \in 1..n /\ Shows(s[i])
                      /\ \A j \in 1..n : i < j => ~Shows(s[j])

NoEnd(s, n) == \A j \in 1..n : s[j].type # "GameEnded"

\* Until the end is told, a refusal shows the board that was shown last.
Repeats(s) ==
  \A i, j \in 1..Len(s) :
    Refuses(s[j]) /\ LastShown(s, j - 1, i) /\ NoEnd(s, j) => s[j].game = s[i].game

\* Until the end is told, the board shown last is the present one.
Current(s, g) ==
  \A i \in 1..Len(s) : LastShown(s, Len(s), i) /\ NoEnd(s, Len(s)) => s[i].game = g

ShowsWell(s, g, seated) == MovesOn(s, g) /\ Repeats(s) /\ (seated => Current(s, g))

\* The inductive invariant of the boards in the streams.
SnapshotsInv == \A c \in Clients : ShowsWell(out[c], Snapshot(game), Seated(c))

LEMMA LongerByOne ==
  ASSUME NEW S, NEW s \in Seq(S), NEW m
  PROVE  LET t == Append(s, m)
         IN  /\ Len(s) \in Nat /\ Len(t) = Len(s) + 1 /\ t[Len(s) + 1] = m
             /\ \A i \in 1..Len(s) : t[i] = s[i]
             /\ \A i \in 1..Len(t) : i \in 1..Len(s) \/ i = Len(s) + 1
<1> DEFINE T == S \cup {m}
<1>1. s \in Seq(T) /\ m \in T
  OBVIOUS
<1> HIDE DEF T
<1> DEFINE t == Append(s, m)
<1>2. /\ Len(s) \in Nat /\ Len(t) = Len(s) + 1 /\ t[Len(s) + 1] = m
      /\ \A i \in 1..Len(s) : t[i] = s[i]
  BY <1>1
<1> HIDE DEF t
<1>3. \A i \in 1..Len(t) : i \in 1..Len(s) \/ i = Len(s) + 1
  BY <1>2
<1> QED
  BY <1>2, <1>3 DEF t

\* A stream without boards shows them well.
LEMMA NothingShown ==
  ASSUME NEW s, NEW g, NEW seated, \A i \in 1..Len(s) : ~Shows(s[i])
  PROVE  ShowsWell(s, g, seated)
<1>1. \A i \in 1..Len(s) : ~Refuses(s[i])
  BY DEF Refuses, Shows
<1> QED
  BY <1>1 DEF ShowsWell, MovesOn, Repeats, Current, LastShown

\* So does a stream that stays as it is while the game moves on; if it is still
\* to show the present board, the game may not.
LEMMA ShownStays ==
  ASSUME NEW s, NEW g, NEW h, NEW seated, NEW still, ShowsWell(s, g, seated),
         Counted(g), Counted(h), Later(g, h), still => seated /\ h = g
  PROVE  ShowsWell(s, h, still)
<1>1. \A f : Counted(f) /\ Later(f, g) => Later(f, h)
  <2> SUFFICES ASSUME NEW f, Counted(f), Later(f, g)
               PROVE  Later(f, h)
    OBVIOUS
  <2>1. f.turnId <= h.turnId
    BY DEF Counted, Later
  <2>2. ASSUME NEW p \in Players
        PROVE  h.towerHp[p] <= f.towerHp[p]
    BY DEF Counted, Later
  <2> QED
    BY <2>1, <2>2 DEF Later
<1>2. MovesOn(s, h)
  BY <1>1 DEF ShowsWell, MovesOn
<1> QED
  BY <1>2 DEF ShowsWell

\* One more message without a board; the end sets the present one free.
LEMMA WordShown ==
  ASSUME NEW S, NEW s \in Seq(S), NEW m, NEW g, NEW seated, NEW told,
         ShowsWell(s, g, seated), ~Shows(m), told => seated \/ m.type = "GameEnded"
  PROVE  ShowsWell(Append(s, m), g, told)
<1> DEFINE t == Append(s, m)
           n == Len(s)
<1>1. /\ n \in Nat /\ Len(t) = n + 1 /\ t[n + 1] = m
      /\ \A i \in 1..n : t[i] = s[i]
      /\ \A i \in 1..n + 1 : i \in 1..n \/ i = n + 1
  BY LongerByOne
<1> HIDE DEF t, n
<1>2. MovesOn(t, g)
  BY <1>1 DEF ShowsWell, MovesOn, n
<1>3. Repeats(t)
  <2> SUFFICES ASSUME NEW i \in 1..n + 1, NEW j \in 1..n + 1,
                      Refuses(t[j]), LastShown(t, j - 1, i), NoEnd(t, j)
               PROVE  t[j].game = t[i].game
    BY <1>1 DEF Repeats
  <2>1. j \in 1..n /\ i \in 1..n
    BY <1>1 DEF Refuses, Shows, LastShown
  <2>2. 1..j \subseteq 1..n /\ 1..(j - 1) \subseteq 1..n
    BY <1>1, <2>1
  <2>3. Refuses(s[j]) /\ LastShown(s, j - 1, i) /\ NoEnd(s, j)
    BY <1>1, <2>1, <2>2 DEF LastShown, NoEnd
  <2> QED
    BY <1>1, <2>1, <2>3 DEF ShowsWell, Repeats, n
<1>4. ASSUME told
      PROVE  Current(t, g)
  <2> SUFFICES ASSUME NEW i \in 1..n + 1, LastShown(t, n + 1, i), NoEnd(t, n + 1)
               PROVE  t[i].game = g
    BY <1>1 DEF Current
  <2>1. i \in 1..n /\ m.type # "GameEnded"
    BY <1>1 DEF LastShown, NoEnd
  <2>2. LastShown(s, n, i) /\ NoEnd(s, n)
    BY <1>1, <2>1 DEF LastShown, NoEnd
  <2> QED
    BY <1>1, <1>4, <2>1, <2>2 DEF ShowsWell, Current, n
<1> QED
  BY <1>2, <1>3, <1>4 DEF ShowsWell, t

\* One more message with the board h, to which the game has come from g.
LEMMA BoardShown ==
  ASSUME NEW S, NEW s \in Seq(S), NEW m, NEW g, NEW h, ShowsWell(s, g, TRUE),
         Shows(m), m.game = h, Counted(g), Counted(h), Later(g, h),
         TellsSuccess(m) /\ h.phase = "Elimination" => g.turnId < h.turnId,
         Refuses(m) => g = h
  PROVE  ShowsWell(Append(s, m), h, TRUE)
<1> DEFINE t == Append(s, m)
           n == Len(s)
<1>1. /\ n \in Nat /\ Len(t) = n + 1 /\ t[n + 1] = m
      /\ \A i \in 1..n : t[i] = s[i]
      /\ \A i \in 1..n + 1 : i \in 1..n \/ i = n + 1
  BY LongerByOne
<1> HIDE DEF t, n
<1>2. MovesOn(s, h)
  <2>1. ShowsWell(s, h, FALSE)
    BY ShownStays
  <2> QED
    BY <2>1 DEF ShowsWell
<1>3. Later(h, h)
  BY DEF Later, Counted
<1>4. ASSUME NEW i \in 1..n, Shows(s[i])
      PROVE  TellsSuccess(m) /\ h.phase = "Elimination" => s[i].game.turnId < h.turnId
  <2>1. Counted(s[i].game) /\ Later(s[i].game, g)
    BY <1>4 DEF ShowsWell, MovesOn, n
  <2> QED
    BY <2>1 DEF Later, Counted
<1>5. MovesOn(t, h)
  <2> SUFFICES ASSUME NEW i \in 1..n + 1, Shows(t[i])
               PROVE  /\ Counted(t[i].game) /\ Later(t[i].game, h)
                      /\ \A j \in 1..n + 1 : i < j /\ Shows(t[j]) =>
                           /\ Later(t[i].game, t[j].game)
                           /\ TellsSuccess(t[j]) /\ t[j].game.phase = "Elimination" =>
                                t[i].game.turnId < t[j].game.turnId
    BY <1>1 DEF MovesOn
  <2>1. CASE i = n + 1
    BY <1>1, <1>3, <2>1
  <2>2. CASE i \in 1..n
    <3>1. t[i] = s[i] /\ Counted(s[i].game) /\ Later(s[i].game, h)
      BY <1>1, <1>2, <2>2 DEF MovesOn, n
    <3>2. ASSUME NEW j \in 1..n + 1, i < j, Shows(t[j])
          PROVE  /\ Later(t[i].game, t[j].game)
                 /\ TellsSuccess(t[j]) /\ t[j].game.phase = "Elimination" =>
                      t[i].game.turnId < t[j].game.turnId
      <4>1. CASE j \in 1..n
        BY <1>1, <1>2, <2>2, <3>1, <3>2, <4>1 DEF MovesOn, n
      <4>2. CASE j = n + 1
        BY <1>1, <1>4, <2>2, <3>1, <4>2
      <4> QED
        BY <1>1, <4>1, <4>2
    <3> QED
      BY <3>1, <3>2
  <2> QED
    BY <1>1, <2>1, <2>2
<1>6. Repeats(t)
  <2> SUFFICES ASSUME NEW i \in 1..n + 1, NEW j \in 1..n + 1,
                      Refuses(t[j]), LastShown(t, j - 1, i), NoEnd(t, j)
               PROVE  t[j].game = t[i].game
    BY <1>1 DEF Repeats
  <2>0. i \in 1..n /\ j \in 1..n + 1 /\ 1..j \subseteq 1..n + 1 /\ 1..(j - 1) \subseteq 1..n
    BY <1>1 DEF LastShown
  <2>1. CASE j \in 1..n
    <3>1. Refuses(s[j]) /\ LastShown(s, j - 1, i) /\ NoEnd(s, j)
      <4>1. 1..j \subseteq 1..n
        BY <1>1, <2>1
      <4> QED
        BY <1>1, <2>0, <2>1, <4>1 DEF LastShown, NoEnd
    <3> QED
      BY <1>1, <2>0, <2>1, <3>1 DEF ShowsWell, Repeats, n
  <2>2. CASE j = n + 1
    <3>1. LastShown(s, n, i) /\ NoEnd(s, n)
      <4>1. j - 1 = n /\ 1..n \subseteq 1..j
        BY <1>1, <2>2
      <4> QED
        BY <1>1, <2>0, <4>1 DEF LastShown, NoEnd
    <3>2. s[i].game = g
      BY <2>0, <3>1 DEF ShowsWell, Current, n
    <3> QED
      BY <1>1, <2>0, <2>2, <3>2
  <2> QED
    BY <1>1, <2>1, <2>2
<1>7. Current(t, h)
  <2> SUFFICES ASSUME NEW i \in 1..n + 1, LastShown(t, n + 1, i)
               PROVE  t[i].game = h
    BY <1>1 DEF Current
  <2>1. i = n + 1
    BY <1>1 DEF LastShown
  <2> QED
    BY <1>1, <2>1
<1> QED
  BY <1>5, <1>6, <1>7 DEF ShowsWell, t

LEMMA SnapshotCounted ==
  ASSUME NEW g \in Session
  PROVE  /\ Counted(Snapshot(g)) /\ Snapshot(g).phase = g.phase
         /\ Snapshot(g).turnId = g.turnId /\ Snapshot(g).towerHp = g.towerHp
BY TowerAssumption DEF Counted, Snapshot, Session

\* Ending or starting the game leaves the rest of what a board shows.
LEMMA PhaseOnly ==
  ASSUME NEW g \in Session, NEW h \in Session, NEW phase,
         Snapshot(h) = Snapshot(g) \/ Snapshot(h) = [Snapshot(g) EXCEPT !.phase = phase]
  PROVE  Counted(Snapshot(g)) /\ Counted(Snapshot(h)) /\ Later(Snapshot(g), Snapshot(h))
<1>1. Counted(Snapshot(g)) /\ Counted(Snapshot(h))
  BY SnapshotCounted
<1>2. /\ Snapshot(h).turnId = Snapshot(g).turnId
      /\ Snapshot(h).towerHp = Snapshot(g).towerHp
  BY DEF Snapshot
<1> HIDE DEF Snapshot
<1> QED
  BY <1>1, <1>2 DEF Later, Counted

LEMMA ShownQuiet ==
  ASSUME ServerInv, ServerInv', StreamInv, SnapshotsInv, QuietStep, NEW c \in Clients
  PROVE  ShowsWell(out'[c], Snapshot(game'), Seated(c)')
<1> DEFINE g == Snapshot(game)
           h == Snapshot(game')
           s == out[c]
<1>1. Counted(g) /\ Counted(h) /\ Later(g, h)
  <2>1. game \in Session /\ game' \in Session
    BY DEF ServerInv, GoodSession
  <2>2. h = g \/ h = [g EXCEPT !.phase = "Finished"]
    BY DEF QuietStep, CutShort
  <2> QED
    BY <2>1, <2>2, PhaseOnly
<1>2. h = g \/ CutShort
  BY DEF QuietStep
<1>3. ShowsWell(s, g, Seated(c)) /\ s \in Seq(Message)
  BY StreamsTyped DEF SnapshotsInv
<1>4. \A m : m = PlayerReady \/ m = OpponentDisconnected \/ m = GameEnded \/ m \in Words
             \/ (\E p : m = JoinRoom(p)) \/ (\E text : m = Error(text)) => ~Shows(m)
  BY DEF PlayerReady, OpponentDisconnected, GameEnded, Words, JoinRoom, Error, Shows
<1>5. CASE Greeted(c)
  <2>1. \A m, n : Len(<<m>>) = 1 /\ <<m>>[1] = m /\ Len(Append(<<m>>, n)) = 2
                  /\ Append(<<m>>, n)[1] = m /\ Append(<<m>>, n)[2] = n
    OBVIOUS
  <2>2. \A i \in 1..Len(out'[c]) : ~Shows(out'[c][i])
    BY <1>4, <1>5, <2>1 DEF Greeted
  <2> QED
    BY <2>2, NothingShown
<1> HIDE DEF s, g, h
<1>6. CASE Seated(c)' => Seated(c)
  <2>1. CASE out'[c] = s /\ (CutShort => ~Seated(c)')
    BY <1>1, <1>2, <1>3, <1>6, <2>1, ShownStays DEF h
  <2>2. ASSUME NEW m, ~Shows(m), ~CutShort, out'[c] = Append(s, m)
        PROVE  ShowsWell(out'[c], h, Seated(c)')
    <3>1. ShowsWell(s, h, Seated(c))
      BY <1>2, <1>3, <2>2
    <3> QED
      BY <1>3, <1>6, <2>2, <3>1, WordShown
  <2>3. CASE CutShort /\ out'[c] = Append(Append(s, OpponentDisconnected), GameEnded)
    <3> DEFINE t == Append(s, OpponentDisconnected)
               S == Message \cup {OpponentDisconnected}
    <3>1. ShowsWell(s, h, FALSE)
      BY <1>1, <1>3, ShownStays
    <3>2. ~Shows(OpponentDisconnected) /\ ~Shows(GameEnded) /\ GameEnded.type = "GameEnded"
      BY <1>4 DEF GameEnded
    <3>3. ShowsWell(t, h, FALSE)
      BY <1>3, <3>1, <3>2, WordShown
    <3>4. t \in Seq(S)
      BY <1>3, AppendNotEmpty
    <3> HIDE DEF t, S
    <3>5. ShowsWell(Append(t, GameEnded), h, Seated(c)')
      BY <3>2, <3>3, <3>4, WordShown
    <3> QED
      BY <2>3, <3>5 DEF t, h
  <2>4. CASE Bereaved(c)
    BY <1>4, <2>2, <2>3, <2>4 DEF Bereaved, s, h
  <2>5. CASE ~CutShort /\ \E m \in Words : out'[c] = Append(s, m)
    BY <1>4, <2>2, <2>5 DEF h
  <2> QED
    BY <1>5, <2>1, <2>4, <2>5 DEF QuietStep, s, h
<1> QED
  BY <1>5, <1>6 DEF QuietStep, h

LEMMA ShownStart ==
  ASSUME ServerInv, ServerInv', StreamInv, SnapshotsInv, StartStep, NEW c \in Clients
  PROVE  ShowsWell(out'[c], Snapshot(game'), Seated(c)')
<1> DEFINE g == Snapshot(game)
           h == Snapshot(game')
           s == out[c]
           m == GameStarted(game')
<1>1. Counted(g) /\ Counted(h) /\ Later(g, h)
  <2>1. game \in Session /\ game' \in Session
    BY DEF ServerInv, GoodSession
  <2>2. h = [g EXCEPT !.phase = "Elimination"]
    BY DEF StartStep
  <2> QED
    BY <2>1, <2>2, PhaseOnly
<1>2. ShowsWell(s, g, Seated(c)) /\ s \in Seq(Message)
  BY StreamsTyped DEF SnapshotsInv
<1>3. Shows(m) /\ m.game = h /\ ~TellsSuccess(m) /\ ~Refuses(m)
  BY DEF GameStarted, Shows, TellsSuccess, Refuses
<1>4. CASE Seated(c)' /\ out'[c] = Append(<<JoinRoom(slot'[c])>>, m)
  <2> DEFINE j == JoinRoom(slot'[c])
             b == <<j>>
             S == {j}
  <2>1. b \in Seq(S) /\ Len(b) = 1 /\ b[1] = j
    OBVIOUS
  <2>2. ~Shows(j)
    BY DEF JoinRoom, Shows
  <2>3. ShowsWell(b, g, TRUE)
    <3>1. \A i \in 1..Len(b) : ~Shows(b[i])
      BY <2>1, <2>2
    <3> HIDE DEF b, g
    <3> QED
      BY <3>1, NothingShown
  <2>4. out'[c] = Append(b, m)
    BY <1>4
  <2> HIDE DEF b, S, m, g, h
  <2>5. ShowsWell(Append(b, m), h, TRUE)
    BY <1>1, <1>3, <2>1, <2>3, BoardShown
  <2> QED
    BY <1>4, <2>4, <2>5 DEF h
<1>5. CASE /\ Seated(c)' = Seated(c)
           /\ out'[c] = IF Seated(c) THEN Append(s, m) ELSE s
  <2> HIDE DEF s, m, g, h
  <2>1. CASE Seated(c)
    <3>1. ShowsWell(s, g, TRUE)
      BY <1>2, <2>1
    <3>2. ShowsWell(Append(s, m), h, TRUE)
      BY <1>1, <1>2, <1>3, <3>1, BoardShown
    <3> QED
      BY <1>5, <2>1, <3>2 DEF h
  <2>2. CASE ~Seated(c)
    <3>1. ShowsWell(s, h, Seated(c)')
      BY <1>1, <1>2, <1>5, <2>2, ShownStays
    <3> QED
      BY <1>5, <2>2, <3>1 DEF h
  <2> QED
    BY <2>1, <2>2
<1> QED
  BY <1>4, <1>5 DEF StartStep

LEMMA ShownAnswer ==
  ASSUME ServerInv, ServerInv', StreamInv, SnapshotsInv, AnswerStep, NEW c \in Clients
  PROVE  ShowsWell(out'[c], Snapshot(game'), Seated(c)')
<1> DEFINE g == Snapshot(game)
           h == Snapshot(game')
           s == out[c]
<1>1. PICK success \in BOOLEAN :
       /\ success => /\ game.phase = "Elimination" /\ Len(log') = Len(log) + 1
                     /\ Passes(game, game')
       /\ ~success => game' = game /\ log' = log
       /\ \A d \in Clients :
            out'[d] = IF Seated(d) THEN Append(out[d], EliminateResult(success, game'))
                      ELSE out[d]
  BY DEF AnswerStep
<1> DEFINE m == EliminateResult(success, game')
<1>2. /\ Counted(g) /\ Counted(h) /\ h.phase = game'.phase
      /\ g.turnId = game.turnId /\ g.towerHp = game.towerHp
      /\ h.turnId = game'.turnId /\ h.towerHp = game'.towerHp
  BY SnapshotCounted DEF ServerInv, GoodSession
<1>3. /\ Later(g, h)
      /\ success /\ h.phase = "Elimination" => g.turnId < h.turnId
      /\ ~success => g = h
  <2> HIDE DEF g, h
  <2>1. CASE success
    BY <1>1, <1>2, <2>1 DEF Passes, Later, Counted
  <2>2. CASE ~success
    <3>1. g = h
      BY <1>1, <2>2 DEF g, h
    <3> QED
      BY <1>2, <2>2, <3>1 DEF Later, Counted
  <2> QED
    BY <2>1, <2>2
<1>4. /\ Shows(m) /\ m.game = h /\ (TellsSuccess(m) => success) /\ (Refuses(m) => ~success)
  BY DEF EliminateResult, Shows, TellsSuccess, Refuses
<1>5. /\ Seated(c)' = Seated(c)
      /\ out'[c] = IF Seated(c) THEN Append(s, m) ELSE s
  BY <1>1 DEF AnswerStep, Seated
<1>6. ShowsWell(s, g, Seated(c)) /\ s \in Seq(Message)
  BY StreamsTyped DEF SnapshotsInv
<1> HIDE DEF s, m, g, h
<1>7. CASE Seated(c)
  <2>1. ShowsWell(s, g, TRUE)
    BY <1>6, <1>7
  <2>2. ShowsWell(Append(s, m), h, TRUE)
    BY <1>2, <1>3, <1>4, <1>6, <2>1, BoardShown
  <2> QED
    BY <1>5, <1>7, <2>2 DEF h
<1>8. CASE ~Seated(c)
  <2>1. ShowsWell(s, h, Seated(c)')
    BY <1>2, <1>3, <1>5, <1>6, <1>8, ShownStays
  <2> QED
    BY <1>5, <1>8, <2>1 DEF h
<1> QED
  BY <1>7, <1>8

\* The boards in the streams are well told in every reachable state.
THEOREM SnapshotsTrue == Spec => []SnapshotsInv
<1>1. Init => SnapshotsInv
  <2> SUFFICES ASSUME Init, NEW c \in Clients
               PROVE  ShowsWell(out[c], Snapshot(game), Seated(c))
    BY DEF SnapshotsInv
  <2>1. out[c] = << >>
    BY DEF Init
  <2>2. \A i \in 1..Len(out[c]) : ~Shows(out[c][i])
    BY <2>1
  <2> QED
    BY <2>2, NothingShown
<1>2. /\ ServerInv /\ FramesInv /\ ServerInv' /\ StreamInv /\ HistoryInv /\ SnapshotsInv
      /\ [Next]_vars
      => SnapshotsInv'
  <2> SUFFICES ASSUME ServerInv, FramesInv, ServerInv', StreamInv, HistoryInv, SnapshotsInv,
                      [Next]_vars, NEW c \in Clients
               PROVE  ShowsWell(out'[c], Snapshot(game'), Seated(c)')
    BY DEF SnapshotsInv
  <2>1. QuietStep \/ StartStep \/ AnswerStep
    BY StepTells DEF HistoryInv, Begun
  <2> QED
    BY <2>1, ShownQuiet, ShownStart, ShownAnswer
<1> QED
  BY <1>1, <1>2, ServerSafety, StreamsTrue, HistoryTrue, PTL DEF Spec
-----------------------------------------------------------------------------
(* Streams only grow.                                                      *)

Extends(t, s) == Len(s) <= Len(t) /\ \A i \in 1..Len(s) : t[i] = s[i]

LEMMA StreamsGrow ==
  ASSUME StreamInv, Begun, QuietStep \/ StartStep \/ AnswerStep, NEW c \in Clients
  PROVE  /\ Len(out[c]) \in Nat /\ Extends(out'[c], out[c])
         /\ state[c] # "new" => slot'[c] = slot[c] /\ state'[c] # "new"
<1> DEFINE s == out[c]
           t == out'[c]
<1>1. s \in Seq(Message)
  BY StreamsTyped
<1> HIDE DEF s, t
<1>2. Len(s) \in Nat
  BY <1>1
<1>3. ASSUME NEW m, t = Append(s, m)
      PROVE  Extends(t, s)
  BY <1>1, <1>2, <1>3, LongerByOne DEF Extends
<1>4. ASSUME NEW m, NEW n, t = Append(Append(s, m), n)
      PROVE  Extends(t, s)
  <2> DEFINE u == Append(s, m)
             S == Message \cup {m}
  <2>1. u \in Seq(S)
    BY <1>1, AppendNotEmpty
  <2>2. Len(u) = Len(s) + 1 /\ \A i \in 1..Len(s) : u[i] = s[i]
    BY <1>1, LongerByOne
  <2> HIDE DEF u, S
  <2>3. Len(Append(u, n)) = Len(u) + 1 /\ \A i \in 1..Len(u) : Append(u, n)[i] = u[i]
    BY <2>1, LongerByOne
  <2>4. t = Append(u, n)
    BY <1>4 DEF u
  <2> QED
    BY <1>2, <2>2, <2>3, <2>4 DEF Extends
<1>5. t = s => Extends(t, s)
  BY <1>2 DEF Extends
<1>6. CASE state[c] = "new" /\ \E m : t = <<m>> \/ \E n : t = Append(<<m>>, n)
  <2>1. s = << >>
    BY <1>6 DEF Begun, s
  <2>2. Len(s) = 0
    BY <2>1
  <2>3. Len(t) \in Nat
    BY <1>6
  <2> QED
    BY <1>2, <1>6, <2>2, <2>3 DEF Extends, s, t
<1>7. CASE QuietStep
  <2>1. CASE Greeted(c)
    BY <1>6, <2>1 DEF Greeted, t
  <2> QED
    BY <1>2, <1>3, <1>4, <1>5, <1>7, <2>1 DEF QuietStep, Bereaved, s, t
<1>8. CASE StartStep
  <2>1. CASE /\ state[c] = "new" /\ state'[c] = "open"
             /\ t = Append(<<JoinRoom(slot'[c])>>, GameStarted(game'))
    BY <1>6, <2>1 DEF s, t
  <2>2. CASE /\ state'[c] = state[c] /\ slot'[c] = slot[c]
             /\ t = IF Seated(c) THEN Append(s, GameStarted(game')) ELSE s
    BY <1>2, <1>3, <1>5, <2>2 DEF s, t
  <2> QED
    BY <1>8, <2>1, <2>2 DEF StartStep, s, t
<1>9. CASE AnswerStep
  BY <1>2, <1>3, <1>5, <1>9 DEF AnswerStep, s, t
<1> QED
  BY <1>7, <1>8, <1>9
=============================================================================
