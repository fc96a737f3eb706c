----------------------------- MODULE GameServer -----------------------------
(***************************************************************************)
(* src/server/GameServer.cpp: the two seats, the connections and their     *)
(* asynchronous reads and writes, around one GameSession.  The server runs *)
(* a single-threaded asio::io_context, so each completion handler is one   *)
(* action; between handlers anything may happen at the other end.          *)
(*                                                                         *)
(* A connection c is a member of Clients.  Its write queue is the part of  *)
(* out[c] after the first written[c] messages: out[c] is everything the    *)
(* server ever handed to send for c.  A frame a peer sends is one of       *)
(* Frames: a request, Garbage (a body that does not parse as one) or       *)
(* BadLength (a header that announces more than MaximumMessageBytes).      *)
(***************************************************************************)
EXTENDS GameSession, FiniteSets

CONSTANTS Clients,    \* the connections that may be made, one object each
          NoClient,   \* an empty std::shared_ptr<ClientSession>
          Frames,     \* what a peer may send
          MaxFrames,  \* bound: frames the peers send in all
          MayStop     \* whether stop may be called

ASSUME NoClientAssumption == NoClient \notin Clients
Garbage == [body |-> "not a request"]
BadLength == [body |-> "longer than MaximumMessageBytes"]

ASSUME FramesAssumption == Frames \subseteq Requests \cup {Garbage, BadLength}
ASSUME MaxFramesAssumption == MaxFrames \in Nat
ASSUME MayStopAssumption == MayStop \in BOOLEAN

VARIABLES players,         \* players_: the connection in each seat
          state,           \* "new" (not accepted yet), "open" or "closed" (disconnected_)
          slot,            \* playerId_ of each connection, -1 without a seat
          reading,         \* the async_read under way: "idle", "header" or "body"
          closeAfterWrite, \* closeAfterWrite_
          out,             \* messages handed to send, in order
          written,         \* how many of them are on the wire
          inbox,           \* frames the peer has sent and the server not yet read
          budget,          \* frames the peers may still send
          gone,            \* the peer has closed, or the link is broken
          stopped          \* stopped_

connectionVars == <<state, slot, reading, closeAfterWrite, out, written>>
peerVars == <<inbox, budget, gone>>
vars == <<game, log, players, connectionVars, peerVars, stopped>>

-----------------------------------------------------------------------------
(* Messages to a client.                                                   *)

JoinRoom(p) == [type |-> "JoinRoom", playerId |-> p]
PlayerReady == [type |-> "PlayerReady"]
OpponentDisconnected == [type |-> "OpponentDisconnected"]
GameEnded == [type |-> "GameEnded"]
Error(text) == [type |-> "Error", text |-> text]

\* What a snapshot of the session shows; the board is abstracted.
Snapshot(g) == [phase |-> g.phase, currentPlayerId |-> g.currentPlayerId,
                turnId |-> g.turnId, winnerPlayerId |-> g.winnerPlayerId,
                towerHp |-> g.towerHp, openingTurnPending |-> g.openingTurnPending]

GameStarted(g) == [type |-> "GameStarted", game |-> Snapshot(g)]
EliminateResult(success, g) == [type |-> "EliminateResult", success |-> success,
                                game |-> Snapshot(g)]

-----------------------------------------------------------------------------
(* Helpers of GameServer and ClientSession.                                *)

IsConnected(c) == state[c] = "open"
Live(seats, p) == seats[p] # NoClient /\ IsConnected(seats[p])

\* The lowest seat without a live connection, -1 when both are taken.
FirstAvailablePlayerSlot ==
  IF ~Live(players, 0) THEN 0 ELSE IF ~Live(players, 1) THEN 1 ELSE -1

\* Mutant: a connection owns the seat it was given, whoever sits there now.
OwnsBySlot(c) == slot[c] \in Players

Owns(c) == slot[c] \in Players /\ players[slot[c]] = c

Pending(c) == written[c] < Len(out[c])

\* broadcast of the messages ms, one after another, to the seats' connections.
Broadcast(queues, seats, ms) ==
  [c \in Clients |-> IF \E p \in Players : seats[p] = c THEN queues[c] \o ms
                     ELSE queues[c]]

\* Mutants: the seat stays taken; the news are told in the other order; the
\* game ends without a word.
SeatsWithoutReset(c) == players

DisconnectNewsSwapped(c) == IF ~Owns(c) \/ game.phase = "Finished" THEN << >>
                            ELSE IF game.phase = "WaitingForPlayers" THEN <<PlayerReady>>
                            ELSE <<GameEnded, OpponentDisconnected>>

DisconnectNewsWithoutEnd(c) == IF ~Owns(c) \/ game.phase = "Finished" THEN << >>
                               ELSE IF game.phase = "WaitingForPlayers" THEN <<PlayerReady>>
                               ELSE <<OpponentDisconnected>>

\* onClientDisconnected frees the seat of a connection that holds one, tells
\* the session, and tells the other player what became of the game.
SeatsWithout(c) == IF Owns(c) THEN [players EXCEPT ![slot[c]] = NoClient] ELSE players

GameWithout(c) == IF Owns(c) THEN MarkPlayerDisconnected(game, slot[c]) ELSE game

DisconnectNews(c) == IF ~Owns(c) \/ game.phase = "Finished" THEN << >>
                     ELSE IF game.phase = "WaitingForPlayers" THEN <<PlayerReady>>
                     ELSE <<OpponentDisconnected, GameEnded>>

\* disconnectOnce.  A body already read stays to be handled (its handler may
\* be queued); any other read fails.
DisconnectOnce(c) ==
  /\ state' = [state EXCEPT ![c] = "closed"]
  /\ players' = SeatsWithout(c)
  /\ game' = GameWithout(c)
  /\ out' = Broadcast(out, SeatsWithout(c), DisconnectNews(c))
  /\ reading' = [reading EXCEPT ![c] = IF @ = "body" THEN @ ELSE "idle"]
  /\ UNCHANGED <<log, slot, closeAfterWrite, stopped>>

-----------------------------------------------------------------------------
(* Accepting.                                                              *)

\* onConnected turns the connection away: sendAndClose, and no read starts.
TurnAway(c, p, message) ==
  /\ out' = [out EXCEPT ![c] = <<message>>]
  /\ closeAfterWrite' = [closeAfterWrite EXCEPT ![c] = TRUE]
  /\ slot' = [slot EXCEPT ![c] = p]
  /\ UNCHANGED <<game, log, players, reading, written>>

\* onConnected seats the connection, and starts the game when both are seated.
Seat(c, p) ==
  LET seats == [players EXCEPT ![p] = c]
      ready == MarkPlayerReady(game, p)
      both  == Live(seats, Opponent(p))
      join  == [out EXCEPT ![c] = <<JoinRoom(p)>>]
  IN  /\ players' = seats
      /\ slot' = [slot EXCEPT ![c] = p]
      /\ reading' = [reading EXCEPT ![c] = "header"]
      /\ game' = IF both THEN Start(ready) ELSE ready
      /\ out' = IF ~both THEN [join EXCEPT ![c] = Append(@, PlayerReady)]
                ELSE IF ~CanStart(ready)
                     THEN Broadcast(join, seats, <<Error("unable to start game")>>)
                ELSE Broadcast(join, seats, <<GameStarted(Start(ready))>>)
      /\ UNCHANGED <<log, closeAfterWrite, written>>

OnConnected(c) ==
  LET p == FirstAvailablePlayerSlot
  IN  /\ ~stopped
      /\ state[c] = "new"
      /\ state' = [state EXCEPT ![c] = "open"]
      /\ \/ p = -1 /\ TurnAway(c, p, Error("RoomFull"))
         \/ p # -1 /\ game.phase = "Finished" /\ TurnAway(c, p, GameEnded)
         \/ p # -1 /\ game.phase # "Finished" /\ Seat(c, p)
      /\ UNCHANGED <<peerVars, stopped>>

-----------------------------------------------------------------------------
(* Reading.                                                                *)

\* The header of the next frame is read: a bad length ends the reading.
ReadHeader(c) ==
  /\ ~stopped /\ IsConnected(c) /\ reading[c] = "header" /\ inbox[c] # << >>
  /\ IF Head(inbox[c]) = BadLength
     THEN /\ inbox' = [inbox EXCEPT ![c] = Tail(@)]
          /\ reading' = [reading EXCEPT ![c] = "idle"]
          /\ closeAfterWrite' = [closeAfterWrite EXCEPT ![c] = TRUE]
          /\ out' = [out EXCEPT ![c] = Append(@, Error("invalid message length"))]
     ELSE /\ reading' = [reading EXCEPT ![c] = "body"]
          /\ UNCHANGED <<inbox, closeAfterWrite, out>>
  /\ UNCHANGED <<game, log, players, state, slot, written, budget, gone, stopped>>

\* Mutants: only the sender hears of a refusal; the result shows the game as
\* it was before the request.
AnswerRefusesAlone(c, request, damage) ==
  /\ Request(request, damage)
  /\ out' = IF Accepts(game, request)
            THEN Broadcast(out, players, <<EliminateResult(TRUE, game')>>)
            ELSE [out EXCEPT ![c] = Append(@, EliminateResult(FALSE, game'))]

AnswerShowsBefore(c, request, damage) ==
  /\ Request(request, damage)
  /\ out' = Broadcast(out, players, <<EliminateResult(Accepts(game, request), game)>>)

\* The session handles the request of c, and both players are told the result.
Answer(c, request, damage) ==
  /\ Request(request, damage)
  /\ out' = Broadcast(out, players, <<EliminateResult(Accepts(game, request), game')>>)

\* onMessage for a connection that has its seat.
OnMessage(c, frame, damage) ==
  IF frame = Garbage
  THEN /\ out' = [out EXCEPT ![c] = Append(@, Error("expected a request"))]
       /\ UNCHANGED <<game, log>>
  ELSE IF frame.playerId # slot[c]
  THEN /\ out' = [out EXCEPT ![c] = Append(@, Error("not your playerId"))]
       /\ UNCHANGED <<game, log>>
  ELSE Answer(c, frame, damage)

\* The body is read: the message is handled and the next header awaited.  The
\* handler may have been queued when the connection closed; then the server no
\* longer owns the connection and the message is dropped.
ReadBody(c, damage) ==
  /\ ~stopped /\ reading[c] = "body"
  /\ inbox' = [inbox EXCEPT ![c] = Tail(@)]
  /\ IF Owns(c) THEN OnMessage(c, Head(inbox[c]), damage) ELSE UNCHANGED <<game, log, out>>
  /\ reading' = [reading EXCEPT ![c] = IF IsConnected(c) THEN "header" ELSE "idle"]
  /\ UNCHANGED <<players, state, slot, closeAfterWrite, written, budget, gone, stopped>>

\* Mutant: a failed read only stops the reading.
ReadFailsSilently(c) ==
  /\ ~stopped /\ IsConnected(c) /\ gone[c] /\ reading[c] # "idle"
  /\ reading' = [reading EXCEPT ![c] = "idle"]
  /\ UNCHANGED <<game, log, players, state, slot, closeAfterWrite, out, stopped, written, peerVars>>

\* A read ends in an error: the peer is gone.
ReadFails(c) ==
  /\ ~stopped /\ IsConnected(c) /\ gone[c] /\ reading[c] # "idle"
  /\ DisconnectOnce(c)
  /\ UNCHANGED <<written, peerVars>>

-----------------------------------------------------------------------------
(* Writing.                                                                *)

\* The front of the queue is on the wire; after the last message a connection
\* that is to close does.
WriteDone(c) ==
  /\ ~stopped /\ IsConnected(c) /\ Pending(c)
  /\ written' = [written EXCEPT ![c] = @ + 1]
  /\ IF written[c] + 1 = Len(out[c]) /\ closeAfterWrite[c]
     THEN DisconnectOnce(c)
     ELSE UNCHANGED <<game, log, players, state, slot, reading, closeAfterWrite, out, stopped>>
  /\ UNCHANGED peerVars

WriteFails(c) ==
  /\ ~stopped /\ IsConnected(c) /\ gone[c] /\ Pending(c)
  /\ DisconnectOnce(c)
  /\ UNCHANGED <<written, peerVars>>

-----------------------------------------------------------------------------
(* Stopping, and the peers.                                                *)

\* stop: seat 0 and then seat 1 are disconnected, so that a player in seat 1 is
\* still handed the news, and no handler runs again.
Stop ==
  LET seated == {c \in Clients : \E p \in Players : players[p] = c}
      first  == IF players[0] # NoClient THEN MarkPlayerDisconnected(game, 0) ELSE game
  IN  /\ MayStop /\ ~stopped
      /\ stopped' = TRUE
      /\ game' = IF players[1] # NoClient THEN MarkPlayerDisconnected(first, 1) ELSE first
      /\ players' = [p \in Players |-> NoClient]
      /\ state' = [c \in Clients |-> IF c \in seated THEN "closed" ELSE state[c]]
      /\ out' = IF players[0] = NoClient THEN out
                ELSE Broadcast(out, SeatsWithout(players[0]), DisconnectNews(players[0]))
      /\ UNCHANGED <<log, slot, reading, closeAfterWrite, written, peerVars>>

PeerSends(c, frame) ==
  /\ ~stopped /\ IsConnected(c) /\ ~gone[c] /\ budget > 0
  /\ inbox' = [inbox EXCEPT ![c] = Append(@, frame)]
  /\ budget' = budget - 1
  /\ UNCHANGED <<game, log, players, connectionVars, gone, stopped>>

PeerLeaves(c) ==
  /\ ~stopped /\ IsConnected(c) /\ ~gone[c]
  /\ gone' = [gone EXCEPT ![c] = TRUE]
  /\ UNCHANGED <<game, log, players, connectionVars, inbox, budget, stopped>>

-----------------------------------------------------------------------------

Init == /\ SessionInit
        /\ players = [p \in Players |-> NoClient]
        /\ state = [c \in Clients |-> "new"]
        /\ slot = [c \in Clients |-> -1]
        /\ reading = [c \in Clients |-> "idle"]
        /\ closeAfterWrite = [c \in Clients |-> FALSE]
        /\ out = [c \in Clients |-> << >>]
        /\ written = [c \in Clients |-> 0]
        /\ inbox = [c \in Clients |-> << >>]
        /\ budget = MaxFrames
        /\ gone = [c \in Clients |-> FALSE]
        /\ stopped = FALSE

Read(c) == \/ ReadHeader(c)
           \/ \E damage \in PossibleDamage(game) : ReadBody(c, damage)
           \/ ReadFails(c)

Write(c) == WriteDone(c) \/ WriteFails(c)

Next == \/ \E c \in Clients : \/ OnConnected(c)
                              \/ Read(c)
                              \/ Write(c)
                              \/ PeerLeaves(c)
                              \/ \E frame \in Frames : PeerSends(c, frame)
        \/ Stop

Spec == Init /\ [][Next]_vars

\* run() keeps dispatching handlers, so an operation that can complete does:
\* what has arrived is read, the peers read what they are sent (both clients
\* loop on receive) or their end fails.  Nobody has to connect, send or leave.
FairSpec == Spec /\ \A c \in Clients : WF_vars(Read(c)) /\ WF_vars(Write(c))
-----------------------------------------------------------------------------
(* Properties.                                                             *)

\* Seats, connections and the session agree.  A seat is held by a live
\* connection that knows its own seat; while the session waits, a player is
\* ready exactly when the seat is taken, and one seat is free; while it plays,
\* both are taken.  So GameServer.cpp:85-92 never fails to start a game, and a
\* player left alone is never in a game that goes on (116-131).
SeatsMatchSession ==
  /\ \A p \in Players : players[p] # NoClient =>
        state[players[p]] = "open" /\ slot[players[p]] = p
  /\ game.phase = "WaitingForPlayers" =>
        /\ \A p \in Players : game.readyPlayers[p] <=> players[p] # NoClient
        /\ \E p \in Players : players[p] = NoClient
  /\ game.phase = "Elimination" => \A p \in Players : players[p] # NoClient

\* A connection that holds a seat.
Seated(c) == \E p \in Players : players[p] = c

\* Where in a stream the game is told: its start and the results since, failed
\* requests included (a request sent into the lobby is refused too, but only
\* to who waits there).
TellsGame(m) == /\ m.type \in {"GameStarted", "EliminateResult"}
                /\ m.game.phase # "WaitingForPlayers"

GamePlaces(stream) == {i \in 1..Len(stream) : TellsGame(stream[i])}

TellsSuccess(m) == m.type = "EliminateResult" /\ m.success

SuccessPlaces(stream) == {i \in 1..Len(stream) : TellsSuccess(stream[i])}

\* The number of the place i among places, from 1.
Nth(places, i) == Cardinality({j \in places : j <= i})

\* What one connection was sent of the game is the beginning of what any other
\* was: the k-th news of both are the same.  No player sees a result the other
\* misses, except past a disconnection, or in another order (broadcast, 133-139).
OneHistory ==
  \A c, d \in Clients : \A i \in GamePlaces(out[c]), j \in GamePlaces(out[d]) :
    Nth(GamePlaces(out[c]), i) = Nth(GamePlaces(out[d]), j) => out[c][i] = out[d][j]

\* The k-th success a player is sent answers the k-th accepted request, and
\* the snapshot in it shows the turn after (or, of the last one, the same
\* turn and a winner); a seated player has been sent one for each.
SuccessPerAcceptedRequest ==
  \A c \in Clients :
    LET places == SuccessPlaces(out[c])
    IN  /\ Cardinality(places) <= Len(log)
        /\ \A i \in places :
             LET shown    == out[c][i].game
                 accepted == log[Nth(places, i)]
             IN  shown.turnId = IF shown.winnerPlayerId = NoPlayer
                                THEN accepted.turnId + 1 ELSE accepted.turnId
        /\ Seated(c) => Cardinality(places) = Len(log)

\* What is sent to a connection makes sense in its order: a seated one (slot p)
\* learns its seat first, so no client shows a game before it knows its
\* playerId; the game starts at most once; after GameEnded come neither a start
\* nor a success; and OpponentDisconnected is followed at once by GameEnded.
InOrder(stream, p) ==
  /\ p \in Players /\ stream # << >> => stream[1] \in {JoinRoom(p), GameEnded}
  /\ \A i, j \in 1..Len(stream) :
       /\ i < j => stream[j].type # "JoinRoom"
       /\ stream[i].type = "GameStarted" /\ stream[j].type = "GameStarted" => i = j
       /\ i < j /\ stream[i].type = "GameEnded" =>
            /\ stream[j].type \notin {"GameStarted", "OpponentDisconnected"}
            /\ ~TellsSuccess(stream[j])
       /\ stream[i].type = "OpponentDisconnected" =>
            i < Len(stream) /\ stream[i + 1].type = "GameEnded"

StreamsInOrder == \A c \in Clients : InOrder(out[c], slot[c])

\* Once the game has started nobody takes a seat: seats only empty, so the
\* players who started are the ones who finish (70-96: a late connection is
\* turned away even when a seat is free).
NoReplacement ==
  [][game.phase # "WaitingForPlayers" =>
       \A p \in Players : players'[p] \in {players[p], NoClient}]_vars

\* A request that was read before its connection closed, and is handled after,
\* changes nothing and is told to nobody (owns, 99-101).
LateRequestIgnored ==
  [][\A c \in Clients : ~IsConnected(c) /\ inbox'[c] # inbox[c] =>
                         UNCHANGED <<game, log, players, out>>]_vars

\* A player whose opponent is lost in a game is told so on the wire, unless
\* its own connection ends or the server stops first. (A finished game, a
\* closed connection and a written message stay so: "again and again" here is
\* "from some time on".)
SurvivorTold ==
  []<>(\A c \in Clients :
         /\ Owns(c) /\ game.phase = "Finished" /\ game.winnerPlayerId = NoPlayer
         /\ IsConnected(c) /\ ~stopped
         => \E i \in 1..written[c] : out[c][i] = GameEnded)

\* A connection whose peer is gone does not hold its seat for ever.
SeatsFreed == []<>(\A c \in Clients : gone[c] => ~Owns(c) \/ stopped)
=============================================================================
