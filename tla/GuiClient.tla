----------------------------- MODULE GuiClient -----------------------------
(***************************************************************************)
(* src/gui: the graphical clients, around the server they play on.  A      *)
(* client is two threads.  The main thread handles the window's events     *)
(* and takes messages from a queue, and it alone touches the game shown    *)
(* and the selected path; the receiver reads the socket and fills the      *)
(* queue.  They share the queue, the flag running_ and the socket.         *)
(*                                                                         *)
(* The connections of Guis end in such a client; of the others the peer    *)
(* is anything, as in GameServer.  Between two messages of one             *)
(* consumeNetworkMessages the code handles no event; the model may, which  *)
(* is the same as the second one having been queued a little later.        *)
(***************************************************************************)
EXTENDS GameServer

CONSTANT Guis   \* the connections that end in a GUI client

ASSUME GuisAssumption == Guis \subseteq Clients

VARIABLES gui,      \* state_ and input_ of each client
          queue,    \* messages_
          running,  \* running_
          receiver, \* the receiver thread: "none", "reading" or "ended"
          received, \* how many of the messages written to it have been read
          main      \* the main thread, see MainStates

guiVars == <<gui, queue, running, receiver, received, main>>
allVars == <<vars, guiVars>>

\* Not started; in the event loop; in sendElimination's catch block; in the
\* loop's last round, the window closed; past the loop; in join; past it.
MainStates == {"off", "running", "failing", "closing", "stopping", "joining", "exited"}

Phases == {"Connecting", "Connected", "WaitingForOpponent", "Playing",
           "GameOver", "Disconnected"}

\* A path may be confirmed from three cells on; longer ones count as three.
MinPath == 3

-----------------------------------------------------------------------------
(* ClientGameState and InputController.                                    *)

\* No board has come yet.
NoBoard == [phase |-> "WaitingForPlayers", currentPlayerId |-> -1, turnId |-> 0,
            winnerPlayerId |-> NoPlayer, towerHp |-> [p \in Players |-> 0],
            openingTurnPending |-> TRUE]

\* drawnOn is the board the first of the selected cells was looked up on,
\* NoBoard without any: cells are compared when they are selected, never later.
NewGui == [phase |-> "Connecting", playerId |-> -1, shown |-> NoBoard,
           requestPending |-> FALSE, path |-> 0, drawnOn |-> NoBoard]

\* Mutant: a request may be sent while one is pending.
CanSelectPending(g) ==
  /\ g.phase = "Playing" /\ g.shown # NoBoard /\ g.playerId >= 0
  /\ g.shown.phase = "Elimination" /\ g.shown.currentPlayerId = g.playerId

CanSelect(g) ==
  /\ g.phase = "Playing" /\ g.shown # NoBoard /\ g.playerId >= 0
  /\ g.shown.phase = "Elimination" /\ g.shown.currentPlayerId = g.playerId
  /\ ~g.requestPending

CanConfirm(g) == CanSelect(g) /\ g.path >= MinPath

ClearPath(g) == [g EXCEPT !.path = 0, !.drawnOn = NoBoard]

\* trySelect a cell that fits the path: its last one again takes it off.
Selections(g) ==
  IF g.path = 0 THEN {[g EXCEPT !.path = 1, !.drawnOn = g.shown]}
  ELSE {[g EXCEPT !.path = IF @ = MinPath THEN @ ELSE @ + 1],
        IF g.path = 1 THEN ClearPath(g) ELSE [g EXCEPT !.path = @ - 1]}

ApplyStarted(g, snapshot) ==
  ClearPath([g EXCEPT !.shown = snapshot, !.requestPending = FALSE, !.phase = "Playing"])

\* Mutants: the path outlives the move; the opponent's moves are not shown.
ApplyResultKeepsPath(g, success, snapshot) ==
  [g EXCEPT !.shown = snapshot, !.requestPending = FALSE,
            !.phase = IF success /\ snapshot.phase = "Finished" THEN "GameOver" ELSE @]

ApplyResultOwn(g, success, snapshot) ==
  IF g.shown.currentPlayerId # g.playerId THEN g
  ELSE ClearPath([g EXCEPT !.shown = snapshot, !.requestPending = FALSE])

\* apply and applyServerResult: only a success clears the path.
ApplyResult(g, success, snapshot) ==
  LET result == [g EXCEPT !.shown = snapshot, !.requestPending = FALSE,
                          !.phase = IF success /\ snapshot.phase = "Finished"
                                    THEN "GameOver" ELSE @]
  IN  IF success THEN ClearPath(result) ELSE result

SetPlayerId(g, p) == [g EXCEPT !.playerId = p,
                               !.phase = IF @ = "Connecting" THEN "Connected" ELSE @]

GameIsOver(g) == ClearPath([g EXCEPT !.phase = "GameOver", !.requestPending = FALSE])

\* Mutant: the case has no break.
WaitForOpponentFallsThrough(g) == GameIsOver(g)

WaitForOpponent(g) == [g EXCEPT !.phase = "WaitingForOpponent"]

\* Mutant: the pending request is forgotten.
ServerLostStillPending(g) == ClearPath([g EXCEPT !.phase = "Disconnected"])

ServerLost(g) == ClearPath([g EXCEPT !.phase = "Disconnected", !.requestPending = FALSE])

\* What the receiver and the sender queue when the connection fails.
NetworkDisconnected == [type |-> "NetworkDisconnected"]

\* handleMessage and handleWireMessage.
HandleMessage(g, m) ==
  CASE m.type = "GameStarted" -> ApplyStarted(g, m.game)
    [] m.type = "EliminateResult" -> ApplyResult(g, m.success, m.game)
    [] m.type = "JoinRoom" -> SetPlayerId(g, m.playerId)
    [] m.type = "PlayerReady" -> WaitForOpponent(g)
    [] m.type \in {"OpponentDisconnected", "GameEnded"} -> GameIsOver(g)
    [] m.type = "Error" -> [g EXCEPT !.requestPending = FALSE,
                                     !.phase = IF m.text = "RoomFull" THEN "GameOver" ELSE @]
    [] m.type = "NetworkDisconnected" -> ServerLost(g)

\* The request of makeRequest: cells chosen on another board may be illegal now.
MakeRequests(g) == [playerId : {g.playerId}, turnId : {g.shown.turnId},
                    legal : IF g.drawnOn = g.shown THEN {TRUE} ELSE BOOLEAN]

-----------------------------------------------------------------------------
(* The socket at the client's end, and the queue.                          *)

\* The connection is over: here, at the server, or in between.
Cut(c) == gone[c] \/ ~IsConnected(c) \/ stopped

\* GameClient::close: the server's next read or write fails.
Close(c) == IF Cut(c) THEN UNCHANGED vars ELSE PeerLeaves(c)

\* Mutant: the last message pushed is the first popped.
PushOnTop(c, m) == [queue EXCEPT ![c] = <<m>> \o @]

Push(c, m) == [queue EXCEPT ![c] = Append(@, m)]


-----------------------------------------------------------------------------
(* The program and its main thread.                                        *)

\* run: the connection is made, the receiver started, or neither.
Launch(c) ==
  /\ main[c] = "off" /\ OnConnected(c)
  /\ main' = [main EXCEPT ![c] = "running"]
  /\ running' = [running EXCEPT ![c] = TRUE]
  /\ receiver' = [receiver EXCEPT ![c] = "reading"]
  /\ gui' = [gui EXCEPT ![c].phase = "Connected"]
  /\ UNCHANGED <<queue, received>>

LaunchFails(c) ==
  /\ main[c] = "off"
  /\ main' = [main EXCEPT ![c] = "running"]
  /\ gui' = [gui EXCEPT ![c].phase = "Disconnected"]
  /\ UNCHANGED <<vars, queue, running, receiver, received>>

\* handleEvents: a cell is clicked; the path is dropped (Escape, the right
\* button or the clear button).
Select(c) ==
  /\ main[c] = "running" /\ CanSelect(gui[c])
  /\ gui' \in {[gui EXCEPT ![c] = g] : g \in Selections(gui[c])}
  /\ UNCHANGED <<vars, queue, running, receiver, received, main>>

Clear(c) ==
  /\ main[c] = "running" /\ gui[c].path > 0
  /\ gui' = [gui EXCEPT ![c] = ClearPath(@)]
  /\ UNCHANGED <<vars, queue, running, receiver, received, main>>

\* The confirm button: the request goes out; or it is written to a connection
\* that is over, and is lost; or the write throws, and the catch block first
\* queues the notice.
Confirm(c) ==
  /\ main[c] = "running" /\ CanConfirm(gui[c])
  /\ gui' = [gui EXCEPT ![c].requestPending = TRUE]
  /\ \/ /\ \E request \in MakeRequests(gui[c]) \cap Frames : PeerSends(c, request)
        /\ UNCHANGED <<queue, main>>
     \/ Cut(c) /\ UNCHANGED <<vars, queue, main>>
     \/ /\ Cut(c) /\ UNCHANGED vars
        /\ queue' = Push(c, NetworkDisconnected)
        /\ main' = [main EXCEPT ![c] = "failing"]
  /\ UNCHANGED <<running, receiver, received>>

\* ... and then gives the connection up.
Abandon(c) ==
  /\ main[c] = "failing" /\ Close(c)
  /\ running' = [running EXCEPT ![c] = FALSE]
  /\ main' = [main EXCEPT ![c] = "running"]
  /\ UNCHANGED <<gui, queue, receiver, received>>

\* consumeNetworkMessages takes a message from the queue.
Consume(c) ==
  /\ main[c] \in {"running", "closing"} /\ queue[c] # << >>
  /\ gui' = [gui EXCEPT ![c] = HandleMessage(@, Head(queue[c]))]
  /\ queue' = [queue EXCEPT ![c] = Tail(@)]
  /\ UNCHANGED <<vars, running, receiver, received, main>>

CloseWindow(c) ==
  /\ main[c] = "running"
  /\ main' = [main EXCEPT ![c] = "closing"]
  /\ UNCHANGED <<vars, gui, queue, running, receiver, received>>

\* The last round ends when the queue is empty.
LeaveLoop(c) ==
  /\ main[c] = "closing" /\ queue[c] = << >>
  /\ main' = [main EXCEPT ![c] = "stopping"]
  /\ UNCHANGED <<vars, gui, queue, running, receiver, received>>

\* Mutant: the flag is lowered and the socket left open.
StopNetworkOpen(c) ==
  /\ main[c] = "stopping"
  /\ running' = [running EXCEPT ![c] = FALSE]
  /\ main' = [main EXCEPT ![c] = "joining"]
  /\ UNCHANGED <<vars, gui, queue, receiver, received>>

\* stop: the socket is closed unless somebody else has lowered the flag.  What
\* the receiver has queued since the last round is never handled.
StopNetwork(c) ==
  /\ main[c] = "stopping"
  /\ IF running[c] THEN Close(c) ELSE UNCHANGED vars
  /\ running' = [running EXCEPT ![c] = FALSE]
  /\ main' = [main EXCEPT ![c] = "joining"]
  /\ UNCHANGED <<gui, queue, receiver, received>>

Join(c) ==
  /\ main[c] = "joining" /\ receiver[c] # "reading"
  /\ main' = [main EXCEPT ![c] = "exited"]
  /\ UNCHANGED <<vars, gui, queue, running, receiver, received>>

-----------------------------------------------------------------------------
(* The receiver thread.                                                    *)

\* receiveOne returns the next message, and handleBody queues it.  What was
\* written before the connection broke may still arrive.
Receive(c) ==
  /\ receiver[c] = "reading" /\ running[c] /\ received[c] < written[c]
  /\ queue' = Push(c, out[c][received[c] + 1])
  /\ received' = [received EXCEPT ![c] = @ + 1]
  /\ UNCHANGED <<vars, gui, running, receiver, main>>

\* receiveOne throws, because the connection is over or the socket closed here;
\* who lowers the flag queues the notice.
ReceiveFails(c) ==
  /\ receiver[c] = "reading" /\ Cut(c)
  /\ queue' = IF running[c] THEN Push(c, NetworkDisconnected) ELSE queue
  /\ running' = [running EXCEPT ![c] = FALSE]
  /\ receiver' = [receiver EXCEPT ![c] = "ended"]
  /\ UNCHANGED <<vars, gui, received, main>>

-----------------------------------------------------------------------------

GuiInit == /\ Init
           /\ gui = [c \in Guis |-> NewGui]
           /\ queue = [c \in Guis |-> << >>]
           /\ running = [c \in Guis |-> FALSE]
           /\ receiver = [c \in Guis |-> "none"]
           /\ received = [c \in Guis |-> 0]
           /\ main = [c \in Guis |-> "off"]

User(c) == \/ Launch(c)
           \/ LaunchFails(c)
           \/ Select(c)
           \/ Clear(c)
           \/ Confirm(c)
           \/ CloseWindow(c)

MainThread(c) == \/ Abandon(c)
                 \/ Consume(c)
                 \/ LeaveLoop(c)
                 \/ StopNetwork(c)
                 \/ Join(c)

ReceiverThread(c) == Receive(c) \/ ReceiveFails(c)

LinkBreaks(c) == PeerLeaves(c) /\ UNCHANGED guiVars

OtherPeer(c) == /\ \/ OnConnected(c)
                   \/ PeerLeaves(c)
                   \/ \E frame \in Frames : PeerSends(c, frame)
                /\ UNCHANGED guiVars

ServerReads(c) == Read(c) /\ UNCHANGED guiVars
ServerWrites(c) == Write(c) /\ UNCHANGED guiVars
ServerStops == Stop /\ UNCHANGED guiVars

GuiNext == \/ \E c \in Guis : \/ User(c)
                              \/ MainThread(c)
                              \/ ReceiverThread(c)
                              \/ LinkBreaks(c)
           \/ \E c \in Clients \ Guis : OtherPeer(c)
           \/ \E c \in Clients : ServerReads(c) \/ ServerWrites(c)
           \/ ServerStops

GuiSpec == GuiInit /\ [][GuiNext]_allVars

\* The main loop never waits (it polls and sleeps a millisecond), the receiver
\* returns from its read when there is something to read or the connection is
\* over, and the server is as fair as in GameServer.  Users owe nothing.
FairGuiSpec == /\ GuiSpec
               /\ \A c \in Guis : WF_allVars(MainThread(c)) /\ WF_allVars(ReceiverThread(c))
               /\ \A c \in Clients : WF_allVars(ServerReads(c)) /\ WF_allVars(ServerWrites(c))
-----------------------------------------------------------------------------
(* Properties.                                                             *)

\* The selected path lies on the board that is shown: whatever was received
\* while the player was drawing, no path is left over from a board that has
\* since collapsed (only a success clears it, InputController.cpp:48-52, and
\* makeRequest does not look at the pieces again, 62-74).
PathOnShownBoard ==
  \A c \in Guis : gui[c].path > 0 => gui[c].drawnOn = gui[c].shown

\* In a match of two GUI clients no request is refused but by a game that has
\* ended: no client sends one twice, out of turn or for an old board, however
\* late it hears of the results (canSelect, ClientGameState.cpp:11-14).
NoRefusal ==
  Guis = Clients =>
    \A c \in Guis : \A i \in 1..Len(out[c]) :
      out[c][i].type = "EliminateResult" /\ ~out[c][i].success
        => out[c][i].game.phase = "Finished"

\* The refusals a client has received, of requests of either player.
Refusals(c) == {i \in 1..received[c] : out[c][i].type = "EliminateResult" /\ ~out[c][i].success}

\* Against any opponent: the requests a client has under way, and the one it
\* may send now, are one and one more for each refusal it has received.  Every
\* result frees the confirm button, the refusal of an opponent's request too
\* (ClientGameState.cpp:48-58, GameServer.cpp:112-113); but nothing else frees
\* it for a turn that has been asked for, although the client hears of its own
\* success and of the turns late and the requests wait at the server.
RequestsRationed ==
  \A c \in Guis :
    Len(inbox[c]) + (IF CanSelect(gui[c]) THEN 1 ELSE 0) <= 1 + Cardinality(Refusals(c))

\* A client says that the game is over only when it is, or when the player has
\* been turned away.
GameOverIsReal ==
  \A c \in Guis : gui[c].phase = "GameOver" => game.phase = "Finished" \/ ~Owns(c)

\* A client never goes back to an earlier turn or to a tower's earlier hit
\* points: it applies the results in the order in which they were made,
\* through the socket, the receiver and the queue.
ShownMovesOn ==
  [][\A c \in Guis :
       gui[c].shown # NoBoard =>
         /\ gui'[c].shown.turnId >= gui[c].shown.turnId
         /\ \A p \in Players : gui'[c].shown.towerHp[p] <= gui[c].shown.towerHp[p]]_allVars

\* A client does not wait for ever with its confirm button dead: its request
\* is answered, or the loss of the server shown, or the program left.
PendingResolved ==
  \A c \in Guis : (main[c] = "running" /\ gui[c].requestPending)
                    ~> (~gui[c].requestPending \/ main[c] = "exited")

\* The join at the end never waits for a receiver whose connection still
\* holds, so that only the server could wake it: whoever lowered the flag has
\* closed the socket or found it broken (NetworkClient.cpp:20-50).
JoinReturns ==
  \A c \in Guis : main[c] = "joining" /\ receiver[c] = "reading" => Cut(c)

\* A client whose connection holds sees every turn the match reaches.
CatchUp ==
  \A c \in Guis, t \in 1..MaxTurn + 1 :
    (Owns(c) /\ game.phase # "WaitingForPlayers" /\ game.turnId = t)
      ~> (gui[c].shown.turnId >= t \/ Cut(c) \/ main[c] # "running")
=============================================================================
