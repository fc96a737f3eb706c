--------------------------- MODULE ConsoleClient ---------------------------
(***************************************************************************)
(* src/client/main.cpp: the console clients, around the server they play   *)
(* on.  A client is three threads around one ClientState and its mutex:    *)
(* the receiver reads the socket and updates the state, the input thread   *)
(* reads lines and sends requests, and the main thread waits for the end.  *)
(* Each critical section is an action.  What is printed is left out.       *)
(*                                                                         *)
(* The connections of Consoles end in such a client; of the others the     *)
(* peer is anything, as in GameServer.                                     *)
(***************************************************************************)
EXTENDS GameServer

CONSTANT Consoles   \* the connections that end in a console client

ASSUME ConsolesAssumption == Consoles \subseteq Clients

\* ClientState and the threads of each client: see NewConsole.
VARIABLE console

consoleVars == <<vars, console>>

ReceiverStates == {"none", "checking", "reading", "stopping", "ended"}
InputStates == {"none", "prompt", "typing", "converted", "sending", "failing", "closing", "ended"}
MainStates == {"off", "waiting", "joining", "exited"}

\* running to turnId are the members under the mutex; receiver, input and main
\* say where the threads are; received counts the messages read; closed, that
\* close has been called; drawnAs, id and turn are the input thread's own: the
\* player the path was converted for, and the request's playerId and turnId.
NewConsole == [running |-> TRUE, started |-> FALSE, gamePhase |-> "WaitingForPlayers",
               playerId |-> -1, currentPlayerId |-> -1, turnId |-> 0,
               receiver |-> "none", received |-> 0,
               input |-> "none", drawnAs |-> -1, id |-> -1, turn |-> 0,
               main |-> "off", closed |-> FALSE]

-----------------------------------------------------------------------------
(* The socket at the client's end.                                         *)

\* The connection is over: here, at the server, or in between.
Cut(c) == gone[c] \/ ~IsConnected(c) \/ stopped

\* GameClient::close, whichever thread calls it first.
Close(c) == IF Cut(c) THEN UNCHANGED vars ELSE PeerLeaves(c)

-----------------------------------------------------------------------------
(* The main thread.                                                        *)

\* main: the connection is made and the two threads are started.
Launch(c) ==
  /\ console[c].main = "off" /\ OnConnected(c)
  /\ console' = [console EXCEPT ![c].main = "waiting", ![c].receiver = "checking",
                                ![c].input = "prompt"]

\* The wait ends when running has been lowered; the socket is closed.
Wake(c) ==
  /\ console[c].main = "waiting" /\ ~console[c].running
  /\ Close(c)
  /\ console' = [console EXCEPT ![c].main = "joining", ![c].closed = TRUE]

\* The receiver is joined and the input thread detached: it ends with the program.
Exit(c) ==
  /\ console[c].main = "joining" /\ console[c].receiver = "ended"
  /\ console' = [console EXCEPT ![c].main = "exited", ![c].input = "ended"]
  /\ UNCHANGED vars

-----------------------------------------------------------------------------
(* The receiver thread.                                                    *)

ShowGame(view, snapshot) ==
  [view EXCEPT !.gamePhase = snapshot.phase, !.turnId = snapshot.turnId,
               !.currentPlayerId = snapshot.currentPlayerId]

\* Mutant: the end of the game is printed and nothing else.
HandleMessageStays(view, m) ==
  CASE m.type = "GameStarted" ->
         [ShowGame(view, m.game) EXCEPT !.started = TRUE, !.receiver = "checking"]
    [] m.type = "EliminateResult" ->
         [ShowGame(view, m.game) EXCEPT !.receiver =
            IF m.game.phase = "Finished" THEN "stopping" ELSE "checking"]
    [] m.type = "JoinRoom" -> [view EXCEPT !.playerId = m.playerId, !.receiver = "checking"]
    [] OTHER -> [view EXCEPT !.receiver = "checking"]

\* handleMessage up to the call of stop, which takes the mutex again.
HandleMessage(view, m) ==
  CASE m.type = "GameStarted" ->
         [ShowGame(view, m.game) EXCEPT !.started = TRUE, !.receiver = "checking"]
    [] m.type = "EliminateResult" ->
         [ShowGame(view, m.game) EXCEPT !.receiver =
            IF m.game.phase = "Finished" THEN "stopping" ELSE "checking"]
    [] m.type = "JoinRoom" -> [view EXCEPT !.playerId = m.playerId, !.receiver = "checking"]
    [] m.type = "GameEnded" -> [view EXCEPT !.receiver = "stopping"]
    [] OTHER -> [view EXCEPT !.receiver = "checking"]

\* The loop's condition.
CheckRunning(c) ==
  /\ console[c].receiver = "checking"
  /\ console' = [console EXCEPT ![c].receiver = IF console[c].running THEN "reading" ELSE "ended"]
  /\ UNCHANGED vars

\* receiveOne returns a message, which may have been written before the
\* connection broke but not after it was closed here.
Receive(c) ==
  LET next == console[c].received + 1
  IN  /\ console[c].receiver = "reading" /\ next <= written[c]
      /\ ~console[c].closed
      /\ console' = [console EXCEPT
           ![c] = [HandleMessage(console[c], out[c][next]) EXCEPT !.received = next]]
      /\ UNCHANGED vars

\* stop: running is lowered and the main thread notified.
ReceiverStops(c) ==
  /\ console[c].receiver = "stopping"
  /\ console' = [console EXCEPT ![c].receiver = "checking", ![c].running = FALSE]
  /\ UNCHANGED vars

\* receiveOne throws: the program is stopped, if it is not already.
ReceiveFails(c) ==
  /\ console[c].receiver = "reading" /\ Cut(c)
  /\ console' = [console EXCEPT ![c].receiver = "ended", ![c].running = FALSE]
  /\ UNCHANGED vars

-----------------------------------------------------------------------------
(* The input thread.                                                       *)

\* The loop's condition; then the thread waits in getline.
Prompt(c) ==
  /\ console[c].input = "prompt"
  /\ console' = [console EXCEPT ![c].input = IF console[c].running THEN "typing" ELSE "ended"]
  /\ UNCHANGED vars

\* quit, or the end of the input: stop and then close.
Quit(c) ==
  /\ console[c].input = "typing"
  /\ console' = [console EXCEPT ![c].input = "closing", ![c].running = FALSE]
  /\ UNCHANGED vars

\* A path that parses is converted with the player id of this critical section.
Convert(c) ==
  /\ console[c].input = "typing"
  /\ console' = [console EXCEPT ![c].input = "converted", ![c].drawnAs = console[c].playerId]
  /\ UNCHANGED vars

\* A line that is no path of the lower half.
Mistype(c) ==
  /\ console[c].input = "typing"
  /\ console' = [console EXCEPT ![c].input = "prompt"]
  /\ UNCHANGED vars

\* The loop's locals are gone, and the next line is awaited.
NextLine(view) == [view EXCEPT !.input = "prompt", !.drawnAs = -1, !.id = -1, !.turn = 0]

MaySubmit(view) == /\ view.started
                   /\ view.gamePhase = "Elimination"
                   /\ view.playerId = view.currentPlayerId

\* Mutant: the request is filled in for whoever has the turn.
CheckAsCurrent(c) ==
  /\ console[c].input = "converted"
  /\ console' = IF console[c].started /\ console[c].gamePhase = "Elimination"
                THEN [console EXCEPT ![c].input = "sending", ![c].turn = console[c].turnId,
                                     ![c].id = console[c].currentPlayerId]
                ELSE [console EXCEPT ![c] = NextLine(@)]
  /\ UNCHANGED vars

\* A second critical section: may it be sent, and as whose request of which turn.
Check(c) ==
  /\ console[c].input = "converted"
  /\ console' = IF MaySubmit(console[c])
                THEN [console EXCEPT ![c].input = "sending", ![c].turn = console[c].turnId,
                                     ![c].id = console[c].playerId]
                ELSE [console EXCEPT ![c] = NextLine(@)]
  /\ UNCHANGED vars

\* The view of player 1 is turned around, every other is the board itself: the
\* lower half of one is not that of the other.
SameView(p, q) == p = 1 <=> q = 1

\* What the server makes of the path: anything, but the wrong half is illegal.
RequestsOf(view) ==
  [playerId : {view.id}, turnId : {view.turn},
   legal : IF SameView(view.drawnAs, view.id) THEN BOOLEAN ELSE {FALSE}]

\* The request goes out; or is written to a connection that is over and lost;
\* or the write throws.
Send(c) ==
  /\ console[c].input = "sending"
  /\ \/ /\ \E request \in RequestsOf(console[c]) \cap Frames : PeerSends(c, request)
        /\ console' = [console EXCEPT ![c] = NextLine(@)]
     \/ /\ Cut(c) /\ UNCHANGED vars
        /\ \/ console' = [console EXCEPT ![c] = NextLine(@)]
           \/ console' = [console EXCEPT ![c] = [NextLine(@) EXCEPT !.input = "failing"]]

\* The catch block stops the program, and then closes the socket.
SendFailed(c) ==
  /\ console[c].input = "failing"
  /\ console' = [console EXCEPT ![c].input = "closing", ![c].running = FALSE]
  /\ UNCHANGED vars

CloseAndReturn(c) ==
  /\ console[c].input = "closing"
  /\ Close(c)
  /\ console' = [console EXCEPT ![c].input = "ended", ![c].closed = TRUE]

-----------------------------------------------------------------------------

ConsoleInit == Init /\ console = [c \in Consoles |-> NewConsole]

MainThread(c) == Wake(c) \/ Exit(c)

ReceiverThread(c) == \/ CheckRunning(c)
                     \/ Receive(c)
                     \/ ReceiverStops(c)
                     \/ ReceiveFails(c)

\* What the input thread does without the user.
InputThread(c) == \/ Prompt(c)
                  \/ Check(c)
                  \/ Send(c)
                  \/ SendFailed(c)
                  \/ CloseAndReturn(c)

User(c) == Launch(c) \/ Quit(c) \/ Convert(c) \/ Mistype(c)

LinkBreaks(c) == PeerLeaves(c) /\ UNCHANGED console

OtherPeer(c) == /\ \/ OnConnected(c)
                   \/ PeerLeaves(c)
                   \/ \E frame \in Frames : PeerSends(c, frame)
                /\ UNCHANGED console

ServerReads(c) == Read(c) /\ UNCHANGED console
ServerWrites(c) == Write(c) /\ UNCHANGED console
ServerStops == Stop /\ UNCHANGED console

ConsoleNext == \/ \E c \in Consoles : \/ User(c)
                                      \/ MainThread(c)
                                      \/ ReceiverThread(c)
                                      \/ InputThread(c)
                                      \/ LinkBreaks(c)
               \/ \E c \in Clients \ Consoles : OtherPeer(c)
               \/ \E c \in Clients : ServerReads(c) \/ ServerWrites(c)
               \/ ServerStops

ConsoleSpec == ConsoleInit /\ [][ConsoleNext]_consoleVars

\* Every thread that is not waiting for the user, the server or another thread
\* goes on, and the server is as fair as in GameServer.  Users owe nothing.
FairConsoleSpec ==
  /\ ConsoleSpec
  /\ \A c \in Consoles : /\ WF_consoleVars(MainThread(c))
                         /\ WF_consoleVars(ReceiverThread(c))
                         /\ WF_consoleVars(InputThread(c))
  /\ \A c \in Clients : WF_consoleVars(ServerReads(c)) /\ WF_consoleVars(ServerWrites(c))
-----------------------------------------------------------------------------
(* Properties.                                                             *)

\* The requests on their way from a client: those the server has not read.
OnTheWay(c) == {inbox[c][i] : i \in 1..Len(inbox[c])}

\* Every request a console client sends bears the number of its own seat and
\* is for a turn of its own that the match has reached, although the number may
\* arrive while the line is typed, and however far the receiver and the server
\* have moved on since it was checked (main.cpp:372-392).  So the server never
\* answers that it does not belong to its sender (GameServer.cpp:107-110).
SentForOwnTurn ==
  \A c \in Consoles : \A request \in OnTheWay(c) :
    /\ request.playerId = slot[c]
    /\ request.turnId \in 1..game.turnId
    /\ MoverOf(request.turnId) = request.playerId

\* The program ends when one of its threads has stopped it, when its connection
\* is over (it was turned away, for one), or when the game it
\* sits in has ended: the news reach the receiver, the main thread is woken,
\* and its join waits for no receiver that nothing wakes (main.cpp:318-425).
ClientEnds ==
  \A c \in Consoles :
    (/\ console[c].main = "waiting"
     /\ ~console[c].running \/ Cut(c) \/ (Owns(c) /\ game.phase = "Finished"))
       ~> console[c].main = "exited"
=============================================================================
