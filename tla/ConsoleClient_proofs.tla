------------------------ MODULE ConsoleClient_proofs ------------------------
(***************************************************************************)
(* For any number of console clients among any connections: to the server  *)
(* they are peers like any other; and although its three threads move      *)
(* between one critical section and the next, a client sends requests      *)
(* under its own number and for its own turns only.                        *)
(***************************************************************************)
EXTENDS ConsoleClient, GameServer_proofs

\* Every step of the composition is a step of the server and its peers, or
\* leaves them alone.
LEMMA ConsoleStepIsServerStep == [ConsoleNext]_consoleVars => [Next]_vars
<1> SUFFICES ASSUME [ConsoleNext]_consoleVars
             PROVE  [Next]_vars
  OBVIOUS
<1>1. CASE UNCHANGED consoleVars
  BY <1>1 DEF consoleVars
<1>2. ASSUME NEW c \in Consoles, User(c) \/ MainThread(c) \/ ReceiverThread(c)
                                 \/ InputThread(c) \/ LinkBreaks(c)
      PROVE  [Next]_vars
  <2>0. c \in Clients
    BY ConsolesAssumption
  <2>1. CASE User(c)
    BY <2>0, <2>1 DEF User, Launch, Quit, Convert, Mistype, Next
  <2>2. CASE MainThread(c)
    BY <2>0, <2>2 DEF MainThread, Wake, Exit, Close, Next
  <2>3. CASE ReceiverThread(c)
    BY <2>3 DEF ReceiverThread, CheckRunning, Receive, ReceiverStops, ReceiveFails
  <2>4. CASE InputThread(c)
    BY <2>0, <2>4 DEF InputThread, Prompt, Check, Send, SendFailed, CloseAndReturn, Close, Next
  <2>5. CASE LinkBreaks(c)
    BY <2>0, <2>5 DEF LinkBreaks, Next
  <2> QED
    BY <1>2, <2>1, <2>2, <2>3, <2>4, <2>5
<1>3. ASSUME NEW c \in Clients, OtherPeer(c) \/ ServerReads(c) \/ ServerWrites(c)
      PROVE  [Next]_vars
  BY <1>3 DEF OtherPeer, ServerReads, ServerWrites, Next
<1>4. CASE ServerStops
  BY <1>4 DEF ServerStops, Next
<1> QED
  BY <1>1, <1>2, <1>3, <1>4 DEF ConsoleNext

\* Console clients are peers of the server: the composition implements GameServer.
THEOREM ConsolesArePeers == ConsoleSpec => Spec
<1>1. ConsoleInit => Init
  BY DEF ConsoleInit
<1> QED
  BY <1>1, ConsoleStepIsServerStep, PTL DEF ConsoleSpec, Spec

-----------------------------------------------------------------------------
(* The invariant of a client, of whatever it is made of: its view v, its   *)
(* seat s, whether its connection is new, its unread frames and the turn t *)
(* the match has reached.                                                  *)

View == [running : BOOLEAN, started : BOOLEAN, gamePhase : GamePhase,
         playerId : Players \cup {-1}, currentPlayerId : Players \cup {-1}, turnId : Nat,
         receiver : ReceiverStates, received : Nat,
         input : InputStates, drawnAs : Players \cup {-1}, id : Players \cup {-1}, turn : Nat,
         main : MainStates, closed : BOOLEAN]

\* Turn n, which is p's, has been reached.
Reached(n, p, t) == n \in 1..t /\ p = MoverOf(n)

OwnRequests(s, t) == {r \in Requests : r.playerId = s /\ Reached(r.turnId, s, t)}

ViewInv(v, s, new, frames, t) ==
  /\ v \in View
  /\ v.main = "off" <=> new
  /\ new => v = NewConsole /\ frames = << >>
  /\ v.playerId \in {-1, s}
  /\ v.started => Reached(v.turnId, v.currentPlayerId, t)
  /\ v.input = "sending" => v.id = s /\ Reached(v.turn, s, t)
  /\ frames \in Seq(OwnRequests(s, t))

ConsoleInv ==
  /\ console = [c \in Consoles |-> console[c]]
  /\ \A c \in Consoles :
       ViewInv(console[c], slot[c], state[c] = "new", inbox[c], game.turnId)

\* Later turns leave it true, and so does reading a frame.
LEMMA ViewInvLasts ==
  ASSUME NEW v, NEW s, NEW new \in BOOLEAN, NEW frames, NEW t \in Nat, NEW u \in Nat, t <= u,
         ViewInv(v, s, new, frames, t)
  PROVE  /\ ViewInv(v, s, new, frames, u)
         /\ frames # << >> => ViewInv(v, s, new, Tail(frames), u)
<1>1. OwnRequests(s, t) \subseteq OwnRequests(s, u)
  BY DEF OwnRequests, Reached
<1> DEFINE S == OwnRequests(s, t)
           T == OwnRequests(s, u)
<1>2. S \subseteq T /\ frames \in Seq(S)
  BY <1>1 DEF ViewInv
<1> HIDE DEF S, T
<1>3. frames \in Seq(T) /\ (frames # << >> => Tail(frames) \in Seq(T))
  BY <1>2
<1>4. frames \in Seq(OwnRequests(s, u))
      /\ (frames # << >> => Tail(frames) \in Seq(OwnRequests(s, u)))
  BY <1>3 DEF T
<1> QED
  BY <1>4 DEF ViewInv, Reached

\* The connection of d is neither made nor seated, and nothing is sent on it.
Quiet(d) == /\ slot'[d] = slot[d]
            /\ state'[d] = "new" <=> state[d] = "new"
            /\ inbox'[d] = inbox[d] \/ (inbox[d] # << >> /\ inbox'[d] = Tail(inbox[d]))

\* What the server does, and who leaves, is quiet for everybody; who connects
\* and who sends, for the others.
LEMMA QuietSteps ==
  ASSUME ServerInv, FramesInv, NEW d \in Clients
  PROVE  /\ UNCHANGED vars => Quiet(d)
         /\ \A e \in Clients : Read(e) \/ Write(e) \/ PeerLeaves(e) => Quiet(d)
         /\ Stop => Quiet(d)
         /\ \A e \in Clients \ {d} : OnConnected(e) => Quiet(d)
         /\ \A e \in Clients \ {d} : \A frame : PeerSends(e, frame) => Quiet(d)
<1>1. UNCHANGED vars => Quiet(d)
  BY DEF vars, connectionVars, peerVars, Quiet
<1>2. /\ state \in [Clients -> {"new", "open", "closed"}] /\ slot \in [Clients -> {-1, 0, 1}]
      /\ inbox \in [Clients -> Seq(Frames)]
  BY DEF ServerInv, FramesInv
<1>3. ASSUME NEW e \in Clients, Read(e) \/ Write(e) \/ PeerLeaves(e)
      PROVE  Quiet(d)
  <2>1. slot' = slot
    BY <1>3 DEF Read, Write, ReadHeader, ReadBody, ReadFails, WriteDone, WriteFails,
                DisconnectOnce, PeerLeaves, connectionVars
  <2>2. state' = state \/ (state[e] = "open" /\ state' = [state EXCEPT ![e] = "closed"])
    BY <1>3 DEF Read, Write, ReadHeader, ReadBody, ReadFails, WriteDone, WriteFails,
                DisconnectOnce, PeerLeaves, connectionVars, IsConnected
  <2>3. inbox' = inbox \/ (inbox[e] # << >> /\ inbox' = [inbox EXCEPT ![e] = Tail(@)])
    BY <1>3 DEF Read, Write, ReadHeader, ReadBody, ReadFails, WriteDone, WriteFails,
                PeerLeaves, peerVars, FramesInv
  <2> QED
    BY <1>2, <2>1, <2>2, <2>3 DEF Quiet
<1>4. ASSUME Stop
      PROVE  Quiet(d)
  <2>1. slot' = slot /\ inbox' = inbox
    BY <1>4 DEF Stop, peerVars
  <2>2. state'[d] = state[d] \/ (state'[d] = "closed" /\ \E p \in Players : players[p] = d)
    BY <1>4 DEF Stop
  <2>3. (\E p \in Players : players[p] = d) => state[d] = "open"
    BY NoClientAssumption DEF ServerInv, SeatsMatchSession
  <2> QED
    BY <2>1, <2>2, <2>3 DEF Quiet
<1>5. ASSUME NEW e \in Clients \ {d}, OnConnected(e)
      PROVE  Quiet(d)
  BY <1>2, <1>5 DEF OnConnected, TurnAway, Seat, peerVars, Quiet
<1>6. ASSUME NEW e \in Clients \ {d}, NEW frame, PeerSends(e, frame)
      PROVE  Quiet(d)
  BY <1>2, <1>6 DEF PeerSends, connectionVars, Quiet
<1> QED
  BY <1>1, <1>3, <1>4, <1>5, <1>6

Inv(d) == ViewInv(console[d], slot[d], state[d] = "new", inbox[d], game.turnId)

\* Whoever acts, a client that does not keeps its invariant.
LEMMA OthersLast ==
  ASSUME ConsoleInv, ServerInv, [Next]_vars, NEW d \in Consoles,
         Quiet(d), console'[d] = console[d]
  PROVE  Inv(d)'
<1>1. game.turnId \in Nat /\ (game.turnId)' \in Nat /\ game.turnId <= (game.turnId)'
  BY TurnGrows
<1>2. ViewInv(console[d], slot[d], state[d] = "new", inbox[d], game.turnId)
  BY DEF ConsoleInv
<1>3. /\ ViewInv(console[d], slot[d], state[d] = "new", inbox[d], (game.turnId)')
      /\ inbox[d] # << >> =>
           ViewInv(console[d], slot[d], state[d] = "new", Tail(inbox[d]), (game.turnId)')
  BY <1>1, <1>2, ViewInvLasts
<1> QED
  BY <1>3 DEF Quiet, Inv

\* A thread may go on, and stop the client, and choose what the input thread
\* is to send, if that is its own request; it keeps the invariant.
LEMMA ThreadKeeps ==
  ASSUME ConsoleInv, NEW c \in Consoles, NEW w \in View, state[c] # "new",
         UNCHANGED <<slot, inbox, game>>, state'[c] # "new",
         console' = [console EXCEPT ![c] = w], w.main # "off",
         w.playerId = console[c].playerId, w.started = console[c].started,
         w.turnId = console[c].turnId, w.currentPlayerId = console[c].currentPlayerId,
         w.input = "sending" => w.id = slot[c] /\ Reached(w.turn, slot[c], game.turnId)
  PROVE  Inv(c)'
<1>1. console'[c] = w
  BY DEF ConsoleInv
<1>2. ViewInv(w, slot[c], FALSE, inbox[c], game.turnId)
  BY DEF ConsoleInv, ViewInv
<1> QED
  BY <1>1, <1>2 DEF Inv

\* A client whose threads run has a connection.
LEMMA Running ==
  ASSUME ConsoleInv, NEW c \in Consoles,
         console[c].main \notin {"off"} \/ console[c].receiver # "none" \/ console[c].input # "none"
  PROVE  console[c] \in View /\ state[c] # "new" /\ console[c].main # "off"
BY DEF ConsoleInv, ViewInv, NewConsole

LEMMA CloseKeeps ==
  ASSUME NEW c \in Clients, Close(c) \/ UNCHANGED vars
  PROVE  UNCHANGED <<slot, inbox, game, state>>
BY DEF Close, PeerLeaves, vars, connectionVars, peerVars

\* The main thread, and the receiver between two messages.
LEMMA MainKeeps ==
  ASSUME ConsoleInv, NEW c \in Consoles,
         MainThread(c) \/ CheckRunning(c) \/ ReceiverStops(c) \/ ReceiveFails(c)
  PROVE  Inv(c)'
<1> DEFINE v == console[c]
<1>0. c \in Clients
  BY ConsolesAssumption
<1>1. v \in View /\ state[c] # "new" /\ v.main # "off"
  BY Running DEF MainThread, Wake, Exit, CheckRunning, ReceiverStops, ReceiveFails
<1>2. UNCHANGED <<slot, inbox, game, state>>
  BY <1>0, CloseKeeps DEF MainThread, Wake, Exit, CheckRunning, ReceiverStops, ReceiveFails
<1>3. v.input = "sending" => v.id = slot[c] /\ Reached(v.turn, slot[c], game.turnId)
  BY DEF ConsoleInv, ViewInv
<1>4. ASSUME NEW w \in View, console' = [console EXCEPT ![c] = w], w.main # "off",
             w.playerId = v.playerId, w.started = v.started, w.turnId = v.turnId,
             w.currentPlayerId = v.currentPlayerId, w.id = v.id, w.turn = v.turn,
             w.input = v.input \/ w.input # "sending"
      PROVE  Inv(c)'
  BY <1>1, <1>2, <1>3, <1>4, ThreadKeeps
<1>5. CASE Wake(c)
  <2> DEFINE w == [v EXCEPT !.main = "joining", !.closed = TRUE]
  <2>1. w \in View
    BY <1>1 DEF View, MainStates
  <2>2. console' = [console EXCEPT ![c] = w]
    BY <1>5 DEF Wake
  <2> QED
    BY <1>1, <1>4, <2>1, <2>2 DEF View
<1>6. CASE Exit(c)
  <2> DEFINE w == [v EXCEPT !.main = "exited", !.input = "ended"]
  <2>1. w \in View
    BY <1>1 DEF View, MainStates, InputStates
  <2>2. console' = [console EXCEPT ![c] = w]
    BY <1>6 DEF Exit
  <2> QED
    BY <1>1, <1>4, <2>1, <2>2 DEF View
<1>7. CASE CheckRunning(c)
  <2> DEFINE w == [v EXCEPT !.receiver = IF v.running THEN "reading" ELSE "ended"]
  <2>1. w \in View
    BY <1>1 DEF View, ReceiverStates
  <2>2. console' = [console EXCEPT ![c] = w]
    BY <1>7 DEF CheckRunning
  <2> QED
    BY <1>1, <1>4, <2>1, <2>2 DEF View
<1>8. CASE ReceiverStops(c)
  <2> DEFINE w == [v EXCEPT !.receiver = "checking", !.running = FALSE]
  <2>1. w \in View
    BY <1>1 DEF View, ReceiverStates
  <2>2. console' = [console EXCEPT ![c] = w]
    BY <1>8 DEF ReceiverStops
  <2> QED
    BY <1>1, <1>4, <2>1, <2>2 DEF View
<1>9. CASE ReceiveFails(c)
  <2> DEFINE w == [v EXCEPT !.receiver = "ended", !.running = FALSE]
  <2>1. w \in View
    BY <1>1 DEF View, ReceiverStates
  <2>2. console' = [console EXCEPT ![c] = w]
    BY <1>9 DEF ReceiveFails
  <2> QED
    BY <1>1, <1>4, <2>1, <2>2 DEF View
<1> QED
  BY <1>5, <1>6, <1>7, <1>8, <1>9 DEF MainThread

\* The input thread, but for what it sends: the player it asks for the turn is
\* the one whose turn it is.
LEMMA InputKeeps ==
  ASSUME ConsoleInv, game.turnId \in Nat, NEW c \in Consoles,
         \/ Prompt(c) \/ Quit(c) \/ Convert(c) \/ Mistype(c)
         \/ Check(c) \/ SendFailed(c) \/ CloseAndReturn(c)
         \/ Send(c) /\ UNCHANGED vars
  PROVE  Inv(c)'
<1> DEFINE v == console[c]
<1>0. c \in Clients
  BY ConsolesAssumption
<1>1. v \in View /\ state[c] # "new" /\ v.main # "off"
  BY Running DEF Prompt, Quit, Convert, Mistype, Check, SendFailed, CloseAndReturn, Send
<1>2. UNCHANGED <<slot, inbox, game, state>>
  BY <1>0, CloseKeeps
     DEF Prompt, Quit, Convert, Mistype, Check, SendFailed, CloseAndReturn
<1>3. ASSUME NEW w \in View, console' = [console EXCEPT ![c] = w], w.main = v.main,
             w.playerId = v.playerId, w.started = v.started, w.turnId = v.turnId,
             w.currentPlayerId = v.currentPlayerId,
             w.input = "sending" => w.id = slot[c] /\ Reached(w.turn, slot[c], game.turnId)
      PROVE  Inv(c)'
  BY <1>1, <1>2, <1>3, ThreadKeeps
<1>4. NextLine(v) \in View /\ NextLine(v).input = "prompt" /\ NextLine(v).main = v.main
      /\ NextLine(v).playerId = v.playerId /\ NextLine(v).started = v.started
      /\ NextLine(v).turnId = v.turnId /\ NextLine(v).currentPlayerId = v.currentPlayerId
  BY <1>1 DEF NextLine, View, InputStates
<1>5. CASE console' = [console EXCEPT ![c] = NextLine(v)]
  BY <1>3, <1>4, <1>5
<1>6. CASE Prompt(c)
  <2> DEFINE w == [v EXCEPT !.input = IF v.running THEN "typing" ELSE "ended"]
  <2>1. w \in View
    BY <1>1 DEF View, InputStates
  <2>2. console' = [console EXCEPT ![c] = w]
    BY <1>6 DEF Prompt
  <2> QED
    BY <1>1, <1>3, <2>1, <2>2 DEF View
<1>7. CASE Quit(c) \/ SendFailed(c)
  <2> DEFINE w == [v EXCEPT !.input = "closing", !.running = FALSE]
  <2>1. w \in View
    BY <1>1 DEF View, InputStates
  <2>2. console' = [console EXCEPT ![c] = w]
    BY <1>7 DEF Quit, SendFailed
  <2> QED
    BY <1>1, <1>3, <2>1, <2>2 DEF View
<1>8. CASE Convert(c)
  <2> DEFINE w == [v EXCEPT !.input = "converted", !.drawnAs = v.playerId]
  <2>1. w \in View
    BY <1>1 DEF View, InputStates
  <2>2. console' = [console EXCEPT ![c] = w]
    BY <1>8 DEF Convert
  <2> QED
    BY <1>1, <1>3, <2>1, <2>2 DEF View
<1>9. CASE Mistype(c)
  <2> DEFINE w == [v EXCEPT !.input = "prompt"]
  <2>1. w \in View
    BY <1>1 DEF View, InputStates
  <2>2. console' = [console EXCEPT ![c] = w]
    BY <1>9 DEF Mistype
  <2> QED
    BY <1>1, <1>3, <2>1, <2>2 DEF View
<1>10. CASE CloseAndReturn(c)
  <2> DEFINE w == [v EXCEPT !.input = "ended", !.closed = TRUE]
  <2>1. w \in View
    BY <1>1 DEF View, InputStates
  <2>2. console' = [console EXCEPT ![c] = w]
    BY <1>10 DEF CloseAndReturn
  <2> QED
    BY <1>1, <1>3, <2>1, <2>2 DEF View
<1>11. CASE Check(c) /\ MaySubmit(v)
  <2> DEFINE w == [v EXCEPT !.input = "sending", !.turn = v.turnId, !.id = v.playerId]
  <2>1. w \in View
    BY <1>1 DEF View, InputStates
  <2>2. console' = [console EXCEPT ![c] = w]
    BY <1>11 DEF Check
  <2>3. v.playerId \in {-1, slot[c]} /\ Reached(v.turnId, v.playerId, game.turnId)
    BY <1>11 DEF MaySubmit, ConsoleInv, ViewInv
  <2>4. v.playerId \in Players
    <3>1. v.turnId \in Nat
      BY <1>1 DEF View
    <3> QED
      BY <2>3, <3>1, FirstPlayerAssumption DEF Reached, MoverOf, Opponent, Players
  <2>5. v.playerId = slot[c]
    BY <2>3, <2>4 DEF Players
  <2> QED
    BY <1>1, <1>3, <2>1, <2>2, <2>3, <2>5 DEF View
<1>12. CASE Send(c) /\ UNCHANGED vars
  <2> DEFINE w == [NextLine(v) EXCEPT !.input = "failing"]
  <2>1. w \in View
    BY <1>4 DEF View, InputStates
  <2>2. w.input = "failing" /\ w.main = v.main /\ w.playerId = v.playerId
        /\ w.started = v.started /\ w.turnId = v.turnId /\ w.currentPlayerId = v.currentPlayerId
    BY <1>4 DEF View
  <2>3. CASE console' = [console EXCEPT ![c] = w]
    BY <1>3, <2>1, <2>2, <2>3
  <2> QED
    BY <1>5, <1>12, <2>3 DEF Send
<1> QED
  BY <1>5, <1>6, <1>7, <1>8, <1>9, <1>10, <1>11, <1>12 DEF Check

\* The request that goes out is the client's own.
LEMMA SendKeeps ==
  ASSUME ConsoleInv, FramesInv, NEW c \in Consoles, Send(c)
  PROVE  UNCHANGED vars \/ Inv(c)'
<1> DEFINE v == console[c]
           S == OwnRequests(slot[c], game.turnId)
<1>0. c \in Clients
  BY ConsolesAssumption
<1>1. SUFFICES ASSUME NEW request \in RequestsOf(v) \cap Frames, PeerSends(c, request),
                      console' = [console EXCEPT ![c] = NextLine(v)]
               PROVE  Inv(c)'
  BY DEF Send
<1>2. ViewInv(v, slot[c], state[c] = "new", inbox[c], game.turnId)
  BY DEF ConsoleInv
<1>3. v \in View /\ v.input = "sending" /\ v.main # "off" /\ state[c] # "new"
  BY Running DEF Send
<1>4. v.id = slot[c] /\ Reached(v.turn, slot[c], game.turnId)
  BY <1>2, <1>3 DEF ViewInv
<1>5. request \in S
  <2>1. request.playerId = slot[c] /\ request.turnId = v.turn
    BY <1>4 DEF RequestsOf
  <2>2. "playerId" \in DOMAIN request /\ "playerId" \notin DOMAIN Garbage
        /\ "playerId" \notin DOMAIN BadLength
    BY DEF RequestsOf, Garbage, BadLength
  <2>3. request \in Requests
    BY <2>2, FramesAssumption
  <2> QED
    BY <1>4, <2>1, <2>3 DEF OwnRequests
<1>6. inbox[c] \in Seq(S)
  BY <1>2 DEF ViewInv
<1>7. Append(inbox[c], request) \in Seq(S)
  <2> HIDE DEF S
  <2> QED
    BY <1>5, <1>6
<1>8. UNCHANGED <<slot, state, game>> /\ inbox' = [inbox EXCEPT ![c] = Append(@, request)]
  BY <1>1 DEF PeerSends, connectionVars
<1>9. inbox'[c] = Append(inbox[c], request)
  BY <1>0, <1>8 DEF FramesInv
<1>10. console'[c] = NextLine(v)
  BY <1>1 DEF ConsoleInv
<1>11. /\ NextLine(v) \in View /\ NextLine(v).input = "prompt"
       /\ NextLine(v).main = v.main /\ NextLine(v).playerId = v.playerId
       /\ NextLine(v).started = v.started /\ NextLine(v).turnId = v.turnId
       /\ NextLine(v).currentPlayerId = v.currentPlayerId
  BY <1>3 DEF NextLine, View, InputStates
<1>12. ViewInv(NextLine(v), slot[c], FALSE, Append(inbox[c], request), game.turnId)
  BY <1>2, <1>3, <1>7, <1>11 DEF ViewInv
<1> QED
  BY <1>3, <1>8, <1>9, <1>10, <1>12 DEF Inv

\* What is read is true: the seat is the client's own, and the turn shown has
\* been reached and is the player's it is said to be.
LEMMA ReceiveKeeps ==
  ASSUME ConsoleInv, ServerInv, StreamInv, NEW c \in Consoles, Receive(c)
  PROVE  Inv(c)'
<1> DEFINE v == console[c]
           m == out[c][v.received + 1]
           w == HandleMessage(v, m)
           x == [w EXCEPT !.received = v.received + 1]
           S == Sendable(slot[c], game.turnId)
<1>0. c \in Clients /\ UNCHANGED <<slot, inbox, game, state>>
  BY ConsolesAssumption DEF Receive, vars, connectionVars, peerVars
<1>9. game.turnId \in Nat
  BY DEF ServerInv, GoodSession, Session
<1>1. v \in View /\ state[c] # "new" /\ v.main # "off" /\ v.receiver = "reading"
  BY Running DEF Receive
<1>2. m \in S
  <2>1. out[c] \in Seq(S) /\ written[c] \in Nat /\ written[c] <= Len(out[c])
    BY <1>0 DEF StreamInv
  <2>2. v.received \in Nat /\ v.received + 1 <= written[c]
    BY <1>1 DEF View, Receive
  <2> HIDE DEF S
  <2> QED
    BY <2>1, <2>2
<1>3. ViewInv(v, slot[c], FALSE, inbox[c], game.turnId)
  BY <1>1 DEF ConsoleInv
<1>4. /\ w \in View /\ w.main = v.main /\ w.input = v.input /\ w.id = v.id /\ w.turn = v.turn
      /\ w.playerId \in {-1, slot[c]}
      /\ w.started => Reached(w.turnId, w.currentPlayerId, game.turnId)
  <2>1. /\ v.playerId \in {-1, slot[c]}
        /\ v.started => Reached(v.turnId, v.currentPlayerId, game.turnId)
    BY <1>3 DEF ViewInv
  <2> DEFINE Good(u) == /\ u \in View /\ u.main = v.main /\ u.input = v.input
                        /\ u.id = v.id /\ u.turn = v.turn /\ u.playerId = v.playerId
                        /\ u.started => Reached(u.turnId, u.currentPlayerId, game.turnId)
  <2>2. ASSUME NEW r \in ReceiverStates
        PROVE  Good([v EXCEPT !.receiver = r])
    BY <1>1, <2>1 DEF View
  <2>3. ASSUME NEW s \in Seen(game.turnId), NEW r \in ReceiverStates, NEW b \in BOOLEAN
        PROVE  /\ Good([ShowGame(v, s) EXCEPT !.receiver = r])
               /\ Good([ShowGame(v, s) EXCEPT !.started = b, !.receiver = r])
    <3>1. /\ s.phase \in GamePhase /\ s.currentPlayerId \in Players
          /\ s.turnId \in Nat /\ s.turnId # 0 /\ s.turnId <= game.turnId
          /\ s.currentPlayerId = MoverOf(s.turnId)
      BY <2>3 DEF Seen
    <3>2. Reached(s.turnId, s.currentPlayerId, game.turnId)
      BY <1>9, <3>1 DEF Reached
    <3> QED
      BY <1>1, <3>1, <3>2 DEF View, ShowGame
  <2> HIDE DEF Good
  <2>4. CASE m.type = "GameStarted"
    <3>1. m.game \in Seen(game.turnId)
      BY <1>2, <2>4 DEF Sendable, PlayerReady, OpponentDisconnected, GameEnded
    <3>2. w = [ShowGame(v, m.game) EXCEPT !.started = TRUE, !.receiver = "checking"]
      BY <2>4 DEF HandleMessage
    <3>3. Good([ShowGame(v, m.game) EXCEPT !.started = TRUE, !.receiver = "checking"])
      BY <2>3, <3>1 DEF ReceiverStates
    <3> QED
      BY <2>1, <3>2, <3>3 DEF Good
  <2>5. CASE m.type = "EliminateResult"
    <3>1. m.game \in Seen(game.turnId)
      BY <1>2, <2>5 DEF Sendable, PlayerReady, OpponentDisconnected, GameEnded
    <3>2. w = [ShowGame(v, m.game) EXCEPT !.receiver =
                 IF m.game.phase = "Finished" THEN "stopping" ELSE "checking"]
      BY <2>5 DEF HandleMessage
    <3>3. Good([ShowGame(v, m.game) EXCEPT !.receiver =
                  IF m.game.phase = "Finished" THEN "stopping" ELSE "checking"])
      BY <2>3, <3>1 DEF ReceiverStates
    <3> QED
      BY <2>1, <3>2, <3>3 DEF Good
  <2>6. CASE m.type = "JoinRoom"
    <3>1. m.playerId = slot[c]
      BY <1>2, <2>6 DEF Sendable, PlayerReady, OpponentDisconnected, GameEnded
    <3>2. slot[c] \in Players \cup {-1}
      BY <1>0 DEF ServerInv, Players
    <3>3. w = [v EXCEPT !.playerId = m.playerId, !.receiver = "checking"]
      BY <2>6 DEF HandleMessage
    <3> QED
      BY <1>1, <2>1, <3>1, <3>2, <3>3 DEF View, ReceiverStates
  <2>7. CASE m.type \notin {"GameStarted", "EliminateResult", "JoinRoom"}
    <3>1. w = [v EXCEPT !.receiver = IF m.type = "GameEnded" THEN "stopping" ELSE "checking"]
      BY <2>7 DEF HandleMessage
    <3>2. Good([v EXCEPT !.receiver = IF m.type = "GameEnded" THEN "stopping" ELSE "checking"])
      BY <2>2 DEF ReceiverStates
    <3> QED
      BY <2>1, <3>1, <3>2 DEF Good
  <2> QED
    BY <2>4, <2>5, <2>6, <2>7
<1>5. /\ x \in View /\ x.main = v.main /\ x.input = v.input /\ x.id = v.id /\ x.turn = v.turn
      /\ x.playerId = w.playerId /\ x.started = w.started /\ x.turnId = w.turnId
      /\ x.currentPlayerId = w.currentPlayerId
  BY <1>1, <1>4, SMTT(20) DEF View
<1>6. console'[c] = x
  BY DEF Receive, ConsoleInv
<1>7. ViewInv(x, slot[c], FALSE, inbox[c], game.turnId)
  BY <1>1, <1>3, <1>4, <1>5 DEF ViewInv
<1> QED
  BY <1>0, <1>1, <1>6, <1>7 DEF Inv

\* A client that has just connected knows nothing yet, and has sent nothing.
LEMMA LaunchKeeps ==
  ASSUME ConsoleInv, ServerInv, ServerInv', NEW c \in Consoles, Launch(c)
  PROVE  Inv(c)'
<1> DEFINE v == console[c]
           w == [v EXCEPT !.main = "waiting", !.receiver = "checking", !.input = "prompt"]
<1>0. c \in Clients
  BY ConsolesAssumption
<1>1. ViewInv(v, slot[c], state[c] = "new", inbox[c], game.turnId)
  BY DEF ConsoleInv
<1>2. state[c] = "new" /\ inbox' = inbox /\ state'[c] # "new"
  BY <1>0 DEF Launch, OnConnected, peerVars, ServerInv
<1>3. v = NewConsole /\ v \in View /\ inbox[c] = << >>
  BY <1>1, <1>2 DEF ViewInv
<1>4. console'[c] = w
  BY DEF Launch, ConsoleInv
<1>5. /\ w \in View /\ w.main = "waiting" /\ w.input = "prompt"
      /\ w.playerId = -1 /\ w.started = FALSE
  <2>1. v.playerId = -1 /\ v.started = FALSE
    BY <1>3 DEF NewConsole
  <2> QED
    BY <1>3, <2>1 DEF View, MainStates, InputStates, ReceiverStates
<1>6. inbox'[c] \in Seq(OwnRequests(slot'[c], (game.turnId)'))
  BY <1>2, <1>3
<1> QED
  BY <1>2, <1>4, <1>5, <1>6 DEF Inv, ViewInv

\* Every step of the composition keeps the invariant of every client.
LEMMA ConsoleStep ==
  ASSUME ConsoleInv, ServerInv, FramesInv, StreamInv, ServerInv', [ConsoleNext]_consoleVars
  PROVE  ConsoleInv'
<1>0. [Next]_vars /\ game.turnId \in Nat /\ \A d \in Consoles : d \in Clients
  BY ConsoleStepIsServerStep, TurnGrows, ConsolesAssumption
<1>1. ASSUME NEW d \in Consoles, Quiet(d), console'[d] = console[d]
      PROVE  Inv(d)'
  BY <1>0, <1>1, OthersLast
<1>2. ASSUME console' = console, \A d \in Consoles : Quiet(d)
      PROVE  ConsoleInv'
  BY <1>1, <1>2 DEF ConsoleInv, Inv
<1>3. ASSUME NEW c \in Consoles, NEW w, console' = [console EXCEPT ![c] = w],
             Inv(c)', \A d \in Consoles \ {c} : Quiet(d)
      PROVE  ConsoleInv'
  <2>1. console' = [d \in Consoles |-> console'[d]]
        /\ \A d \in Consoles \ {c} : console'[d] = console[d]
    BY <1>3 DEF ConsoleInv
  <2>2. \A d \in Consoles : Inv(d)'
    BY <1>1, <1>3, <2>1
  <2> QED
    BY <2>1, <2>2 DEF ConsoleInv, Inv
<1>4. /\ UNCHANGED vars => \A d \in Consoles : Quiet(d)
      /\ \A e \in Clients : Read(e) \/ Write(e) \/ PeerLeaves(e) \/ Close(e) =>
                            \A d \in Consoles : Quiet(d)
      /\ Stop => \A d \in Consoles : Quiet(d)
      /\ \A e \in Clients : OnConnected(e) => \A d \in Consoles \ {e} : Quiet(d)
      /\ \A e \in Clients : \A frame : PeerSends(e, frame) => \A d \in Consoles \ {e} : Quiet(d)
  BY <1>0, QuietSteps DEF Close
<1>5. CASE UNCHANGED consoleVars
  BY <1>2, <1>4, <1>5 DEF consoleVars
<1>6. ASSUME NEW c \in Consoles, Launch(c)
      PROVE  ConsoleInv'
  <2>1. Inv(c)'
    BY <1>6, LaunchKeeps
  <2> QED
    BY <1>0, <1>3, <1>4, <1>6, <2>1 DEF Launch
<1>7. ASSUME NEW c \in Consoles,
             MainThread(c) \/ CheckRunning(c) \/ ReceiverStops(c) \/ ReceiveFails(c)
      PROVE  ConsoleInv'
  <2>1. Inv(c)'
    BY <1>7, MainKeeps
  <2>2. \E w : console' = [console EXCEPT ![c] = w]
    BY <1>7 DEF MainThread, Wake, Exit, CheckRunning, ReceiverStops, ReceiveFails
  <2>3. UNCHANGED vars \/ Close(c)
    BY <1>7 DEF MainThread, Wake, Exit, CheckRunning, ReceiverStops, ReceiveFails
  <2> QED
    BY <1>0, <1>3, <1>4, <2>1, <2>2, <2>3
<1>8. ASSUME NEW c \in Consoles, Receive(c)
      PROVE  ConsoleInv'
  <2>1. Inv(c)'
    BY <1>8, ReceiveKeeps
  <2>2. (\E w : console' = [console EXCEPT ![c] = w]) /\ UNCHANGED vars
    BY <1>8 DEF Receive
  <2> QED
    BY <1>3, <1>4, <2>1, <2>2
<1>9. ASSUME NEW c \in Consoles,
             \/ Prompt(c) \/ Quit(c) \/ Convert(c) \/ Mistype(c)
             \/ Check(c) \/ SendFailed(c) \/ CloseAndReturn(c)
             \/ Send(c) /\ UNCHANGED vars
      PROVE  ConsoleInv'
  <2>1. Inv(c)'
    BY <1>0, <1>9, InputKeeps
  <2>2. \E w : console' = [console EXCEPT ![c] = w]
    BY <1>9 DEF Prompt, Quit, Convert, Mistype, Check, SendFailed, CloseAndReturn, Send
  <2>3. UNCHANGED vars \/ Close(c)
    BY <1>9 DEF Prompt, Quit, Convert, Mistype, Check, SendFailed, CloseAndReturn
  <2> QED
    BY <1>0, <1>3, <1>4, <2>1, <2>2, <2>3
<1>10. ASSUME NEW c \in Consoles, Send(c)
       PROVE  ConsoleInv'
  <2>1. CASE UNCHANGED vars
    BY <1>9, <1>10, <2>1
  <2>2. CASE ~UNCHANGED vars
    <3>1. Inv(c)'
      BY <1>10, <2>2, SendKeeps
    <3>2. (\E w : console' = [console EXCEPT ![c] = w]) /\ \E frame : PeerSends(c, frame)
      BY <1>10, <2>2 DEF Send
    <3> QED
      BY <1>0, <1>3, <1>4, <3>1, <3>2
  <2> QED
    BY <2>1, <2>2
<1>11. ASSUME NEW c \in Consoles, LinkBreaks(c)
       PROVE  ConsoleInv'
  BY <1>0, <1>2, <1>4, <1>11 DEF LinkBreaks
<1>12. ASSUME NEW c \in Clients \ Consoles, OtherPeer(c)
       PROVE  ConsoleInv'
  <2>1. \A d \in Consoles : Quiet(d)
    BY <1>4, <1>12 DEF OtherPeer
  <2> QED
    BY <1>2, <1>12, <2>1 DEF OtherPeer
<1>13. ASSUME NEW c \in Clients, ServerReads(c) \/ ServerWrites(c)
       PROVE  ConsoleInv'
  BY <1>2, <1>4, <1>13 DEF ServerReads, ServerWrites
<1>14. CASE ServerStops
  BY <1>2, <1>4, <1>14 DEF ServerStops
<1> QED
  BY <1>5, <1>6, <1>7, <1>8, <1>9, <1>10, <1>11, <1>12, <1>13, <1>14
     DEF ConsoleNext, User, ReceiverThread, InputThread

\* In every reachable state the clients keep their invariant.
THEOREM ConsoleSafety == ConsoleSpec => [](ConsoleInv /\ ServerInv)
<1>1. ConsoleInit => ConsoleInv
  <2> SUFFICES ASSUME ConsoleInit, NEW c \in Consoles
               PROVE  ViewInv(NewConsole, slot[c], state[c] = "new", inbox[c], game.turnId)
    BY DEF ConsoleInit, ConsoleInv
  <2>1. slot[c] = -1 /\ state[c] = "new" /\ inbox[c] = << >>
    BY ConsolesAssumption DEF ConsoleInit, Init
  <2>2. NewConsole \in View
    BY DEF NewConsole, View, GamePhase, ReceiverStates, InputStates, MainStates
  <2>3. /\ NewConsole.main = "off" /\ NewConsole.playerId = -1
        /\ ~NewConsole.started /\ NewConsole.input = "none"
    BY DEF NewConsole
  <2>4. << >> \in Seq(OwnRequests(slot[c], game.turnId))
    OBVIOUS
  <2> QED
    BY <2>1, <2>2, <2>3, <2>4 DEF ViewInv
<1>2. ConsoleInv /\ ServerInv /\ FramesInv /\ StreamInv /\ ServerInv' /\ [ConsoleNext]_consoleVars
        => ConsoleInv'
  BY ConsoleStep
<1> QED
  BY <1>1, <1>2, ConsolesArePeers, ServerSafety, StreamsTrue, PTL DEF ConsoleSpec

\* What is on the way from a client is its own, and for turns of its own.
LEMMA OwnOnTheWay ==
  ASSUME ConsoleInv, NEW c \in Consoles, NEW request \in OnTheWay(c)
  PROVE  request \in OwnRequests(slot[c], game.turnId)
<1> DEFINE S == OwnRequests(slot[c], game.turnId)
<1>1. inbox[c] \in Seq(S)
  BY DEF ConsoleInv, ViewInv
<1>2. PICK i \in 1..Len(inbox[c]) : request = inbox[c][i]
  BY DEF OnTheWay
<1> HIDE DEF S
<1>3. request \in S
  BY <1>1, <1>2
<1> QED
  BY <1>3 DEF S

\* Whatever the server and the other peers do while the user types, every
\* request a console client sends is its own, for a turn of its own that the
\* match has reached (main.cpp:372-392).
THEOREM SentInTurn == ConsoleSpec => []SentForOwnTurn
<1>1. ConsoleInv => SentForOwnTurn
  BY OwnOnTheWay DEF SentForOwnTurn, OwnRequests, Reached
<1> QED
  BY <1>1, ConsoleSafety, PTL
=============================================================================
