# sts-game in TLA+

A verification development of the two-player elimination game in `src/`:
specifications of its components, the TLC runs that check them on small
instances, and theorems about them proved with TLAPS for every instance.

    tlc -workers 2 -config MCGameSession.cfg MCGameSession.tla
    tlapm GameServer_proofs.tla

## The system

Two clients (a console and a GUI one) connect over TCP to a server, which seats
them as players 0 and 1. Each player owns a half of a 10x5 board of coloured
boxes. In turn, a player eliminates a path of at least three adjacent pieces of
one colour in the own half; they become a hero, the columns collapse towards the
player's side and are refilled, and, except in the opening turn, the player's
heroes attack the opponent's heroes and tower. Who fells the tower wins.

| component | state | operations | who calls it |
|---|---|---|---|
| `game/GameSession` | phase, current player, turn number, winner, readiness, opening flag, towers, board | `markPlayerReady`, `start`, `markPlayerDisconnected`, `endGame`, `handleEliminateRequest` | the server's handlers |
| `game/BoxBoard`, `EliminationRule` | 50 cells, next hero id, random source | `validate`, `resolveElimination`, `collapseAndRefill`, `convertDeadHeroesToBoxes` | the session, the combat |
| `game/Combat*`, `Hero`, `DamageResolver` | heroes' hit points and statuses, towers | `resolve`: attacks in order, deaths, statuses at the end of the turn | the session |
| `server/GameServer` | two seats, per connection a slot, a read under way, a write queue, `closeAfterWrite_`, `disconnected_`; `stopped_` | completion handlers of accept, read and write; `stop` | asio's run loop; `stop` its owner |
| `client/` | player id, started, phase, current player, turn number, running | receive thread, input thread, main thread, one mutex | the console |
| `gui/` | `ClientGameState`, the selected path, a message queue, the window's size | event loop: a click becomes a cell or a button, a cell a part of the path, a path a request; receive thread that fills the queue | the window |
| `common/` | none | the text format and length prefix of messages, view transform | all |

They interact in three ways: the server's handlers call the session
synchronously (one thread, so a handler is atomic); server and clients exchange
messages over TCP, in order on each connection and with nothing known across
connections; inside a client, a receiving thread meets the user's thread at a
mutex or a queue. A fourth is by agreement only: the client's input rule and the
server's rule, the writers and the readers of each message, the screen of player 1
and the board are separate code that must say the same.

What is hard here: a request may be stale, repeated, or handled after its
connection closed; a player may leave at any moment and the seat, the readiness
flag and the phase must change together; two write queues fail independently and
must still tell one history; pieces carry a copy of their position that two
collapse directions must keep true; the combat refers to heroes by id while they
move and die; their fight is told by events put together by hand; a connection cuts
messages anywhere and may end between any two bytes; a player may be left without a
move. `PROJECT.json` lists these
hazards at their lines with the properties that cover them.

## Modules

- **TurnGame**: what a match promises, whatever carries it out. Lobby, then turns
  in strict alternation of which only the mover's opponent can be hurt, and none
  in the first; over by a fallen tower (the mover wins) or by being abandoned
  (nobody wins). Abstract, so nothing in it maps to lines.
- **GameSession**: `GameSession.cpp`. The members are one record `game`; each
  public operation is an operator from session to session (`MarkPlayerReady`,
  `Start`, `MarkPlayerDisconnected`, `EndGame`, `HandleEliminateRequest`), so that
  the server's handlers compose them, and an action that calls it with any
  argument. `log` is a history of the accepted requests. The board is abstracted
  to the verdict a request carries (`legal`), the combat to the damage it does to
  the defender's tower. `GamePhase::Combat` is entered and left inside one call
  and does not appear. `Match` is the refinement mapping to TurnGame.
- **GameServer** extends it: `GameServer.cpp`. One action per completion handler
  and outcome: `OnConnected` (accepting included), `ReadHeader`, `ReadBody`,
  `ReadFails`, `WriteDone`, `WriteFails`, `Stop`; `DisconnectOnce` with
  `onClientDisconnected` is a part of those that close a connection. A connection's
  write queue is the part of `out[c]` after `written[c]`. A body whose read has
  completed may still be handled after its connection was closed by a failed
  write, as asio's queue of ready handlers allows; the model keeps that state. The
  peers (`PeerSends`, `PeerLeaves`) are external: they send any frame, or vanish,
  at any time.
- **BoardCells**: the cells, whose half they are in, which are neighbours, what a
  path leaves empty and where a collapse puts the piece of a cell (`PlayerArea.hpp`
  and the part of `BoxBoard.cpp` and `EliminationRule.cpp` that does not look into
  the pieces). Shared by BoxBoard and Combat.
- **BoxBoard**: `BoxBoard.cpp`, `EliminationRule.cpp`. A piece is a record that
  carries its own position; `Validate` reads that copy, as the code does. A collapse is stated by where a piece lands (`Landing`: past the gaps of
  its column on the mover's side) instead of by the loop of two indices. A turn
  (`PlayTurn`) is an elimination, and after the opening the death of any of the
  defender's heroes; new boxes have any colour.
- **Combat**: `CombatResolver.cpp`, `CombatContext.cpp`, `DamageResolver.cpp`,
  `Hero.cpp`, `Tower.cpp`. What the two modules above leave open: `field` holds the
  heroes (class, value, place, hit points, shield, layers, stars or orbs) and the
  towers. The board is only its heroes: a box may be of any colour, so any path of
  boxes is eliminable and makes a hero of any class. One call of `resolve` is cut
  into actions (`Attack` for each attacker, `Strike` for each bolt of lightning,
  `EndCombat`) so that properties can speak of what happens inside it; nothing else
  runs in between, and `phase = "Combat"` is never seen by another component. A
  random target (`CombatRandom`) is any candidate. Operators take a field and give
  a field (`DamageHero`, `ApplyDebuff`, ...), like the functions they stand for.
  Of its events it keeps two sums: the damage and the falls of a tower they announce.
  `start`, `attacked` and `weakened` are history.
- **CombatLog** extends it: the events themselves, one by one, with what each says:
  its type, the hero or tower, and a number. Each operator of Combat that stands for a
  function which emits has one here that gives its events in the code's order
  (`DamageHero` and `HitEvents`, `WearOff` and `WearOffEvents`, ...), each action of
  Combat a logged one. `Told` is a reader of the log, as both clients are.
- **PlayerView** extends BoxBoard: what one player of the GUI client sees and clicks.
  `PlayerViewTransform.hpp`, `InputController.cpp`, `BoardGeometry.cpp`,
  `WindowLayout.cpp`, the mouse events of `GuiGameClient.cpp`, and the place and order
  of the pieces in `BoardRenderer.cpp`. A click is a pixel, which falls on a button, a
  cell or nothing; a path is the cells themselves, so the client's rule (`FitsPath`, on
  the screen) meets the server's (`Validate`, on the board). Lengths are in units of
  which so many make a pixel that the code's divisions come out even. A confirmed
  path is played at once: what messages do meanwhile is GuiClient's matter.
- **Protocol**: `Protocol.hpp`, `Serialization.cpp`, and the order in which a client
  tries its parsers. A body is a sequence of tokens, a struct a record; the list of
  fields a writer names and the one its reader names are two definitions.
- **MessageStream**: what the other modules take for granted of a connection: what
  arrives, arrives whole, unchanged and in the order it was sent. Abstract.
- **Wire** extends Protocol: one connection, byte by byte, from `send` and
  `sendElimination` to `onMessage` and `handleBody`: the write queue, the frame being
  written, the sockets' buffers, the reads of a header and of a body at either end.
  Sockets take and give any number of bytes at a time. A socket closed while bytes
  wait in it unread resets the connection, which may cost the other end the last
  bytes sent to it (`Left`). The client's playing thread may send as long as its socket
  is open, also after its receiving thread has ended. A byte is a digit of a header or a token of a body.
- **GuiClient** extends GameServer: `gui/`, and the part of `client/GameClient.cpp`
  it uses. The connections in `Guis` end in a GUI client; the others in any peer, as
  before. A client is `gui[c]` (the members of `ClientGameState` and the selected
  path), the queue between its threads, `running_`, how far the receiver has read,
  and where the main thread is. There is one action for each event the user causes
  (`User`), each step of the main loop (`MainThread`) and of the receiver
  (`ReceiverThread`), and one for a broken link; `HandleMessage` is the whole of
  `handleMessage` and `handleWireMessage`, an operator from client to client. A path
  is abstracted to its length, up to three, and the board its first cell was chosen on: what
  `trySelect` compares, colours and neighbours, is true as long as the board is the
  same, so a request drawn on the board shown is legal and another may be. Sending is
  `PeerSends`, closing the socket `PeerLeaves`, connecting `OnConnected`: the
  composition only restricts what the peers of GameServer do. A write to a
  connection that is over may still succeed (the request is lost) or throw. When the
  window is closed the main thread handles what is queued once more (`LeaveLoop`) and
  then stops the connection (`StopNetwork`): what the receiver queues in between is
  never handled.
- **ConsoleClient** extends GameServer likewise: `client/main.cpp` on
  `client/GameClient.cpp`. `console[c]` holds the members of `ClientState`, where each
  of the three threads is, and the input thread's locals that survive a critical
  section (the player the path was converted for, the request's `playerId` and
  `turnId`). Each critical section is an action, so anything may happen between
  `Convert`, `Check` and `Send`; `stop` and `close` are steps of their own where
  another thread may run between them. A path is abstracted to that player: what
  matters is whether the view it was typed in was turned around as the sender's is
  (`SameView`). What is printed is left out, and so is `openingTurnPending`, which
  only chooses what is printed.
- **MC...**: constants of the runs. **..._proofs**: the theorems.

How they compose: GuiClient and ConsoleClient extend GameServer, which extends
GameSession, which implements TurnGame; Combat, which says what GameSession and
BoxBoard leave open of a turn, implements it too. CombatLog extends Combat, PlayerView
extends BoxBoard. Wire implements two MessageStreams, which is how GameServer and its
clients use a connection.

Mutants (operators introduced by a comment that says so) are what a plausible
mistake would have made of the definition that follows them. They are used by
nothing; each property of a run has one that, put in the place of the
definition, makes the property fail.

## Runs

| run | instance | asks |
|---|---|---|
| `session` | tower of 3, player 1 first, 7 turns, player ids -1..2, any turn number | turns, winner; that the session implements TurnGame (and so its finality) |
| `server_seats` | 3 connections, 1 frame, `stop` allowed, fairness | that seats, connections and session agree; that what a client is sent makes sense in its order; that the survivor is told; that a lost connection's seat is freed |
| `server_play` | 2 connections, 3 frames of 6 kinds, tower of 1 | one history for both players; one success per accepted request; late requests ignored |
| `board` | 4x2 board, 2 colours, paths of 3, 3 turns | cached positions, hero ids, what collapses keep, what the mover keeps |
| `combat` | 4x2 board, all four classes, paths of 3, towers of 60, 4 turns | where damage goes, who strikes and when, how long statuses last; that the log tells all of it, and nothing after the end; that the seats are alike; TurnGame, up to a victory |
| `gui_match` | two GUI clients, 3 frames, a tower of 1 | that they cause no refusal before the game ends; that each has one request under way or may ask for one; the path and the board shown; no game over too early; the match never shown backwards; that the threads can part |
| `gui_live` | one GUI client, one free peer, the opening move, `stop` allowed, fairness | that a pending request is resolved, that every turn is shown |
| `console` | one console client, one free peer, 2 frames | that a request bears its sender's number and is for a turn of its own that has been reached |
| `console_live` | one console client, one free peer, the opening move, `stop` allowed, fairness | that the client exits when the game it sits in has ended, when any thread stops it, or when it is cut off |
| `view` | 4x3 board, 4 colourings, paths of 3, 2 turns, 3 window sizes, either viewer | that the client's rule is the server's; that cells are clicked where they are drawn, and no button lies on them; which way pieces fall |
| `wire` | one connection, 3 messages of 7, sockets of 2 bytes, fairness | that it is two message streams; that a direction at rest has forgotten nothing; that everything arrives; that who is turned away learns why |
| `stalemate` | the real board, seed 42, three given turns | expected violation: the mover has a path |

Bounds. In the GUI runs the frames are requests of the first two turns: enough for
an opening, an answer that may fell the tower, and one more that is stale, repeated
or overtaken by a disconnection; the third turn is shown and not played. Every
client may start, fail to connect, draw, take back, confirm, lose its link and be
closed at any point. In the `console` runs the frames are the opening move and its
answer, legal or not, each also twice and by either side; the free peer may win a
seat before or after the client, so the client is player 0 in some behaviours and 1
in others, or turned away. Where only one client is modelled the other connection
ends in a free peer: what one client does to another it does through the server, and
a peer that may send anything does it too.

A session's state repeats but for the turn's parity, the opening flag and
the damage left, so 7 turns pass through every combination several times. Three
connections are the least with a replacement and with a full room; three frames
are the least for a move, its answer by the other player, and one wrong frame
before, between or after them. In `server_*` only `MaxFrames` (frames sent in
all) bounds the behaviours: every connection is made once and never reopened, as
in the code, where each accepted socket is a new object. On the 4x2 board each
half is 2x2: columns meet in the middle, a path leaves zero, one or two gaps in a
column, and after three turns both players have collapsed columns that hold
heroes of either. In `combat` four turns give each player a combat and the first
player's heroes a second one, after they were hit; a tower of 60 (the code's has
1000) falls to the second combat's attacks in some behaviours and stands in others,
by a direct blow, an overflow or a bolt. Deadlock is not checked where the model rightly stops: all
connections closed or the server stopped (`server_*`, `gui*`, `console*`), the bound on turns or no
legal path left (`board`, `view`, `combat`, `stalemate`), or either end closed (`wire`).

In `view` a half is 2x3: wide enough for a path that turns, for a cell that is no
neighbour of another, and for a column that no path uses; the colourings break the one
colour in the middle or at a side of either half, so that a path the client's rule
should not take exists. The windows are one as it opens on a desktop, one bound by its
width, and one too small for margins and buttons, in which a cell is one pixel. The
pixels clicked are the first of every cell and button of every size: in another size they
fall anywhere. `HitsWhatIsDrawn` asks for both sides of every edge.

In `wire` a header digit is 0 to 3 and the limits are 8 and 100, so that headers have
several digits that differ and one message is too long for each end (a long path for the
server, a combat of two events for the client). Sockets hold two bytes: a header is
written and read in pieces, frames straddle them, and both directions can be full.
Three messages are the least for one that waits behind another that is being written,
and an answer to it. The structs of the run have a different number in every field and the
other sorts at their first and last values (`MCWire`), so that no two fields can be
exchanged unnoticed.

What the combat's properties mean. `DamageAccounted` is a balance: the defender's
shields, hit points and tower together lose exactly what the events announce,
until the tower is down. `OnlyDefenderPays` is what GameSession and BoxBoard take
for granted of a combat (damage to one tower, deaths on one side, nobody moves);
with `ImplementsTurnGame` it ties the three models together. `EachStrikesOnce`
compares who struck with the order of the heroes at the end. `WeakUntilItStrikes`
is the reason for two layers of weakness: one is gone when the turn ends, the
other is there when the hero attacks. `SidesAlike` turns the board half around and
swaps the players: the code has separate loops for the two, in three files, which
must be mirror images. `ReplayGivesField` starts from the board after the elimination,
applies each event as a reader would, and compares with the field after every attack
and bolt, so a change that is not told, or told with the number of a moment before, is
found where it happens.

Fairness. `FairSpec` asks that reads and writes that can complete do
(`WF_vars(Read(c))`, `WF_vars(Write(c))`): `run` (GameServer.cpp:27-31) dispatches
ready handlers until stopped, and both clients receive in a loop, so bytes handed
to the system reach them or their end fails. Nothing makes anybody connect, send
or leave. A silent peer that neither reads nor fails is outside this assumption:
the server has no timeout for it. In `Wire`, `FairSpec` asks that something of what
the two programs and the link do unasked (`Transfer`) happens as long as something can:
bytes that fit move, threads and handlers run. Each such step brings a byte or a message
nearer to its end, so this is as much as asking it of each. `FairGuiSpec` adds the two threads of a client:
the main loop polls and never blocks but in the join, the receiver's read returns
when there is something to read or the connection is over. The window's user owes
nothing, not even a click. `FairConsoleSpec` does the same for the three threads of
a console client; the thread that waits in `getline` waits for the user, who owes
nothing either: `main` detaches it, and the program ends without it.

What `NoRefusal` needs. `requestPending` is cleared by every result, also by the
refusal of somebody else's request, which the server broadcasts. It is therefore a
property of matches between GUI clients only: a peer that sends duplicates (the
console client has no such flag) makes the server tell both, and frees the other
player's button while that player's own request is under way; a second click then
sends it again, and the server refuses the duplicate. Nothing in the repository
says otherwise, so it is no finding. `RequestsRationed` says what is left of it against
any peer: a client has at most one request under way, or one it may still send, and one
more for each refusal it has received. Nothing else frees the button for a turn that has
been asked for, however late results and requests are handled. `gui_match` checks it
where nobody causes refusals; against any peer it is a theorem (`RequestsAreRationed`).

The finding. `src/design.md:7` says that a player must eliminate once every turn.
The code neither guarantees that a path exists nor lets a turn pass without one.
`stalemate` plays three legal turns of the game that `GameServer.cpp:21` always
deals (seed 42; the boards and refills are the draws of `std::mt19937` through
libstdc++'s distribution) and reaches a state in which player 1 has to move and
has no path. From there the match only ends when somebody leaves.

## Proofs

`GameServer_proofs`, first of GameSession, which GameServer extends. The invariant `GoodSession` is the conjunction of the
properties of the runs, strengthened by types and by what makes them inductive:
the history is known from the turn number and the winner alone, the mover is a
function of the turn number, the opening flag says exactly that it is turn 1, and
a fallen tower comes with its winner and the finished phase. Each operation keeps
it (one lemma each), so every order of calls does; from it follow `SessionTyped`,
`WinnerCorrect`, `TurnsAlternate`, `OpeningPeaceful`, `FinalOutcome`, and, action
by action, `SessionImplementsMatch`. Nothing is assumed but a first player in
{0, 1} and a positive tower.

Then of the server. `ServerInv` adds `SeatsMatchSession`: it is what makes the
branch "unable to start game" dead, the seat offered to a newcomer a free one, and
`owns` false for a closed connection. `FramesInv` says that a body being read is at
the head of what the peer sent. For any number of connections and any frames:
`SeatsAgree`, `NobodyReplaced`, `LateRequestsIgnored` and `ServerImplementsMatch`.

`BoardCells_proofs`, for the board and the combat: where a piece lands. `LandingInside`
and `LandingKeepsOrder` say that a landing stays on the board, in its column, and
keeps the order of the pieces that are not gaps; so no two land on one cell
(`LandingInjective`), and a piece in the mover's area stays in it (`LandsInArea`).
The counting behind them (`GapsCounted`) is the cardinality of the gaps between two
rows of a column. Induction lives here too, for this module and those of the combat:
over a finite set, from the well-foundedness of strict inclusion (`SetInduction`), and
over the numbers (`CountingInduction`): a set of sets that has the empty set and every
extension of a member by an element has them all. Put like this it takes no operator for
a parameter.

`PlayerView_proofs`, first of BoxBoard, which PlayerView extends. Every piece after a collapse is a moved one or a new box
(`CollapseShape`). `BoardInv` is `PositionsInSync`, the ids below the next one and
distinct, and a mover in {0, 1}: the ids have to be bounded for a new hero's to be
new, and the positions true for a path to lie in the mover's area. `TurnKeeps`
carries it over a turn, and says where each hero of the new board came from;
`PositionsTrue`, `IdsDistinct`, `HeroesStayWithMover` and `CollapsesKeepHeroes`
follow, for any colours and any board with an even number of rows.

Then of the player at the screen. `PathInv` says what the path is: cells of the viewer's half of the
screen, each a neighbour of the one before and of its colour, none twice. A click keeps it
by `FitsPath`, a turn of either player by clearing the path. `PlaysByTheBoard` is the
refinement to BoxBoard, so the board's invariant holds and a piece's own position, which
`Validate` reads, is the cell it was clicked in: with the transform being its own inverse
and turning halves into halves, `ConfirmedNeverRefused` follows for any board, paths
and windows. `ButtonsOutOfTheWay` is the arithmetic of the two layouts. `FallsTheRightWay`
is the action property `FallsTowardsPlayer`: where `TurnKeeps` says a hero of the new
board came from, turned around for the viewer who sees the board turned.

Drawing. The four loops of the renderer are layers that each go row by row through the
board, or along the path, and draw what belongs to them: a recursive function of how far
the loop has come (`Layer`, `drawn`). `DrawsEach` is the induction over it: whoever goes
through a list without repetition draws each that belongs once. The layers leave nothing
out and share nothing (`EachDrawnOnce`), because whatever is on the path is a cell and is
on it once: `PathInv`. That a pixel is in a piece's rectangle exactly if the hit test finds
its cell there (`EachHitWhereDrawn`) is arithmetic, for any board and any window
(`BoardOfWindow`, `PointHits`); with `ButtonsOutOfTheWay`, `DrawnWhereHit`.

`Combat_proofs`. An attack is a composition of operators from field to field
(damage, debuff, heal, shield, stars). Each is shown to be a `Hit`: it keeps the
types, moves nobody, spares the mover's side, takes from the defender, adds
two layers of weakness or more if any, and announces the fall of the tower exactly if the
tower falls by it. Hits compose (`HitsCompose`), so every attack of every class
and every bolt is one (`PerformAttackHits`, `LightningHits`), and `DefenderPays` is
little more than that. What is needed of the towers is that the defender's stands
when a hit is made, which is why the code asks before every attack and bolt. The
invariant `CombatInv` has the types and `OnePerCell`; `TurnInv` (the mover is a
function of the turn number); `TowerInv` (the mover's tower stands; the other's
fall is announced and ends the game); `StartInv` (the towers since the combat
began, for the refinement); and `WeakInv`, which strengthens `WeakUntilItStrikes`
by where the weak heroes stand and by their two layers as long as the combat that
made them weak lasts. `ResolveKeeps` carries it over an elimination by
`LandingInjective`, `EndCombatStep` over the end of a turn. From it follow
`TypeCorrect`, `HeroesApart`, `WeaknessBites`, `OneFall` and
`CombatImplementsMatch`, for any board with an even number of rows, any subset of
the classes, any tower and any length of paths.

The order of attack. `Ordered` lists what stands in distinct places by rank: the i-th is
the one with i - 1 before it. That such a list has everyone once and in order
(`OrderedLists`) is a counting argument over `Before`, which is linear on the cells of
any board (`BeforeOrders`). No hit moves, removes or adds an attacker, so the order of
attack collected again is the one collected first (`OrderStays`). `QueueInv` says in the
middle of a combat what `EachStrikesOnce` says of its end: the attackers that have
struck, followed by what is left of the queue, are the order of attack.
`QueueInvariance`, and `StrikesInOrder` from it.

The damage. `Toughness` is a sum over a set. By `SetInduction` sums exist, do not depend
on the order in which they are taken, and change as one summand does (`SumExists`,
`SumWithout`, `LostToughness`).
Each operator of an attack `Accounts` for what it deals (the defender loses just that, or
the tower falls and the rest is lost); accounts compose as hits do. `LossInv` keeps the
account since the combat began; `DamageIsLoss`.

The seats. `Turned` says of two fields that one is the other half around, with the
players swapped. Every operator that makes a field commutes with that, one lemma each
(`TurnedDamageHero`, `TurnedTower`, `TurnedDebuff`, ..., `TurnedAttack`). The order of
attack does because the one list in order is unique, and places turned are ordered alike
(`TurnedOrder`); the elimination because the gaps of the turned path are the turned gaps,
and a landing only counts them (`TurnedLegal`, `TurnedValue`, `TurnedResolve`).
`CombatInv` has what is needed of the field; `SeatsAlike`.

`CombatLog_proofs`. A `Tale` is a sequence of events together with where it leads: whoever
follows it (`Told`, event by event) goes from one field to another, the heroes it names
stand on the first, a hero that becomes a box is gone from the second and named no more, and
fighting is told of only as long as the defender's tower stands. One lemma for each
operator that makes events says that they are a tale from the field before its call to the
field after it (`HitTale`, `DebuffTale`, `AttackTale`, `BoltTale`, `WearOffTale`); tales join
(`TalesJoin`) as the calls follow each other, whatever the class that makes them. The events
at the end of a turn are flattened from one list per hero: what FlattenSeq joins is joined
one by one (`Flattening`, `ManyTales`), in an order in which every hero comes once
(`OrderedLists` again). `LogInv` says that the log of a combat is a tale from its start to the
present field; after it, that tale and its end (`ClosedQuiet`). Since the log does not
interfere (`LogWatches`), `CombatInv` is at hand in every step. `LogTellsAll` and
`LogEndsQuiet` follow. The reader of `ReplayGivesField` is a recursive function; that it
exists and is unique is `Retelling`.

`GuiClient_proofs`. `ServerTakesStep` looks at every action and finds in it a step of
GameServer or none, so `GuisArePeers`: everything proved of the server holds of the
matches GUI clients play, `GuisPlayTheMatch` among it. `ThreadsInv` relates the
flag, the receiver and the socket: whoever lowers the flag has closed the socket,
or is the receiver itself on its way out; a connection that is over stays over
(`CutForGood`). `JoinsReturn` follows, for any number of clients.

What a GUI shows rests on the order of the streams (next). `HeardInv` says that a
client's queue is a part of its connection's stream, in order and without a gap, with
the client's own notices in between (`Follows`), and that what it shows comes from the
messages before that part (`Sees`): the board is the last one they hold, a path lies on it. As
boards of a stream only move on and an end is only told of a game that is over,
`PathsOnShownBoards`, `GameOversAreReal` and `BoardsMoveOn` follow. `CarefulInv` is what
`NoRefusal` needs beyond that where every peer is a GUI client: a client's unread
requests are none, or one that will be accepted unless the game ends first (`Asks`); it has
been sent no refusal of a game that goes on (`Told`); and a board that it may ask on, now
or when its queue is handled, is of the present turn and not asked for yet (`Expects`). No step of one
client disturbs this of the other, because turns only rise and each has one mover;
`NobodyRefused`.

Against any opponent the requests are counted. `RationedInv` says of a GUI client that
only it has sent what the server has yet to read from it, and that it has spent no more
than it was granted. Spent (`Spent`) are the requests under way and its own turns before the
present one, each of which has taken a request. Granted (`Granted`) are its own turns up to
the one it shows and the refusals it has handled, less the request it may send now. A request
that is accepted moves the turn on, one that is refused is told to its sender, a success
shown brings a turn and the button with it. That needs to know what a client is sent
(`Served`): no complaint that would cost a request without a refusal, no board before the
game's start, none without a seat. The turn shown is at most the present one, and a message
in the queue is not handled yet, so `RequestsAreRationed` follows.

`GameServer_proofs` goes on with what is sent and in which order. `StreamInv` says that every message in
a connection's queue is one of `Sendable`: a word without news, the number of the
connection's own seat, or a snapshot of a turn the match has reached, with the player
whose turn it is. Each handler adds only such messages, later turns leave them true
(`SendableGrows`), and a broadcast after a seat was emptied finds the seats of those
who stay unchanged; `StreamsTrue` follows.

`HistoryInv` has the three properties of the runs (`StreamsInOrder`, `OneHistory`,
`SuccessPerAcceptedRequest`) and what makes them inductive: a connection has been told
something as soon as it is made (`Begun`), no start, result or end is told before there is one
(`ToldInTime`), and nobody has been told more of the game than who is seated
(`SeatedKnowAll`). Seen from the streams there are three kinds of steps: those that add
at most words without news; the start of the match; and the answer to a request, both of
which add one message for all who are seated (`QuietStep`, `StartStep`,
`AnswerStep`). The properties compare the news of two streams one by one; the proofs
count the places of a stream that hold news and never filter it. `SnapshotsInv` says how the
boards of a stream follow one another: they move on (`MovesOn`), a refusal shows the
board shown before it (`Repeats`), and the last one shown is the present one until the end is told (`Current`).
`ToldInOrder`, `OneHistoryForAll`, `SuccessesAnswer`, `HistoryTrue` and `SnapshotsTrue`
follow, for any number of connections and any frames.

`ConsoleClient_proofs` builds on it. `ConsolesArePeers` is the refinement of the
server's peers, as for the GUI. `ViewInv` relates a client to its connection: its
`playerId` is -1 or the seat, what it has been shown of a started game is a turn
reached and its mover, a request about to be sent is the seat's and for such a turn,
and so is all that the server has not read yet. It is kept by whatever others do
(`QuietSteps`, `OthersLast`), because a seat, once given to a connection, is never another
and turns only go up; `ReceiveKeeps` is where `StreamInv` is needed. `SentInTurn`
follows for any number of clients and any frames of the others.

`Wire_proofs`, in four parts. The bodies: what a list of named fields writes, alone or row
after row, is read back where it lies (`ReadBack`, `FlattenLaid`, `ListBack`), and each
kind of message is refused by the readers that are asked before its own (`StartedBack`,
`ShortBack`, `ResultBack`); so `AnnouncementReadBack` and `RequestReadBack`, for every
message the structs can hold. The frames: the four bytes of a header give the length back
(`LengthBack`), whatever the base of a byte. One direction: the frames sent make one
sequence of bytes (`Stream`), in which each frame has its start; the reader knows its
place in it (`Place`), the bytes under way follow what it has read and were handed over
before the rest (`Carried`), and the queue, or what the client's write has left, is that
rest (`Queued`). Nothing of this is a fact about one end: `WireInv` says it of both
directions, with what each end does no more after it has closed (`Conduct`). Lemmas over
one direction, with the sequence as a parameter, say what sending, writing, losing,
reading a header or a body does to it (`DownSends`, `SidesHeader`, `SidesBody`, ...), and
serve both. `WireSteps` puts the actions together: each keeps `WireInv`, and each is a step
of the two streams or leaves them alone, for what a reader hands on is the message after
those it has handed on before. `StreamsCarried`. At rest the places meet: nothing queued and nothing under way
puts the reader where the last frame ends, so it has handed on all of them
(`DownAllRead`, `UpAllRead`); what has arrived is the beginning of what was sent
(`Begins`), so `AllGivenAtRest`. Assumed: a byte has more than one value, the sockets
hold at least one, and of the messages (`MessagesAssumption`) that they are what the
structs can hold (at most 50 cells and 4096 events, as the readers ask) and no body is
longer than four bytes can say, as `makeLengthPrefixedFrame` checks. The limits of the
two ends are any numbers: a message over them stops the reader, and nothing arrives
wrong.

Theorems that state no property of a run are of three kinds. Inductive invariants, which
strengthen the properties of the runs (`ServerSafety`, `HistoryTrue`, `SnapshotsTrue`,
`StreamsTrue`, `HeardTrue`, `BoardSafety`, `PathSafety`, `Invariance`, `QueueInvariance`,
`LossInvariance`, `LogInvariance`); that a module's steps are steps of the one it extends
(`GuisArePeers`, `ConsolesArePeers`, `PlaysByTheBoard`, `LogWatches`); and facts that a
reader may want by themselves: `SessionTyped`, `OpeningPeaceful` and `FinalOutcome` (both
in TurnGame's steps), `NobodyReplaced`, `OneFall`, and `HeroesApart`, without which an order
of attack would not be one; and `AnnouncementReadBack` and `RequestReadBack`.

Only model-checked: the liveness properties (`SurvivorTold`, `SeatsFreed`,
`PendingResolved`, `CatchUp`, `ClientEnds`, `EverythingArrives`, `LastWordArrives`), which
are out of the prover's reach, as ENABLED is; and the violation of `stalemate`, a fact
about one board. Every invariant and every other property of a run is stated by a theorem.
Of a new hero's value (`Value`, a sum over a set) the theorems say that it is the same seen
from either seat, and no more.

## Not modelled

How a piece, a status, the log or a message looks, assets, entry points, what the console
prints. Of the text format digits, spaces and quotation marks are left out; a wrong
number of tokens, a number out of range and a text where a number is due are not.
Floats are exact in PlayerView: where a pixel falls exactly on the border of two cells
the code may round to either. A desktop of size 0 (which the code opens a window of 1 by 1
for) is left out. In a window narrower than the margins the board shrinks to cells of a
pixel and buttons may lie on it, and on each other; `ButtonsClearOfBoard`, a part of `DrawnWhereClicked`, says nothing of
those.
`CombatMath` throws when a product or a sum leaves the int range, and nothing
between it and `main` catches that; the model's numbers are unbounded. A turn adds at
most its path to the values of a half, so this is millions of turns away. Of an event
only type, target and one number are kept; the other numbers it copies, for whoever
prints them, are not checked. A result of more than 4096 events would be taken by the
client for a short message and ignored (Protocol has this behaviour); a combat stays
far below. `stop`
called from another thread while a handler runs is a data race in the code; the
model has the call between handlers. The client's `close` while its receiver reads
is one too; the model takes the shutdown before it to end the read. In Wire the server's
end is closed by itself or by a failure, not by `stop`. The server
never sends a client what it cannot parse, so those branches of `handleBody` and of the
console's `handleMessage` are left out.

No property speaks of the cells a console path is converted to. The input thread
converts it with the `playerId` of one critical section (main.cpp:361-363) and sends it
with that of another (372-388). A line read before the seat is known is turned around
for nobody; if the seat (1), the start and the opponent's opening move are received
before the second section, it goes out as player 1's with cells of player 0's half. The
model has this behaviour (`Convert`, `Check`, and the verdict in `RequestsOf`); the
server refuses the request, and nothing is lost but the line.

## Plan

Done: the session, the server, the board, the combat and its log, both clients, the
screen and its input, the messages and the wire; of these the safety properties and the
refinements are proved. What would come next is a match of a GUI client against a console
client, which has no flag for a pending request: what the one can do to the other. The two
compositions would have to share a server.
