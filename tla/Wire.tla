-------------------------------- MODULE Wire --------------------------------
(***************************************************************************)
(* One connection, byte by byte: length-prefixed frames through two        *)
(* sockets that take and give any number of bytes at a time.  The server's *)
(* end is ClientSession (src/server/GameServer.cpp): a queue of frames of  *)
(* which one is written at a time, a read of a header or of a body.  The   *)
(* client's end is GameClient: a blocking write in one thread, a blocking  *)
(* read in another.  What either end decides to send is left open; what it *)
(* does with a message is modelled in GameServer, GuiClient and            *)
(* ConsoleClient, which take a connection for two MessageStreams.          *)
(*                                                                         *)
(* A byte is a digit of a header or a token of a body.                     *)
(***************************************************************************)
EXTENDS Protocol

CONSTANTS ByteBase,             \* values of a byte, 256
          ServerLimit,          \* MaximumMessageBytes of GameServer.cpp
          ClientLimit,          \* 256 * 1024 in GameClient.cpp
          SocketBuffer,         \* bytes a direction holds that nobody has read yet
          Announcements,        \* what the server may send
          Requests,             \* what the client may send
          MaxMessages           \* bound: messages sent both ways

ASSUME ByteBaseAssumption == ByteBase \in Nat /\ ByteBase > 1
ASSUME LimitsAssumption == {ServerLimit, ClientLimit} \subseteq Nat /\ SocketBuffer \in Nat \ {0}

\* "invalid message length".
LengthError == [struct |-> "WireMessage", type |-> MessageType.Error,
                payload |-> "invalid message length"]

VARIABLES writeQueue,       \* writeQueue_, the frame being written first
          handed,           \* bytes of that frame the socket has taken
          closeAfterWrite,  \* closeAfterWrite_
          disconnected,     \* disconnected_
          writing,          \* what asio::write of the client has still to hand over
          receiving,        \* running_: the client's receiver thread runs
          closed,           \* the client has closed its socket, or the link is broken
          toClient,         \* bytes on their way to the client
          toServer,         \* bytes on their way to the server
          serverRead,       \* the server's read under way
          clientRead        \* the client's

VARIABLES sentDown,   \* history: the messages the server has sent
          sentUp,     \* history: the messages the client has sent
          gotDown,    \* history: what the client has been given
          gotUp       \* history: what the server has been given

serverVars == <<writeQueue, handed, closeAfterWrite, disconnected, serverRead>>
clientVars == <<writing, receiving, closed, clientRead>>
history == <<sentDown, sentUp, gotDown, gotUp>>
vars == <<serverVars, clientVars, toClient, toServer, history>>

-----------------------------------------------------------------------------
(* Frames.                                                                 *)

HeaderBytes == 4

\* What one in each byte of a header counts for, the first byte most.
PlaceValue == <<ByteBase * ByteBase * ByteBase, ByteBase * ByteBase, ByteBase, 1>>

LongestBody == ByteBase * ByteBase * ByteBase * ByteBase - 1

Header(length) ==
  [i \in 1..HeaderBytes |-> NumberToken((length \div PlaceValue[i]) % ByteBase)]

\* makeLengthPrefixedFrame.
Frame(m) == LET body == Serialize(m)
            IN  IF Len(body) > LongestBody THEN << >> ELSE Header(Len(body)) \o body

\* decodeFrameLength.
FrameLength(header) ==
  header[1][2] * PlaceValue[1] + header[2][2] * PlaceValue[2] + header[3][2] * PlaceValue[3]
    + header[4][2] * PlaceValue[4]

\* What is written is what the structs can hold, and fits into a frame.
ASSUME MessagesAssumption ==
  /\ \A m \in Announcements : IsAnnouncement(m)
  /\ \A m \in Requests : IsRequest(m)
  /\ \A m \in Announcements \cup Requests \cup {LengthError} : Len(Serialize(m)) <= LongestBody

\* A read ends when it has all the bytes it asked for.
ReadingHeader == [part |-> "header", need |-> HeaderBytes, got |-> << >>]
ReadingBody(length) == [part |-> "body", need |-> length, got |-> << >>]
NotReading == [part |-> "none", need |-> 0, got |-> << >>]

Complete(read) == Len(read.got) = read.need

\* Bytes a reader takes: some of what is there, and no more than it needs.
Takes(read, n, bytes) == n \in 1..Len(bytes) /\ n <= read.need - Len(read.got)

Fed(read, n, bytes) == [read EXCEPT !.got = @ \o SubSeq(bytes, 1, n)]

Rest(n, bytes) == SubSeq(bytes, n + 1, Len(bytes))

-----------------------------------------------------------------------------
(* The server's end.                                                       *)

\* Mutant: what is sent during a write is dropped.
EnqueueIfIdle(queue, m) == IF queue = << >> THEN <<Frame(m)>> ELSE queue

Enqueue(queue, m) == Append(queue, Frame(m))

\* Closing a socket leaves the other end what is under way to it; but when there
\* are bytes nobody has read, the connection is reset and the last may be lost.
Left(bytes, unread) ==
  IF unread = << >> THEN {bytes} ELSE {SubSeq(bytes, 1, n) : n \in 0..Len(bytes)}

\* disconnectOnce: the reads and writes under way fail.
DisconnectOnce == /\ disconnected' = TRUE
                  /\ serverRead' = NotReading
                  /\ writeQueue' = << >> /\ handed' = 0
                  /\ toClient' \in Left(toClient, toServer)
                  /\ toServer' = << >>

New == serverRead = NotReading /\ sentDown = << >> /\ ~disconnected

\* onConnected: a client that gets a seat is read from,
ServerStart ==
  /\ New
  /\ serverRead' = ReadingHeader
  /\ UNCHANGED <<writeQueue, handed, closeAfterWrite, disconnected, clientVars, toClient,
                 toServer, history>>

\* Mutant: without waiting for the write.
ServerTurnsAwayAtOnce(m) ==
  /\ New /\ m.struct = "WireMessage"
  /\ DisconnectOnce
  /\ closeAfterWrite' = TRUE
  /\ sentDown' = Append(sentDown, m)
  /\ UNCHANGED <<clientVars, sentUp, gotDown, gotUp>>

\* and one that gets none is sent the reason and closed (sendAndClose).
ServerTurnsAway(m) ==
  /\ New /\ m.struct = "WireMessage"
  /\ writeQueue' = Enqueue(writeQueue, m)
  /\ closeAfterWrite' = TRUE
  /\ sentDown' = Append(sentDown, m)
  /\ UNCHANGED <<handed, disconnected, serverRead, clientVars, toClient, toServer,
                 sentUp, gotDown, gotUp>>

MayDecide == Len(sentDown) + Len(sentUp) < MaxMessages

\* A client with a seat may be sent anything, also when it is about to be closed.
Seated == serverRead # NotReading \/ LengthError \in Range(sentDown)

ServerSend(m) ==
  /\ Seated /\ ~disconnected /\ MayDecide
  /\ writeQueue' = Enqueue(writeQueue, m)
  /\ sentDown' = Append(sentDown, m)
  /\ UNCHANGED <<handed, closeAfterWrite, disconnected, serverRead, clientVars, toClient,
                 toServer, sentUp, gotDown, gotUp>>

\* The socket takes n bytes of the frame being written.
ServerWrite(n) ==
  /\ writeQueue # << >> /\ ~closed
  /\ handed + n <= Len(writeQueue[1]) /\ Len(toClient) + n <= SocketBuffer
  /\ handed' = handed + n
  /\ toClient' = toClient \o SubSeq(writeQueue[1], handed + 1, handed + n)
  /\ UNCHANGED <<writeQueue, closeAfterWrite, disconnected, serverRead, clientVars, toServer,
                 history>>

\* The handler of async_write: the next frame, or the end after the last.
ServerWritten ==
  /\ writeQueue # << >> /\ handed = Len(writeQueue[1])
  /\ IF Len(writeQueue) = 1 /\ closeAfterWrite
     THEN DisconnectOnce
     ELSE /\ writeQueue' = Tail(writeQueue) /\ handed' = 0
          /\ UNCHANGED <<disconnected, serverRead, toClient, toServer>>
  /\ UNCHANGED <<closeAfterWrite, clientVars, history>>

ServerReads(n) ==
  /\ serverRead.part # "none" /\ Takes(serverRead, n, toServer)
  /\ serverRead' = Fed(serverRead, n, toServer)
  /\ toServer' = Rest(n, toServer)
  /\ UNCHANGED <<writeQueue, handed, closeAfterWrite, disconnected, clientVars, toClient,
                 history>>

\* The handler of readHeader: a body that is too long is not read, and nothing
\* after it; the client is told and the connection closed.
ServerHasHeader ==
  LET length == FrameLength(serverRead.got)
  IN  /\ serverRead.part = "header" /\ Complete(serverRead)
      /\ IF length > ServerLimit
         THEN /\ serverRead' = NotReading
              /\ closeAfterWrite' = TRUE
              /\ writeQueue' = Enqueue(writeQueue, LengthError)
              /\ sentDown' = Append(sentDown, LengthError)
         ELSE /\ serverRead' = ReadingBody(length)
              /\ UNCHANGED <<closeAfterWrite, writeQueue, sentDown>>
      /\ UNCHANGED <<handed, disconnected, clientVars, toClient, toServer,
                     sentUp, gotDown, gotUp>>

\* Mutant: reads one request.
ServerHasBodyOnce ==
  /\ serverRead.part = "body" /\ Complete(serverRead)
  /\ gotUp' = Append(gotUp, ReceivedByServer(serverRead.got))
  /\ serverRead' = NotReading
  /\ UNCHANGED <<writeQueue, handed, closeAfterWrite, disconnected, clientVars, toClient,
                 toServer, sentDown, sentUp, gotDown>>

\* The handler of readBody: onMessage, then the next header.
ServerHasBody ==
  /\ serverRead.part = "body" /\ Complete(serverRead)
  /\ gotUp' = Append(gotUp, ReceivedByServer(serverRead.got))
  /\ serverRead' = ReadingHeader
  /\ UNCHANGED <<writeQueue, handed, closeAfterWrite, disconnected, clientVars, toClient,
                 toServer, sentDown, sentUp, gotDown>>

\* The client has gone: a write fails, or a read that has nothing left to take.
ServerFails == /\ ~disconnected /\ closed
               /\ \/ writeQueue # << >>
                  \/ serverRead # NotReading /\ ~Complete(serverRead) /\ toServer = << >>
               /\ DisconnectOnce
               /\ UNCHANGED <<closeAfterWrite, clientVars, history>>

-----------------------------------------------------------------------------
(* The client's end.                                                       *)

\* sendElimination, in the thread that plays and knows from a message that it
\* may; it blocks until all is handed over.  That the receiver has ended it only
\* learns later.
ClientSend(m) ==
  /\ ~closed /\ writing = << >> /\ gotDown # << >> /\ MayDecide
  /\ writing' = Frame(m)
  /\ sentUp' = Append(sentUp, m)
  /\ UNCHANGED <<serverVars, receiving, closed, clientRead, toClient, toServer,
                 sentDown, gotDown, gotUp>>

\* The socket takes n bytes.
ClientWrite(n) ==
  /\ ~closed /\ ~disconnected
  /\ n <= Len(writing) /\ Len(toServer) + n <= SocketBuffer
  /\ writing' = Rest(n, writing)
  /\ toServer' = toServer \o SubSeq(writing, 1, n)
  /\ UNCHANGED <<serverVars, receiving, closed, clientRead, toClient, history>>

\* receiveOne, in the receiver thread.
ClientReads(n) ==
  /\ receiving /\ Takes(clientRead, n, toClient)
  /\ clientRead' = Fed(clientRead, n, toClient)
  /\ toClient' = Rest(n, toClient)
  /\ UNCHANGED <<serverVars, writing, receiving, closed, toServer, history>>

\* receiveOne throws at a length that is too long: the thread ends, the socket
\* stays open.
ClientHasHeader ==
  LET length == FrameLength(clientRead.got)
  IN  /\ clientRead.part = "header" /\ Complete(clientRead)
      /\ IF length > ClientLimit
         THEN receiving' = FALSE /\ clientRead' = NotReading
         ELSE clientRead' = ReadingBody(length) /\ UNCHANGED receiving
      /\ UNCHANGED <<serverVars, writing, closed, toClient, toServer, history>>

ClientHasBody ==
  /\ clientRead.part = "body" /\ Complete(clientRead)
  /\ gotDown' = Append(gotDown, ReceivedByClient(clientRead.got))
  /\ clientRead' = ReadingHeader
  /\ UNCHANGED <<serverVars, writing, receiving, closed, toClient, toServer,
                 sentDown, sentUp, gotUp>>

Close == /\ receiving' = FALSE
         /\ closed' = TRUE
         /\ clientRead' = NotReading
         /\ writing' = << >>
         /\ toServer' \in Left(toServer, toClient)
         /\ toClient' = << >>
         /\ UNCHANGED <<serverVars, history>>

\* The server has gone: the read throws when nothing is left to take.
ClientReadFails ==
  /\ receiving /\ disconnected /\ toClient = << >> /\ ~Complete(clientRead)
  /\ receiving' = FALSE /\ clientRead' = NotReading
  /\ UNCHANGED <<serverVars, writing, closed, toClient, toServer, history>>

\* The write throws, and sendElimination closes the client.
ClientWriteFails == ~closed /\ disconnected /\ writing # << >> /\ Close

\* The player leaves, or the link breaks; then anything under way may be lost.
ClientCloses == ~closed /\ Close

LinkBreaks == /\ ~closed
              /\ receiving' = FALSE /\ closed' = TRUE /\ clientRead' = NotReading
              /\ writing' = << >> /\ toClient' = << >>
              /\ \E n \in 0..Len(toServer) : toServer' = SubSeq(toServer, 1, n)
              /\ UNCHANGED <<serverVars, history>>

-----------------------------------------------------------------------------
Init == /\ writeQueue = << >> /\ handed = 0
        /\ closeAfterWrite = FALSE /\ disconnected = FALSE
        /\ writing = << >> /\ receiving = TRUE /\ closed = FALSE
        /\ toClient = << >> /\ toServer = << >>
        /\ serverRead = NotReading /\ clientRead = ReadingHeader
        /\ sentDown = << >> /\ sentUp = << >> /\ gotDown = << >> /\ gotUp = << >>

\* What the two programs and the link do without being asked.
Transfer == \/ \E n \in 1..SocketBuffer : \/ ServerWrite(n)
                                         \/ ServerReads(n)
                                         \/ ClientWrite(n)
                                         \/ ClientReads(n)
            \/ ServerWritten
            \/ ServerHasHeader
            \/ ServerHasBody
            \/ ServerFails
            \/ ClientHasHeader
            \/ ClientHasBody
            \/ ClientReadFails
            \/ ClientWriteFails

Next == \/ ServerStart
        \/ \E m \in Announcements : ServerTurnsAway(m) \/ ServerSend(m)
        \/ \E m \in Requests : ClientSend(m)
        \/ Transfer
        \/ ClientCloses
        \/ LinkBreaks

Spec == Init /\ [][Next]_vars

\* Threads run and bytes travel.  Each transfer is a step towards an end, so
\* fairness to all of them together is enough.
FairSpec == Spec /\ WF_vars(Transfer)

-----------------------------------------------------------------------------
(* Properties.                                                             *)

\* Each direction gives the other end the messages as they were sent, field by
\* field, of the kind they were sent as, whole and in order, wherever the
\* sockets cut the bytes and whenever the connection ends: the lists of
\* Serialization.cpp agree, one frame is written at a time, and no reader loses
\* its place (Serialization.cpp:10-277, GameServer.cpp:171-243,
\* GameClient.cpp:15-30).  What is too long is the last thing sent.
Down == INSTANCE MessageStream WITH sent <- sentDown, arrived <- gotDown
Up == INSTANCE MessageStream WITH sent <- sentUp, arrived <- gotUp
ImplementsStreams == Down!StreamSpec /\ Up!StreamSpec

\* A direction at rest has forgotten nothing: when the sender has handed over all
\* it has, no byte is under way and the reader waits for a header, the reader has
\* been given all that was sent, and in that order (GameServer.cpp:182-188, 229-243,
\* GameClient.cpp:15-30).
AtRest(read, under) == ~closed /\ ~disconnected /\ read = ReadingHeader /\ under = << >>

NothingForgotten ==
  /\ writeQueue = << >> /\ AtRest(clientRead, toClient) => gotDown = sentDown
  /\ writing = << >> /\ AtRest(serverRead, toServer) => gotUp = sentUp

\* While nobody leaves, everything sent arrives: the two ends do not wait for
\* each other with full sockets, although the client's thread that plays blocks
\* in its write (GameClient.cpp:15-18), and the server reads on after every
\* message (GameServer.cpp:214-227).
EverythingArrives ==
  []<>(\/ Len(gotDown) = Len(sentDown) /\ Len(gotUp) = Len(sentUp)
       \/ ~receiving \/ disconnected)

\* The last word reaches a client the server closes: it closes when the queue is
\* empty, not before (GameServer.cpp:182-188, 229-243).  A frame that was too
\* long is not read, and its rest may cost the client the reason.
LastWordArrives ==
  []<>(\/ closeAfterWrite /\ LengthError \notin Range(sentDown) => Len(gotDown) = Len(sentDown)
       \/ closed)
=============================================================================
