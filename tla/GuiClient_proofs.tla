-------------------------- MODULE GuiClient_proofs --------------------------
(***************************************************************************)
(* For any number of GUI clients among any connections: to the server they *)
(* are peers like any other, so what is proved of the server holds of the  *)
(* matches they play; their two threads part cleanly, they show what is    *)
(* true, and they ask for no more than what they are shown lets them.      *)
(***************************************************************************)
EXTENDS GuiClient, GameServer_proofs

\* Close leaves the server where it is or is the peer's leaving.
LEMMA CloseLeaves ==
  ASSUME NEW c \in Clients, Close(c)
  PROVE  UNCHANGED vars \/ PeerLeaves(c)
BY DEF Close

\* Every step of the composition is a step of the server and its peers, or
\* leaves them alone.
LEMMA ServerTakesStep == [GuiNext]_allVars => [Next]_vars
<1> SUFFICES ASSUME [GuiNext]_allVars
             PROVE  [Next]_vars
  OBVIOUS
<1>1. CASE UNCHANGED allVars
  BY <1>1 DEF allVars
<1>2. ASSUME NEW c \in Guis, User(c) \/ MainThread(c) \/ ReceiverThread(c) \/ LinkBreaks(c)
      PROVE  [Next]_vars
  <2>0. c \in Clients
    BY GuisAssumption
  <2>1. CASE User(c)
    <3>1. CASE Launch(c)
      BY <3>1, <2>0 DEF Launch, Next
    <3>2. CASE LaunchFails(c) \/ Select(c) \/ Clear(c) \/ CloseWindow(c)
      BY <3>2 DEF LaunchFails, Select, Clear, CloseWindow
    <3>3. CASE Confirm(c)
      BY <3>3, <2>0 DEF Confirm, Next
    <3> QED
      BY <2>1, <3>1, <3>2, <3>3 DEF User
  <2>2. CASE MainThread(c)
    BY <2>2, <2>0, CloseLeaves
    DEF MainThread, Abandon, Consume, LeaveLoop, StopNetwork, Join, Next
  <2>3. CASE ReceiverThread(c)
    BY <2>3 DEF ReceiverThread, Receive, ReceiveFails
  <2>4. CASE LinkBreaks(c)
    BY <2>4, <2>0 DEF LinkBreaks, Next
  <2> QED
    BY <1>2, <2>1, <2>2, <2>3, <2>4
<1>3. ASSUME NEW c \in Clients, OtherPeer(c) \/ ServerReads(c) \/ ServerWrites(c)
      PROVE  [Next]_vars
  BY <1>3 DEF OtherPeer, ServerReads, ServerWrites, Next
<1>4. CASE ServerStops
  BY <1>4 DEF ServerStops, Next
<1> QED
  BY <1>1, <1>2, <1>3, <1>4 DEF GuiNext

\* GUI clients are peers of the server: the composition implements GameServer.
THEOREM GuisArePeers == GuiSpec => Spec
<1>1. GuiInit => Init
  BY DEF GuiInit
<1> QED
  BY <1>1, ServerTakesStep, PTL DEF GuiSpec, Spec

\* So the match that GUI clients play is the abstract match, whatever their
\* threads, their users and the network do.
THEOREM GuisPlayTheMatch == GuiSpec => ImplementsTurnGame
  BY GuisArePeers, ServerImplementsMatch

-----------------------------------------------------------------------------

\* The inductive invariant of the threads: the flag is up only while the
\* receiver reads; a receiver that reads on after it was lowered will find the
\* connection cut; and the main thread joins with the flag lowered.
ThreadsInv ==
  /\ gone \in [Clients -> BOOLEAN]
  /\ running \in [Guis -> BOOLEAN]
  /\ receiver \in [Guis -> {"none", "reading", "ended"}]
  /\ main \in [Guis -> MainStates]
  /\ \A c \in Guis :
       /\ running[c] => receiver[c] = "reading"
       /\ receiver[c] = "reading" => state[c] # "new"
       /\ receiver[c] = "reading" /\ ~running[c] => Cut(c)
       /\ main[c] = "joining" => ~running[c]

\* A connection is made once, and when it is over it stays over.
LEMMA CutForGood ==
  ASSUME [Next]_vars, NEW c \in Clients, state[c] # "new",
         state \in [Clients -> {"new", "open", "closed"}], gone \in [Clients -> BOOLEAN]
  PROVE  /\ state'[c] # "new"
         /\ Cut(c) => Cut(c)'
<1>1. ASSUME state' = state \/ (\E d \in Clients : state' = [state EXCEPT ![d] = "closed"]),
             gone' = gone \/ (\E d \in Clients : gone' = [gone EXCEPT ![d] = TRUE]),
             stopped' = stopped
      PROVE  state'[c] # "new" /\ (Cut(c) => Cut(c)')
  BY <1>1 DEF Cut, IsConnected
<1>2. CASE UNCHANGED vars
  BY <1>1, <1>2 DEF vars, connectionVars, peerVars
<1>3. ASSUME NEW d \in Clients, OnConnected(d)
      PROVE  state'[c] # "new" /\ (Cut(c) => Cut(c)')
  BY <1>3 DEF OnConnected, Cut, IsConnected, peerVars
<1>4. ASSUME NEW d \in Clients, Read(d) \/ Write(d)
      PROVE  state'[c] # "new" /\ (Cut(c) => Cut(c)')
  BY <1>1, <1>4 DEF Read, Write, ReadHeader, ReadBody, ReadFails, WriteDone, WriteFails,
                    DisconnectOnce, peerVars
<1>5. ASSUME NEW d \in Clients, PeerLeaves(d) \/ \E frame \in Frames : PeerSends(d, frame)
      PROVE  state'[c] # "new" /\ (Cut(c) => Cut(c)')
  BY <1>1, <1>5 DEF PeerLeaves, PeerSends, connectionVars
<1>6. CASE Stop
  BY <1>6 DEF Stop, Cut, IsConnected, peerVars
<1> QED
  BY <1>2, <1>3, <1>4, <1>5, <1>6 DEF Next

\* A step of the server or of its peers that leaves the client's threads alone
\* keeps their invariant.
LEMMA ServerKeepsThreads ==
  ASSUME ThreadsInv, ServerInv, [Next]_vars, gone' \in [Clients -> BOOLEAN],
         NEW c \in Guis, receiver'[c] = receiver[c],
         running'[c] = running[c], main'[c] = main[c]
  PROVE  /\ running'[c] => receiver'[c] = "reading"
         /\ receiver'[c] = "reading" => state'[c] # "new"
         /\ receiver'[c] = "reading" /\ ~running'[c] => Cut(c)'
         /\ main'[c] = "joining" => ~running'[c]
<1>1. c \in Clients
  BY GuisAssumption
<1>2. state[c] # "new" => state'[c] # "new" /\ (Cut(c) => Cut(c)')
  BY <1>1, CutForGood DEF ThreadsInv, ServerInv
<1> QED
  BY <1>1, <1>2 DEF ThreadsInv

LEMMA ThreadsInit == GuiInit => ThreadsInv
BY DEF GuiInit, Init, NewGui, ThreadsInv, MainStates

LEMMA ThreadsNext ==
  ASSUME ThreadsInv, ServerInv, [GuiNext]_allVars
  PROVE  ThreadsInv'
<1> DEFINE Kept(d) == /\ running'[d] => receiver'[d] = "reading"
                      /\ receiver'[d] = "reading" => state'[d] # "new"
                      /\ receiver'[d] = "reading" /\ ~running'[d] => Cut(d)'
                      /\ main'[d] = "joining" => ~running'[d]
           TypesKept == /\ running' \in [Guis -> BOOLEAN]
                        /\ receiver' \in [Guis -> {"none", "reading", "ended"}]
                        /\ main' \in [Guis -> MainStates]
<1>0. [Next]_vars
  BY ServerTakesStep
<1>1. gone' \in [Clients -> BOOLEAN]
  <2>1. gone' = gone \/ \E d \in Clients : gone' = [gone EXCEPT ![d] = TRUE]
    BY <1>0 DEF Next, Read, Write, OnConnected, ReadHeader, ReadBody, ReadFails, WriteDone,
                WriteFails, PeerLeaves, PeerSends, Stop, vars, peerVars
  <2> QED
    BY <2>1 DEF ThreadsInv
<1>2. ASSUME NEW d \in Guis, receiver'[d] = receiver[d],
             running'[d] = running[d], main'[d] = main[d]
      PROVE  Kept(d)
  BY <1>0, <1>1, <1>2, ServerKeepsThreads
<1>3. CASE UNCHANGED <<running, receiver, main>>
  BY <1>1, <1>2, <1>3 DEF ThreadsInv
<1>4. ASSUME NEW c \in Guis, User(c) \/ MainThread(c) \/ ReceiverThread(c),
             TypesKept, Kept(c),
             \A d \in Guis \ {c} : /\ receiver'[d] = receiver[d]
                                   /\ running'[d] = running[d] /\ main'[d] = main[d]
      PROVE  ThreadsInv'
  BY <1>1, <1>2, <1>4 DEF ThreadsInv
<1>5. ASSUME NEW c \in Guis, User(c)
      PROVE  ThreadsInv'
  <2>1. CASE Launch(c)
    <3>1. TypesKept
      BY <2>1 DEF Launch, ThreadsInv, MainStates
    <3>2. state'[c] # "new"
      BY <2>1, GuisAssumption DEF Launch, OnConnected, ServerInv
    <3>3. Kept(c)
      BY <2>1, <3>2 DEF Launch, ThreadsInv
    <3> QED
      BY <1>4, <1>5, <2>1, <3>1, <3>3 DEF Launch, ThreadsInv
  <2>2. CASE LaunchFails(c) \/ Select(c) \/ Clear(c) \/ CloseWindow(c) \/ Confirm(c)
    <3>1. TypesKept /\ main'[c] # "joining"
      BY <1>5, <2>2 DEF LaunchFails, Select, Clear, CloseWindow, Confirm, ThreadsInv, MainStates
    <3>2. /\ receiver' = receiver /\ running' = running
          /\ \A d \in Guis \ {c} : main'[d] = main[d]
      BY <2>2 DEF LaunchFails, Select, Clear, CloseWindow, Confirm, ThreadsInv
    <3>3. Kept(c)
      BY <1>0, <3>1, <3>2, CutForGood, GuisAssumption DEF ThreadsInv, ServerInv
    <3> QED
      BY <1>4, <1>5, <3>1, <3>2, <3>3
  <2> QED
    BY <1>5, <2>1, <2>2 DEF User
<1>6. ASSUME NEW c \in Guis, MainThread(c)
      PROVE  ThreadsInv'
  <2>0. c \in Clients /\ (receiver[c] = "reading" => state'[c] # "new" /\ (Cut(c) => Cut(c)'))
    BY <1>0, CutForGood, GuisAssumption DEF ThreadsInv, ServerInv
  <2>1. CASE Abandon(c) \/ StopNetwork(c)
    <3>1. TypesKept /\ running'[c] = FALSE /\ receiver' = receiver
      BY <2>1 DEF Abandon, StopNetwork, ThreadsInv, MainStates
    <3>2. ASSUME Close(c)
          PROVE  Cut(c)'
      BY <2>0, <3>2 DEF Close, Cut, IsConnected, PeerLeaves, vars, connectionVars, peerVars,
                        ThreadsInv
    <3>3. receiver[c] = "reading" => Cut(c)'
      BY <2>0, <2>1, <3>2 DEF Abandon, StopNetwork, ThreadsInv
    <3>4. Kept(c)
      BY <2>0, <3>1, <3>3
    <3> QED
      BY <1>4, <1>6, <2>1, <3>1, <3>4 DEF Abandon, StopNetwork, ThreadsInv
  <2>2. CASE Consume(c)
    BY <1>3, <2>2 DEF Consume
  <2>3. CASE LeaveLoop(c) \/ Join(c)
    <3>1. TypesKept /\ Kept(c)
      BY <2>0, <2>3 DEF LeaveLoop, Join, ThreadsInv, MainStates
    <3> QED
      BY <1>4, <1>6, <2>3, <3>1 DEF LeaveLoop, Join, ThreadsInv
  <2> QED
    BY <1>6, <2>1, <2>2, <2>3 DEF MainThread
<1>7. ASSUME NEW c \in Guis, ReceiverThread(c)
      PROVE  ThreadsInv'
  <2>1. CASE Receive(c)
    BY <1>3, <2>1 DEF Receive
  <2>2. CASE ReceiveFails(c)
    <3>1. TypesKept /\ Kept(c)
      BY <2>2 DEF ReceiveFails, ThreadsInv
    <3> QED
      BY <1>4, <1>7, <2>2, <3>1 DEF ReceiveFails, ThreadsInv
  <2> QED
    BY <1>7, <2>1, <2>2 DEF ReceiverThread
<1> QED
  BY <1>3, <1>5, <1>6, <1>7
  DEF GuiNext, LinkBreaks, OtherPeer, ServerReads, ServerWrites, ServerStops, guiVars, allVars

\* The threads part cleanly, for any number of clients: the join at the end
\* waits for no receiver that only the server could wake.
THEOREM JoinsReturn == GuiSpec => []JoinReturns
<1>1. ThreadsInv => JoinReturns
  BY DEF ThreadsInv, JoinReturns
<1> QED
  BY <1>1, ThreadsInit, ThreadsNext, GuisArePeers, ServerSafety, PTL DEF GuiSpec
-----------------------------------------------------------------------------
(* What a client has heard.                                                *)

\* The queue q holds, in order, the messages of the stream s after the first h
\* and up to the r-th, each once, with notices of a lost connection between
\* them: f gives each its place in the stream, a notice 0.
InQueue(q, f, s, h, r) ==
  /\ f \in [1..Len(q) -> Nat]
  /\ \A i \in 1..Len(q) : \/ f[i] = 0 /\ q[i] = NetworkDisconnected
                          \/ f[i] \in h + 1..r /\ q[i] = s[f[i]]
  /\ \A k \in h + 1..r : \E i \in 1..Len(q) : f[i] = k
  /\ \A i, j \in 1..Len(q) : i < j => f[j] = 0 \/ f[i] < f[j]

Follows(q, s, h, r) == \E f \in [1..Len(q) -> Nat] : InQueue(q, f, s, h, r)

LEMMA FollowsGrow ==
  ASSUME NEW q, NEW s, NEW t, NEW h \in Nat, NEW r \in Nat, Follows(q, s, h, r),
         r <= Len(s), Len(s) \in Nat, Extends(t, s)
  PROVE  Follows(q, t, h, r)
<1>1. PICK f \in [1..Len(q) -> Nat] : InQueue(q, f, s, h, r)
  BY DEF Follows
<1>2. \A k \in h + 1..r : t[k] = s[k]
  BY DEF Extends
<1>3. InQueue(q, f, t, h, r)
  BY <1>1, <1>2 DEF InQueue
<1> QED
  BY <1>3 DEF Follows

\* The receiver queues what is next in the stream, or a notice.
LEMMA FollowsPush ==
  ASSUME NEW S, NEW q \in Seq(S), NEW s, NEW h \in Nat, NEW r \in Nat, h <= r,
         Follows(q, s, h, r)
  PROVE  /\ Follows(Append(q, s[r + 1]), s, h, r + 1)
         /\ Follows(Append(q, NetworkDisconnected), s, h, r)
<1>1. PICK f \in [1..Len(q) -> Nat] : InQueue(q, f, s, h, r)
  BY DEF Follows
<1> DEFINE n == Len(q)
<1>2. ASSUME NEW m, NEW k \in Nat, NEW u \in Nat,
             \/ k = 0 /\ m = NetworkDisconnected /\ u = r
             \/ k = r + 1 /\ m = s[r + 1] /\ u = r + 1
      PROVE  Follows(Append(q, m), s, h, u)
  <2> DEFINE p == Append(q, m)
             g == [i \in 1..n + 1 |-> IF i = n + 1 THEN k ELSE f[i]]
  <2>1. /\ n \in Nat /\ Len(p) = n + 1 /\ p[n + 1] = m
        /\ \A i \in 1..n : p[i] = q[i]
        /\ \A i \in 1..Len(p) : i \in 1..n \/ i = n + 1
    BY LongerByOne
  <2>2. /\ g \in [1..n + 1 -> Nat] /\ g[n + 1] = k
        /\ \A i \in 1..n : g[i] = f[i]
    BY <2>1
  <2> HIDE DEF p, g, n
  <2>3. \A i \in 1..n : \/ f[i] = 0 /\ q[i] = NetworkDisconnected
                        \/ f[i] \in h + 1..r /\ q[i] = s[f[i]]
    BY <1>1 DEF InQueue, n
  <2>4. ASSUME NEW i \in 1..n + 1
        PROVE  \/ g[i] = 0 /\ p[i] = NetworkDisconnected
               \/ g[i] \in h + 1..u /\ p[i] = s[g[i]]
    <3>1. CASE i = n + 1
      BY <1>2, <2>1, <2>2, <3>1
    <3>2. CASE i \in 1..n
      BY <1>2, <2>1, <2>2, <2>3, <3>2, SMTT(20)
    <3> QED
      BY <2>1, <3>1, <3>2
  <2>5. ASSUME NEW v \in h + 1..u
        PROVE  \E i \in 1..n + 1 : g[i] = v
    <3>1. CASE v \in h + 1..r
      <4>1. PICK i \in 1..n : f[i] = v
        BY <1>1, <3>1 DEF InQueue, n
      <4>2. i \in 1..n + 1 /\ g[i] = v
        BY <2>1, <2>2, <4>1
      <4> QED
        BY <4>2
    <3>2. CASE v = r + 1 /\ k = r + 1
      <4>1. n + 1 \in 1..n + 1
        BY <2>1
      <4> QED
        BY <2>2, <3>2, <4>1
    <3> QED
      BY <1>2, <3>1, <3>2
  <2>6. ASSUME NEW i \in 1..n + 1, NEW j \in 1..n + 1, i < j
        PROVE  g[j] = 0 \/ g[i] < g[j]
    <3>1. i \in 1..n /\ g[i] = f[i] /\ f[i] \in 0..r
      <4>1. i \in 1..n
        BY <2>1, <2>6
      <4> QED
        BY <2>2, <2>3, <4>1
    <3>2. CASE j = n + 1
      BY <1>2, <2>2, <3>1, <3>2
    <3>3. CASE j \in 1..n
      BY <1>1, <2>2, <2>6, <3>1, <3>3 DEF InQueue, n
    <3> QED
      BY <2>1, <3>2, <3>3
  <2>7. InQueue(p, g, s, h, u)
    BY <2>1, <2>2, <2>4, <2>5, <2>6 DEF InQueue
  <2> QED
    BY <2>1, <2>2, <2>7 DEF Follows, p
<1>3. Follows(Append(q, s[r + 1]), s, h, r + 1)
  <2> DEFINE m == s[r + 1]
             u == r + 1
  <2>1. u \in Nat /\ u = r + 1 /\ m = s[r + 1]
    OBVIOUS
  <2> HIDE DEF m, u
  <2>2. Follows(Append(q, m), s, h, u)
    BY <1>2, <2>1
  <2> QED
    BY <2>2 DEF m, u
<1>4. Follows(Append(q, NetworkDisconnected), s, h, r)
  BY <1>2
<1> QED
  BY <1>3, <1>4

\* The main thread takes a notice, or the first message it has not handled.
LEMMA FollowsTake ==
  ASSUME NEW S, NEW q \in Seq(S), q # << >>, NEW s, NEW h \in Nat, NEW r \in Nat,
         Follows(q, s, h, r)
  PROVE  \/ Head(q) = NetworkDisconnected /\ Follows(Tail(q), s, h, r)
         \/ h < r /\ Head(q) = s[h + 1] /\ Follows(Tail(q), s, h + 1, r)
<1>1. PICK f \in [1..Len(q) -> Nat] : InQueue(q, f, s, h, r)
  BY DEF Follows
<1> DEFINE n == Len(q)
           p == Tail(q)
           g == [i \in 1..n - 1 |-> f[i + 1]]
<1>2. /\ n \in Nat \ {0} /\ Len(p) = n - 1 /\ Head(q) = q[1]
      /\ \A i \in 1..n - 1 : p[i] = q[i + 1]
  OBVIOUS
<1>3. /\ g \in [1..n - 1 -> Nat]
      /\ \A i \in 1..n - 1 : i + 1 \in 1..n /\ g[i] = f[i + 1]
  BY <1>2
<1> HIDE DEF n, p, g
<1>4. \A i \in 1..n : \/ f[i] = 0 /\ q[i] = NetworkDisconnected
                      \/ f[i] \in h + 1..r /\ q[i] = s[f[i]]
  BY <1>1 DEF InQueue, n
<1>5. \A i, j \in 1..n : i < j => f[j] = 0 \/ f[i] < f[j]
  BY <1>1 DEF InQueue, n
<1>6. \A k \in h + 1..r : \E i \in 1..n : f[i] = k
  BY <1>1 DEF InQueue, n
<1>7. 1 \in 1..n
  BY <1>2
<1>8. \A i \in 1..n : i = 1 \/ (i - 1 \in 1..n - 1 /\ g[i - 1] = f[i])
  <2> TAKE i \in 1..n
  <2>1. CASE i # 1
    <3>1. i - 1 \in 1..n - 1 /\ (i - 1) + 1 = i
      BY <1>2, <2>1
    <3> QED
      BY <1>3, <3>1
  <2> QED
    BY <2>1
<1>9. \A i, j \in 1..n - 1 : i < j => g[j] = 0 \/ g[i] < g[j]
  <2> SUFFICES ASSUME NEW i \in 1..n - 1, NEW j \in 1..n - 1, i < j
               PROVE  g[j] = 0 \/ g[i] < g[j]
    OBVIOUS
  <2>1. i + 1 \in 1..n /\ j + 1 \in 1..n /\ i + 1 < j + 1 /\ g[i] = f[i + 1] /\ g[j] = f[j + 1]
    BY <1>3
  <2> QED
    BY <1>5, <2>1
<1>10. CASE f[1] = 0
  <2>1. \A i \in 1..n - 1 : \/ g[i] = 0 /\ p[i] = NetworkDisconnected
                            \/ g[i] \in h + 1..r /\ p[i] = s[g[i]]
    BY <1>2, <1>3, <1>4, ZenonT(30)
  <2>2. \A k \in h + 1..r : \E i \in 1..n - 1 : g[i] = k
    <3> SUFFICES ASSUME NEW k \in h + 1..r
                 PROVE  \E i \in 1..n - 1 : g[i] = k
      OBVIOUS
    <3>1. PICK i \in 1..n : f[i] = k
      BY <1>6
    <3>2. i # 1
      BY <1>10, <3>1
    <3> QED
      BY <1>8, <3>1, <3>2
  <2>3. InQueue(p, g, s, h, r)
    BY <1>2, <1>3, <1>9, <2>1, <2>2 DEF InQueue
  <2>4. Head(q) = NetworkDisconnected
    BY <1>2, <1>4, <1>7, <1>10
  <2> QED
    BY <1>2, <1>3, <2>3, <2>4 DEF Follows, p
<1>11. CASE f[1] # 0
  <2>1. f[1] \in h + 1..r /\ q[1] = s[f[1]]
    BY <1>4, <1>7, <1>11
  <2>2. f[1] = h + 1
    <3>1. PICK i \in 1..n : f[i] = h + 1
      <4>1. h + 1 \in h + 1..r
        BY <2>1
      <4> QED
        BY <1>6, <4>1
    <3>2. i = 1 \/ f[1] < f[i]
      <4>1. i = 1 \/ 1 < i
        BY <1>2
      <4> QED
        BY <1>5, <1>7, <3>1, <4>1
    <3> QED
      BY <2>1, <3>1, <3>2
  <2>3. \A i \in 1..n - 1 : g[i] = 0 \/ h + 1 < g[i]
    <3> SUFFICES ASSUME NEW i \in 1..n - 1
                 PROVE  g[i] = 0 \/ h + 1 < g[i]
      OBVIOUS
    <3>1. i + 1 \in 1..n /\ 1 < i + 1 /\ g[i] = f[i + 1]
      BY <1>3
    <3> QED
      BY <1>5, <1>7, <2>2, <3>1
  <2>4. ASSUME NEW i \in 1..n - 1
        PROVE  \/ g[i] = 0 /\ p[i] = NetworkDisconnected
               \/ g[i] \in (h + 1) + 1..r /\ p[i] = s[g[i]]
    <3>1. \/ g[i] = 0 /\ p[i] = NetworkDisconnected
          \/ g[i] \in h + 1..r /\ p[i] = s[g[i]]
      BY <1>2, <1>3, <1>4
    <3> QED
      BY <2>3, <3>1
  <2>5. ASSUME NEW k \in (h + 1) + 1..r
        PROVE  \E i \in 1..n - 1 : g[i] = k
    <3>1. PICK i \in 1..n : f[i] = k
      BY <1>6
    <3>2. i # 1
      BY <2>2, <3>1
    <3> QED
      BY <1>8, <3>1, <3>2
  <2>6. InQueue(p, g, s, h + 1, r)
    BY <1>2, <1>3, <1>9, <2>4, <2>5 DEF InQueue
  <2> QED
    BY <1>2, <1>3, <2>1, <2>2, <2>6 DEF Follows, p
<1> QED
  BY <1>10, <1>11
-----------------------------------------------------------------------------
(* What a client shows of it.                                              *)

Board == {NoBoard} \cup UNION {Seen(t) : t \in Nat}

GuiState == [phase : Phases, playerId : {-1, 0, 1}, shown : Board, requestPending : BOOLEAN,
             path : 0..MinPath, drawnOn : Board]

Ends(m) == m.type \in {"OpponentDisconnected", "GameEnded"}

\* The message m is a reason to say that the game is over.
IsOver(m) == \/ Ends(m)
             \/ TellsSuccess(m) /\ m.game.phase = "Finished"
             \/ m.type = "Error" /\ m.text = "RoomFull"

\* The client's state g comes from the first h messages of the stream s.
Sees(g, s, h) ==
  /\ \/ g.shown = NoBoard /\ \A i \in 1..h : ~Shows(s[i])
     \/ \E i \in 1..h : LastShown(s, h, i) /\ g.shown = s[i].game
  /\ g.playerId = -1 \/ \E i \in 1..h : s[i] = JoinRoom(g.playerId)
  /\ g.phase = "GameOver" => \E i \in 1..h : IsOver(s[i])
  /\ g.phase = "Playing" => \A i \in 1..h : ~Ends(s[i])
  /\ g.path > 0 => /\ g.drawnOn = g.shown /\ g.shown # NoBoard
                   /\ \A i \in 1..h : ~Ends(s[i])

LEMMA SeesGrow ==
  ASSUME NEW g, NEW s, NEW t, NEW h \in Nat, h <= Len(s), Len(s) \in Nat, Extends(t, s),
         Sees(g, s, h)
  PROVE  Sees(g, t, h)
<1>1. \A i \in 1..h : t[i] = s[i]
  BY DEF Extends
<1>2. \A i : LastShown(s, h, i) => LastShown(t, h, i)
  BY <1>1 DEF LastShown
<1> QED
  BY <1>1, <1>2 DEF Sees

\* The kinds of messages there are.
LEMMA MessageKinds ==
  ASSUME NEW p \in {-1, 0, 1}, NEW t \in Nat, NEW m \in Sendable(p, t)
  PROVE  \/ m.type \in {"PlayerReady", "OpponentDisconnected", "GameEnded"}
         \/ m.type = "Error"
         \/ m.type = "JoinRoom" /\ m.playerId = p /\ m = JoinRoom(p)
         \/ m.type = "GameStarted" /\ m.game \in Board
         \/ m.type = "EliminateResult" /\ m.success \in BOOLEAN /\ m.game \in Board
BY DEF Sendable, PlayerReady, OpponentDisconnected, GameEnded, JoinRoom, Board

LEMMA NoBoardIsBoard == NoBoard \in Board
BY DEF Board

\* What a message makes of the client's state, kind by kind.
LEMMA Handled ==
  ASSUME NEW g \in GuiState, NEW m
  PROVE  LET k == HandleMessage(g, m)
         IN  /\ m.type = "GameStarted" /\ m.game \in Board =>
                  /\ k = [g EXCEPT !.shown = m.game, !.requestPending = FALSE,
                                   !.phase = "Playing", !.path = 0, !.drawnOn = NoBoard]
             /\ m.type = "EliminateResult" /\ m.game \in Board /\ m.success =>
                  /\ k = [g EXCEPT !.shown = m.game, !.requestPending = FALSE,
                                   !.phase = IF m.game.phase = "Finished" THEN "GameOver" ELSE @,
                                   !.path = 0, !.drawnOn = NoBoard]
             /\ m.type = "EliminateResult" /\ m.game \in Board /\ ~m.success =>
                  k = [g EXCEPT !.shown = m.game, !.requestPending = FALSE]
             /\ m.type = "JoinRoom" =>
                  k = [g EXCEPT !.playerId = m.playerId,
                                !.phase = IF @ = "Connecting" THEN "Connected" ELSE @]
             /\ m.type = "PlayerReady" => k = [g EXCEPT !.phase = "WaitingForOpponent"]
             /\ Ends(m) => k = [g EXCEPT !.phase = "GameOver", !.requestPending = FALSE,
                                         !.path = 0, !.drawnOn = NoBoard]
             /\ m.type = "Error" =>
                  k = [g EXCEPT !.requestPending = FALSE,
                                !.phase = IF m.text = "RoomFull" THEN "GameOver" ELSE @]
             /\ m.type = "NetworkDisconnected" =>
                  k = [g EXCEPT !.phase = "Disconnected", !.requestPending = FALSE,
                                !.path = 0, !.drawnOn = NoBoard]
<1>1. CASE m.type = "GameStarted"
  BY <1>1 DEF HandleMessage, Ends, ApplyStarted, ClearPath, GuiState
<1>2. CASE m.type = "EliminateResult"
  BY <1>2 DEF HandleMessage, Ends, ApplyResult, ClearPath, GuiState
<1>3. CASE m.type = "JoinRoom"
  BY <1>3 DEF HandleMessage, Ends, SetPlayerId
<1>4. CASE m.type = "PlayerReady"
  BY <1>4 DEF HandleMessage, Ends, WaitForOpponent
<1>5. CASE Ends(m)
  BY <1>5 DEF HandleMessage, Ends, GameIsOver, ClearPath, GuiState
<1>6. CASE m.type = "Error"
  BY <1>6 DEF HandleMessage, Ends
<1>7. CASE m.type = "NetworkDisconnected"
  BY <1>7 DEF HandleMessage, Ends, ServerLost, ClearPath, GuiState
<1> QED
  BY <1>1, <1>2, <1>3, <1>4, <1>5, <1>6, <1>7

LEMMA HandledTyped ==
  ASSUME NEW g \in GuiState, NEW p \in {-1, 0, 1}, NEW t \in Nat,
         NEW m, m \in Sendable(p, t) \/ m = NetworkDisconnected
  PROVE  HandleMessage(g, m) \in GuiState
<1> DEFINE k == HandleMessage(g, m)
<1>1. \/ m.type \in {"PlayerReady", "NetworkDisconnected"} \/ Ends(m)
      \/ m.type = "Error"
      \/ m.type = "JoinRoom" /\ m.playerId = p
      \/ m.type = "GameStarted" /\ m.game \in Board
      \/ m.type = "EliminateResult" /\ m.success \in BOOLEAN /\ m.game \in Board
  BY MessageKinds DEF NetworkDisconnected, Ends
<1>2. ASSUME NEW board \in Board, NEW phase \in Phases
      PROVE  /\ [g EXCEPT !.shown = board, !.requestPending = FALSE, !.phase = phase,
                          !.path = 0, !.drawnOn = NoBoard] \in GuiState
             /\ [g EXCEPT !.shown = board, !.requestPending = FALSE] \in GuiState
             /\ [g EXCEPT !.phase = phase, !.requestPending = FALSE,
                          !.path = 0, !.drawnOn = NoBoard] \in GuiState
             /\ [g EXCEPT !.phase = phase] \in GuiState
             /\ [g EXCEPT !.playerId = p, !.phase = phase] \in GuiState
             /\ [g EXCEPT !.requestPending = FALSE, !.phase = phase] \in GuiState
  <2> DEFINE B == Board
             N == NoBoard
  <2>1. N \in B /\ board \in B
    BY NoBoardIsBoard
  <2>2. 0 \in 0..MinPath
    BY DEF MinPath
  <2> HIDE DEF B, N
  <2>3. GuiState = [phase : Phases, playerId : {-1, 0, 1}, shown : B, requestPending : BOOLEAN,
                    path : 0..MinPath, drawnOn : B]
    BY DEF GuiState, B
  <2>4. /\ [g EXCEPT !.shown = board, !.requestPending = FALSE, !.phase = phase,
                     !.path = 0, !.drawnOn = N] \in GuiState
        /\ [g EXCEPT !.phase = phase, !.requestPending = FALSE,
                     !.path = 0, !.drawnOn = N] \in GuiState
    BY <2>1, <2>2, <2>3
  <2>5. /\ [g EXCEPT !.shown = board, !.requestPending = FALSE] \in GuiState
        /\ [g EXCEPT !.phase = phase] \in GuiState
    BY <2>1, <2>2, <2>3
  <2>6. /\ [g EXCEPT !.playerId = p, !.phase = phase] \in GuiState
        /\ [g EXCEPT !.requestPending = FALSE, !.phase = phase] \in GuiState
    BY <2>1, <2>2, <2>3
  <2> QED
    BY <2>4, <2>5, <2>6 DEF N
<1>3. {"Connected", "WaitingForOpponent", "Playing", "GameOver", "Disconnected", g.phase} \subseteq Phases
  BY DEF GuiState, Phases
<1>4. CASE m.type = "GameStarted" /\ m.game \in Board
  <2>1. k = [g EXCEPT !.shown = m.game, !.requestPending = FALSE,
                      !.phase = "Playing", !.path = 0, !.drawnOn = NoBoard]
    BY <1>4, Handled, ZenonT(60)
  <2> HIDE DEF k
  <2>2. k \in GuiState
    BY <1>2, <1>3, <1>4, <2>1
  <2> QED
    BY <2>2 DEF k
<1>5. CASE m.type = "EliminateResult" /\ m.success \in BOOLEAN /\ m.game \in Board
  <2> DEFINE phase == IF m.game.phase = "Finished" THEN "GameOver" ELSE g.phase
  <2>1. \/ k = [g EXCEPT !.shown = m.game, !.requestPending = FALSE, !.phase = phase,
                         !.path = 0, !.drawnOn = NoBoard]
        \/ k = [g EXCEPT !.shown = m.game, !.requestPending = FALSE]
    BY <1>5, Handled, ZenonT(60)
  <2>2. phase \in Phases
    BY <1>3
  <2> HIDE DEF k, phase
  <2>3. k \in GuiState
    BY <1>2, <1>5, <2>1, <2>2, ZenonT(30)
  <2> QED
    BY <2>3 DEF k
<1>6. CASE m.type = "JoinRoom" /\ m.playerId = p
  <2> DEFINE phase == IF g.phase = "Connecting" THEN "Connected" ELSE g.phase
  <2>1. k = [g EXCEPT !.playerId = p, !.phase = phase]
    BY <1>6, Handled, ZenonT(60)
  <2>2. phase \in Phases
    BY <1>3
  <2> HIDE DEF k, phase
  <2>3. k \in GuiState
    BY <1>2, <2>1, <2>2, NoBoardIsBoard
  <2> QED
    BY <2>3 DEF k
<1>7. CASE m.type = "PlayerReady"
  <2>1. k = [g EXCEPT !.phase = "WaitingForOpponent"]
    BY <1>7, Handled, ZenonT(60)
  <2> HIDE DEF k
  <2>2. k \in GuiState
    BY <1>2, <1>3, <2>1, NoBoardIsBoard
  <2> QED
    BY <2>2 DEF k
<1>8. CASE m.type = "NetworkDisconnected" \/ Ends(m)
  <2>1. \/ k = [g EXCEPT !.phase = "Disconnected", !.requestPending = FALSE,
                         !.path = 0, !.drawnOn = NoBoard]
        \/ k = [g EXCEPT !.phase = "GameOver", !.requestPending = FALSE,
                         !.path = 0, !.drawnOn = NoBoard]
    BY <1>8, Handled, ZenonT(60)
  <2> HIDE DEF k
  <2>2. k \in GuiState
    BY <1>2, <1>3, <2>1, NoBoardIsBoard
  <2> QED
    BY <2>2 DEF k
<1>9. CASE m.type = "Error"
  <2> DEFINE phase == IF m.text = "RoomFull" THEN "GameOver" ELSE g.phase
  <2>1. k = [g EXCEPT !.requestPending = FALSE, !.phase = phase]
    BY <1>9, Handled, ZenonT(60)
  <2>2. phase \in Phases
    BY <1>3
  <2> HIDE DEF k, phase
  <2>3. k \in GuiState
    BY <1>2, <2>1, <2>2, NoBoardIsBoard
  <2> QED
    BY <2>3 DEF k
<1> QED
  BY <1>1, <1>4, <1>5, <1>6, <1>7, <1>8, <1>9
LEMMA HandledFields ==
  ASSUME NEW g \in GuiState, NEW p \in {-1, 0, 1}, NEW t \in Nat, NEW m \in Sendable(p, t)
  PROVE  LET k == HandleMessage(g, m)
         IN  /\ k.shown = IF Shows(m) THEN m.game ELSE g.shown
             /\ k.playerId = g.playerId \/ m = JoinRoom(k.playerId)
             /\ k.phase = "GameOver" => g.phase = "GameOver" \/ IsOver(m)
             /\ k.phase = "Playing" => m.type = "GameStarted" \/ (g.phase = "Playing" /\ ~Ends(m))
             /\ k.path > 0 => /\ g.path > 0 /\ k.drawnOn = g.drawnOn
                              /\ ~Ends(m) /\ (Shows(m) => Refuses(m))
<1> DEFINE k == HandleMessage(g, m)
           Goal == /\ k.shown = IF Shows(m) THEN m.game ELSE g.shown
                   /\ k.playerId = g.playerId \/ m = JoinRoom(k.playerId)
                   /\ k.phase = "GameOver" => g.phase = "GameOver" \/ IsOver(m)
                   /\ k.phase = "Playing" =>
                        m.type = "GameStarted" \/ (g.phase = "Playing" /\ ~Ends(m))
                   /\ k.path > 0 => /\ g.path > 0 /\ k.drawnOn = g.drawnOn
                                    /\ ~Ends(m) /\ (Shows(m) => Refuses(m))
<1>1. \/ m.type \in {"PlayerReady"} \/ Ends(m)
      \/ m.type = "Error"
      \/ m.type = "JoinRoom" /\ m.playerId = p /\ m = JoinRoom(p)
      \/ m.type = "GameStarted" /\ m.game \in Board
      \/ m.type = "EliminateResult" /\ m.success \in BOOLEAN /\ m.game \in Board
  BY MessageKinds DEF Ends
<1>2. ASSUME m.type = "GameStarted" /\ m.game \in Board
      PROVE  Goal
  <2>1. k = [g EXCEPT !.shown = m.game, !.requestPending = FALSE,
                      !.phase = "Playing", !.path = 0, !.drawnOn = NoBoard]
    BY <1>2, Handled, ZenonT(60)
  <2> HIDE DEF k
  <2> QED
    BY <1>2, <2>1 DEF GuiState, Shows
<1>3. ASSUME m.type = "EliminateResult" /\ m.game \in Board /\ m.success
      PROVE  Goal
  <2>1. k = [g EXCEPT !.shown = m.game, !.requestPending = FALSE,
                      !.phase = IF m.game.phase = "Finished" THEN "GameOver" ELSE @,
                      !.path = 0, !.drawnOn = NoBoard]
    BY <1>3, Handled, ZenonT(60)
  <2> HIDE DEF k
  <2> QED
    BY <1>3, <2>1 DEF GuiState, Shows, IsOver, Ends, TellsSuccess
<1>4. ASSUME m.type = "EliminateResult" /\ m.game \in Board /\ ~m.success
      PROVE  Goal
  <2>1. k = [g EXCEPT !.shown = m.game, !.requestPending = FALSE]
    BY <1>4, Handled, ZenonT(60)
  <2> HIDE DEF k
  <2> QED
    BY <1>4, <2>1 DEF GuiState, Shows, Ends, Refuses
<1>5. ASSUME m.type = "JoinRoom" /\ m.playerId = p /\ m = JoinRoom(p)
      PROVE  Goal
  <2>1. k = [g EXCEPT !.playerId = p,
                      !.phase = IF @ = "Connecting" THEN "Connected" ELSE @]
    BY <1>5, Handled, ZenonT(60)
  <2> HIDE DEF k
  <2>2. /\ k.shown = g.shown /\ k.playerId = p /\ k.path = g.path /\ k.drawnOn = g.drawnOn
        /\ k.phase = "Connected" \/ k.phase = g.phase
    BY <2>1 DEF GuiState
  <2> QED
    BY <1>5, <2>2 DEF Shows, Ends
<1>6. ASSUME m.type = "PlayerReady"
      PROVE  Goal
  <2>1. k = [g EXCEPT !.phase = "WaitingForOpponent"]
    BY <1>6, Handled, ZenonT(60)
  <2> HIDE DEF k
  <2> QED
    BY <1>6, <2>1 DEF GuiState, Shows, Ends
<1>7. ASSUME Ends(m)
      PROVE  Goal
  <2>1. k = [g EXCEPT !.phase = "GameOver", !.requestPending = FALSE,
                      !.path = 0, !.drawnOn = NoBoard]
    BY <1>7, Handled, ZenonT(60)
  <2> HIDE DEF k
  <2> QED
    BY <1>7, <2>1 DEF GuiState, Shows, IsOver, Ends
<1>8. ASSUME m.type = "Error"
      PROVE  Goal
  <2>1. k = [g EXCEPT !.requestPending = FALSE,
                      !.phase = IF m.text = "RoomFull" THEN "GameOver" ELSE @]
    BY <1>8, Handled, ZenonT(60)
  <2> HIDE DEF k
  <2> QED
    BY <1>8, <2>1 DEF GuiState, Shows, Ends, IsOver
<1>9. Goal
  BY <1>1, <1>2, <1>3, <1>4, <1>5, <1>6, <1>7, <1>8
<1> QED
  BY <1>9

\* The client takes the next message of the stream.
LEMMA SeesNext ==
  ASSUME NEW g \in GuiState, NEW p \in {-1, 0, 1}, NEW t \in Nat,
         NEW s \in Seq(Sendable(p, t)), NEW h \in Nat, h < Len(s),
         InOrder(s, p), Repeats(s), Sees(g, s, h)
  PROVE  Sees(HandleMessage(g, s[h + 1]), s, h + 1)
<1> DEFINE m == s[h + 1]
           k == HandleMessage(g, m)
<1>1. /\ m \in Sendable(p, t) /\ Len(s) \in Nat /\ h + 1 \in 1..Len(s)
      /\ \A i \in 1..h + 1 : i \in 1..h \/ i = h + 1
      /\ \A i \in 1..h : i \in 1..h + 1 /\ i \in 1..Len(s) /\ i + 1 \in 1..h + 1
  OBVIOUS
<1>2. /\ k.shown = IF Shows(m) THEN m.game ELSE g.shown
      /\ k.playerId = g.playerId \/ m = JoinRoom(k.playerId)
      /\ k.phase = "GameOver" => g.phase = "GameOver" \/ IsOver(m)
      /\ k.phase = "Playing" => m.type = "GameStarted" \/ (g.phase = "Playing" /\ ~Ends(m))
      /\ k.path > 0 => /\ g.path > 0 /\ k.drawnOn = g.drawnOn
                       /\ ~Ends(m) /\ (Shows(m) => Refuses(m))
  BY <1>1, HandledFields
<1>3. m = s[h + 1]
  OBVIOUS
<1> HIDE DEF k, m
<1>4. m.type = "GameStarted" => /\ ~Ends(m)
                                /\ \A i \in 1..h : ~Ends(s[i])
  <2> SUFFICES ASSUME m.type = "GameStarted", NEW i \in 1..h, Ends(s[i])
               PROVE  FALSE
    BY DEF Ends
  <2>1. s[i].type # "GameEnded"
    BY <1>1, <1>3 DEF InOrder
  <2>2. s[i].type = "OpponentDisconnected"
    BY <2>1 DEF Ends
  <2>3. i + 1 \in 1..h + 1 /\ s[i + 1].type = "GameEnded"
    BY <1>1, <2>2 DEF InOrder
  <2>4. i + 1 # h + 1
    BY <1>3, <2>3
  <2>5. i + 1 \in 1..Len(s) /\ i + 1 < h + 1
    BY <1>1, <2>3, <2>4
  <2> QED
    BY <1>1, <1>3, <2>3, <2>5 DEF InOrder
<1>5. Shows(m) => LastShown(s, h + 1, h + 1)
  BY <1>1, <1>3 DEF LastShown
<1>6. ~Shows(m) => \A i : LastShown(s, h, i) => LastShown(s, h + 1, i)
  BY <1>1, <1>3 DEF LastShown
<1>7. \/ k.shown = NoBoard /\ \A i \in 1..h + 1 : ~Shows(s[i])
      \/ \E i \in 1..h + 1 : LastShown(s, h + 1, i) /\ k.shown = s[i].game
  <2>1. CASE Shows(m)
    BY <1>1, <1>2, <1>3, <1>5, <2>1
  <2>2. CASE ~Shows(m)
    BY <1>1, <1>2, <1>3, <1>6, <2>2 DEF Sees
  <2> QED
    BY <2>1, <2>2
<1>8. k.playerId = -1 \/ \E i \in 1..h + 1 : s[i] = JoinRoom(k.playerId)
  BY <1>1, <1>2, <1>3 DEF Sees
<1>9. k.phase = "GameOver" => \E i \in 1..h + 1 : IsOver(s[i])
  BY <1>1, <1>2, <1>3 DEF Sees
<1>10. k.phase = "Playing" => \A i \in 1..h + 1 : ~Ends(s[i])
  BY <1>1, <1>2, <1>3, <1>4 DEF Sees
<1>11. ASSUME k.path > 0
       PROVE  /\ k.drawnOn = k.shown /\ k.shown # NoBoard
              /\ \A i \in 1..h + 1 : ~Ends(s[i])
  <2>1. /\ g.drawnOn = g.shown /\ g.shown # NoBoard /\ k.drawnOn = g.drawnOn
        /\ \A i \in 1..h + 1 : ~Ends(s[i])
    BY <1>1, <1>2, <1>3, <1>11 DEF Sees
  <2>2. CASE Shows(m)
    <3>1. Refuses(m)
      BY <1>2, <1>11, <2>2
    <3>2. PICK i \in 1..h : LastShown(s, h, i) /\ g.shown = s[i].game
      BY <2>1 DEF Sees
    <3>3. NoEnd(s, h + 1)
      BY <2>1 DEF NoEnd, Ends
    <3>4. s[h + 1].game = s[i].game
      <4>1. (h + 1) - 1 = h
        OBVIOUS
      <4> QED
        BY <1>1, <1>3, <3>1, <3>2, <3>3, <4>1 DEF Repeats
    <3> QED
      BY <1>2, <1>3, <2>1, <2>2, <3>2, <3>4
  <2>3. CASE ~Shows(m)
    BY <1>2, <2>1, <2>3
  <2> QED
    BY <2>1, <2>2, <2>3
<1>12. Sees(k, s, h + 1)
  BY <1>7, <1>8, <1>9, <1>10, <1>11 DEF Sees
<1> QED
  BY <1>12 DEF k, m
-----------------------------------------------------------------------------
(* Every client shows what it was sent, up to some message.                *)

\* What is known of the server whatever its peers do.
Known == ServerInv /\ FramesInv /\ StreamInv /\ HistoryInv /\ SnapshotsInv

THEOREM KnownOfTheServer == GuiSpec => []Known
  BY GuisArePeers, ServerSafety, StreamsTrue, HistoryTrue, SnapshotsTrue, PTL DEF Known

\* What may be in the queue of a client that is sent the stream s.
Heard(s) == {NetworkDisconnected} \cup {s[i] : i \in 1..Len(s)}

HeardWell(c) ==
  /\ queue[c] \in Seq(Heard(out[c]))
  /\ received[c] <= written[c]
  /\ \E h \in 0..received[c] : /\ Follows(queue[c], out[c], h, received[c])
                               /\ Sees(gui[c], out[c], h)

\* The inductive invariant of the clients: what they show is what the server
\* sent them, up to the message they have taken from the queue last.
HeardInv == /\ gui \in [Guis -> GuiState]
            /\ queue = [c \in Guis |-> queue[c]]
            /\ received \in [Guis -> Nat]
            /\ \A c \in Guis : HeardWell(c)

\* What the user, the threads and the loss of the connection do to the state.
Harmless(g, k) ==
  /\ k \in GuiState
  /\ k.shown = g.shown /\ k.playerId = g.playerId
  /\ k.phase \in {"GameOver", "Playing"} => k.phase = g.phase
  /\ k.requestPending \/ k.phase = "Disconnected" \/ k.requestPending = g.requestPending
  /\ k.path > 0 => \/ g.path > 0 /\ k.drawnOn = g.drawnOn
                   \/ g.phase = "Playing" /\ g.shown # NoBoard /\ k.drawnOn = g.shown

LEMMA HarmlessSees ==
  ASSUME NEW g, NEW k, NEW s, NEW h, Sees(g, s, h), Harmless(g, k)
  PROVE  Sees(k, s, h)
BY DEF Sees, Harmless

LEMMA HarmlessSame == \A g \in GuiState : Harmless(g, g)
BY DEF Harmless

\* Selecting, clearing and confirming are harmless.
LEMMA UserHarmless ==
  ASSUME NEW g \in GuiState
  PROVE  /\ CanSelect(g) => \A k \in Selections(g) : Harmless(g, k)
         /\ Harmless(g, ClearPath(g))
         /\ Harmless(g, [g EXCEPT !.requestPending = TRUE])
         /\ Harmless(g, [g EXCEPT !.phase = "Connected"])
         /\ Harmless(g, [g EXCEPT !.phase = "Disconnected"])
<1> DEFINE B == Board
           N == NoBoard
           P == 0..3
<1>1. N \in B /\ B = Board /\ N = NoBoard /\ 0 \in P /\ 1 \in P
  BY NoBoardIsBoard
<1> HIDE DEF B, N, P
<1>2. GuiState = [phase : Phases, playerId : {-1, 0, 1}, shown : B, requestPending : BOOLEAN,
                  path : P, drawnOn : B]
  BY <1>1 DEF GuiState, MinPath, P
<1>3. Harmless(g, ClearPath(g))
  <2> DEFINE k == [g EXCEPT !.path = 0, !.drawnOn = N]
  <2>1. /\ k \in GuiState /\ k.shown = g.shown /\ k.playerId = g.playerId /\ k.phase = g.phase /\ k.path = 0
        /\ k.requestPending = g.requestPending
    BY <1>1, <1>2
  <2>2. ClearPath(g) = k
    BY <1>1 DEF ClearPath
  <2> HIDE DEF k
  <2> QED
    BY <2>1, <2>2 DEF Harmless
<1>4. Harmless(g, [g EXCEPT !.requestPending = TRUE])
  <2> DEFINE k == [g EXCEPT !.requestPending = TRUE]
  <2>1. /\ k \in GuiState /\ k.shown = g.shown /\ k.playerId = g.playerId /\ k.phase = g.phase
        /\ k.path = g.path /\ k.drawnOn = g.drawnOn /\ k.requestPending = TRUE
    BY <1>2
  <2> HIDE DEF k
  <2>2. Harmless(g, k)
    BY <2>1 DEF Harmless
  <2> QED
    BY <2>2 DEF k
<1>5. ASSUME NEW phase \in {"Connected", "Disconnected"}
      PROVE  Harmless(g, [g EXCEPT !.phase = phase])
  <2> DEFINE k == [g EXCEPT !.phase = phase]
  <2>1. /\ k \in GuiState /\ k.shown = g.shown /\ k.playerId = g.playerId /\ k.phase = phase
        /\ k.path = g.path /\ k.drawnOn = g.drawnOn /\ k.requestPending = g.requestPending
    BY <1>2 DEF Phases
  <2> HIDE DEF k
  <2>2. Harmless(g, k)
    BY <1>5, <2>1 DEF Harmless
  <2> QED
    BY <2>2 DEF k
<1>6. ASSUME CanSelect(g), NEW k \in Selections(g)
      PROVE  Harmless(g, k)
  <2>1. g.phase = "Playing" /\ g.shown # N /\ g.path \in 0..3 /\ g.shown \in B
    BY <1>1, <1>2, <1>6 DEF CanSelect, P
  <2>2. CASE g.path = 0
    <3>1. k = [g EXCEPT !.path = 1, !.drawnOn = g.shown]
      BY <1>6, <2>2 DEF Selections
    <3>2. /\ k \in GuiState /\ k.shown = g.shown /\ k.playerId = g.playerId /\ k.phase = g.phase
          /\ k.drawnOn = g.shown /\ k.requestPending = g.requestPending
      BY <1>1, <1>2, <2>1, <3>1
    <3> QED
      BY <1>1, <2>1, <3>2 DEF Harmless
  <2>3. CASE g.path # 0
    <3>1. \/ k = ClearPath(g)
          \/ \E n \in 0..3 : k = [g EXCEPT !.path = n]
      <4>1. \/ k = [g EXCEPT !.path = IF @ = MinPath THEN @ ELSE @ + 1]
            \/ k = IF g.path = 1 THEN ClearPath(g) ELSE [g EXCEPT !.path = @ - 1]
        BY <1>6, <2>3 DEF Selections
      <4>2. CASE k = [g EXCEPT !.path = IF @ = MinPath THEN @ ELSE @ + 1]
        <5> DEFINE n == IF g.path = MinPath THEN g.path ELSE g.path + 1
        <5>1. n \in 0..3
          BY <2>1 DEF MinPath
        <5>2. k = [g EXCEPT !.path = n]
          BY <4>2
        <5> QED
          BY <5>1, <5>2
      <4>3. CASE g.path # 1 /\ k = [g EXCEPT !.path = @ - 1]
        <5> DEFINE n == g.path - 1
        <5>1. n \in 0..3
          BY <2>1, <2>3, <4>3
        <5>2. k = [g EXCEPT !.path = n]
          BY <4>3
        <5> QED
          BY <5>1, <5>2
      <4> QED
        BY <4>1, <4>2, <4>3
    <3>2. ASSUME NEW n \in 0..3, k = [g EXCEPT !.path = n]
          PROVE  Harmless(g, k)
      <4>1. /\ k \in GuiState /\ k.shown = g.shown /\ k.playerId = g.playerId /\ k.phase = g.phase
            /\ k.drawnOn = g.drawnOn /\ k.requestPending = g.requestPending
        BY <1>2, <3>2 DEF P
      <4>2. g.path > 0
        BY <2>1, <2>3
      <4> QED
        BY <4>1, <4>2 DEF Harmless
    <3> QED
      BY <1>3, <3>1, <3>2
  <2> QED
    BY <2>2, <2>3
<1> QED
  BY <1>3, <1>4, <1>5, <1>6

\* What a step means to the client c: nothing to what it has been sent, or the
\* receiver takes a message from the socket, or the main thread one from the queue.
Hears(c) ==
  \/ /\ queue'[c] = queue[c] \/ queue'[c] = Append(queue[c], NetworkDisconnected)
     /\ received'[c] = received[c]
     /\ Harmless(gui[c], gui'[c])
  \/ /\ received[c] < written[c]
     /\ queue'[c] = Append(queue[c], out[c][received[c] + 1])
     /\ received'[c] = received[c] + 1
     /\ gui'[c] = gui[c]
  \/ /\ queue[c] # << >> /\ UNCHANGED vars
     /\ gui'[c] = HandleMessage(gui[c], Head(queue[c]))
     /\ queue'[c] = Tail(queue[c])
     /\ received'[c] = received[c]

LEMMA GuiMoves ==
  ASSUME [GuiNext]_allVars, gui \in [Guis -> GuiState],
         queue = [c \in Guis |-> queue[c]], received \in [Guis -> Nat]
  PROVE  /\ gui' = [c \in Guis |-> gui'[c]] /\ queue' = [c \in Guis |-> queue'[c]]
         /\ received' \in [Guis -> Nat]
         /\ \A c \in Guis : Hears(c)
<1> DEFINE Goal == /\ gui' = [c \in Guis |-> gui'[c]] /\ queue' = [c \in Guis |-> queue'[c]]
                   /\ received' \in [Guis -> Nat]
                   /\ \A c \in Guis : Hears(c)
<1>1. \A c \in Guis : gui[c] \in GuiState /\ Harmless(gui[c], gui[c])
  BY HarmlessSame
<1>2. ASSUME NEW c \in Guis, received' = received, queue' = queue \/ queue' = Push(c, NetworkDisconnected),
             gui' = gui \/ \E k : Harmless(gui[c], k) /\ gui' = [gui EXCEPT ![c] = k]
      PROVE  Goal
  <2>1. ASSUME NEW d \in Guis
        PROVE  /\ queue'[d] = queue[d] \/ queue'[d] = Append(queue[d], NetworkDisconnected)
               /\ Harmless(gui[d], gui'[d])
    BY <1>1, <1>2 DEF Push
  <2>2. gui' = [d \in Guis |-> gui'[d]] /\ queue' = [d \in Guis |-> queue'[d]]
    BY <1>2 DEF Push
  <2> QED
    BY <1>2, <2>1, <2>2 DEF Hears
<1>3. ASSUME UNCHANGED <<gui, queue, received>>
      PROVE  Goal
  BY <1>1, <1>3 DEF Hears
<1>4. ASSUME NEW c \in Guis, User(c)
      PROVE  Goal
  <2>1. CASE Launch(c) \/ LaunchFails(c)
    <3>1. /\ UNCHANGED <<queue, received>>
          /\ \E phase \in {"Connected", "Disconnected"} :
               gui' = [gui EXCEPT ![c] = [gui[c] EXCEPT !.phase = phase]]
      BY <2>1 DEF Launch, LaunchFails
    <3> QED
      BY <1>1, <1>2, <3>1, UserHarmless
  <2>2. CASE Select(c)
    <3>1. /\ UNCHANGED <<queue, received>> /\ CanSelect(gui[c])
          /\ \E k \in Selections(gui[c]) : gui' = [gui EXCEPT ![c] = k]
      BY <2>2 DEF Select
    <3> QED
      BY <1>1, <1>2, <3>1, UserHarmless
  <2>3. CASE Clear(c)
    <3>1. UNCHANGED <<queue, received>> /\ gui' = [gui EXCEPT ![c] = ClearPath(gui[c])]
      BY <2>3 DEF Clear
    <3> QED
      BY <1>1, <1>2, <3>1, UserHarmless
  <2>4. CASE Confirm(c)
    <3>1. /\ received' = received /\ (queue' = queue \/ queue' = Push(c, NetworkDisconnected))
          /\ gui' = [gui EXCEPT ![c] = [gui[c] EXCEPT !.requestPending = TRUE]]
      BY <2>4 DEF Confirm
    <3> QED
      BY <1>1, <1>2, <3>1, UserHarmless
  <2>5. CASE CloseWindow(c)
    BY <1>3, <2>5 DEF CloseWindow
  <2> QED
    BY <1>4, <2>1, <2>2, <2>3, <2>4, <2>5 DEF User
<1>5. ASSUME NEW c \in Guis, MainThread(c)
      PROVE  Goal
  <2>1. CASE Consume(c)
    <3>1. /\ queue[c] # << >> /\ received' = received /\ UNCHANGED vars
          /\ gui' = [gui EXCEPT ![c] = HandleMessage(gui[c], Head(queue[c]))]
          /\ queue' = [queue EXCEPT ![c] = Tail(queue[c])]
      BY <2>1 DEF Consume
    <3>2. ASSUME NEW d \in Guis
          PROVE  Hears(d)
      BY <1>1, <3>1 DEF Hears
    <3> QED
      BY <3>1, <3>2
  <2> QED
    BY <1>3, <1>5, <2>1 DEF MainThread, Abandon, LeaveLoop, StopNetwork, Join
<1>6. ASSUME NEW c \in Guis, ReceiverThread(c)
      PROVE  Goal
  <2>1. CASE Receive(c)
    <3>1. /\ received[c] < written[c] /\ gui' = gui
          /\ queue' = [queue EXCEPT ![c] = Append(queue[c], out[c][received[c] + 1])]
          /\ received' = [received EXCEPT ![c] = received[c] + 1]
      BY <2>1 DEF Receive, Push
    <3>2. ASSUME NEW d \in Guis
          PROVE  Hears(d)
      BY <1>1, <3>1 DEF Hears
    <3>3. received' \in [Guis -> Nat]
      BY <3>1
    <3>4. gui' = [d \in Guis |-> gui'[d]] /\ queue' = [d \in Guis |-> queue'[d]]
      BY <3>1
    <3> QED
      BY <3>2, <3>3, <3>4
  <2>2. CASE ReceiveFails(c)
    <3>1. /\ received' = received /\ (queue' = queue \/ queue' = Push(c, NetworkDisconnected))
          /\ gui' = gui
      BY <2>2 DEF ReceiveFails
    <3> QED
      BY <1>2, <3>1
  <2> QED
    BY <1>6, <2>1, <2>2 DEF ReceiverThread
<1> QED
  BY <1>3, <1>4, <1>5, <1>6
  DEF GuiNext, LinkBreaks, OtherPeer, ServerReads, ServerWrites, ServerStops, guiVars, allVars

LEMMA WrittenGrows ==
  ASSUME StreamInv, [Next]_vars, NEW c \in Clients
  PROVE  written[c] \in Nat /\ written'[c] \in Nat /\ written[c] <= written'[c]
<1>1. written[c] \in Nat
  BY DEF StreamInv
<1>2. ASSUME NEW d \in Clients, OnConnected(d) \/ Read(d) \/ PeerLeaves(d)
                                 \/ \E frame \in Frames : PeerSends(d, frame)
      PROVE  written' = written
  BY <1>2 DEF OnConnected, TurnAway, Seat, Read, ReadHeader, ReadBody, ReadFails,
              PeerLeaves, PeerSends, connectionVars
<1>3. ASSUME NEW d \in Clients, Write(d)
      PROVE  written' = written \/ written' = [written EXCEPT ![d] = @ + 1]
  BY <1>3 DEF Write, WriteDone, WriteFails
<1>4. ASSUME Stop \/ UNCHANGED vars
      PROVE  written' = written
  BY <1>4 DEF Stop, vars, connectionVars
<1>5. written' = written \/ \E d \in Clients : written' = [written EXCEPT ![d] = @ + 1]
  BY <1>2, <1>3, <1>4 DEF Next
<1>6. written'[c] = written[c] \/ written'[c] = written[c] + 1
  BY <1>5 DEF StreamInv
<1> QED
  BY <1>1, <1>6

LEMMA HeardInit == GuiInit => HeardInv
<1> SUFFICES ASSUME GuiInit
             PROVE  HeardInv
  OBVIOUS
<1>1. NewGui \in GuiState
  <2> DEFINE B == Board
             N == NoBoard
  <2>1. N \in B
    BY NoBoardIsBoard
  <2> HIDE DEF B, N
  <2>2. GuiState = [phase : Phases, playerId : {-1, 0, 1}, shown : B, requestPending : BOOLEAN,
                    path : 0..3, drawnOn : B]
    BY DEF GuiState, B, MinPath
  <2>3. NewGui = [phase |-> "Connecting", playerId |-> -1, shown |-> N,
                  requestPending |-> FALSE, path |-> 0, drawnOn |-> N]
    BY DEF NewGui, N
  <2> QED
    BY <2>1, <2>2, <2>3 DEF Phases
<1>2. Follows(<< >>, << >>, 0, 0)
  <2> DEFINE f == [i \in 1..0 |-> 0]
  <2>1. f \in [1..Len(<< >>) -> Nat] /\ InQueue(<< >>, f, << >>, 0, 0)
    BY DEF InQueue
  <2> QED
    BY <2>1 DEF Follows
<1>3. Sees(NewGui, << >>, 0)
  BY DEF Sees, NewGui
<1>4. ASSUME NEW c \in Guis
      PROVE  HeardWell(c)
  <2>1. /\ queue[c] = << >> /\ out[c] = << >> /\ received[c] = 0 /\ written[c] = 0
        /\ gui[c] = NewGui
    BY GuisAssumption DEF GuiInit, Init
  <2>2. 0 \in 0..received[c] /\ queue[c] \in Seq(Heard(out[c]))
    BY <2>1
  <2> QED
    BY <1>2, <1>3, <2>1, <2>2 DEF HeardWell
<1> QED
  BY <1>1, <1>4 DEF GuiInit, HeardInv

\* What a client has taken from its queue stays in its stream, and so does what
\* is in the queue.
LEMMA HeardGrows ==
  ASSUME NEW s, NEW t, Len(s) \in Nat, Extends(t, s)
  PROVE  Seq(Heard(s)) \subseteq Seq(Heard(t))
<1>1. Heard(s) \subseteq Heard(t)
  <2>1. \A i \in 1..Len(s) : i \in 1..Len(t) /\ t[i] = s[i]
    BY DEF Extends
  <2> QED
    BY <2>1 DEF Heard
<1> QED
  BY <1>1

\* The step of the client c itself, its stream being s.
LEMMA HearsWell ==
  ASSUME Known, NEW c \in Guis, HeardWell(c), Hears(c), gui[c] \in GuiState,
         received[c] \in Nat
  PROVE  /\ queue'[c] \in Seq(Heard(out[c]))
         /\ received'[c] \in Nat /\ received'[c] <= written[c]
         /\ gui'[c] \in GuiState
         /\ \E h \in 0..received'[c] : /\ Follows(queue'[c], out[c], h, received'[c])
                                       /\ Sees(gui'[c], out[c], h)
<1> DEFINE s == out[c]
           p == slot[c]
           u == game.turnId
           w == written[c]
           r == received[c]
           q == queue[c]
           g == gui[c]
<1>1. /\ c \in Clients /\ p \in {-1, 0, 1} /\ u \in Nat /\ s \in Seq(Sendable(p, u))
      /\ Len(s) \in Nat /\ w \in Nat /\ w <= Len(s)
  BY GuisAssumption DEF Known, ServerInv, StreamInv, GoodSession, Session
<1>2. InOrder(s, p) /\ Repeats(s)
  BY <1>1 DEF Known, HistoryInv, StreamsInOrder, SnapshotsInv, ShowsWell
<1>3. PICK h \in 0..r : Follows(q, s, h, r) /\ Sees(g, s, h)
  BY DEF HeardWell
<1>4. q \in Seq(Heard(s)) /\ r \in Nat /\ r <= w /\ g \in GuiState
  BY DEF HeardWell
<1> DEFINE q1 == queue'[c]
           r1 == received'[c]
           g1 == gui'[c]
           Goal == /\ q1 \in Seq(Heard(s)) /\ r1 \in Nat /\ r1 <= w /\ g1 \in GuiState
                   /\ \E k \in 0..r1 : Follows(q1, s, k, r1) /\ Sees(g1, s, k)
<1>5. \/ /\ q1 = q \/ q1 = Append(q, NetworkDisconnected)
         /\ r1 = r /\ Harmless(g, g1)
      \/ r < w /\ q1 = Append(q, s[r + 1]) /\ r1 = r + 1 /\ g1 = g
      \/ q # << >> /\ g1 = HandleMessage(g, Head(q)) /\ q1 = Tail(q) /\ r1 = r
  BY DEF Hears
<1> SUFFICES Goal
  OBVIOUS
<1> HIDE DEF s, p, u, w, r, q, g, q1, r1, g1
<1>6. h \in Nat /\ h <= r
  BY <1>4
<1>7. NetworkDisconnected \in Heard(s) /\ \A i \in 1..Len(s) : s[i] \in Heard(s)
  BY DEF Heard
<1>8. CASE (q1 = q \/ q1 = Append(q, NetworkDisconnected)) /\ r1 = r /\ Harmless(g, g1)
  <2>1. q1 \in Seq(Heard(s))
    BY <1>4, <1>7, <1>8
  <2>2. Follows(q1, s, h, r)
    BY <1>3, <1>4, <1>6, <1>8, FollowsPush
  <2>3. Sees(g1, s, h) /\ g1 \in GuiState
    BY <1>3, <1>8, HarmlessSees DEF Harmless
  <2> QED
    BY <1>3, <1>4, <1>8, <2>1, <2>2, <2>3
<1>9. CASE r < w /\ q1 = Append(q, s[r + 1]) /\ r1 = r + 1 /\ g1 = g
  <2>1. r + 1 \in 1..Len(s) /\ r + 1 \in Nat /\ r + 1 <= w /\ h \in 0..r + 1
    BY <1>1, <1>4, <1>6, <1>9
  <2>2. q1 \in Seq(Heard(s))
    BY <1>4, <1>7, <1>9, <2>1
  <2>3. Follows(q1, s, h, r + 1)
    BY <1>3, <1>4, <1>6, <1>9, FollowsPush
  <2> QED
    BY <1>3, <1>4, <1>9, <2>1, <2>2, <2>3
<1>10. CASE q # << >> /\ g1 = HandleMessage(g, Head(q)) /\ q1 = Tail(q) /\ r1 = r
  <2>1. q1 \in Seq(Heard(s))
    BY <1>4, <1>10
  <2>2. \/ Head(q) = NetworkDisconnected /\ Follows(Tail(q), s, h, r)
        \/ h < r /\ Head(q) = s[h + 1] /\ Follows(Tail(q), s, h + 1, r)
    BY <1>3, <1>4, <1>6, <1>10, FollowsTake
  <2>3. CASE Head(q) = NetworkDisconnected /\ Follows(Tail(q), s, h, r)
    <3>1. g1 \in GuiState
      BY <1>1, <1>4, <1>10, <2>3, HandledTyped
    <3>2. Harmless(g, g1)
      <4>1. g1 = [g EXCEPT !.phase = "Disconnected", !.requestPending = FALSE,
                           !.path = 0, !.drawnOn = NoBoard]
        <5> DEFINE m == Head(q)
        <5>1. m.type = "NetworkDisconnected"
          BY <2>3 DEF NetworkDisconnected
        <5>2. g1 = HandleMessage(g, m)
          BY <1>10
        <5> HIDE DEF m
        <5> QED
          BY <1>4, <5>1, <5>2, Handled, ZenonT(60)
      <4>2. /\ g1.shown = g.shown /\ g1.playerId = g.playerId
            /\ g1.phase = "Disconnected" /\ g1.path = 0
        BY <1>4, <4>1 DEF GuiState
      <4> QED
        BY <3>1, <4>2 DEF Harmless
    <3>3. Sees(g1, s, h)
      BY <1>3, <3>2, HarmlessSees
    <3> QED
      BY <1>3, <1>4, <1>10, <2>1, <2>3, <3>1, <3>3
  <2>4. CASE h < r /\ Head(q) = s[h + 1] /\ Follows(Tail(q), s, h + 1, r)
    <3>1. h < Len(s) /\ h + 1 \in 1..Len(s) /\ h + 1 \in 0..r
      BY <1>1, <1>4, <1>6, <2>4
    <3>2. s[h + 1] \in Sendable(p, u)
      BY <1>1, <3>1
    <3>3. g1 \in GuiState
      BY <1>1, <1>4, <1>10, <2>4, <3>2, HandledTyped
    <3>4. Sees(g1, s, h + 1)
      BY <1>1, <1>2, <1>3, <1>4, <1>6, <1>10, <2>4, <3>1, SeesNext
    <3> QED
      BY <1>4, <1>10, <2>1, <2>4, <3>1, <3>3, <3>4
  <2> QED
    BY <2>2, <2>3, <2>4
<1> QED
  BY <1>5, <1>8, <1>9, <1>10

LEMMA HeardNext ==
  ASSUME Known, Known', HeardInv, [GuiNext]_allVars
  PROVE  HeardInv'
<1>1. [Next]_vars
  BY ServerTakesStep
<1>2. QuietStep \/ StartStep \/ AnswerStep
  BY <1>1, StepTells DEF Known, HistoryInv, Begun
<1>3. /\ gui' = [c \in Guis |-> gui'[c]] /\ queue' = [c \in Guis |-> queue'[c]]
      /\ received' \in [Guis -> Nat]
      /\ \A c \in Guis : Hears(c)
  BY GuiMoves DEF HeardInv
<1>4. ASSUME NEW c \in Guis
      PROVE  gui'[c] \in GuiState /\ HeardWell(c)'
  <2> DEFINE s == out[c]
             t == out'[c]
             r1 == received'[c]
             q1 == queue'[c]
             g1 == gui'[c]
  <2>1. c \in Clients
    BY GuisAssumption
  <2>2. Len(s) \in Nat /\ Extends(t, s)
    BY <1>2, <2>1, StreamsGrow DEF Known, HistoryInv
  <2>3. written[c] \in Nat /\ written'[c] \in Nat /\ written[c] <= written'[c] /\ written[c] <= Len(s)
    BY <1>1, <2>1, WrittenGrows DEF Known, StreamInv
  <2>4. /\ q1 \in Seq(Heard(s)) /\ r1 \in Nat /\ r1 <= written[c] /\ g1 \in GuiState
        /\ \E h \in 0..r1 : Follows(q1, s, h, r1) /\ Sees(g1, s, h)
    BY <1>3, HearsWell DEF HeardInv
  <2>5. PICK h \in 0..r1 : Follows(q1, s, h, r1) /\ Sees(g1, s, h)
    BY <2>4
  <2> HIDE DEF s, t, r1, q1, g1
  <2>6. h \in Nat /\ h <= Len(s) /\ r1 <= Len(s) /\ r1 <= written'[c]
    BY <2>2, <2>3, <2>4, <2>5
  <2>7. Follows(q1, t, h, r1)
    BY <2>2, <2>4, <2>5, <2>6, FollowsGrow
  <2>8. Sees(g1, t, h)
    BY <2>2, <2>5, <2>6, SeesGrow
  <2>9. q1 \in Seq(Heard(t))
    BY <2>2, <2>4, HeardGrows
  <2> QED
    BY <2>4, <2>5, <2>6, <2>7, <2>8, <2>9 DEF HeardWell, t, r1, q1, g1
<1> QED
  BY <1>3, <1>4 DEF HeardInv

\* For any number of clients and players, and whatever the network does.
THEOREM HeardTrue == GuiSpec => []HeardInv
BY HeardInit, HeardNext, KnownOfTheServer, PTL DEF GuiSpec

\* What a client has handled is part of its stream.
LEMMA HandledPart ==
  ASSUME Known, HeardInv, NEW c \in Guis
  PROVE  /\ c \in Clients /\ Len(out[c]) \in Nat /\ gui[c] \in GuiState
         /\ \E h \in Nat : /\ h <= Len(out[c]) /\ h <= received[c]
                           /\ Follows(queue[c], out[c], h, received[c])
                           /\ Sees(gui[c], out[c], h)
<1>1. /\ c \in Clients /\ out[c] \in Seq(Sendable(slot[c], game.turnId))
      /\ written[c] \in Nat /\ written[c] <= Len(out[c])
  BY GuisAssumption DEF Known, StreamInv
<1>2. Len(out[c]) \in Nat
  BY <1>1
<1>3. received[c] \in Nat /\ received[c] <= written[c]
  BY DEF HeardInv, HeardWell
<1>4. PICK h \in 0..received[c] : /\ Follows(queue[c], out[c], h, received[c])
                                  /\ Sees(gui[c], out[c], h)
  BY DEF HeardInv, HeardWell
<1>5. h \in Nat /\ h <= Len(out[c]) /\ h <= received[c]
  BY <1>1, <1>2, <1>3, <1>4
<1> QED
  BY <1>1, <1>2, <1>4, <1>5 DEF HeardInv

\* No path is left over from a board that has since changed.
THEOREM PathsOnShownBoards == GuiSpec => []PathOnShownBoard
<1>1. HeardInv => PathOnShownBoard
  BY DEF HeardInv, HeardWell, Sees, PathOnShownBoard
<1> QED
  BY <1>1, HeardTrue, PTL

\* A client that says that the game is over is right.
THEOREM GameOversAreReal == GuiSpec => []GameOverIsReal
<1>1. Known /\ HeardInv => GameOverIsReal
  <2> SUFFICES ASSUME Known, HeardInv, NEW c \in Guis, gui[c].phase = "GameOver"
               PROVE  game.phase = "Finished" \/ ~Owns(c)
    BY DEF GameOverIsReal
  <2> DEFINE s == out[c]
  <2>1. PICK h \in Nat : h <= Len(s) /\ Sees(gui[c], s, h)
    BY HandledPart
  <2>2. c \in Clients /\ Len(s) \in Nat
    BY HandledPart
  <2>3. PICK i \in 1..h : IsOver(s[i])
    BY <2>1 DEF Sees
  <2>4. i \in 1..Len(s)
    BY <2>1, <2>2, <2>3
  <2>5. \A j \in 1..Len(s) : Means(s[j], slot[c], game.phase)
    BY <2>2 DEF Known, HistoryInv, ToldInTime, InTime
  <2>6. InOrder(s, slot[c])
    BY <2>2 DEF Known, HistoryInv, StreamsInOrder
  <2> HIDE DEF s
  <2>7. CASE s[i].type = "GameEnded"
    BY <2>4, <2>5, <2>7 DEF Means
  <2>8. CASE s[i].type = "OpponentDisconnected"
    <3>1. i < Len(s) /\ s[i + 1].type = "GameEnded"
      BY <2>4, <2>6, <2>8 DEF InOrder
    <3>2. i + 1 \in 1..Len(s)
      BY <2>2, <2>4, <3>1
    <3> QED
      BY <2>5, <3>1, <3>2 DEF Means
  <2>9. CASE TellsSuccess(s[i]) /\ s[i].game.phase = "Finished"
    BY <2>4, <2>5, <2>9 DEF Means, Shows, TellsSuccess
  <2>10. CASE s[i].type = "Error" /\ s[i].text = "RoomFull"
    <3>1. slot[c] = -1
      BY <2>4, <2>5, <2>10 DEF Means
    <3> QED
      BY <3>1 DEF Owns, Players
  <2> QED
    BY <2>3, <2>7, <2>8, <2>9, <2>10 DEF IsOver, Ends
<1> QED
  BY <1>1, HeardTrue, KnownOfTheServer, PTL

\* The board a client shows is one of its stream, and what it shows next is no
\* earlier.
LEMMA ShownNext ==
  ASSUME Known, HeardInv, [GuiNext]_allVars, NEW c \in Guis, gui[c].shown # NoBoard
  PROVE  /\ Counted(gui[c].shown)
         /\ Later(gui[c].shown, gui'[c].shown)
<1> DEFINE s == out[c]
           g == gui[c]
           g1 == gui'[c]
           q == queue[c]
           p == slot[c]
           u == game.turnId
           r == received[c]
<1>1. PICK h \in Nat : h <= Len(s) /\ h <= r /\ Follows(q, s, h, r) /\ Sees(g, s, h)
  BY HandledPart
<1>2. c \in Clients /\ Len(s) \in Nat /\ g \in GuiState
  BY HandledPart
<1>3. /\ p \in {-1, 0, 1} /\ u \in Nat /\ s \in Seq(Sendable(p, u))
      /\ written[c] \in Nat /\ written[c] <= Len(s)
  BY <1>2 DEF Known, ServerInv, StreamInv, GoodSession, Session
<1>4. MovesOn(s, Snapshot(game))
  BY <1>2 DEF Known, SnapshotsInv, ShowsWell
<1>5. q \in Seq(Heard(s)) /\ r \in Nat /\ r <= written[c]
  BY DEF HeardInv, HeardWell
<1>6. \/ Harmless(g, g1) \/ g1 = g
      \/ q # << >> /\ g1 = HandleMessage(g, Head(q))
  BY GuiMoves DEF HeardInv, Hears
<1>7. g.shown # NoBoard
  OBVIOUS
<1> SUFFICES Counted(g.shown) /\ Later(g.shown, g1.shown)
  OBVIOUS
<1> HIDE DEF s, g, g1, q, p, u, r
<1>8. PICK i \in 1..h : Shows(s[i]) /\ g.shown = s[i].game
  BY <1>1, <1>7 DEF Sees, LastShown
<1>9. i \in 1..Len(s)
  BY <1>1, <1>2, <1>8
<1>10. Counted(g.shown)
  BY <1>4, <1>8, <1>9 DEF MovesOn
<1>11. Later(g.shown, g.shown)
  <2>1. /\ g.shown.turnId <= g.shown.turnId
        /\ \A a \in Players : g.shown.towerHp[a] <= g.shown.towerHp[a]
    BY <1>10 DEF Counted
  <2> QED
    BY <2>1 DEF Later
<1>12. CASE g1.shown = g.shown
  BY <1>10, <1>11, <1>12
<1>13. CASE q # << >> /\ g1 = HandleMessage(g, Head(q))
  <2>1. \/ Head(q) = NetworkDisconnected
        \/ h < r /\ Head(q) = s[h + 1]
    BY <1>1, <1>5, <1>13, FollowsTake
  <2>2. CASE Head(q) = NetworkDisconnected
    <3> DEFINE m == Head(q)
    <3>1. m.type = "NetworkDisconnected"
      BY <2>2 DEF NetworkDisconnected
    <3>2. g1 = HandleMessage(g, m)
      BY <1>13
    <3> HIDE DEF m
    <3>3. g1 = [g EXCEPT !.phase = "Disconnected", !.requestPending = FALSE,
                         !.path = 0, !.drawnOn = NoBoard]
      BY <1>2, <3>1, <3>2, Handled, ZenonT(60)
    <3>4. g1.shown = g.shown
      BY <1>2, <3>3 DEF GuiState
    <3> QED
      BY <1>12, <3>4
  <2>3. CASE h < r /\ Head(q) = s[h + 1]
    <3> DEFINE m == s[h + 1]
    <3>1. h + 1 \in 1..Len(s) /\ i < h + 1
      BY <1>1, <1>2, <1>3, <1>5, <1>8, <2>3
    <3>2. m \in Sendable(p, u) /\ g1 = HandleMessage(g, m)
      BY <1>3, <1>13, <2>3, <3>1
    <3>3. Shows(m) => Later(g.shown, m.game)
      BY <1>4, <1>8, <1>9, <3>1 DEF MovesOn
    <3> HIDE DEF m
    <3>4. g1.shown = IF Shows(m) THEN m.game ELSE g.shown
      BY <1>2, <1>3, <3>2, HandledFields
    <3> QED
      BY <1>10, <1>12, <3>3, <3>4
  <2> QED
    BY <2>1, <2>2, <2>3
<1> QED
  BY <1>6, <1>12, <1>13 DEF Harmless

\* No client goes back to an earlier turn, nor are a tower's hit points restored
\* on its screen.
THEOREM BoardsMoveOn == GuiSpec => ShownMovesOn
<1>1. ASSUME Known, HeardInv, [GuiNext]_allVars
      PROVE  [\A c \in Guis :
                gui[c].shown # NoBoard =>
                  /\ gui'[c].shown.turnId >= gui[c].shown.turnId
                  /\ \A p \in Players : gui'[c].shown.towerHp[p] <= gui[c].shown.towerHp[p]]_allVars
  <2> SUFFICES ASSUME NEW c \in Guis, gui[c].shown # NoBoard
               PROVE  /\ gui'[c].shown.turnId >= gui[c].shown.turnId
                      /\ \A p \in Players : gui'[c].shown.towerHp[p] <= gui[c].shown.towerHp[p]
    OBVIOUS
  <2>1. Later(gui[c].shown, gui'[c].shown)
    BY <1>1, ShownNext
  <2>2. /\ gui[c].shown.turnId <= gui'[c].shown.turnId
        /\ \A p \in Players : gui'[c].shown.towerHp[p] <= gui[c].shown.towerHp[p]
    BY <2>1 DEF Later
  <2> QED
    BY <2>2
<1> QED
  BY <1>1, HeardTrue, KnownOfTheServer, PTL DEF GuiSpec, ShownMovesOn
-----------------------------------------------------------------------------
(* Two GUI clients ask for nothing that is refused.                        *)

Over == game.phase = "Finished"

\* The client may send a request as soon as the board is its own.
MayMove(g) == g.phase = "Playing" /\ ~g.requestPending

\* If the board shows the client's turn, that turn is still to be played, and
\* the client has not asked for it.
Awaited(c, board) ==
  board.phase = "Elimination" /\ board.currentPlayerId = slot[c] /\ ~Over
    => inbox[c] = << >> /\ game.turnId = board.turnId

OwnRequests(p) == {request \in Requests : request.playerId = p}

\* What the client has asked for and the server not yet read: nothing, or a
\* request that will be accepted, unless the game ends first.
Asks(c) ==
  /\ inbox[c] \in Seq(OwnRequests(slot[c]))
  /\ state[c] = "new" => inbox[c] = << >>
  /\ \/ Over \/ inbox[c] = << >>
     \/ Seated(c) /\ \E request \in OwnRequests(slot[c]) :
                       inbox[c] = <<request>> /\ Accepts(game, request)

\* What the client is sent: no complaint, no refusal of a game that goes on, and
\* no board before the one the game starts with, or without a seat in it.
Told(c) ==
  \A i \in 1..Len(out[c]) :
    /\ out[c][i].type = "Error" => out[c][i].text = "RoomFull"
    /\ Refuses(out[c][i]) => out[c][i].game.phase = "Finished"
    /\ out[c][i].type = "GameStarted" => \A j \in 1..i - 1 : ~Shows(out[c][j])
    /\ Shows(out[c][i]) => Over \/ Seated(c)

\* The turns that the client may still ask for: the one it shows, and those on
\* their way to it.
Expects(c) ==
  /\ \A i \in 1..Len(out[c]) :
       Shows(out[c][i]) /\ gui[c].shown.turnId < out[c][i].game.turnId
         => Awaited(c, out[c][i].game)
  /\ MayMove(gui[c]) => Awaited(c, gui[c].shown)

Careful(c) == Asks(c) /\ Told(c) /\ Expects(c)

\* The inductive invariant of the requests in a match of GUI clients.
CarefulInv == Guis = Clients => \A c \in Clients : Careful(c)

\* The client does not become free to ask by itself.
Calm(c) == /\ gui'[c].shown = gui[c].shown
           /\ MayMove(gui'[c]) => MayMove(gui[c])

LEMMA HarmlessCalm == \A c \in Guis : Harmless(gui[c], gui'[c]) => Calm(c)
BY DEF Harmless, Calm, MayMove

LEMMA ShownBoard ==
  ASSUME Known, HeardInv, NEW c \in Guis
  PROVE  \/ gui[c].shown = NoBoard
         \/ \E i \in 1..Len(out[c]) : Shows(out[c][i]) /\ gui[c].shown = out[c][i].game
<1>1. PICK h \in Nat : h <= Len(out[c]) /\ Sees(gui[c], out[c], h)
  BY HandledPart
<1>2. Len(out[c]) \in Nat
  BY HandledPart
<1>3. \A i \in 1..h : i \in 1..Len(out[c])
  BY <1>1, <1>2
<1> QED
  BY <1>1, <1>3 DEF Sees, LastShown

LEMMA BoardSeen ==
  ASSUME Known, NEW c \in Clients, NEW i \in 1..Len(out[c]), Shows(out[c][i])
  PROVE  out[c][i].game \in Seen(game.turnId)
<1>1. out[c][i] \in Sendable(slot[c], game.turnId)
  BY DEF Known, StreamInv
<1> QED
  BY <1>1 DEF Shows, Sendable, PlayerReady, OpponentDisconnected, GameEnded

LEMMA LobbyShowsNothing ==
  ASSUME Known, NEW c \in Clients, Told(c), game.phase = "WaitingForPlayers",
         NEW i \in 1..Len(out[c])
  PROVE  ~Shows(out[c][i])
<1>1. Means(out[c][i], slot[c], game.phase)
  BY DEF Known, HistoryInv, ToldInTime, InTime
<1> QED
  BY <1>1 DEF Told, Means, Shows, Refuses, TellsSuccess

\* While a request is on its way no other client's turn is awaited.
LEMMA OneMover ==
  ASSUME Known, NEW a \in Clients, Asks(a), inbox[a] # << >>, ~Over,
         NEW d \in Clients, Seated(d), NEW board \in Seen(game.turnId), Awaited(d, board)
  PROVE  ~(board.phase = "Elimination" /\ board.currentPlayerId = slot[d])
<1> SUFFICES ASSUME board.phase = "Elimination", board.currentPlayerId = slot[d]
             PROVE  FALSE
  OBVIOUS
<1>1. inbox[d] = << >> /\ game.turnId = board.turnId
  BY DEF Awaited
<1>2. Seated(a) /\ slot[a] = game.currentPlayerId
  BY DEF Asks, Accepts, OwnRequests
<1>3. Snapshot(game) \in Seen(game.turnId)
  BY SnapshotSeen DEF Known, ServerInv
<1>4. game.currentPlayerId = MoverOf(game.turnId)
  BY <1>3 DEF Snapshot, Seen
<1>5. slot[d] = slot[a]
  BY <1>1, <1>2, <1>4 DEF Seen
<1>6. d = a
  BY <1>2, <1>5, NoClientAssumption DEF Seated, Known, ServerInv, SeatsMatchSession
<1> QED
  BY <1>1, <1>6

\* A second client that has asked for this turn would be in the same seat.
LEMMA OneAsker ==
  ASSUME Known, NEW a \in Clients, Asks(a), inbox[a] # << >>, ~Over,
         NEW d \in Clients, Asks(d), inbox[d] # << >>
  PROVE  d = a
<1>1. /\ Seated(a) /\ slot[a] = game.currentPlayerId
      /\ Seated(d) /\ slot[d] = game.currentPlayerId
  BY DEF Asks, Accepts, OwnRequests
<1> QED
  BY <1>1, NoClientAssumption DEF Seated, Known, ServerInv, SeatsMatchSession

LEMMA CarefulStill ==
  ASSUME NEW c \in Guis, Careful(c), UNCHANGED <<game, players, state, slot, out>>,
         inbox'[c] = inbox[c], Calm(c)
  PROVE  Careful(c)'
<1>1. Asks(c)'
  BY DEF Careful, Asks, Over, Seated
<1>2. Told(c)'
  BY DEF Careful, Told, Over, Seated
<1>3. \A board : Awaited(c, board) => Awaited(c, board)'
  BY DEF Awaited, Over
<1>4. Expects(c)'
  BY <1>3 DEF Careful, Expects, Calm
<1> QED
  BY <1>1, <1>2, <1>4 DEF Careful

\* Only a board that is shown, or a complaint, lets the client ask again.
LEMMA HandledMayMove ==
  ASSUME NEW g \in GuiState, NEW p \in {-1, 0, 1}, NEW t \in Nat, NEW m \in Sendable(p, t)
  PROVE  MayMove(HandleMessage(g, m)) =>
           Shows(m) \/ (m.type = "Error" /\ m.text # "RoomFull") \/ MayMove(g)
<1> DEFINE k == HandleMessage(g, m)
           Goal == MayMove(k) =>
                     Shows(m) \/ (m.type = "Error" /\ m.text # "RoomFull") \/ MayMove(g)
<1>1. m.type = "PlayerReady" \/ Ends(m) \/ m.type = "Error" \/ m.type = "JoinRoom" \/ Shows(m)
  BY MessageKinds DEF Ends, Shows
<1>2. ASSUME m.type = "PlayerReady"
      PROVE  Goal
  <2>1. k = [g EXCEPT !.phase = "WaitingForOpponent"]
    BY <1>2, Handled, ZenonT(60)
  <2> HIDE DEF k
  <2>2. k.phase = "WaitingForOpponent"
    BY <2>1 DEF GuiState
  <2> QED
    BY <2>2 DEF MayMove
<1>3. ASSUME Ends(m)
      PROVE  Goal
  <2>1. k = [g EXCEPT !.phase = "GameOver", !.requestPending = FALSE,
                      !.path = 0, !.drawnOn = NoBoard]
    BY <1>3, Handled, ZenonT(60)
  <2> HIDE DEF k
  <2>2. k.phase = "GameOver"
    BY <2>1 DEF GuiState
  <2> QED
    BY <2>2 DEF MayMove
<1>4. ASSUME m.type = "Error"
      PROVE  Goal
  <2>1. k = [g EXCEPT !.requestPending = FALSE,
                      !.phase = IF m.text = "RoomFull" THEN "GameOver" ELSE @]
    BY <1>4, Handled, ZenonT(60)
  <2> HIDE DEF k
  <2>2. m.text = "RoomFull" => k.phase = "GameOver"
    BY <2>1 DEF GuiState
  <2> QED
    BY <1>4, <2>2 DEF MayMove
<1>5. ASSUME m.type = "JoinRoom"
      PROVE  Goal
  <2>1. k = [g EXCEPT !.playerId = m.playerId,
                      !.phase = IF @ = "Connecting" THEN "Connected" ELSE @]
    BY <1>5, Handled, ZenonT(60)
  <2> HIDE DEF k
  <2>2. /\ k.phase = "Playing" => g.phase = "Playing"
        /\ k.requestPending = g.requestPending
    BY <2>1 DEF GuiState
  <2> QED
    BY <2>2 DEF MayMove
<1>6. Goal
  BY <1>1, <1>2, <1>3, <1>4, <1>5
<1> QED
  BY <1>6

\* A message taken from the queue is a notice, or the next one of the stream.
LEMMA TakenNext ==
  ASSUME Known, HeardInv, NEW c \in Guis, queue[c] # << >>
  PROVE  \/ Head(queue[c]) = NetworkDisconnected
         \/ \E h \in Nat : /\ h + 1 \in 1..Len(out[c]) /\ Head(queue[c]) = out[c][h + 1]
                           /\ Sees(gui[c], out[c], h)
<1> DEFINE s == out[c]
           q == queue[c]
           r == received[c]
<1>1. PICK h \in Nat : h <= Len(s) /\ h <= r /\ Follows(q, s, h, r) /\ Sees(gui[c], s, h)
  BY HandledPart
<1>2. c \in Clients /\ Len(s) \in Nat
  BY HandledPart
<1>3. q \in Seq(Heard(s)) /\ r \in Nat /\ r <= written[c]
  BY DEF HeardInv, HeardWell
<1>4. written[c] \in Nat /\ written[c] <= Len(s)
  BY <1>2 DEF Known, StreamInv
<1>5. q # << >>
  OBVIOUS
<1> HIDE DEF s, q, r
<1>6. \/ Head(q) = NetworkDisconnected
      \/ h < r /\ Head(q) = s[h + 1]
  BY <1>1, <1>3, <1>5, FollowsTake
<1>7. h < r => h + 1 \in 1..Len(s)
  BY <1>1, <1>2, <1>3, <1>4
<1> QED
  BY <1>1, <1>6, <1>7 DEF s, q

LEMMA CarefulTakes ==
  ASSUME Known, HeardInv, NEW c \in Guis, Careful(c), UNCHANGED vars, queue[c] # << >>,
         gui'[c] = HandleMessage(gui[c], Head(queue[c]))
  PROVE  Careful(c)'
<1> DEFINE g == gui[c]
           g1 == gui'[c]
           s == out[c]
           p == slot[c]
           u == game.turnId
<1>1. c \in Clients /\ Len(s) \in Nat /\ g \in GuiState
  BY HandledPart
<1>2. /\ p \in {-1, 0, 1} /\ u \in Nat /\ s \in Seq(Sendable(p, u))
      /\ MovesOn(s, Snapshot(game))
  BY <1>1 DEF Known, ServerInv, StreamInv, GoodSession, Session, SnapshotsInv, ShowsWell
<1>3. UNCHANGED <<game, players, state, slot, out, inbox>>
  BY DEF vars, connectionVars, peerVars
<1>4. CASE Head(queue[c]) = NetworkDisconnected
  <2> DEFINE m == Head(queue[c])
  <2>1. m.type = "NetworkDisconnected"
    BY <1>4 DEF NetworkDisconnected
  <2>2. g1 = HandleMessage(g, m)
    OBVIOUS
  <2> HIDE DEF m
  <2>3. g1 = [g EXCEPT !.phase = "Disconnected", !.requestPending = FALSE,
                       !.path = 0, !.drawnOn = NoBoard]
    BY <1>1, <2>1, <2>2, Handled, ZenonT(60)
  <2>4. g1.shown = g.shown /\ g1.phase = "Disconnected"
    BY <1>1, <2>3 DEF GuiState
  <2>5. Calm(c)
    BY <2>4 DEF Calm, MayMove
  <2> QED
    BY <1>3, <2>5, CarefulStill
<1>5. ASSUME NEW h \in Nat, h + 1 \in 1..Len(s), Head(queue[c]) = s[h + 1], Sees(g, s, h)
      PROVE  Careful(c)'
  <2> DEFINE m == s[h + 1]
  <2>1. m \in Sendable(p, u) /\ g1 = HandleMessage(g, m) /\ m = s[h + 1]
    BY <1>2, <1>5
  <2>2. \A i \in 1..Len(s) : Shows(s[i]) => s[i].game \in Seen(u) /\ s[i].game.turnId \in Nat \ {0}
    <3>1. \A i \in 1..Len(s) : Shows(s[i]) => s[i].game \in Seen(u)
      BY <1>1, BoardSeen
    <3> QED
      BY <3>1 DEF Seen
  <2>3. \A i \in 1..h : i \in 1..Len(s) /\ i < h + 1 /\ i \in 1..(h + 1) - 1
    BY <1>1, <1>5
  <2>4. Told(c) /\ Expects(c)
    BY DEF Careful
  <2> HIDE DEF m, g, g1, s, p, u
  <2>5. /\ g1.shown = IF Shows(m) THEN m.game ELSE g.shown
        /\ MayMove(g1) => Shows(m) \/ (m.type = "Error" /\ m.text # "RoomFull") \/ MayMove(g)
    BY <1>1, <1>2, <2>1, HandledFields, HandledMayMove
  <2>6. m.type = "Error" => m.text = "RoomFull"
    BY <1>5, <2>1, <2>4 DEF Told, s
  <2>7. CASE ~Shows(m)
    <3>1. Calm(c)
      BY <2>5, <2>6, <2>7 DEF Calm, g, g1
    <3> QED
      BY <1>3, <3>1, CarefulStill
  <2>8. CASE Shows(m)
    <3> DEFINE b == m.game
    <3>1. b.turnId \in Nat \ {0} /\ g1.shown = b
      BY <1>5, <2>1, <2>2, <2>5, <2>8
    <3>2. g.shown = NoBoard \/ \E i \in 1..h : Shows(s[i]) /\ g.shown = s[i].game
      BY <1>5 DEF Sees, LastShown
    <3>3. /\ g.shown.turnId \in Nat /\ g.shown.turnId <= b.turnId
      <4>1. CASE g.shown = NoBoard
        BY <3>1, <4>1 DEF NoBoard
      <4>2. ASSUME NEW i \in 1..h, Shows(s[i]), g.shown = s[i].game
            PROVE  g.shown.turnId \in Nat /\ g.shown.turnId <= b.turnId
        BY <1>2, <1>5, <2>1, <2>2, <2>3, <2>8, <4>2 DEF MovesOn, Later
      <4> QED
        BY <3>2, <4>1, <4>2
    <3>4. b.phase = "Elimination" => g.shown.turnId < b.turnId
      <4> SUFFICES ASSUME b.phase = "Elimination"
                   PROVE  g.shown.turnId < b.turnId
        OBVIOUS
      <4>1. CASE g.shown = NoBoard
        BY <3>1, <4>1 DEF NoBoard
      <4>2. ASSUME NEW i \in 1..h, Shows(s[i]), g.shown = s[i].game
            PROVE  g.shown.turnId < b.turnId
        <5>1. ~Refuses(m)
          BY <1>5, <2>1, <2>4 DEF Told, s
        <5>2. m.type # "GameStarted"
          BY <1>5, <2>1, <2>3, <2>4, <4>2 DEF Told, s
        <5>3. TellsSuccess(m)
          BY <2>8, <5>1, <5>2 DEF Shows, Refuses, TellsSuccess
        <5> QED
          BY <1>2, <1>5, <2>1, <2>3, <2>8, <4>2, <5>3 DEF MovesOn
      <4> QED
        BY <3>2, <4>1, <4>2
    <3> HIDE DEF b
    <3>5. \A board : Awaited(c, board) => Awaited(c, board)'
      BY <1>3 DEF Awaited, Over
    <3>6. Awaited(c, b)
      <4>1. CASE b.phase = "Elimination"
        BY <1>5, <2>1, <2>4, <2>8, <3>4, <4>1 DEF Expects, g, s, b
      <4>2. CASE b.phase # "Elimination"
        BY <4>2 DEF Awaited
      <4> QED
        BY <4>1, <4>2
    <3>7. ASSUME NEW i \in 1..Len(s), Shows(s[i]), g1.shown.turnId < s[i].game.turnId
          PROVE  Awaited(c, s[i].game)
      <4>1. g.shown.turnId < s[i].game.turnId
        BY <2>2, <3>1, <3>3, <3>7
      <4> QED
        BY <2>4, <3>7, <4>1 DEF Expects, g, s
    <3>8. Expects(c)'
      BY <1>3, <3>1, <3>5, <3>6, <3>7 DEF Expects, g1, s
    <3>9. Asks(c)'
      BY <1>3 DEF Careful, Asks, Over, Seated
    <3>10. Told(c)'
      BY <1>3 DEF Careful, Told, Over, Seated
    <3> QED
      BY <3>8, <3>9, <3>10 DEF Careful
  <2> QED
    BY <2>7, <2>8
<1> QED
  BY <1>4, <1>5, TakenNext

\* A message that is neither a board nor a complaint.
Plain(m) == ~Shows(m) /\ (m.type = "Error" => m.text = "RoomFull")

LEMMA PlainWords ==
  /\ Plain(PlayerReady) /\ Plain(OpponentDisconnected) /\ Plain(GameEnded)
  /\ Plain(Error("RoomFull")) /\ \A p : Plain(JoinRoom(p))
BY DEF Plain, Shows, PlayerReady, OpponentDisconnected, GameEnded, Error, JoinRoom

LEMMA QuietPlain ==
  ASSUME Known, QuietStep, inbox' = inbox, NEW c \in Clients
  PROVE  /\ Len(out[c]) \in Nat /\ Extends(out'[c], out[c])
         /\ \A i \in 1..Len(out'[c]) : i \in 1..Len(out[c]) \/ Plain(out'[c][i])
<1> DEFINE s == out[c]
           t == out'[c]
           PlainOn == \A i \in 1..Len(t) : i \in 1..Len(s) \/ Plain(t[i])
<1>1. Len(s) \in Nat /\ Extends(t, s)
  BY StreamsGrow DEF Known, HistoryInv
<1>2. s \in Seq(Message)
  BY StreamsTyped DEF Known
<1>3. \/ Greeted(c)
      \/ t = s
      \/ t = Append(s, PlayerReady)
      \/ t = Append(Append(s, OpponentDisconnected), GameEnded)
  BY DEF QuietStep, Bereaved
<1> HIDE DEF s, t
<1>4. ASSUME Greeted(c)
      PROVE  PlainOn
  <2>1. \/ \E m : t = <<m>> /\ Plain(m)
        \/ \E m, n : t = Append(<<m>>, n) /\ Plain(m) /\ Plain(n)
    BY <1>4, PlainWords DEF Greeted, t
  <2>2. ASSUME NEW m, NEW n
        PROVE  LET v == Append(<<m>>, n)
               IN  \A i \in 1..Len(v) : v[i] = m \/ v[i] = n
    <3> DEFINE v == Append(<<m>>, n)
    <3>1. Len(v) = 2 /\ v[1] = m /\ v[2] = n
      OBVIOUS
    <3> HIDE DEF v
    <3>2. \A i \in 1..Len(v) : v[i] = m \/ v[i] = n
      BY <3>1
    <3> QED
      BY <3>2 DEF v
  <2>3. ASSUME NEW m, NEW n, t = Append(<<m>>, n), Plain(m), Plain(n)
        PROVE  PlainOn
    BY <2>2, <2>3
  <2>4. ASSUME NEW m, t = <<m>>, Plain(m)
        PROVE  PlainOn
    BY <2>4
  <2> QED
    BY <2>1, <2>3, <2>4
<1>5. ASSUME NEW m, Plain(m), t = Append(s, m)
      PROVE  PlainOn
  BY <1>2, <1>5, LongerByOne
<1>6. ASSUME NEW m, NEW n, Plain(m), Plain(n), t = Append(Append(s, m), n)
      PROVE  PlainOn
  <2> DEFINE v == Append(s, m)
             S == Message \cup {m}
  <2>1. v \in Seq(S)
    BY <1>2, AppendNotEmpty
  <2>2. /\ Len(v) = Len(s) + 1 /\ v[Len(s) + 1] = m
        /\ \A i \in 1..Len(v) : i \in 1..Len(s) \/ i = Len(s) + 1
    BY <1>2, LongerByOne
  <2>3. t = Append(v, n)
    BY <1>6
  <2> HIDE DEF v, S
  <2>4. /\ \A i \in 1..Len(v) : t[i] = v[i]
        /\ t[Len(v) + 1] = n
        /\ \A i \in 1..Len(t) : i \in 1..Len(v) \/ i = Len(v) + 1
    BY <2>1, <2>3, LongerByOne
  <2> QED
    BY <1>6, <2>2, <2>4
<1>7. PlainOn
  BY <1>3, <1>4, <1>5, <1>6, PlainWords
<1> QED
  BY <1>1, <1>7 DEF s, t

\* Plain words and boards for the seated keep what a client is told.
LEMMA ToldGrows ==
  ASSUME NEW c \in Clients, Told(c), Len(out[c]) \in Nat, Extends(out'[c], out[c]),
         \A i \in 1..Len(out[c]) : Shows(out[c][i]) => Over' \/ Seated(c)',
         \A i \in 1..Len(out'[c]) :
           \/ i \in 1..Len(out[c])
           \/ Plain(out'[c][i])
           \/ /\ Shows(out'[c][i]) /\ (Over' \/ Seated(c)')
              /\ Refuses(out'[c][i]) => out'[c][i].game.phase = "Finished"
              /\ out'[c][i].type = "GameStarted" => \A j \in 1..i - 1 : ~Shows(out'[c][j])
  PROVE  Told(c)'
<1> DEFINE s == out[c]
           t == out'[c]
<1>1. \A i \in 1..Len(s) : t[i] = s[i] /\ \A j \in 1..i - 1 : j \in 1..Len(s) /\ t[j] = s[j]
  BY DEF Extends
<1>2. ASSUME NEW i \in 1..Len(t)
      PROVE  /\ t[i].type = "Error" => t[i].text = "RoomFull"
             /\ Refuses(t[i]) => t[i].game.phase = "Finished"
             /\ t[i].type = "GameStarted" => \A j \in 1..i - 1 : ~Shows(t[j])
             /\ Shows(t[i]) => Over' \/ Seated(c)'
  <2>1. CASE i \in 1..Len(s)
    BY <1>1, <2>1 DEF Told
  <2>2. CASE Plain(t[i])
    BY <2>2 DEF Plain, Shows, Refuses
  <2>3. CASE Shows(t[i]) /\ i \notin 1..Len(s) /\ ~Plain(t[i])
    BY <2>3 DEF Shows
  <2> QED
    BY <2>1, <2>2, <2>3 DEF Plain, Shows
<1> QED
  BY <1>2 DEF Told

\* While the game neither starts nor passes to the next turn, and nothing is
\* asked, what is awaited stays so.
LEMMA CarefulQuiet ==
  ASSUME Known, Known', HeardInv, QuietStep, inbox' = inbox, [Next]_vars,
         NEW c \in Guis, Careful(c), Calm(c)
  PROVE  Careful(c)'
<1> DEFINE s == out[c]
           t == out'[c]
<1>1. c \in Clients
  BY GuisAssumption
<1>2. /\ Len(s) \in Nat /\ Extends(t, s)
      /\ \A i \in 1..Len(t) : i \in 1..Len(s) \/ Plain(t[i])
  BY <1>1, QuietPlain
<1>3. /\ Over => Over'
      /\ ~Over' => /\ game'.phase = game.phase /\ game'.turnId = game.turnId
                   /\ game'.currentPlayerId = game.currentPlayerId
  BY DEF QuietStep, CutShort, Over, Snapshot
<1>4. ~Over' /\ Seated(c) /\ game.phase # "WaitingForPlayers" => Seated(c)'
  <2> SUFFICES ASSUME ~Over', Seated(c), game.phase # "WaitingForPlayers"
               PROVE  Seated(c)'
    OBVIOUS
  <2>1. game'.phase = "Elimination"
    BY <1>3 DEF Over, Known, ServerInv, GoodSession, Session, GamePhase
  <2>2. \A a \in Players : players'[a] # NoClient
    BY <2>1 DEF Known, ServerInv, SeatsMatchSession
  <2>3. \A a \in Players : players'[a] \in {players[a], NoClient}
    BY SeatsOnlyEmpty DEF Known
  <2> QED
    BY <2>2, <2>3 DEF Seated
<1>5. Asks(c) /\ Told(c) /\ Expects(c)
  BY DEF Careful
<1>6. Told(c)'
  <2>1. ASSUME NEW i \in 1..Len(s), Shows(s[i])
        PROVE  Over' \/ Seated(c)'
    <3>1. Over \/ Seated(c)
      BY <1>5, <2>1 DEF Told
    <3>2. game.phase # "WaitingForPlayers"
      BY <1>1, <1>5, <2>1, LobbyShowsNothing
    <3> QED
      BY <1>3, <1>4, <3>1, <3>2
  <2> QED
    BY <1>1, <1>2, <1>5, <2>1, ToldGrows
<1>7. CASE Greeted(c)
  <2>1. inbox'[c] = << >> /\ state'[c] # "new" /\ s = << >>
    BY <1>1, <1>5, <1>7 DEF Greeted, Asks, Known, HistoryInv, Begun
  <2>2. Asks(c)'
    BY <2>1 DEF Asks
  <2>3. \A i \in 1..Len(t) : ~Shows(t[i])
    BY <1>2, <2>1 DEF Plain
  <2>4. gui'[c].shown = NoBoard
    BY <2>1, ShownBoard DEF Calm
  <2>5. Awaited(c, NoBoard)'
    BY DEF Awaited, NoBoard
  <2>6. Expects(c)'
    BY <2>3, <2>4, <2>5 DEF Expects
  <2> QED
    BY <1>6, <2>2, <2>6 DEF Careful
<1>8. CASE slot'[c] = slot[c] /\ (state[c] = "new" <=> state'[c] = "new")
  <2>1. \A request : Accepts(game, request) /\ ~Over' => Accepts(game', request)
    BY <1>3 DEF Accepts
  <2>2. Asks(c)'
    <3>1. inbox'[c] = inbox[c]
      OBVIOUS
    <3>2. inbox'[c] \in Seq(OwnRequests(slot'[c])) /\ (state'[c] = "new" => inbox'[c] = << >>)
      BY <1>5, <1>8, <3>1 DEF Asks
    <3>3. ASSUME ~Over', inbox'[c] # << >>
          PROVE  Seated(c)' /\ \E request \in OwnRequests(slot'[c]) :
                                 inbox'[c] = <<request>> /\ Accepts(game', request)
      <4>1. PICK request \in OwnRequests(slot[c]) :
              inbox[c] = <<request>> /\ Accepts(game, request)
        BY <1>3, <1>5, <3>1, <3>3 DEF Asks
      <4>2. Seated(c) /\ game.phase # "WaitingForPlayers"
        BY <1>3, <1>5, <3>1, <3>3, <4>1 DEF Asks, Accepts
      <4> QED
        BY <1>4, <1>8, <2>1, <3>1, <3>3, <4>1, <4>2
    <3> QED
      BY <3>2, <3>3 DEF Asks
  <2>3. \A board : Awaited(c, board) => Awaited(c, board)'
    BY <1>3, <1>8 DEF Awaited
  <2>4. Expects(c)'
    <3>1. ASSUME NEW i \in 1..Len(t), Shows(t[i]), gui'[c].shown.turnId < t[i].game.turnId,
                 NEW board, board = t[i].game
          PROVE  Awaited(c, board)'
      <4>1. i \in 1..Len(s) /\ t[i] = s[i] /\ gui'[c].shown = gui[c].shown
        BY <1>2, <3>1 DEF Plain, Extends, Calm
      <4> QED
        BY <1>5, <2>3, <3>1, <4>1 DEF Expects
    <3>2. ASSUME MayMove(gui'[c]), NEW board, board = gui'[c].shown
          PROVE  Awaited(c, board)'
      BY <1>5, <2>3, <3>2 DEF Expects, Calm
    <3> QED
      BY <3>1, <3>2 DEF Expects
  <2> QED
    BY <1>6, <2>2, <2>4 DEF Careful
<1> QED
  BY <1>1, <1>7, <1>8 DEF QuietStep

\* When the game starts nobody has asked for anything.
LEMMA CarefulStart ==
  ASSUME Known, HeardInv, StartStep, inbox' = inbox, NEW c \in Guis, Careful(c), Calm(c)
  PROVE  Careful(c)'
<1> DEFINE s == out[c]
           t == out'[c]
           m == GameStarted(game')
<1>1. c \in Clients
  BY GuisAssumption
<1>2. Len(s) \in Nat /\ Extends(t, s) /\ s \in Seq(Message)
  BY <1>1, StreamsGrow, StreamsTyped DEF Known, HistoryInv
<1>3. Asks(c) /\ Told(c) /\ Expects(c)
  BY DEF Careful
<1>4. game.phase = "WaitingForPlayers" /\ \A i \in 1..Len(s) : ~Shows(s[i])
  BY <1>1, <1>3, LobbyShowsNothing DEF StartStep
<1>5. inbox'[c] = << >>
  BY <1>3, <1>4 DEF Asks, Over, Accepts
<1>6. gui'[c].shown = NoBoard
  BY <1>4, ShownBoard DEF Calm
<1>7. \/ /\ s = << >> /\ t = Append(<<JoinRoom(slot'[c])>>, m) /\ Seated(c)' /\ state'[c] # "new"
      \/ /\ slot'[c] = slot[c] /\ state'[c] = state[c]
         /\ t = Append(s, m) /\ Seated(c)'
      \/ slot'[c] = slot[c] /\ state'[c] = state[c] /\ t = s
  BY <1>1 DEF StartStep, Known, HistoryInv, Begun
<1>8. Shows(m) /\ ~Refuses(m) /\ m.game = Snapshot(game')
  BY DEF Shows, Refuses, GameStarted
<1> HIDE DEF s, t, m
<1>9. ASSUME NEW i \in 1..Len(t)
      PROVE  \/ i \in 1..Len(s)
             \/ Plain(t[i])
             \/ t[i] = m /\ Seated(c)' /\ \A j \in 1..i - 1 : ~Shows(t[j])
  <2>1. CASE s = << >> /\ t = Append(<<JoinRoom(slot'[c])>>, m) /\ Seated(c)'
    <3> DEFINE j == JoinRoom(slot'[c])
    <3>1. Plain(j) /\ t = Append(<<j>>, m)
      BY <2>1, PlainWords
    <3> HIDE DEF j
    <3>2. Len(t) = 2 /\ t[1] = j /\ t[2] = m
      BY <3>1
    <3> QED
      BY <2>1, <3>1, <3>2 DEF Plain
  <2>2. CASE t = Append(s, m) /\ Seated(c)'
    <3>1. /\ \A k \in 1..Len(s) : t[k] = s[k]
          /\ t[Len(s) + 1] = m
          /\ \A k \in 1..Len(t) : k \in 1..Len(s) \/ k = Len(s) + 1
      BY <1>2, <2>2, LongerByOne
    <3>2. \A k \in 1..Len(s) : ~Shows(t[k])
      BY <1>4, <3>1 DEF s
    <3> QED
      BY <1>2, <2>2, <3>1, <3>2
  <2>3. CASE t = s
    BY <2>3
  <2> QED
    BY <1>7, <2>1, <2>2, <2>3
<1>10. Told(c)'
  <2>1. \A i \in 1..Len(out[c]) : ~Shows(out[c][i])
    BY <1>4 DEF s
  <2>2. Len(out[c]) \in Nat /\ Extends(out'[c], out[c])
    BY <1>2 DEF s, t
  <2>3. \A i \in 1..Len(out'[c]) :
           \/ i \in 1..Len(out[c])
           \/ Plain(out'[c][i])
           \/ /\ Shows(out'[c][i]) /\ Seated(c)' /\ ~Refuses(out'[c][i])
              /\ \A j \in 1..i - 1 : ~Shows(out'[c][j])
    BY <1>8, <1>9 DEF s, t
  <2> QED
    BY <1>1, <1>3, <2>1, <2>2, <2>3, ToldGrows
<1>11. Asks(c)'
  BY <1>5 DEF Asks
<1>12. Expects(c)'
  <2>1. ASSUME NEW i \in 1..Len(t), Shows(t[i]), NEW board, board = t[i].game
        PROVE  Awaited(c, board)'
    <3>1. t[i] = m
      BY <1>2, <1>4, <1>9, <2>1 DEF Plain, Extends, s
    <3>2. board.turnId = game'.turnId
      BY <1>8, <2>1, <3>1 DEF Snapshot
    <3> QED
      BY <1>5, <3>2 DEF Awaited
  <2>2. ASSUME NEW board, board = gui'[c].shown
        PROVE  Awaited(c, board)'
    BY <1>6, <2>2 DEF Awaited, NoBoard
  <2> QED
    BY <2>1, <2>2 DEF Expects, t
<1> QED
  BY <1>10, <1>11, <1>12 DEF Careful

\* An accepted request passes the turn to a client that has asked for nothing.
LEMMA CarefulAccepted ==
  ASSUME Known, HeardInv, Guis = Clients, \A d \in Clients : Careful(d),
         NEW a \in Clients, inbox[a] # << >>, ~Over,
         UNCHANGED <<players, state, slot>>, inbox' = [inbox EXCEPT ![a] = Tail(@)],
         \A d \in Clients : out'[d] = IF Seated(d) THEN Append(out[d], EliminateResult(TRUE, game'))
                                      ELSE out[d],
         NEW c \in Guis, Calm(c), Extends(out'[c], out[c])
  PROVE  Careful(c)'
<1> DEFINE s == out[c]
           t == out'[c]
           m == EliminateResult(TRUE, game')
<1>1. c \in Clients /\ Asks(c) /\ Told(c) /\ Expects(c) /\ Asks(a)
  BY DEF Careful
<1>2. Len(s) \in Nat /\ s \in Seq(Message)
  BY <1>1, StreamsTyped DEF Known
<1>3. inbox'[c] = << >>
  <2>0. inbox \in [Clients -> Seq(Frames)]
    BY DEF Known, FramesInv
  <2>1. CASE c = a
    <3>1. PICK request : inbox[a] = <<request>>
      BY <1>1 DEF Asks
    <3> QED
      BY <2>0, <2>1, <3>1
  <2>2. CASE c # a
    <3>1. inbox[c] = << >>
      BY <1>1, <2>2, OneAsker
    <3> QED
      BY <1>1, <2>0, <2>2, <3>1
  <2> QED
    BY <2>1, <2>2
<1>4. \/ t = s
      \/ t = Append(s, m) /\ Seated(c)
  BY <1>1
<1>5. Seated(c)' <=> Seated(c)
  BY DEF Seated
<1>6. /\ Shows(m) /\ ~Refuses(m) /\ m.type # "GameStarted"
      /\ m.game = Snapshot(game')
  BY DEF Shows, Refuses, EliminateResult
<1> HIDE DEF m
<1>7. ASSUME NEW i \in 1..Len(t)
      PROVE  \/ i \in 1..Len(s) /\ t[i] = s[i]
             \/ t[i] = m /\ Seated(c)
  <2>1. CASE t = Append(s, m) /\ Seated(c)
    BY <1>2, <2>1, LongerByOne
  <2> QED
    BY <1>4, <2>1
<1>8. Told(c)'
  <2>1. \A i \in 1..Len(out[c]) : Shows(out[c][i]) => Over' \/ Seated(c)'
    BY <1>1, <1>5 DEF Told
  <2>2. \A i \in 1..Len(out'[c]) :
           \/ i \in 1..Len(out[c])
           \/ /\ Shows(out'[c][i]) /\ Seated(c)' /\ ~Refuses(out'[c][i])
              /\ out'[c][i].type # "GameStarted"
    BY <1>5, <1>6, <1>7
  <2> QED
    BY <1>1, <1>2, <2>1, <2>2, ToldGrows
<1>9. Asks(c)'
  <2>1. << >> \in Seq(OwnRequests(slot'[c]))
    OBVIOUS
  <2> QED
    BY <1>3, <2>1 DEF Asks
<1>10. ASSUME NEW i \in 1..Len(s), Shows(s[i]), Awaited(c, s[i].game)
       PROVE  ~(s[i].game.phase = "Elimination" /\ s[i].game.currentPlayerId = slot[c])
  <2>1. s[i].game \in Seen(game.turnId)
    BY <1>1, <1>10, BoardSeen
  <2>2. Seated(c)
    BY <1>1, <1>10 DEF Told
  <2> QED
    BY <1>1, <1>10, <2>1, <2>2, OneMover
<1>11. gui'[c].shown = gui[c].shown /\ (MayMove(gui'[c]) => MayMove(gui[c])) /\ slot'[c] = slot[c]
  BY DEF Calm
<1>12. ASSUME NEW i \in 1..Len(t), Shows(t[i]), gui'[c].shown.turnId < t[i].game.turnId,
              NEW board, board = t[i].game
       PROVE  Awaited(c, board)'
  <2>1. CASE i \in 1..Len(s) /\ t[i] = s[i]
    <3>1. Awaited(c, s[i].game)
      BY <1>1, <1>11, <1>12, <2>1 DEF Expects
    <3> QED
      BY <1>10, <1>11, <1>12, <2>1, <3>1 DEF Awaited
  <2>2. CASE t[i] = m
    <3>1. board.turnId = game'.turnId
      BY <1>6, <1>12, <2>2 DEF Snapshot
    <3> QED
      BY <1>3, <3>1 DEF Awaited
  <2> QED
    BY <1>7, <2>1, <2>2
<1>13. ASSUME MayMove(gui'[c]), NEW board, board = gui'[c].shown
       PROVE  Awaited(c, board)'
  <2>1. Awaited(c, board) /\ board = gui[c].shown
    BY <1>1, <1>11, <1>13 DEF Expects
  <2>2. CASE gui[c].shown = NoBoard
    BY <2>1, <2>2 DEF Awaited, NoBoard
  <2>3. ASSUME NEW i \in 1..Len(s), Shows(s[i]), gui[c].shown = s[i].game
        PROVE  Awaited(c, board)'
    BY <1>10, <1>11, <2>1, <2>3 DEF Awaited
  <2> QED
    BY <2>2, <2>3, ShownBoard
<1>14. Expects(c)'
  BY <1>12, <1>13 DEF Expects
<1> QED
  BY <1>8, <1>9, <1>14 DEF Careful

\* Once the game is over whatever is asked is refused, or dropped.
LEMMA CarefulOver ==
  ASSUME Known, Over, game' = game, UNCHANGED <<players, state, slot>>,
         NEW c \in Guis, Careful(c), Calm(c), Extends(out'[c], out[c]),
         inbox'[c] = inbox[c] \/ (inbox[c] # << >> /\ inbox'[c] = Tail(inbox[c])),
         out'[c] = out[c] \/ out'[c] = Append(out[c], EliminateResult(FALSE, game'))
  PROVE  Careful(c)'
<1> DEFINE s == out[c]
           t == out'[c]
           m == EliminateResult(FALSE, game')
<1>1. c \in Clients /\ Asks(c) /\ Told(c) /\ Expects(c) /\ Over'
  BY GuisAssumption DEF Careful, Over
<1>2. Len(s) \in Nat /\ s \in Seq(Message)
  BY <1>1, StreamsTyped DEF Known
<1>3. Asks(c)'
  <2> DEFINE S == OwnRequests(slot[c])
             q == inbox[c]
             q1 == inbox'[c]
  <2>1. q \in Seq(S) /\ (q1 = q \/ (q # << >> /\ q1 = Tail(q))) /\ (state[c] = "new" => q = << >>)
    BY <1>1 DEF Asks
  <2> HIDE DEF S, q, q1
  <2>2. q1 \in Seq(S)
    BY <2>1
  <2>3. /\ inbox'[c] \in Seq(OwnRequests(slot'[c]))
        /\ state'[c] = "new" => inbox'[c] = << >>
    BY <2>1, <2>2 DEF S, q, q1
  <2> QED
    BY <1>1, <2>3 DEF Asks
<1>4. /\ Shows(m) /\ m.type # "GameStarted"
      /\ m.game.phase = "Finished"
  BY DEF Shows, EliminateResult, Snapshot, Over
<1> HIDE DEF m
<1>5. \A i \in 1..Len(t) : i \in 1..Len(s) \/ t[i] = m
  <2>1. CASE t = Append(s, m)
    BY <1>2, <2>1, LongerByOne
  <2> QED
    BY <2>1 DEF m
<1>6. Told(c)'
  <2>1. \A i \in 1..Len(out'[c]) :
           \/ i \in 1..Len(out[c])
           \/ /\ Shows(out'[c][i]) /\ Over' /\ out'[c][i].game.phase = "Finished"
              /\ out'[c][i].type # "GameStarted"
    BY <1>1, <1>4, <1>5
  <2> QED
    BY <1>1, <1>2, <2>1, ToldGrows
<1>7. \A board : Awaited(c, board)'
  BY <1>1 DEF Awaited
<1>8. Expects(c)'
  BY <1>7 DEF Expects
<1> QED
  BY <1>3, <1>6, <1>8 DEF Careful

\* A client that confirms its path asks for the turn that is to be played.
LEMMA CarefulConfirm ==
  ASSUME Known, HeardInv, NEW c \in Guis, Careful(c), CanConfirm(gui[c]),
         NEW request \in MakeRequests(gui[c]) \cap Frames, PeerSends(c, request),
         gui' = [gui EXCEPT ![c].requestPending = TRUE]
  PROVE  Careful(c)'
<1> DEFINE g == gui[c]
           s == out[c]
           p == slot[c]
<1>1. /\ c \in Clients /\ Len(s) \in Nat /\ g \in GuiState
      /\ Asks(c) /\ Told(c) /\ Expects(c)
  BY HandledPart DEF Careful
<1>2. /\ UNCHANGED <<game, players, state, slot, out>>
      /\ inbox' = [inbox EXCEPT ![c] = Append(@, request)] /\ state[c] = "open"
      /\ inbox \in [Clients -> Seq(Frames)]
  BY DEF PeerSends, connectionVars, IsConnected, Known, FramesInv
<1>3. /\ g.phase = "Playing" /\ g.shown # NoBoard /\ g.playerId >= 0
      /\ g.shown.phase = "Elimination" /\ g.shown.currentPlayerId = g.playerId
      /\ ~g.requestPending /\ g.path > 0
  BY <1>1 DEF CanConfirm, CanSelect, MinPath, GuiState
<1>4. PICK h \in Nat : h <= Len(s) /\ Sees(g, s, h)
  BY HandledPart
<1>5. g.playerId = p
  <2>1. PICK i \in 1..h : s[i] = JoinRoom(g.playerId)
    BY <1>1, <1>3, <1>4 DEF Sees, GuiState
  <2>2. s[i] \in Sendable(p, game.turnId)
    BY <1>1, <1>4, <2>1 DEF Known, StreamInv
  <2> QED
    BY <2>1, <2>2 DEF Sendable, JoinRoom, PlayerReady, OpponentDisconnected, GameEnded
<1>6. PICK i \in 1..Len(s) : Shows(s[i]) /\ g.shown = s[i].game
  BY <1>3, ShownBoard
<1>7. g.shown \in Seen(game.turnId)
  BY <1>1, <1>6, BoardSeen
<1>8. request \in OwnRequests(p) /\ request.turnId = g.shown.turnId /\ request.legal = TRUE
  <2>1. request \in Requests
    <3>1. request # Garbage /\ request # BadLength
      <4>1. DOMAIN request = {"playerId", "turnId", "legal"}
        BY DEF MakeRequests
      <4>2. DOMAIN Garbage = {"body"} /\ DOMAIN BadLength = {"body"}
        BY DEF Garbage, BadLength
      <4>3. "playerId" \notin {"body"} /\ "playerId" \in {"playerId", "turnId", "legal"}
        OBVIOUS
      <4> QED
        BY <4>1, <4>2, <4>3
    <3> QED
      BY <3>1, FramesAssumption
  <2>2. g.drawnOn = g.shown
    BY <1>3, <1>4 DEF Sees
  <2> QED
    BY <1>5, <2>1, <2>2 DEF MakeRequests, OwnRequests
<1>9. Awaited(c, g.shown)
  BY <1>1, <1>3 DEF Expects, MayMove
<1>10. CASE Over
  <2>1. Over' /\ gui'[c].shown = g.shown
    BY <1>1, <1>2, <1>10 DEF Over, HeardInv
  <2>2. inbox'[c] \in Seq(OwnRequests(slot'[c])) /\ state'[c] # "new"
    <3> DEFINE S == OwnRequests(p)
               q == inbox[c]
    <3>1. q \in Seq(S) /\ request \in S /\ inbox'[c] = Append(q, request) /\ slot'[c] = p
      BY <1>1, <1>2, <1>8 DEF Asks
    <3> HIDE DEF S, q
    <3>2. inbox'[c] \in Seq(S)
      BY <3>1
    <3> QED
      BY <1>2, <3>1, <3>2 DEF S
  <2>3. Asks(c)'
    BY <2>1, <2>2 DEF Asks
  <2>4. Told(c)'
    BY <1>1, <1>2, <2>1 DEF Told
  <2>5. \A board : Awaited(c, board)'
    BY <2>1 DEF Awaited
  <2>6. Expects(c)'
    BY <2>5 DEF Expects
  <2> QED
    BY <2>3, <2>4, <2>6 DEF Careful
<1>11. CASE ~Over
  <2>1. inbox[c] = << >> /\ game.turnId = g.shown.turnId
    BY <1>3, <1>5, <1>9, <1>11 DEF Awaited
  <2>2. game.phase = "Elimination"
    <3>1. game.phase # "WaitingForPlayers"
      BY <1>1, <1>6, LobbyShowsNothing
    <3> QED
      BY <1>11, <3>1 DEF Over, Known, ServerInv, GoodSession, Session, GamePhase
  <2>3. game.currentPlayerId = p
    <3>1. Snapshot(game) \in Seen(game.turnId)
      BY SnapshotSeen DEF Known, ServerInv
    <3>2. game.currentPlayerId = MoverOf(game.turnId) /\ g.shown.currentPlayerId = MoverOf(g.shown.turnId)
      BY <1>7, <3>1 DEF Snapshot, Seen
    <3> QED
      BY <1>3, <1>5, <2>1, <3>2
  <2>4. Accepts(game, request)
    BY <1>8, <2>1, <2>2, <2>3 DEF Accepts, OwnRequests
  <2>5. Seated(c)
    BY <1>1, <1>6, <1>11 DEF Told
  <2>6. Asks(c)'
    <3>1. inbox'[c] = <<request>>
      BY <1>1, <1>2, <2>1
    <3>2. inbox'[c] \in Seq(OwnRequests(p))
      BY <1>8, <3>1
    <3>3. Seated(c)' /\ Accepts(game', request) /\ slot'[c] = p /\ state'[c] # "new"
      BY <1>2, <2>4, <2>5 DEF Seated
    <3> QED
      BY <1>8, <3>1, <3>2, <3>3 DEF Asks
  <2>7. Told(c)'
    BY <1>1, <1>2 DEF Told, Over, Seated
  <2>8. gui'[c].shown = g.shown /\ gui'[c].requestPending = TRUE
    BY <1>1 DEF HeardInv, GuiState
  <2>9. ASSUME NEW j \in 1..Len(s), Shows(s[j]), g.shown.turnId < s[j].game.turnId,
               NEW board, board = s[j].game
        PROVE  Awaited(c, board)'
    <3>1. Awaited(c, board)
      BY <1>1, <2>9 DEF Expects
    <3>2. board \in Seen(game.turnId)
      BY <1>1, <2>9, BoardSeen
    <3>3. game.turnId # board.turnId
      <4> DEFINE n == g.shown.turnId
                 k == board.turnId
      <4>1. n \in Nat /\ k \in Nat /\ n < k /\ game.turnId = n
        BY <1>7, <2>1, <2>9, <3>2 DEF Seen
      <4> HIDE DEF n, k
      <4>2. n # k
        BY <4>1
      <4> QED
        BY <4>1, <4>2 DEF k
    <3> QED
      BY <1>2, <1>11, <3>1, <3>3 DEF Awaited, Over
  <2>10. Expects(c)'
    BY <1>2, <2>8, <2>9 DEF Expects, MayMove
  <2> QED
    BY <2>6, <2>7, <2>10 DEF Careful
<1> QED
  BY <1>10, <1>11

LEMMA RequestsParse == Garbage \notin Requests /\ BadLength \notin Requests
<1>1. ASSUME NEW request \in Requests
      PROVE  request # Garbage /\ request # BadLength
  <2>1. DOMAIN request = {"playerId", "turnId", "legal"}
    BY DEF Requests
  <2>2. DOMAIN Garbage = {"body"} /\ DOMAIN BadLength = {"body"}
    BY DEF Garbage, BadLength
  <2>3. "playerId" \notin {"body"} /\ "playerId" \in {"playerId", "turnId", "legal"}
    OBVIOUS
  <2> QED
    BY <2>1, <2>2, <2>3
<1> QED
  BY <1>1

\* The server reads a request of the client a.
LEMMA CarefulRead ==
  ASSUME Known, HeardInv, Guis = Clients, \A d \in Clients : Careful(d),
         QuietStep \/ StartStep \/ AnswerStep,
         NEW a \in Clients, NEW damage \in PossibleDamage(game), ReadBody(a, damage),
         NEW c \in Guis, Calm(c)
  PROVE  Careful(c)'
<1> DEFINE q == inbox[a]
           r == Head(q)
<1>1. c \in Clients /\ Asks(a) /\ Careful(c)
  BY DEF Careful
<1>2. /\ UNCHANGED <<players, state, slot>> /\ inbox' = [inbox EXCEPT ![a] = Tail(@)]
      /\ IF Owns(a) THEN OnMessage(a, r, damage) ELSE UNCHANGED <<game, log, out>>
      /\ q # << >> /\ inbox \in [Clients -> Seq(Frames)]
  BY DEF ReadBody, Known, FramesInv
<1>3. r \in OwnRequests(slot[a])
  <2> DEFINE S == OwnRequests(slot[a])
  <2>1. q \in Seq(S) /\ q # << >>
    BY <1>1, <1>2 DEF Asks
  <2> HIDE DEF q, S
  <2>2. Head(q) \in S
    BY <2>1
  <2> QED
    BY <2>2 DEF S
<1>4. Extends(out'[c], out[c])
  BY <1>1, StreamsGrow DEF Known, HistoryInv
<1>5. inbox'[c] = inbox[c] \/ (inbox[c] # << >> /\ inbox'[c] = Tail(inbox[c]))
  BY <1>1, <1>2
<1> HIDE DEF r
<1>6. CASE ~Owns(a)
  <2>1. ~Seated(a)
    BY <1>6, NoClientAssumption DEF Owns, Seated, Known, ServerInv, SeatsMatchSession
  <2>2. Over
    BY <1>1, <1>2, <2>1 DEF Asks
  <2> QED
    BY <1>1, <1>2, <1>4, <1>5, <1>6, <2>2, CarefulOver
<1>7. CASE Owns(a)
  <2>1. r \in Requests /\ r.playerId = slot[a]
    BY <1>3 DEF OwnRequests
  <2>2. Answer(a, r, damage)
    BY <1>2, <1>7, <2>1, RequestsParse DEF OnMessage
  <2> DEFINE success == Accepts(game, r)
  <2>3. /\ ~success => game' = game
        /\ \A d \in Clients :
             out'[d] = IF Seated(d) THEN Append(out[d], EliminateResult(success, game'))
                       ELSE out[d]
    BY <2>1, <2>2, AnswerTells DEF Known
  <2>4. CASE Over
    <3>1. success = FALSE
      BY <2>4 DEF Accepts, Over
    <3>2. game' = game /\ (out'[c] = out[c] \/ out'[c] = Append(out[c], EliminateResult(FALSE, game')))
      BY <1>1, <2>3, <3>1
    <3> QED
      BY <1>1, <1>2, <1>4, <1>5, <2>4, <3>2, CarefulOver
  <2>5. CASE ~Over
    <3>1. success = TRUE
      <4>1. PICK request : q = <<request>> /\ Accepts(game, request)
        BY <1>1, <1>2, <2>5 DEF Asks
      <4>2. r = request
        BY <4>1 DEF r
      <4> QED
        BY <4>1, <4>2 DEF Accepts
    <3>2. \A d \in Clients :
            out'[d] = IF Seated(d) THEN Append(out[d], EliminateResult(TRUE, game')) ELSE out[d]
      BY <2>3, <3>1
    <3> QED
      BY <1>2, <1>4, <2>5, <3>2, CarefulAccepted
  <2> QED
    BY <2>4, <2>5
<1> QED
  BY <1>6, <1>7

LEMMA CarefulNext ==
  ASSUME Known, Known', HeardInv, CarefulInv, [GuiNext]_allVars
  PROVE  CarefulInv'
<1> SUFFICES ASSUME Guis = Clients, NEW c \in Clients
             PROVE  Careful(c)'
  BY DEF CarefulInv
<1>1. \A d \in Clients : Careful(d)
  BY DEF CarefulInv
<1>2. [Next]_vars
  BY ServerTakesStep
<1>3. QuietStep \/ StartStep \/ AnswerStep
  BY <1>2, StepTells DEF Known, HistoryInv, Begun
<1>4. Calm(c) \/ UNCHANGED vars
  <2>1. Hears(c)
    BY GuiMoves DEF HeardInv
  <2>2. gui'[c] = gui[c] => Calm(c)
    BY DEF Calm
  <2> QED
    BY <2>1, <2>2, HarmlessCalm DEF Hears
<1>5. CASE UNCHANGED vars
  <2>1. UNCHANGED <<game, players, state, slot, out, inbox>>
    BY <1>5 DEF vars, connectionVars, peerVars
  <2>2. Calm(c) => Careful(c)'
    BY <1>1, <2>1, CarefulStill
  <2>3. Hears(c)
    BY GuiMoves DEF HeardInv
  <2>4. gui'[c] = gui[c] \/ Harmless(gui[c], gui'[c]) => Calm(c)
    BY HarmlessCalm DEF Calm
  <2> QED
    BY <1>1, <1>5, <2>2, <2>3, <2>4, CarefulTakes DEF Hears
<1>6. CASE Calm(c) /\ inbox' = inbox
  BY <1>1, <1>2, <1>3, <1>6, CarefulQuiet, CarefulStart DEF AnswerStep
<1>7. ASSUME NEW a \in Clients, Confirm(a), Calm(c)
      PROVE  Careful(c)'
  <2>1. CASE UNCHANGED vars
    BY <1>5, <2>1
  <2>2. ASSUME NEW request \in MakeRequests(gui[a]) \cap Frames, PeerSends(a, request)
        PROVE  Careful(c)'
    <3>1. CASE c = a
      <4>1. CanConfirm(gui[a]) /\ gui' = [gui EXCEPT ![a].requestPending = TRUE]
        BY <1>7 DEF Confirm
      <4> QED
        BY <1>1, <2>2, <3>1, <4>1, CarefulConfirm
    <3>2. CASE c # a
      <4>1. UNCHANGED <<game, players, state, slot, out>> /\ inbox'[c] = inbox[c]
        BY <2>2, <3>2 DEF PeerSends, connectionVars, Known, FramesInv
      <4> QED
        BY <1>1, <1>7, <4>1, CarefulStill
    <3> QED
      BY <3>1, <3>2
  <2> QED
    BY <1>7, <2>1, <2>2 DEF Confirm
<1>8. ASSUME NEW a \in Clients, Read(a), Calm(c)
      PROVE  Careful(c)'
  <2>1. CASE ReadHeader(a)
    <3>1. inbox[a] # << >> /\ Asks(a)
      BY <1>1, <2>1 DEF ReadHeader, Careful
    <3> DEFINE q == inbox[a]
               S == OwnRequests(slot[a])
    <3>2. q \in Seq(S) /\ q # << >>
      BY <3>1 DEF Asks
    <3> HIDE DEF q, S
    <3>3. Head(q) \in S
      BY <3>2
    <3>4. Head(inbox[a]) # BadLength
      BY <3>3, RequestsParse DEF OwnRequests, q, S
    <3>5. inbox' = inbox
      BY <2>1, <3>4 DEF ReadHeader
    <3> QED
      BY <1>6, <1>8, <3>5
  <2>2. ASSUME NEW damage \in PossibleDamage(game), ReadBody(a, damage)
        PROVE  Careful(c)'
    BY <1>1, <1>3, <1>8, <2>2, CarefulRead
  <2>3. CASE ReadFails(a)
    BY <1>6, <1>8, <2>3 DEF ReadFails, peerVars
  <2> QED
    BY <1>8, <2>1, <2>2, <2>3 DEF Read
<1>9. ASSUME NEW a \in Clients, OnConnected(a) \/ PeerLeaves(a) \/ Write(a)
      PROVE  inbox' = inbox
  BY <1>9 DEF OnConnected, PeerLeaves, Write, WriteDone, WriteFails, peerVars
<1>10. ASSUME NEW a \in Clients, Close(a)
       PROVE  inbox' = inbox
  BY <1>9, <1>10, CloseLeaves DEF vars, peerVars
<1>11. ASSUME NEW a \in Clients, Calm(c),
              User(a) \/ MainThread(a) \/ ReceiverThread(a) \/ LinkBreaks(a)
       PROVE  Careful(c)'
  <2>1. CASE User(a) /\ ~Confirm(a)
    <3>1. inbox' = inbox
      BY <1>9, <2>1 DEF User, Launch, LaunchFails, Select, Clear, CloseWindow, vars, peerVars
    <3> QED
      BY <1>6, <1>11, <3>1
  <2>2. CASE Confirm(a)
    BY <1>7, <1>11, <2>2
  <2>3. CASE MainThread(a)
    <3>1. inbox' = inbox
      BY <1>10, <2>3
      DEF MainThread, Abandon, Consume, LeaveLoop, StopNetwork, Join, vars, peerVars
    <3> QED
      BY <1>6, <1>11, <3>1
  <2>4. CASE ReceiverThread(a) \/ LinkBreaks(a)
    <3>1. inbox' = inbox
      BY <1>9, <2>4 DEF ReceiverThread, Receive, ReceiveFails, LinkBreaks, vars, peerVars
    <3> QED
      BY <1>6, <1>11, <3>1
  <2> QED
    BY <1>11, <2>1, <2>2, <2>3, <2>4
<1>12. ASSUME NEW a \in Clients, Calm(c), ServerReads(a) \/ ServerWrites(a)
       PROVE  Careful(c)'
  BY <1>6, <1>8, <1>9, <1>12 DEF ServerReads, ServerWrites
<1>13. CASE ServerStops /\ Calm(c)
  BY <1>6, <1>13 DEF ServerStops, Stop, peerVars
<1>14. CASE GuiNext /\ Calm(c)
  BY <1>11, <1>12, <1>13, <1>14 DEF GuiNext
<1> QED
  BY <1>4, <1>5, <1>14 DEF allVars

LEMMA CarefulInit == GuiInit => CarefulInv
<1> SUFFICES ASSUME GuiInit, Guis = Clients, NEW c \in Clients
             PROVE  Careful(c)
  BY DEF CarefulInv
<1>1. /\ inbox[c] = << >> /\ out[c] = << >> /\ gui[c] = NewGui
  BY DEF GuiInit, Init
<1>2. << >> \in Seq(OwnRequests(slot[c]))
  OBVIOUS
<1>3. Asks(c)
  BY <1>1, <1>2 DEF Asks
<1>4. Told(c) /\ Expects(c)
  BY <1>1 DEF Told, Expects, MayMove, NewGui
<1> QED
  BY <1>3, <1>4 DEF Careful

\* In a match of GUI clients, however many connect, nobody is refused a request
\* but by a game that has ended.
THEOREM NobodyRefused == GuiSpec => []NoRefusal
<1>1. CarefulInv => NoRefusal
  <2> SUFFICES ASSUME CarefulInv, Guis = Clients, NEW c \in Clients, NEW i \in 1..Len(out[c]),
                      out[c][i].type = "EliminateResult", ~out[c][i].success
               PROVE  out[c][i].game.phase = "Finished"
    BY DEF NoRefusal
  <2> QED
    BY DEF CarefulInv, Careful, Told, Refuses
<1> QED
  BY <1>1, CarefulInit, CarefulNext, HeardTrue, KnownOfTheServer, PTL DEF GuiSpec
-----------------------------------------------------------------------------
(* The requests of a GUI client are rationed, whoever the opponent is.     *)

\* How many of the turns up to the t-th are the player p's.
OwnTurns(p, t) == IF p = FirstPlayer THEN (t + 1) \div 2 ELSE t \div 2

LEMMA OwnTurnsCount ==
  ASSUME NEW p, NEW t \in Nat
  PROVE  /\ OwnTurns(p, t) \in Nat
         /\ OwnTurns(p, 0) = 0
         /\ OwnTurns(p, t + 1) \in {OwnTurns(p, t), OwnTurns(p, t) + 1}
         /\ p \in Players => OwnTurns(p, t + 1) = OwnTurns(p, t) + (IF MoverOf(t + 1) = p THEN 1 ELSE 0)
         /\ \A u \in 0..t : OwnTurns(p, u) <= OwnTurns(p, t)
BY FirstPlayerAssumption DEF OwnTurns, MoverOf, Players, Opponent

\* The refusals among the first n messages of s.
RefusalsIn(s, n) == {i \in 1..n : Refuses(s[i])}

LEMMA RefusalsCount ==
  ASSUME NEW s, NEW n \in Nat
  PROVE  /\ Cardinality(RefusalsIn(s, n)) \in Nat
         /\ Cardinality(RefusalsIn(s, n + 1)) =
              Cardinality(RefusalsIn(s, n)) + (IF Refuses(s[n + 1]) THEN 1 ELSE 0)
<1> DEFINE I == RefusalsIn(s, n)
<1>1. I \in SUBSET (1..n)
  BY DEF RefusalsIn
<1>2. /\ Cardinality(I) \in Nat
      /\ Cardinality(I \cup {n + 1}) = Cardinality(I) + 1
  BY <1>1, CountOneMore
<1>3. Refuses(s[n + 1]) => RefusalsIn(s, n + 1) = I \cup {n + 1}
  BY DEF RefusalsIn
<1>4. ~Refuses(s[n + 1]) => RefusalsIn(s, n + 1) = I
  BY DEF RefusalsIn
<1> QED
  BY <1>2, <1>3, <1>4

\* What stays, stays as it was counted.
LEMMA SameRefusals ==
  ASSUME NEW s, NEW t, NEW n \in Nat, \A i \in 1..n : t[i] = s[i]
  PROVE  RefusalsIn(t, n) = RefusalsIn(s, n)
BY DEF RefusalsIn

\* A message enters the queue, or is taken from it.
LEMMA RefusalsQueued ==
  ASSUME NEW S, NEW q \in Seq(S), NEW m
  PROVE  /\ Cardinality(RefusalsIn(q, Len(q))) \in Nat
         /\ LET t == Append(q, m)
            IN  Cardinality(RefusalsIn(t, Len(t))) =
                  Cardinality(RefusalsIn(q, Len(q))) + (IF Refuses(m) THEN 1 ELSE 0)
         /\ q # << >> =>
              LET t == Tail(q)
              IN  Cardinality(RefusalsIn(q, Len(q))) =
                    Cardinality(RefusalsIn(t, Len(t))) + (IF Refuses(Head(q)) THEN 1 ELSE 0)
<1> DEFINE n == Len(q)
<1>1. n \in Nat
  OBVIOUS
<1>2. Cardinality(RefusalsIn(q, n)) \in Nat
  BY <1>1, RefusalsCount
<1>3. LET t == Append(q, m)
      IN  Cardinality(RefusalsIn(t, Len(t))) =
            Cardinality(RefusalsIn(q, n)) + (IF Refuses(m) THEN 1 ELSE 0)
  <2> DEFINE t == Append(q, m)
  <2>1. /\ Len(t) = n + 1 /\ t[n + 1] = m
        /\ \A i \in 1..n : t[i] = q[i]
    BY LongerByOne
  <2> HIDE DEF t, n
  <2>2. RefusalsIn(t, n) = RefusalsIn(q, n)
    BY <1>1, <2>1, SameRefusals
  <2>3. Cardinality(RefusalsIn(t, n + 1)) = Cardinality(RefusalsIn(q, n)) + (IF Refuses(m) THEN 1 ELSE 0)
    BY <1>1, <2>1, <2>2, RefusalsCount
  <2> QED
    BY <2>1, <2>3 DEF t
<1>4. ASSUME q # << >>
      PROVE  LET t == Tail(q)
             IN  Cardinality(RefusalsIn(q, n)) =
                   Cardinality(RefusalsIn(t, Len(t))) + (IF Refuses(Head(q)) THEN 1 ELSE 0)
  <2> DEFINE t == Tail(q)
             I == RefusalsIn(t, Len(t))
             J == {i \in 2..n : Refuses(q[i])}
             f == [i \in I |-> i + 1]
  <2>1. /\ Len(t) = n - 1 /\ n > 0 /\ Head(q) = q[1]
        /\ \A i \in 1..n - 1 : t[i] = q[i + 1]
    BY <1>1, <1>4
  <2> HIDE DEF t, n
  <2>2. I \subseteq 1..n - 1 /\ \A i \in 1..n - 1 : i \in I <=> i + 1 \in J
    BY <1>1, <2>1 DEF RefusalsIn
  <2>3. IsFiniteSet(I)
    <3>1. IsFiniteSet(1..n - 1)
      BY <1>1, <2>1, FS_Interval
    <3> QED
      BY <2>2, <3>1, FS_Subset
  <2>4. f \in Bijection(I, J)
    <3>1. f \in [I -> J]
      BY <1>1, <2>2
    <3>2. \A i, j \in I : f[i] = f[j] => i = j
      BY <1>1, <2>2
    <3>3. \A j \in J : \E i \in I : f[i] = j
      <4> SUFFICES ASSUME NEW j \in J
                   PROVE  \E i \in I : f[i] = j
        OBVIOUS
      <4>1. j - 1 \in 1..n - 1 /\ (j - 1) + 1 = j
        BY <1>1
      <4>2. j - 1 \in I
        BY <2>2, <4>1
      <4> QED
        BY <4>1, <4>2
    <3> HIDE DEF f
    <3> QED
      BY <3>1, <3>2, <3>3 DEF Bijection, Injection, Surjection, IsInjective
  <2>5. IsFiniteSet(J) /\ Cardinality(J) = Cardinality(I) /\ Cardinality(I) \in Nat
    <3> HIDE DEF f, I, J
    <3>1. ExistsBijection(I, J)
      BY <2>4 DEF ExistsBijection
    <3> QED
      BY <2>3, <3>1, FS_Bijection, FS_CardinalityType
  <2>6. 1 \notin J /\ (Refuses(q[1]) => RefusalsIn(q, n) = J \cup {1})
        /\ (~Refuses(q[1]) => RefusalsIn(q, n) = J)
    BY <1>1, <2>1 DEF RefusalsIn
  <2>7. Cardinality(J \cup {1}) = Cardinality(J) + 1
    BY <2>5, <2>6, FS_AddElement
  <2>8. Cardinality(RefusalsIn(q, n)) = Cardinality(I) + (IF Refuses(Head(q)) THEN 1 ELSE 0)
    <3> HIDE DEF I, J
    <3>1. CASE Refuses(q[1])
      BY <2>1, <2>5, <2>6, <2>7, <3>1
    <3>2. CASE ~Refuses(q[1])
      BY <2>1, <2>5, <2>6, <3>2
    <3> QED
      BY <3>1, <3>2
  <2> QED
    BY <2>8 DEF t
<1> QED
  BY <1>2, <1>3, <1>4

\* What a client is sent: no complaint, nothing of a lobby, no board before the
\* one the game starts with, or without a seat in it.
Served(c) ==
  \A i \in 1..Len(out[c]) :
    /\ out[c][i].type = "Error" => out[c][i].text = "RoomFull"
    /\ Refuses(out[c][i]) => out[c][i].game.phase # "WaitingForPlayers"
    /\ out[c][i].type = "GameStarted" => \A j \in 1..i - 1 : ~Shows(out[c][j])
    /\ Shows(out[c][i]) => Over \/ Seated(c)

HasBoard(c) == \E i \in 1..Len(out[c]) : Shows(out[c][i])

\* The turns that have been the client's and the requests under way ...
Spent(c) == Len(inbox[c]) + OwnTurns(slot[c], game.turnId - 1)

\* ... against its turns up to the one it shows, the refusals it has handled,
\* and the request it may send now.
MayAsk(g) == IF CanSelect(g) THEN 1 ELSE 0

HandledRefusals(s, r, q) == Cardinality(RefusalsIn(s, r)) - Cardinality(RefusalsIn(q, Len(q)))

Granted(c) == OwnTurns(slot[c], gui[c].shown.turnId)
              + HandledRefusals(out[c], received[c], queue[c]) - MayAsk(gui[c])

\* The inductive invariant of the requests of one GUI client, which nobody but
\* itself can have sent.
Rationed(c) ==
  /\ inbox[c] \in Seq(OwnRequests(slot[c]))
  /\ state[c] = "new" => inbox[c] = << >>
  /\ Served(c)
  /\ ~HasBoard(c) => inbox[c] = << >>
  /\ HasBoard(c) => Spent(c) <= Granted(c)

RationedInv == \A c \in Guis : Rationed(c)

LEMMA HandledGrants ==
  ASSUME Known, HeardInv, NEW c \in Guis, Served(c),
         NEW h \in Nat, h + 1 \in 1..Len(out[c]), Sees(gui[c], out[c], h)
  PROVE  LET m == out[c][h + 1]
             k == HandleMessage(gui[c], m)
         IN  /\ gui[c].shown.turnId \in Nat /\ k.shown.turnId \in Nat
             /\ OwnTurns(slot[c], gui[c].shown.turnId) - MayAsk(gui[c]) <=
                  OwnTurns(slot[c], k.shown.turnId) - MayAsk(k) + (IF Refuses(m) THEN 1 ELSE 0)
<1> DEFINE g == gui[c]
           s == out[c]
           p == slot[c]
           u == game.turnId
           m == s[h + 1]
           k == HandleMessage(g, m)
<1>1. c \in Clients /\ Len(s) \in Nat /\ g \in GuiState
  BY HandledPart
<1>2. /\ p \in {-1, 0, 1} /\ u \in Nat /\ s \in Seq(Sendable(p, u))
      /\ MovesOn(s, Snapshot(game)) /\ InOrder(s, p)
  BY <1>1 DEF Known, ServerInv, StreamInv, GoodSession, Session, SnapshotsInv, ShowsWell,
              HistoryInv, StreamsInOrder
<1>3. m \in Sendable(p, u) /\ m = s[h + 1]
  BY <1>2
<1>4. \A i \in 1..Len(s) : Shows(s[i]) => s[i].game \in Seen(u) /\ s[i].game.turnId \in Nat \ {0}
  <2>1. \A i \in 1..Len(s) : Shows(s[i]) => s[i].game \in Seen(u)
    BY <1>1, BoardSeen
  <2> QED
    BY <2>1 DEF Seen
<1>5. \A i \in 1..h : i \in 1..Len(s) /\ i < h + 1 /\ i \in 1..(h + 1) - 1
  BY <1>1
<1>6. /\ k.shown = IF Shows(m) THEN m.game ELSE g.shown
      /\ k.playerId = g.playerId \/ m = JoinRoom(k.playerId)
      /\ MayMove(k) => Shows(m) \/ (m.type = "Error" /\ m.text # "RoomFull") \/ MayMove(g)
  BY <1>1, <1>2, <1>3, HandledFields, HandledMayMove
<1>7. g.shown = NoBoard \/ \E i \in 1..h : Shows(s[i]) /\ g.shown = s[i].game
  BY DEF Sees, LastShown
<1>8. g.playerId = -1 \/ \E i \in 1..h : s[i] = JoinRoom(g.playerId)
  BY DEF Sees
<1>9. m.type = "Error" => m.text = "RoomFull"
  BY DEF Served
<1>10. \A i \in 1..h : m.type = "GameStarted" => ~Shows(s[i])
  BY <1>5 DEF Served
<1> HIDE DEF g, s, p, u, m, k
<1>11. g.shown.turnId \in Nat
  BY <1>4, <1>5, <1>7 DEF NoBoard
<1>12. MayAsk(g) \in {0, 1} /\ MayAsk(k) \in {0, 1}
  BY DEF MayAsk
<1>13. CASE ~Shows(m)
  <2>1. k.shown = g.shown /\ ~Refuses(m)
    BY <1>6, <1>13 DEF Shows, Refuses
  <2>2. CanSelect(k) => CanSelect(g)
    <3>1. CASE k.playerId = g.playerId
      BY <1>6, <1>9, <1>13, <2>1, <3>1 DEF CanSelect, MayMove
    <3>2. CASE m = JoinRoom(k.playerId)
      <4>1. m.type = "JoinRoom"
        BY <3>2 DEF JoinRoom
      <4>2. \A i \in 1..h : FALSE
        <5>1. h + 1 \in 1..Len(s)
          BY DEF s
        <5> QED
          BY <1>2, <1>3, <1>5, <4>1, <5>1 DEF InOrder
      <4>3. k.shown = NoBoard
        BY <1>7, <2>1, <4>2
      <4> QED
        BY <4>3 DEF CanSelect
    <3> QED
      BY <1>6, <3>1, <3>2
  <2>3. MayAsk(k) <= MayAsk(g)
    BY <2>2 DEF MayAsk
  <2>4. OwnTurns(p, g.shown.turnId) \in Nat
    BY <1>11, OwnTurnsCount
  <2>5. /\ g.shown.turnId \in Nat /\ k.shown.turnId \in Nat
        /\ OwnTurns(p, g.shown.turnId) - MayAsk(g) <=
             OwnTurns(p, k.shown.turnId) - MayAsk(k) + (IF Refuses(m) THEN 1 ELSE 0)
    BY <1>11, <1>12, <2>1, <2>3, <2>4
  <2> QED
    BY <2>5 DEF g, s, p, m, k
<1>14. CASE Shows(m)
  <2> DEFINE b == m.game
             n == g.shown.turnId
             t == b.turnId
  <2>1. h + 1 \in 1..Len(s)
    BY DEF s
  <2>2. k.shown = b /\ b \in Seen(u) /\ t \in Nat \ {0} /\ n \in Nat
    BY <1>3, <1>4, <1>6, <1>11, <1>14, <2>1
  <2>3. n <= t
    <3>1. CASE g.shown = NoBoard
      BY <2>2, <3>1 DEF NoBoard
    <3>2. ASSUME NEW i \in 1..h, Shows(s[i]), g.shown = s[i].game
          PROVE  n <= t
      BY <1>2, <1>3, <1>5, <1>14, <2>1, <3>2 DEF MovesOn, Later
    <3> QED
      BY <1>7, <3>1, <3>2
  <2>4. ASSUME ~Refuses(m), b.phase = "Elimination"
        PROVE  n < t
    <3>1. CASE g.shown = NoBoard
      BY <2>2, <3>1 DEF NoBoard
    <3>2. ASSUME NEW i \in 1..h, Shows(s[i]), g.shown = s[i].game
          PROVE  n < t
      <4>1. TellsSuccess(m)
        BY <1>10, <1>14, <2>4, <3>2 DEF Shows, Refuses, TellsSuccess
      <4> QED
        BY <1>2, <1>3, <1>5, <1>14, <2>1, <2>4, <3>2, <4>1 DEF MovesOn
    <3> QED
      BY <1>7, <3>1, <3>2
  <2>5. ASSUME CanSelect(k)
        PROVE  b.phase = "Elimination" /\ p \in Players /\ MoverOf(t) = p
    <3>1. b.phase = "Elimination" /\ b.currentPlayerId = k.playerId /\ k.playerId >= 0
      BY <2>2, <2>5 DEF CanSelect
    <3>2. k.playerId = g.playerId
      <4>1. m.type # "JoinRoom"
        BY <1>14 DEF Shows
      <4> QED
        BY <1>6, <4>1 DEF JoinRoom
    <3>3. PICK i \in 1..h : s[i] = JoinRoom(g.playerId)
      BY <1>8, <3>1, <3>2
    <3>4. s[i] \in Sendable(p, u)
      BY <1>2, <1>5
    <3>5. g.playerId = p
      BY <3>3, <3>4 DEF Sendable, JoinRoom, PlayerReady, OpponentDisconnected, GameEnded
    <3>6. b.currentPlayerId = MoverOf(t)
      BY <2>2 DEF Seen
    <3> QED
      BY <1>2, <3>1, <3>2, <3>5, <3>6 DEF Players
  <2> DEFINE a == OwnTurns(p, n)
             d == OwnTurns(p, t)
  <2>6. a \in Nat /\ d \in Nat /\ a <= d
    BY <2>2, <2>3, OwnTurnsCount
  <2>7. ASSUME ~Refuses(m), CanSelect(k)
        PROVE  a + 1 <= d
    <3>1. n < t /\ p \in Players /\ MoverOf(t) = p
      BY <2>4, <2>5, <2>7
    <3> DEFINE v == t - 1
    <3>2. v \in Nat /\ t = v + 1 /\ n \in 0..v
      BY <2>2, <3>1
    <3> HIDE DEF v, n, t
    <3>3. OwnTurns(p, v + 1) = OwnTurns(p, v) + 1 /\ OwnTurns(p, n) <= OwnTurns(p, v)
      BY <3>1, <3>2, OwnTurnsCount
    <3>4. OwnTurns(p, v) \in Nat /\ OwnTurns(p, n) \in Nat
      BY <2>2, <3>2, OwnTurnsCount
    <3> QED
      BY <3>2, <3>3, <3>4
  <2> HIDE DEF a, d
  <2>8. a - MayAsk(g) <= d - MayAsk(k) + (IF Refuses(m) THEN 1 ELSE 0)
    <3>1. CASE Refuses(m) \/ ~CanSelect(k)
      <4>1. Refuses(m) \/ MayAsk(k) = 0
        BY <3>1 DEF MayAsk
      <4> QED
        BY <1>12, <2>6, <4>1
    <3>2. CASE ~Refuses(m) /\ CanSelect(k)
      BY <1>12, <2>6, <2>7, <3>2
    <3> QED
      BY <3>1, <3>2
  <2>9. n \in Nat /\ k.shown.turnId \in Nat /\ k.shown.turnId = t
    BY <2>2
  <2> QED
    BY <2>8, <2>9 DEF a, d, g, s, p, m, k
<1> QED
  BY <1>13, <1>14

LEMMA ShownTurn == \A g \in GuiState : g.shown.turnId \in Nat
BY DEF GuiState, Board, NoBoard, Seen

\* Whatever the user and the threads do, the client is granted no less.
LEMMA GrantsKept ==
  ASSUME Known, HeardInv, NEW c \in Guis, Served(c), Hears(c)
  PROVE  /\ Granted(c) \in Int
         /\ LET after == OwnTurns(slot[c], gui'[c].shown.turnId)
                         + HandledRefusals(out[c], received'[c], queue'[c]) - MayAsk(gui'[c])
            IN  after \in Int /\ Granted(c) <= after
<1> DEFINE g == gui[c]
           g1 == gui'[c]
           s == out[c]
           p == slot[c]
           r == received[c]
           r1 == received'[c]
           q == queue[c]
           q1 == queue'[c]
           S == Heard(out[c])
           a == OwnTurns(p, g.shown.turnId)
           a1 == OwnTurns(p, g1.shown.turnId)
           R(n) == Cardinality(RefusalsIn(s, n))
           Q(z) == Cardinality(RefusalsIn(z, Len(z)))
<1>1. c \in Clients /\ g \in GuiState /\ r \in Nat /\ q \in Seq(S)
  BY HandledPart DEF HeardInv, HeardWell
<1>2. g1 \in GuiState /\ r1 \in Nat /\ q1 \in Seq(S)
  BY <1>1, HearsWell DEF HeardInv
<1>3. /\ a \in Nat /\ a1 \in Nat
      /\ R(r) \in Nat /\ R(r1) \in Nat /\ Q(q) \in Nat /\ Q(q1) \in Nat
  BY <1>1, <1>2, ShownTurn, OwnTurnsCount, RefusalsCount, RefusalsQueued
<1>4. MayAsk(g) \in {0, 1} /\ MayAsk(g1) \in {0, 1}
  BY DEF MayAsk
<1>5. ~Refuses(NetworkDisconnected)
  BY DEF Refuses, NetworkDisconnected
<1>6. CASE /\ q1 = q \/ q1 = Append(q, NetworkDisconnected)
           /\ r1 = r /\ Harmless(g, g1)
  <2>1. Q(q1) = Q(q)
    <3>1. CASE q1 = Append(q, NetworkDisconnected)
      <4>1. Q(Append(q, NetworkDisconnected)) = Q(q) + (IF Refuses(NetworkDisconnected) THEN 1 ELSE 0)
        BY <1>1, RefusalsQueued
      <4> QED
        BY <1>3, <1>5, <3>1, <4>1
    <3> QED
      BY <1>6, <3>1
  <2>2. g1.shown = g.shown /\ (CanSelect(g1) => CanSelect(g))
    BY <1>6 DEF Harmless, CanSelect
  <2>3. MayAsk(g1) <= MayAsk(g)
    BY <2>2 DEF MayAsk
  <2>4. a1 = a /\ R(r1) = R(r)
    BY <1>6, <2>2
  <2> HIDE DEF a, a1, R, Q
  <2>5. a + (R(r) - Q(q)) - MayAsk(g) <= a1 + (R(r1) - Q(q1)) - MayAsk(g1)
    BY <1>3, <1>4, <2>1, <2>3, <2>4
  <2> QED
    BY <1>3, <1>4, <2>5 DEF Granted, HandledRefusals, a, a1, R, Q
<1>7. CASE q1 = Append(q, s[r + 1]) /\ r1 = r + 1 /\ g1 = g
  <2>1. R(r1) = R(r) + (IF Refuses(s[r + 1]) THEN 1 ELSE 0)
    BY <1>1, <1>7, RefusalsCount
  <2>2. Q(q1) = Q(q) + (IF Refuses(s[r + 1]) THEN 1 ELSE 0)
    <3>1. Q(Append(q, s[r + 1])) = Q(q) + (IF Refuses(s[r + 1]) THEN 1 ELSE 0)
      BY <1>1, RefusalsQueued
    <3> QED
      BY <1>7, <3>1
  <2>3. a1 = a /\ MayAsk(g1) = MayAsk(g)
    BY <1>7
  <2> HIDE DEF a, a1, R, Q
  <2>4. a + (R(r) - Q(q)) - MayAsk(g) <= a1 + (R(r1) - Q(q1)) - MayAsk(g1)
    BY <1>3, <1>4, <2>1, <2>2, <2>3
  <2> QED
    BY <1>3, <1>4, <2>4 DEF Granted, HandledRefusals, a, a1, R, Q
<1>8. CASE /\ q # << >> /\ g1 = HandleMessage(g, Head(q))
           /\ q1 = Tail(q) /\ r1 = r
  <2> DEFINE m == Head(q)
  <2>1. Q(q) = Q(q1) + (IF Refuses(m) THEN 1 ELSE 0)
    <3>1. Q(q) = Q(Tail(q)) + (IF Refuses(m) THEN 1 ELSE 0)
      BY <1>1, <1>8, RefusalsQueued
    <3> QED
      BY <1>8, <3>1
  <2>2. a - MayAsk(g) <= a1 - MayAsk(g1) + (IF Refuses(m) THEN 1 ELSE 0)
    <3>1. CASE m = NetworkDisconnected
      <4>1. m.type = "NetworkDisconnected" /\ g1 = HandleMessage(g, m)
        BY <1>8, <3>1 DEF NetworkDisconnected
      <4> HIDE DEF m
      <4>2. g1 = [g EXCEPT !.phase = "Disconnected", !.requestPending = FALSE,
                           !.path = 0, !.drawnOn = NoBoard]
        BY <1>1, <4>1, Handled, ZenonT(60)
      <4>3. g1.shown = g.shown /\ g1.phase = "Disconnected"
        BY <1>1, <4>2 DEF GuiState
      <4>4. MayAsk(g1) = 0 /\ a1 = a
        BY <4>3 DEF MayAsk, CanSelect
      <4> HIDE DEF a, a1
      <4> QED
        BY <1>3, <1>4, <1>5, <3>1, <4>4
    <3>2. ASSUME NEW h \in Nat, h + 1 \in 1..Len(s), m = s[h + 1], Sees(g, s, h)
          PROVE  a - MayAsk(g) <= a1 - MayAsk(g1) + (IF Refuses(m) THEN 1 ELSE 0)
      <4>1. g1 = HandleMessage(g, s[h + 1])
        BY <1>8, <3>2
      <4> QED
        BY <3>2, <4>1, HandledGrants
    <3> QED
      BY <1>8, <3>1, <3>2, TakenNext
  <2>3. R(r1) = R(r)
    BY <1>8
  <2> HIDE DEF a, a1, R, Q, m
  <2>4. a + (R(r) - Q(q)) - MayAsk(g) <= a1 + (R(r1) - Q(q1)) - MayAsk(g1)
    <3>1. CASE Refuses(m)
      BY <1>3, <1>4, <2>1, <2>2, <2>3, <3>1
    <3>2. CASE ~Refuses(m)
      BY <1>3, <1>4, <2>1, <2>2, <2>3, <3>2
    <3> QED
      BY <3>1, <3>2
  <2> QED
    BY <1>3, <1>4, <2>4 DEF Granted, HandledRefusals, a, a1, R, Q
<1> QED
  BY <1>6, <1>7, <1>8 DEF Hears

\* The same after a step, the stream having grown.
LEMMA GrantsGrow ==
  ASSUME Known, HeardInv, NEW c \in Guis, Served(c), Hears(c),
         slot'[c] = slot[c], Extends(out'[c], out[c])
  PROVE  Granted(c) \in Int /\ Granted(c)' \in Int /\ Granted(c) <= Granted(c)'
<1>1. c \in Clients /\ Len(out[c]) \in Nat /\ written[c] \in Nat /\ written[c] <= Len(out[c])
  BY HandledPart DEF Known, StreamInv
<1>2. received'[c] \in Nat /\ received'[c] <= written[c]
  BY HearsWell DEF HeardInv
<1>3. \A i \in 1..received'[c] : out'[c][i] = out[c][i]
  BY <1>1, <1>2 DEF Extends
<1>4. RefusalsIn(out'[c], received'[c]) = RefusalsIn(out[c], received'[c])
  BY <1>2, <1>3, SameRefusals
<1>5. Granted(c)' = OwnTurns(slot[c], gui'[c].shown.turnId)
                      + HandledRefusals(out[c], received'[c], queue'[c]) - MayAsk(gui'[c])
  BY <1>4 DEF Granted, HandledRefusals
<1> QED
  BY <1>5, GrantsKept

\* As long as no board has been sent, nothing is granted, nor taken away.
LEMMA NothingGranted ==
  ASSUME Known, HeardInv, NEW c \in Guis, Hears(c), ~HasBoard(c), Extends(out'[c], out[c])
  PROVE  Granted(c)' = 0
<1> DEFINE s == out[c]
           t == out'[c]
           q1 == queue'[c]
           r1 == received'[c]
<1>1. /\ c \in Clients /\ Len(s) \in Nat /\ written[c] \in Nat /\ written[c] <= Len(s)
  BY HandledPart DEF Known, StreamInv
<1>2. /\ r1 \in Nat /\ r1 <= written[c] /\ q1 \in Seq(Heard(s))
      /\ \E h \in 0..r1 : Sees(gui'[c], s, h)
  BY HearsWell DEF HeardInv
<1>3. \A i \in 1..Len(s) : ~Shows(s[i]) /\ ~Refuses(s[i])
  BY DEF HasBoard, Shows, Refuses
<1>4. Extends(t, s)
  OBVIOUS
<1> HIDE DEF s, t, q1, r1
<1>5. gui'[c].shown = NoBoard
  <2>1. PICK h \in 0..r1 : Sees(gui'[c], s, h)
    BY <1>2
  <2>2. \A i \in 1..h : i \in 1..Len(s)
    BY <1>1, <1>2
  <2> QED
    BY <1>3, <2>1, <2>2 DEF Sees, LastShown
<1>6. RefusalsIn(t, r1) = {}
  <2>1. \A i \in 1..r1 : i \in 1..Len(s) /\ t[i] = s[i]
    BY <1>1, <1>2, <1>4 DEF Extends
  <2> QED
    BY <1>3, <2>1 DEF RefusalsIn
<1>7. RefusalsIn(q1, Len(q1)) = {}
  <2> DEFINE H == Heard(s)
  <2>1. \A m \in H : ~Refuses(m)
    BY <1>3 DEF Heard, Refuses, NetworkDisconnected
  <2>2. q1 \in Seq(H)
    BY <1>2
  <2> HIDE DEF H
  <2>3. \A i \in 1..Len(q1) : q1[i] \in H
    BY <2>2
  <2> QED
    BY <2>1, <2>3 DEF RefusalsIn
<1>8. HandledRefusals(t, r1, q1) = 0
  BY <1>6, <1>7, FS_EmptySet DEF HandledRefusals
<1>9. MayAsk(gui'[c]) = 0
  BY <1>5 DEF MayAsk, CanSelect
<1>10. OwnTurns(slot'[c], gui'[c].shown.turnId) = 0
  <2>1. gui'[c].shown.turnId = 0
    BY <1>5 DEF NoBoard
  <2> QED
    BY <2>1, OwnTurnsCount
<1> QED
  BY <1>8, <1>9, <1>10 DEF Granted, t, q1, r1

\* Plain words and boards for the seated keep what a client is sent.
LEMMA ServedGrows ==
  ASSUME NEW c \in Clients, Served(c), Len(out[c]) \in Nat, Extends(out'[c], out[c]),
         \A i \in 1..Len(out[c]) : Shows(out[c][i]) => Over' \/ Seated(c)',
         \A i \in 1..Len(out'[c]) :
           \/ i \in 1..Len(out[c])
           \/ Plain(out'[c][i])
           \/ /\ Shows(out'[c][i]) /\ (Over' \/ Seated(c)')
              /\ Refuses(out'[c][i]) => out'[c][i].game.phase # "WaitingForPlayers"
              /\ out'[c][i].type = "GameStarted" => \A j \in 1..i - 1 : ~Shows(out'[c][j])
  PROVE  Served(c)'
<1> DEFINE s == out[c]
           t == out'[c]
<1>1. \A i \in 1..Len(s) : t[i] = s[i] /\ \A j \in 1..i - 1 : j \in 1..Len(s) /\ t[j] = s[j]
  BY DEF Extends
<1>2. ASSUME NEW i \in 1..Len(t)
      PROVE  /\ t[i].type = "Error" => t[i].text = "RoomFull"
             /\ Refuses(t[i]) => t[i].game.phase # "WaitingForPlayers"
             /\ t[i].type = "GameStarted" => \A j \in 1..i - 1 : ~Shows(t[j])
             /\ Shows(t[i]) => Over' \/ Seated(c)'
  <2>1. CASE i \in 1..Len(s)
    BY <1>1, <2>1 DEF Served
  <2>2. CASE Plain(t[i])
    BY <2>2 DEF Plain, Shows, Refuses
  <2>3. CASE Shows(t[i]) /\ i \notin 1..Len(s) /\ ~Plain(t[i])
    BY <2>3 DEF Shows
  <2> QED
    BY <2>1, <2>2, <2>3 DEF Plain, Shows
<1> QED
  BY <1>2 DEF Served

LEMMA NoBoardInLobby ==
  ASSUME Known, NEW c \in Clients, Served(c), game.phase = "WaitingForPlayers"
  PROVE  ~HasBoard(c)
<1> SUFFICES ASSUME NEW i \in 1..Len(out[c]), Shows(out[c][i])
             PROVE  FALSE
  BY DEF HasBoard
<1>1. Means(out[c][i], slot[c], game.phase)
  BY DEF Known, HistoryInv, ToldInTime, InTime
<1> QED
  BY <1>1 DEF Served, Means, Shows, Refuses, TellsSuccess, TellsGame

\* Who has been sent a board is connected, and its stream goes on.
LEMMA BoardStays ==
  ASSUME Known, QuietStep \/ StartStep \/ AnswerStep, NEW c \in Clients
  PROVE  /\ Len(out[c]) \in Nat /\ Extends(out'[c], out[c])
         /\ HasBoard(c) => slot'[c] = slot[c] /\ state[c] # "new" /\ state'[c] # "new"
<1>1. /\ Len(out[c]) \in Nat /\ Extends(out'[c], out[c])
      /\ state[c] # "new" => slot'[c] = slot[c] /\ state'[c] # "new"
  BY StreamsGrow DEF Known, HistoryInv
<1>2. HasBoard(c) => out[c] # << >>
  BY DEF HasBoard
<1> QED
  BY <1>1, <1>2 DEF Known, HistoryInv, Begun

\* A step that passes no turn, and takes nothing but a request, keeps the balance.
LEMMA SpentKept ==
  ASSUME Known, NEW c \in Clients, inbox[c] \in Seq(OwnRequests(slot[c])),
         game'.turnId = game.turnId, slot'[c] = slot[c],
         inbox'[c] = inbox[c] \/ (inbox[c] # << >> /\ inbox'[c] = Tail(inbox[c]))
  PROVE  /\ Spent(c) \in Nat /\ Spent(c)' \in Nat /\ Spent(c)' <= Spent(c)
         /\ inbox'[c] \in Seq(OwnRequests(slot'[c]))
<1> DEFINE S == OwnRequests(slot[c])
           q == inbox[c]
           q1 == inbox'[c]
<1>1. q \in Seq(S) /\ (q1 = q \/ (q # << >> /\ q1 = Tail(q)))
  OBVIOUS
<1> HIDE DEF S, q, q1
<1>2. q1 \in Seq(S) /\ Len(q) \in Nat /\ Len(q1) \in Nat /\ Len(q1) <= Len(q)
  <2>1. CASE q # << >> /\ q1 = Tail(q)
    <3>1. q1 \in Seq(S) /\ Len(q) \in Nat /\ Len(q) > 0 /\ Len(q1) = Len(q) - 1
      BY <1>1, <2>1
    <3> QED
      BY <3>1
  <2> QED
    BY <1>1, <2>1
<1>3. game.turnId - 1 \in Nat
  BY DEF Known, ServerInv, GoodSession, Session
<1>4. OwnTurns(slot[c], game.turnId - 1) \in Nat
  BY <1>3, OwnTurnsCount
<1> QED
  BY <1>2, <1>4 DEF Spent, S, q, q1

\* Nothing happens to the game or to the client's stream.
LEMMA RationedStill ==
  ASSUME Known, HeardInv, NEW c \in Guis, Rationed(c), Hears(c),
         QuietStep \/ StartStep \/ AnswerStep,
         UNCHANGED <<game, players, state, slot>>, out'[c] = out[c],
         inbox'[c] = inbox[c] \/ (inbox[c] # << >> /\ inbox'[c] = Tail(inbox[c]))
  PROVE  Rationed(c)'
<1>1. c \in Clients
  BY GuisAssumption
<1>2. /\ Spent(c) \in Nat /\ Spent(c)' \in Nat /\ Spent(c)' <= Spent(c)
      /\ inbox'[c] \in Seq(OwnRequests(slot'[c]))
  BY <1>1, SpentKept DEF Rationed
<1>3. Granted(c) \in Int /\ Granted(c)' \in Int /\ Granted(c) <= Granted(c)'
  BY <1>1, BoardStays, GrantsGrow DEF Rationed
<1>4. HasBoard(c)' <=> HasBoard(c)
  BY DEF HasBoard
<1>5. Served(c)'
  BY DEF Rationed, Served, Over, Seated
<1>6. inbox[c] = << >> => inbox'[c] = << >>
  OBVIOUS
<1> QED
  BY <1>2, <1>3, <1>4, <1>5, <1>6 DEF Rationed

\* Nothing is asked, and the game neither starts nor passes to the next turn.
LEMMA RationedQuiet ==
  ASSUME Known, Known', HeardInv, QuietStep, inbox' = inbox, [Next]_vars,
         NEW c \in Guis, Rationed(c), Hears(c)
  PROVE  Rationed(c)'
<1> DEFINE s == out[c]
           t == out'[c]
<1>1. c \in Clients /\ Served(c)
  BY GuisAssumption DEF Rationed
<1>2. /\ Len(s) \in Nat /\ Extends(t, s)
      /\ \A i \in 1..Len(t) : i \in 1..Len(s) \/ Plain(t[i])
  BY <1>1, QuietPlain
<1>3. /\ Over => Over'
      /\ game'.turnId = game.turnId
      /\ ~Over' => ~Over /\ game'.phase = game.phase
  BY DEF QuietStep, CutShort, Over, Snapshot
<1>4. ~Over' /\ Seated(c) /\ game.phase # "WaitingForPlayers" => Seated(c)'
  <2> SUFFICES ASSUME ~Over', Seated(c), game.phase # "WaitingForPlayers"
               PROVE  Seated(c)'
    OBVIOUS
  <2>1. game'.phase = "Elimination"
    BY <1>3 DEF Over, Known, ServerInv, GoodSession, Session, GamePhase
  <2>2. \A a \in Players : players'[a] # NoClient
    BY <2>1 DEF Known, ServerInv, SeatsMatchSession
  <2>3. \A a \in Players : players'[a] \in {players[a], NoClient}
    BY SeatsOnlyEmpty DEF Known
  <2> QED
    BY <2>2, <2>3 DEF Seated
<1>5. Served(c)'
  <2>1. ASSUME NEW i \in 1..Len(s), Shows(s[i])
        PROVE  Over' \/ Seated(c)'
    <3>1. Over \/ Seated(c)
      BY <1>1, <2>1 DEF Served
    <3>2. game.phase # "WaitingForPlayers"
      BY <1>1, <2>1, NoBoardInLobby DEF HasBoard
    <3> QED
      BY <1>3, <1>4, <3>1, <3>2
  <2> QED
    BY <1>1, <1>2, <2>1, ServedGrows
<1>6. HasBoard(c)' => HasBoard(c)
  BY <1>2 DEF HasBoard, Plain, Extends
<1>7. CASE HasBoard(c)
  <2>1. slot'[c] = slot[c] /\ state[c] # "new" /\ state'[c] # "new"
    BY <1>1, <1>7, BoardStays
  <2>2. /\ Spent(c) \in Nat /\ Spent(c)' \in Nat /\ Spent(c)' <= Spent(c)
        /\ inbox'[c] \in Seq(OwnRequests(slot'[c]))
    BY <1>1, <1>3, <2>1, SpentKept DEF Rationed
  <2>3. Granted(c) \in Int /\ Granted(c)' \in Int /\ Granted(c) <= Granted(c)'
    BY <1>1, <1>2, <2>1, GrantsGrow
  <2>4. HasBoard(c)'
    BY <1>2, <1>7 DEF HasBoard, Extends
  <2> QED
    BY <1>5, <1>7, <2>1, <2>2, <2>3, <2>4 DEF Rationed
<1>8. CASE ~HasBoard(c)
  <2>1. inbox'[c] = << >> /\ << >> \in Seq(OwnRequests(slot'[c]))
    BY <1>8 DEF Rationed
  <2> QED
    BY <1>5, <1>6, <1>8, <2>1 DEF Rationed
<1> QED
  BY <1>7, <1>8

\* When the game starts the client has asked for nothing, and been granted nothing.
LEMMA RationedStart ==
  ASSUME Known, HeardInv, StartStep, inbox' = inbox, NEW c \in Guis, Rationed(c), Hears(c)
  PROVE  Rationed(c)'
<1> DEFINE s == out[c]
           t == out'[c]
           m == GameStarted(game')
<1>1. c \in Clients /\ Served(c)
  BY GuisAssumption DEF Rationed
<1>2. Len(s) \in Nat /\ Extends(t, s) /\ s \in Seq(Message)
  BY <1>1, BoardStays, StreamsTyped DEF Known
<1>3. game.phase = "WaitingForPlayers" /\ ~HasBoard(c)
  BY <1>1, NoBoardInLobby DEF StartStep
<1>4. inbox'[c] = << >> /\ << >> \in Seq(OwnRequests(slot'[c]))
  BY <1>3 DEF Rationed
<1>5. \/ /\ s = << >> /\ t = Append(<<JoinRoom(slot'[c])>>, m) /\ Seated(c)'
      \/ t = Append(s, m) /\ Seated(c)'
      \/ t = s
  BY <1>1 DEF StartStep, Known, HistoryInv, Begun
<1>6. Shows(m) /\ ~Refuses(m)
  BY DEF Shows, Refuses, GameStarted
<1>7. \A i \in 1..Len(s) : ~Shows(s[i])
  BY <1>3 DEF HasBoard
<1> HIDE DEF s, t, m
<1>8. ASSUME NEW i \in 1..Len(t)
      PROVE  \/ i \in 1..Len(s)
             \/ Plain(t[i])
             \/ t[i] = m /\ Seated(c)' /\ \A j \in 1..i - 1 : ~Shows(t[j])
  <2>1. CASE s = << >> /\ t = Append(<<JoinRoom(slot'[c])>>, m) /\ Seated(c)'
    <3> DEFINE j == JoinRoom(slot'[c])
    <3>1. Plain(j) /\ t = Append(<<j>>, m)
      BY <2>1, PlainWords
    <3> HIDE DEF j
    <3>2. Len(t) = 2 /\ t[1] = j /\ t[2] = m
      BY <3>1
    <3> QED
      BY <2>1, <3>1, <3>2 DEF Plain
  <2>2. CASE t = Append(s, m) /\ Seated(c)'
    <3>1. /\ \A k \in 1..Len(s) : t[k] = s[k]
          /\ t[Len(s) + 1] = m
          /\ \A k \in 1..Len(t) : k \in 1..Len(s) \/ k = Len(s) + 1
      BY <1>2, <2>2, LongerByOne
    <3>2. \A k \in 1..Len(s) : ~Shows(t[k])
      BY <1>7, <3>1
    <3> QED
      BY <1>2, <2>2, <3>1, <3>2
  <2>3. CASE t = s
    BY <2>3
  <2> QED
    BY <1>5, <2>1, <2>2, <2>3
<1>9. Served(c)'
  <2>1. \A i \in 1..Len(out[c]) : ~Shows(out[c][i])
    BY <1>7 DEF s
  <2>2. Len(out[c]) \in Nat /\ Extends(out'[c], out[c])
    BY <1>2 DEF s, t
  <2>3. \A i \in 1..Len(out'[c]) :
           \/ i \in 1..Len(out[c])
           \/ Plain(out'[c][i])
           \/ /\ Shows(out'[c][i]) /\ Seated(c)' /\ ~Refuses(out'[c][i])
              /\ \A j \in 1..i - 1 : ~Shows(out'[c][j])
    BY <1>6, <1>8 DEF s, t
  <2> QED
    BY <1>1, <2>1, <2>2, <2>3, ServedGrows
<1>10. Granted(c)' = 0
  BY <1>2, <1>3, NothingGranted DEF s, t
<1>11. Spent(c)' = 0
  <2>1. game'.turnId - 1 = 0
    BY <1>3 DEF StartStep, Snapshot, Known, ServerInv, GoodSession
  <2>2. OwnTurns(slot'[c], game'.turnId - 1) = 0
    BY <2>1, OwnTurnsCount
  <2> QED
    BY <1>4, <2>2 DEF Spent
<1> QED
  BY <1>4, <1>9, <1>10, <1>11 DEF Rationed

\* Before its first board a seated client is in the first turn.
LEMMA FirstTurn ==
  ASSUME Known, NEW c \in Clients, Seated(c), ~HasBoard(c)
  PROVE  game.turnId = 1
<1>1. SuccessPlaces(out[c]) = {}
  BY DEF HasBoard, SuccessPlaces, TellsSuccess, Shows
<1>2. Len(log) = 0
  <2>1. Cardinality(SuccessPlaces(out[c])) = Len(log)
    BY DEF Known, HistoryInv, SuccessPerAcceptedRequest
  <2> QED
    BY <1>1, <2>1, FS_EmptySet
<1>3. game.turnId \in Nat \ {0} /\ (Len(log) = game.turnId - 1 \/ Len(log) = game.turnId)
  BY DEF Known, ServerInv, GoodSession, LogMatchesTurn, Session
<1> QED
  BY <1>2, <1>3

\* A request of the connection a is answered.
LEMMA RationedAnswer ==
  ASSUME Known, Known', HeardInv, AnswerStep, [Next]_vars,
         NEW a \in Clients, inbox[a] # << >>, Owns(a), inbox' = [inbox EXCEPT ![a] = Tail(@)],
         NEW success \in BOOLEAN,
         success => game.phase = "Elimination" /\ game.currentPlayerId = slot[a],
         ~success => game' = game,
         \A d \in Clients :
           out'[d] = IF Seated(d) THEN Append(out[d], EliminateResult(success, game')) ELSE out[d],
         NEW c \in Guis, Rationed(c), Hears(c)
  PROVE  Rationed(c)'
<1> DEFINE s == out[c]
           t == out'[c]
           p == slot[c]
           q == inbox[c]
           q1 == inbox'[c]
           m == EliminateResult(success, game')
           S == OwnRequests(p)
<1>1. /\ c \in Clients /\ Served(c) /\ q \in Seq(S) /\ p \in {-1, 0, 1}
      /\ UNCHANGED <<players, state, slot>>
  BY GuisAssumption DEF Rationed, AnswerStep, Known, ServerInv
<1>2. Len(s) \in Nat /\ Extends(t, s) /\ s \in Seq(Message)
  BY <1>1, BoardStays, StreamsTyped DEF Known
<1>3. /\ game.turnId \in Nat \ {0} /\ game'.turnId \in {game.turnId, game.turnId + 1}
      /\ game.currentPlayerId = MoverOf(game.turnId)
      /\ game'.turnId # game.turnId => success
  BY TurnGrows DEF Known, ServerInv, GoodSession, Session, LogMatchesTurn
<1>4. /\ a = c => q # << >> /\ q1 = Tail(q)
      /\ a # c => q1 = q
  BY <1>1 DEF Known, FramesInv
<1>5. q1 \in Seq(S) /\ Len(q) \in Nat /\ Len(q1) = Len(q) - (IF a = c THEN 1 ELSE 0)
  <2> HIDE DEF S, q, q1
  <2>1. CASE a = c
    <3>1. q1 \in Seq(S) /\ Len(q) \in Nat /\ Len(q1) = Len(q) - 1
      BY <1>1, <1>4, <2>1
    <3> QED
      BY <2>1, <3>1
  <2>2. CASE a # c
    <3>1. q1 \in Seq(S) /\ Len(q) \in Nat /\ Len(q1) = Len(q)
      BY <1>1, <1>4, <2>2
    <3> QED
      BY <2>2, <3>1
  <2> QED
    BY <2>1, <2>2
<1>6. Seated(a) /\ (Seated(c) /\ a # c => p \in Players /\ p # slot[a])
  BY <1>1, NoClientAssumption DEF Owns, Seated, Known, ServerInv, SeatsMatchSession
<1>7. /\ t = IF Seated(c) THEN Append(s, m) ELSE s
      /\ Seated(c)' <=> Seated(c)
  BY <1>1 DEF Seated
<1>8. /\ Shows(m) /\ m.type # "GameStarted" /\ m.game = Snapshot(game')
      /\ Refuses(m) => ~success
  BY DEF Shows, Refuses, EliminateResult
<1>9. success => ~Over
  BY DEF Over
<1>10. game.phase = "WaitingForPlayers" => ~Seated(c)
  <2> SUFFICES ASSUME game.phase = "WaitingForPlayers", Seated(c)
               PROVE  FALSE
    OBVIOUS
  <2>0. Seated(c)
    OBVIOUS
  <2>1. a = c
    <3>1. PICK e \in Players : players[e] = NoClient
      BY DEF Known, ServerInv, SeatsMatchSession
    <3>2. PICK d \in Players : players[d] = a
      BY <1>6 DEF Seated
    <3>3. PICK f \in Players : players[f] = c
      BY <2>0 DEF Seated
    <3>4. d # e /\ f # e
      BY <1>1, <3>1, <3>2, <3>3, NoClientAssumption
    <3>5. d = f
      BY <3>4 DEF Players
    <3> QED
      BY <3>2, <3>3, <3>5
  <2> QED
    BY <1>1, <1>4, <2>1, NoBoardInLobby DEF Rationed
<1> HIDE DEF s, t, q, q1, m, S
<1>11. Served(c)'
  <2>1. \A i \in 1..Len(s) : Shows(s[i]) => Over' \/ Seated(c)'
    <3>1. \A i \in 1..Len(s) : Shows(s[i]) => Over \/ Seated(c)
      BY <1>1 DEF Served, s
    <3>2. Over => Over'
      BY <1>9 DEF Over
    <3> QED
      BY <1>7, <3>1, <3>2
  <2>2. Seated(c) /\ Refuses(m) => m.game.phase # "WaitingForPlayers"
    BY <1>8, <1>10 DEF Snapshot
  <2>3. \A i \in 1..Len(t) :
           \/ i \in 1..Len(s)
           \/ /\ Shows(t[i]) /\ Seated(c)' /\ t[i].type # "GameStarted"
              /\ Refuses(t[i]) => t[i].game.phase # "WaitingForPlayers"
    <3>1. CASE Seated(c)
      <4>1. t = Append(s, m)
        BY <1>7, <3>1
      <4>2. \A i \in 1..Len(t) : i \in 1..Len(s) \/ t[i] = m
        BY <1>2, <4>1, LongerByOne
      <4> QED
        BY <1>7, <1>8, <2>2, <3>1, <4>2
    <3>2. CASE ~Seated(c)
      BY <1>7, <3>2
    <3> QED
      BY <3>1, <3>2
  <2> QED
    BY <1>1, <1>2, <2>1, <2>3, ServedGrows DEF s, t
<1> DEFINE o == OwnTurns(p, game.turnId - 1)
           o1 == OwnTurns(p, game'.turnId - 1)
<1>12. /\ o \in Nat /\ o1 \in Nat /\ o1 \in {o, o + 1}
       /\ (Seated(c) \/ ~success) /\ a # c => o1 = o
  <2> DEFINE n == game.turnId - 1
             n1 == game'.turnId - 1
  <2>1. n \in Nat /\ n1 \in {n, n + 1} /\ game.turnId = n + 1 /\ (n1 # n => success)
    BY <1>3
  <2> HIDE DEF n, n1
  <2>2. /\ OwnTurns(p, n) \in Nat
        /\ OwnTurns(p, n + 1) \in {OwnTurns(p, n), OwnTurns(p, n) + 1}
        /\ p \in Players => OwnTurns(p, n + 1) = OwnTurns(p, n) + (IF MoverOf(n + 1) = p THEN 1 ELSE 0)
    BY <2>1, OwnTurnsCount
  <2>3. ASSUME Seated(c) \/ ~success, a # c
        PROVE  OwnTurns(p, n1) = OwnTurns(p, n)
    <3>1. CASE n1 = n
      BY <3>1
    <3>2. CASE n1 # n
      <4>1. p \in Players /\ MoverOf(n + 1) # p
        BY <1>3, <1>6, <2>1, <2>3, <3>2
      <4> QED
        BY <2>1, <2>2, <3>2, <4>1
    <3> QED
      BY <3>1, <3>2
  <2> QED
    BY <2>1, <2>2, <2>3 DEF n, n1
<1>13. Spent(c) = Len(q) + o /\ Spent(c)' = Len(q1) + o1
  BY <1>1 DEF Spent, q, q1
<1> HIDE DEF o, o1
<1>14. CASE HasBoard(c)
  <2>1. Seated(c) \/ ~success
    BY <1>1, <1>9, <1>14 DEF Served, HasBoard
  <2>2. Spent(c) \in Int /\ Spent(c)' \in Int /\ Spent(c)' <= Spent(c)
    <3>1. CASE a = c
      BY <1>5, <1>12, <1>13, <3>1
    <3>2. CASE a # c
      BY <1>5, <1>12, <1>13, <2>1, <3>2
    <3> QED
      BY <3>1, <3>2
  <2>3. Granted(c) \in Int /\ Granted(c)' \in Int /\ Granted(c) <= Granted(c)'
    BY <1>1, <1>2, GrantsGrow DEF s, t
  <2>4. HasBoard(c)'
    BY <1>2, <1>14 DEF HasBoard, Extends, s, t
  <2>5. state'[c] # "new"
    BY <1>1, <1>14, BoardStays
  <2>6. Spent(c) <= Granted(c)
    BY <1>14 DEF Rationed
  <2>7. Spent(c)' <= Granted(c)'
    BY <2>2, <2>3, <2>6
  <2> QED
    BY <1>1, <1>5, <1>11, <2>4, <2>5, <2>7 DEF Rationed, q1, S
<1>15. CASE ~HasBoard(c)
  <2>1. inbox[c] = << >> /\ a # c
    BY <1>4, <1>15 DEF Rationed, q
  <2>2. inbox'[c] = << >>
    BY <1>4, <2>1 DEF q, q1
  <2>3. CASE ~Seated(c)
    <3>1. ~HasBoard(c)'
      BY <1>7, <1>15, <2>3 DEF HasBoard, s, t
    <3> QED
      BY <1>1, <1>5, <1>11, <2>2, <3>1 DEF Rationed, q1, S
  <2>4. CASE Seated(c)
    <3>1. game.turnId = 1
      BY <1>1, <1>15, <2>4, FirstTurn
    <3>2. o = 0
      <4>1. game.turnId - 1 = 0
        BY <3>1
      <4> QED
        BY <4>1, OwnTurnsCount DEF o
    <3>3. Spent(c)' = 0
      <4>1. Len(q1) = 0
        BY <2>2 DEF q1
      <4> QED
        BY <1>12, <1>13, <2>1, <2>4, <3>2, <4>1
    <3>4. Granted(c)' = 0
      BY <1>2, <1>15, NothingGranted DEF s, t
    <3> QED
      BY <1>1, <1>5, <1>11, <2>2, <3>3, <3>4 DEF Rationed, q1, S
  <2> QED
    BY <2>3, <2>4
<1> QED
  BY <1>14, <1>15

\* The server reads what the connection a has sent.
LEMMA RationedRead ==
  ASSUME Known, Known', HeardInv, [Next]_vars, QuietStep \/ StartStep \/ AnswerStep,
         NEW a \in Clients, NEW damage \in PossibleDamage(game), ReadBody(a, damage),
         NEW c \in Guis, Rationed(c), Hears(c)
  PROVE  Rationed(c)'
<1> DEFINE r == Head(inbox[a])
<1>1. c \in Clients /\ inbox[c] \in Seq(OwnRequests(slot[c]))
  BY GuisAssumption DEF Rationed
<1>2. /\ UNCHANGED <<players, state, slot>> /\ inbox' = [inbox EXCEPT ![a] = Tail(@)]
      /\ IF Owns(a) THEN OnMessage(a, r, damage) ELSE UNCHANGED <<game, log, out>>
      /\ inbox[a] # << >> /\ inbox \in [Clients -> Seq(Frames)]
      /\ r # BadLength
  BY DEF ReadBody, Known, FramesInv
<1>3. /\ inbox'[c] = inbox[c] \/ (inbox[c] # << >> /\ inbox'[c] = Tail(inbox[c]))
      /\ r \in Frames
  BY <1>1, <1>2
<1>4. a = c => r \in OwnRequests(slot[a])
  <2> SUFFICES ASSUME a = c
               PROVE  r \in OwnRequests(slot[a])
    OBVIOUS
  <2> DEFINE S == OwnRequests(slot[a])
             q == inbox[a]
  <2>1. q \in Seq(S) /\ q # << >>
    BY <1>1, <1>2
  <2> HIDE DEF q, S
  <2>2. Head(q) \in S
    BY <2>1
  <2> QED
    BY <2>2 DEF S, q
<1> HIDE DEF r
<1>5. CASE ~Owns(a)
  BY <1>1, <1>2, <1>3, <1>5, RationedStill
<1>6. CASE Owns(a) /\ (r = Garbage \/ r.playerId # slot[a])
  <2>1. a # c
    BY <1>4, <1>6, RequestsParse DEF OwnRequests
  <2>2. game' = game /\ \E m : out' = [out EXCEPT ![a] = Append(@, m)]
    BY <1>2, <1>6 DEF OnMessage
  <2>3. out'[c] = out[c]
    BY <1>1, <2>1, <2>2 DEF Known, StreamInv
  <2> QED
    BY <1>1, <1>2, <1>3, <2>2, <2>3, RationedStill
<1>7. CASE Owns(a) /\ r # Garbage /\ r.playerId = slot[a]
  <2>1. r \in Requests
    BY <1>2, <1>3, <1>7, FramesAssumption
  <2>2. Answer(a, r, damage)
    BY <1>2, <1>7 DEF OnMessage
  <2> DEFINE success == Accepts(game, r)
  <2>3. /\ success \in BOOLEAN
        /\ success => game.phase = "Elimination" /\ game.currentPlayerId = slot[a]
    BY <1>7 DEF Accepts
  <2>4. /\ ~success => game' = game
        /\ \A d \in Clients :
             out'[d] = IF Seated(d) THEN Append(out[d], EliminateResult(success, game'))
                       ELSE out[d]
    BY <2>1, <2>2, AnswerTells DEF Known
  <2>5. AnswerStep
    <3>1. inbox' # inbox
      BY FrameTaken, <1>2
    <3>2. success => Len(log') = Len(log) + 1 /\ Passes(game, game')
      BY <2>1, <2>2, AnswerTells DEF Known
    <3>3. ~success => log' = log
      BY <2>1, <2>2, AnswerTells DEF Known
    <3> HIDE DEF success
    <3> QED
      BY <1>2, <2>3, <2>4, <3>1, <3>2, <3>3 DEF AnswerStep
  <2> HIDE DEF success
  <2> QED
    BY <1>2, <1>7, <2>3, <2>4, <2>5, RationedAnswer
<1> QED
  BY <1>5, <1>6, <1>7

\* A client that confirms its path spends what it is granted.
LEMMA RationedConfirm ==
  ASSUME Known, HeardInv, NEW c \in Guis, Rationed(c), CanConfirm(gui[c]),
         NEW request \in MakeRequests(gui[c]) \cap Frames, PeerSends(c, request),
         gui' = [gui EXCEPT ![c].requestPending = TRUE],
         queue' = queue, received' = received
  PROVE  Rationed(c)'
<1> DEFINE g == gui[c]
           g1 == gui'[c]
           s == out[c]
           p == slot[c]
           S == OwnRequests(p)
           q == inbox[c]
           q1 == inbox'[c]
<1>1. /\ c \in Clients /\ Len(s) \in Nat /\ g \in GuiState
      /\ q \in Seq(S) /\ Served(c)
  BY HandledPart DEF Rationed
<1>2. /\ UNCHANGED <<game, players, state, slot, out>>
      /\ q1 = Append(q, request) /\ state[c] = "open"
  BY <1>1 DEF PeerSends, connectionVars, IsConnected, Known, FramesInv
<1>3. CanSelect(g) /\ g.shown # NoBoard /\ g.playerId >= 0 /\ g.path > 0
  BY <1>1 DEF CanConfirm, CanSelect, MinPath, GuiState
<1>4. HasBoard(c) /\ HasBoard(c)' /\ Served(c)'
  <2>1. HasBoard(c)
    BY <1>3, ShownBoard DEF HasBoard
  <2> QED
    BY <1>1, <1>2, <2>1 DEF HasBoard, Served, Over, Seated
<1>5. request \in S
  <2>1. request \in Requests
    <3>1. request # Garbage /\ request # BadLength
      <4>1. DOMAIN request = {"playerId", "turnId", "legal"}
        BY DEF MakeRequests
      <4>2. DOMAIN Garbage = {"body"} /\ DOMAIN BadLength = {"body"}
        BY DEF Garbage, BadLength
      <4>3. "playerId" \notin {"body"} /\ "playerId" \in {"playerId", "turnId", "legal"}
        OBVIOUS
      <4> QED
        BY <4>1, <4>2, <4>3
    <3> QED
      BY <3>1, FramesAssumption
  <2>2. g.playerId = p
    <3>1. PICK h \in Nat : h <= Len(s) /\ Sees(g, s, h)
      BY HandledPart
    <3>2. PICK i \in 1..h : s[i] = JoinRoom(g.playerId)
      BY <1>1, <1>3, <3>1 DEF Sees, GuiState
    <3>3. s[i] \in Sendable(p, game.turnId)
      BY <1>1, <3>1, <3>2 DEF Known, StreamInv
    <3> QED
      BY <3>2, <3>3 DEF Sendable, JoinRoom, PlayerReady, OpponentDisconnected, GameEnded
  <2>3. request.playerId = g.playerId
    BY DEF MakeRequests
  <2> QED
    BY <2>1, <2>2, <2>3 DEF OwnRequests
<1>6. q1 \in Seq(S) /\ Len(q) \in Nat /\ Len(q1) = Len(q) + 1
  <2> HIDE DEF S, q, q1
  <2> QED
    BY <1>1, <1>2, <1>5
<1>7. g1.shown = g.shown /\ MayAsk(g) = 1 /\ MayAsk(g1) = 0
  <2>1. g1 = [g EXCEPT !.requestPending = TRUE]
    BY <1>1 DEF HeardInv
  <2>2. g1.shown = g.shown /\ g1.requestPending = TRUE
    BY <1>1, <2>1 DEF GuiState
  <2> QED
    BY <1>3, <2>2 DEF MayAsk, CanSelect
<1>8. Granted(c) \in Int /\ Granted(c)' = Granted(c) + 1
  <2> DEFINE a == OwnTurns(p, g.shown.turnId)
             b == HandledRefusals(s, received[c], queue[c])
  <2>1. a \in Nat
    BY <1>1, ShownTurn, OwnTurnsCount
  <2>2. b \in Int
    <3>1. received[c] \in Nat /\ queue[c] \in Seq(Heard(s))
      BY DEF HeardInv, HeardWell
    <3>2. Cardinality(RefusalsIn(s, received[c])) \in Nat
      BY <3>1, RefusalsCount
    <3>3. Cardinality(RefusalsIn(queue[c], Len(queue[c]))) \in Nat
      BY <3>1, RefusalsQueued
    <3> QED
      BY <3>2, <3>3 DEF HandledRefusals
  <2>3. Granted(c) = a + b - 1 /\ Granted(c)' = a + b - 0
    BY <1>2, <1>7 DEF Granted
  <2> HIDE DEF a, b
  <2> QED
    BY <2>1, <2>2, <2>3
<1>9. Spent(c) \in Int /\ Spent(c)' = Spent(c) + 1
  <2> DEFINE o == OwnTurns(p, game.turnId - 1)
  <2>1. o \in Nat
    <3>1. game.turnId - 1 \in Nat
      BY DEF Known, ServerInv, GoodSession, Session
    <3> QED
      BY <3>1, OwnTurnsCount
  <2>2. Spent(c) = Len(q) + o /\ Spent(c)' = Len(q1) + o
    BY <1>2 DEF Spent
  <2> HIDE DEF o, q, q1
  <2> QED
    BY <1>6, <2>1, <2>2
<1>10. Spent(c) <= Granted(c)
  BY <1>4 DEF Rationed
<1>11. Spent(c)' <= Granted(c)'
  BY <1>8, <1>9, <1>10
<1>12. slot'[c] = p /\ state'[c] # "new"
  BY <1>2
<1> QED
  BY <1>4, <1>6, <1>11, <1>12 DEF Rationed

LEMMA RationedNext ==
  ASSUME Known, Known', HeardInv, RationedInv, [GuiNext]_allVars
  PROVE  RationedInv'
<1> SUFFICES ASSUME NEW c \in Guis
             PROVE  Rationed(c)'
  BY DEF RationedInv
<1>1. c \in Clients /\ Rationed(c) /\ inbox[c] \in Seq(OwnRequests(slot[c]))
  BY GuisAssumption DEF RationedInv, Rationed
<1>2. [Next]_vars
  BY ServerTakesStep
<1>3. QuietStep \/ StartStep \/ AnswerStep
  BY <1>2, StepTells DEF Known, HistoryInv, Begun
<1>4. Hears(c)
  BY GuiMoves DEF HeardInv
<1>5. CASE inbox' = inbox
  BY <1>1, <1>2, <1>3, <1>4, <1>5, RationedQuiet, RationedStart DEF AnswerStep
<1>6. CASE UNCHANGED vars
  BY <1>5, <1>6 DEF vars, peerVars
<1>7. ASSUME NEW a \in Clients, a # c, NEW frame, PeerSends(a, frame)
      PROVE  Rationed(c)'
  <2>1. UNCHANGED <<game, players, state, slot, out>> /\ inbox'[c] = inbox[c]
    BY <1>1, <1>7 DEF PeerSends, connectionVars, Known, FramesInv
  <2> QED
    BY <1>1, <1>3, <1>4, <2>1, RationedStill
<1>8. ASSUME NEW a \in Guis, Confirm(a)
      PROVE  Rationed(c)'
  <2>1. ASSUME NEW request \in MakeRequests(gui[a]) \cap Frames, PeerSends(a, request),
               UNCHANGED <<queue, main>>
        PROVE  Rationed(c)'
    <3>1. CASE a = c
      BY <1>1, <1>8, <2>1, <3>1, RationedConfirm DEF Confirm
    <3>2. CASE a # c
      BY <1>7, <2>1, <3>2, GuisAssumption
    <3> QED
      BY <3>1, <3>2
  <2> QED
    BY <1>6, <1>8, <2>1 DEF Confirm
<1>9. ASSUME NEW a \in Clients, Read(a)
      PROVE  Rationed(c)'
  <2>1. CASE ReadHeader(a) /\ Head(inbox[a]) = BadLength
    <3>1. inbox[a] # << >>
      BY <2>1 DEF ReadHeader
    <3>2. a # c
      <4> SUFFICES ASSUME a = c
                   PROVE  FALSE
        OBVIOUS
      <4> DEFINE q == inbox[a]
                 S == OwnRequests(slot[a])
      <4>1. q \in Seq(S) /\ q # << >>
        BY <1>1, <3>1
      <4> HIDE DEF q, S
      <4>2. Head(q) \in S
        BY <4>1
      <4> QED
        BY <2>1, <4>2, RequestsParse DEF OwnRequests, q, S
    <3>3. /\ UNCHANGED <<game, players, state, slot>>
          /\ inbox' = [inbox EXCEPT ![a] = Tail(@)] /\ \E m : out' = [out EXCEPT ![a] = Append(@, m)]
      BY <2>1 DEF ReadHeader
    <3>4. out'[c] = out[c] /\ inbox'[c] = inbox[c]
      BY <1>1, <3>2, <3>3 DEF Known, StreamInv, FramesInv
    <3> QED
      BY <1>1, <1>3, <1>4, <3>3, <3>4, RationedStill
  <2>2. CASE ReadHeader(a) /\ Head(inbox[a]) # BadLength
    BY <1>5, <2>2 DEF ReadHeader
  <2>3. ASSUME NEW damage \in PossibleDamage(game), ReadBody(a, damage)
        PROVE  Rationed(c)'
    BY <1>1, <1>2, <1>3, <1>4, <2>3, RationedRead
  <2>4. CASE ReadFails(a)
    BY <1>5, <2>4 DEF ReadFails, peerVars
  <2> QED
    BY <1>9, <2>1, <2>2, <2>3, <2>4 DEF Read
<1>10. ASSUME NEW a \in Clients, OnConnected(a) \/ PeerLeaves(a) \/ Write(a)
       PROVE  inbox' = inbox
  BY <1>10 DEF OnConnected, PeerLeaves, Write, WriteDone, WriteFails, peerVars
<1>11. ASSUME NEW a \in Clients, Close(a)
       PROVE  inbox' = inbox
  BY <1>10, <1>11, CloseLeaves DEF vars, peerVars
<1>12. ASSUME NEW a \in Guis, User(a) \/ MainThread(a) \/ ReceiverThread(a) \/ LinkBreaks(a)
       PROVE  Rationed(c)'
  <2>0. a \in Clients
    BY GuisAssumption
  <2>1. CASE User(a) /\ ~Confirm(a)
    <3>1. inbox' = inbox
      BY <1>10, <2>0, <2>1 DEF User, Launch, LaunchFails, Select, Clear, CloseWindow, vars, peerVars
    <3> QED
      BY <1>5, <3>1
  <2>2. CASE Confirm(a)
    BY <1>8, <2>2
  <2>3. CASE MainThread(a)
    <3>1. inbox' = inbox
      BY <1>11, <2>0, <2>3
      DEF MainThread, Abandon, Consume, LeaveLoop, StopNetwork, Join, vars, peerVars
    <3> QED
      BY <1>5, <3>1
  <2>4. CASE ReceiverThread(a) \/ LinkBreaks(a)
    <3>1. inbox' = inbox
      BY <1>10, <2>0, <2>4 DEF ReceiverThread, Receive, ReceiveFails, LinkBreaks, vars, peerVars
    <3> QED
      BY <1>5, <3>1
  <2> QED
    BY <1>12, <2>1, <2>2, <2>3, <2>4
<1>13. ASSUME NEW a \in Clients \ Guis, OtherPeer(a)
       PROVE  Rationed(c)'
  BY <1>5, <1>7, <1>10, <1>13 DEF OtherPeer
<1>14. ASSUME NEW a \in Clients, ServerReads(a) \/ ServerWrites(a)
       PROVE  Rationed(c)'
  BY <1>5, <1>9, <1>10, <1>14 DEF ServerReads, ServerWrites
<1>15. CASE ServerStops
  BY <1>5, <1>15 DEF ServerStops, Stop, peerVars
<1>16. CASE GuiNext
  BY <1>12, <1>13, <1>14, <1>15, <1>16 DEF GuiNext
<1> QED
  BY <1>6, <1>16 DEF allVars

LEMMA RationedInit == GuiInit => RationedInv
<1> SUFFICES ASSUME GuiInit, NEW c \in Guis
             PROVE  Rationed(c)
  BY DEF RationedInv
<1>1. inbox[c] = << >> /\ out[c] = << >>
  BY GuisAssumption DEF GuiInit, Init
<1>2. << >> \in Seq(OwnRequests(slot[c]))
  OBVIOUS
<1> QED
  BY <1>1, <1>2 DEF Rationed, Served, HasBoard

\* What a client has under way and may still ask for is one request, and one
\* more for each refusal it has received, against any opponent.
THEOREM RequestsAreRationed == GuiSpec => []RequestsRationed
<1>1. Known /\ HeardInv /\ RationedInv => RequestsRationed
  <2> SUFFICES ASSUME Known, HeardInv, RationedInv, NEW c \in Guis
               PROVE  Len(inbox[c]) + MayAsk(gui[c]) <= 1 + Cardinality(Refusals(c))
    BY DEF RequestsRationed, MayAsk
  <2> DEFINE p == slot[c]
             n == gui[c].shown.turnId
             R == Cardinality(RefusalsIn(out[c], received[c]))
             Q == Cardinality(RefusalsIn(queue[c], Len(queue[c])))
  <2>1. c \in Clients /\ Rationed(c) /\ inbox[c] \in Seq(OwnRequests(p)) /\ gui[c] \in GuiState
    BY HandledPart DEF RationedInv, Rationed
  <2>2. Refusals(c) = RefusalsIn(out[c], received[c])
    BY DEF Refusals, RefusalsIn, Refuses
  <2>3. R \in Nat /\ Q \in Nat /\ Len(inbox[c]) \in Nat
    <3>1. received[c] \in Nat /\ queue[c] \in Seq(Heard(out[c]))
      BY DEF HeardInv, HeardWell
    <3>2. R \in Nat
      BY <3>1, RefusalsCount
    <3>3. Q \in Nat
      BY <3>1, RefusalsQueued
    <3>4. Len(inbox[c]) \in Nat
      <4> HIDE DEF p, R, Q
      <4> QED
        BY <2>1
    <3> QED
      BY <3>2, <3>3, <3>4
  <2>4. MayAsk(gui[c]) \in {0, 1} /\ (gui[c].shown = NoBoard => MayAsk(gui[c]) = 0)
    BY DEF MayAsk, CanSelect
  <2> HIDE DEF R, Q
  <2>5. CASE ~HasBoard(c)
    <3>1. gui[c].shown = NoBoard /\ inbox[c] = << >>
      BY <2>1, <2>5, ShownBoard DEF HasBoard, Rationed
    <3>2. Len(inbox[c]) = 0
      BY <3>1
    <3> QED
      BY <2>2, <2>3, <2>4, <3>1, <3>2 DEF R
  <2>6. CASE HasBoard(c)
    <3> DEFINE t == game.turnId
               a == OwnTurns(p, n)
               o == OwnTurns(p, t - 1)
    <3>1. t \in Nat \ {0} /\ n \in 0..t
      <4>1. t \in Nat \ {0}
        BY DEF Known, ServerInv, GoodSession, Session
      <4>2. CASE gui[c].shown = NoBoard
        BY <4>1, <4>2 DEF NoBoard
      <4>3. ASSUME NEW i \in 1..Len(out[c]), Shows(out[c][i]), gui[c].shown = out[c][i].game
            PROVE  n \in 0..t
        <5>1. gui[c].shown \in Seen(t)
          BY <2>1, <4>3, BoardSeen
        <5> QED
          BY <4>1, <5>1 DEF Seen
      <4> QED
        BY <4>1, <4>2, <4>3, ShownBoard
    <3>2. a \in Nat /\ o \in Nat /\ a <= o + 1
      <4> DEFINE v == t - 1
      <4>1. v \in Nat /\ t = v + 1 /\ n \in Nat
        BY <3>1
      <4> HIDE DEF v, n, t
      <4>2. /\ OwnTurns(p, n) \in Nat /\ OwnTurns(p, v) \in Nat /\ OwnTurns(p, v + 1) \in Nat
            /\ OwnTurns(p, v + 1) \in {OwnTurns(p, v), OwnTurns(p, v) + 1}
            /\ OwnTurns(p, n) <= OwnTurns(p, v + 1)
        BY <3>1, <4>1, OwnTurnsCount
      <4>3. OwnTurns(p, n) <= OwnTurns(p, v) + 1
        BY <4>2
      <4> QED
        BY <4>2, <4>3 DEF v
    <3>3. Len(inbox[c]) + o <= a + (R - Q) - MayAsk(gui[c])
      BY <2>1, <2>6 DEF Rationed, Spent, Granted, HandledRefusals, R, Q
    <3> HIDE DEF a, o
    <3> QED
      BY <2>2, <2>3, <2>4, <3>2, <3>3 DEF R
  <2> QED
    BY <2>5, <2>6
<1> QED
  BY <1>1, RationedInit, RationedNext, HeardTrue, KnownOfTheServer, PTL DEF GuiSpec
=============================================================================
