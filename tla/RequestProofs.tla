---------------------------- MODULE RequestProofs ----------------------------
(***************************************************************************)
(* What becomes of a client's request, for every number of clients, users, *)
(* descriptors and events in a batch: it is in one place until its         *)
(* response is there, the sessions it changes are changed as               *)
(* SessionManager assumes, and the chat it carries arrives under a name of *)
(* its sender, in order and where it should.  The last part is about the   *)
(* events that bring it: with edge-triggered registration, one receive per *)
(* event and a batch that is worked off while its descriptors close, no    *)
(* event goes to the wrong session, and none is lost but for the hang-up   *)
(* that a reset behind a request hides.                                    *)
(***************************************************************************)
EXTENDS SecureMessagingProofs, SessionManagerProofs

-----------------------------------------------------------------------------
(* Queues *)

\* What is left when the first message is taken.
LEMMA TailElements ==
  ASSUME NEW S, NEW s \in Seq(S), s # << >>
  PROVE  /\ 1 \in DOMAIN s /\ Head(s) = s[1]
         /\ \A i \in DOMAIN Tail(s) : i + 1 \in DOMAIN s /\ Tail(s)[i] = s[i + 1] /\ i \in Nat \ {0}
         /\ \A i \in DOMAIN s : i = 1 \/ (i - 1 \in DOMAIN Tail(s) /\ Tail(s)[i - 1] = s[i])
OBVIOUS

\* What is there when a message has been added.
LEMMA AppendElements ==
  ASSUME NEW S, NEW s \in Seq(S), NEW m \in S
  PROVE  /\ Len(s) + 1 \in DOMAIN Append(s, m) /\ Append(s, m)[Len(s) + 1] = m
         /\ \A i \in DOMAIN s : i \in DOMAIN Append(s, m) /\ Append(s, m)[i] = s[i]
                                /\ i < Len(s) + 1 /\ i \in Nat
         /\ \A i \in DOMAIN Append(s, m) : i \in DOMAIN s \/ i = Len(s) + 1
OBVIOUS

\* All that can happen to what is on its way to a client: nothing, the first
\* message is taken, everything is lost, or m is added.
LEMMA QueueChange ==
  ASSUME CoreInv, [Next]_vars, NEW c \in Client
  PROVE  \/ toClient'[c] = toClient[c]
         \/ /\ Connected(c) \/ GetResponse(c)
            /\ toClient[c] # << >> /\ toClient'[c] = Tail(toClient[c])
         \/ HangUp(c) /\ toClient'[c] = << >>
         \/ \E m \in Message :
              /\ toClient'[c] = Append(toClient[c], m) /\ c \notin hungUp
              /\ \/ EstablishConnection /\ c = peer[newFd] /\ toClient[c] = << >> /\ m = Key
                 \/ ForwardChat /\ c = peer[ChannelOf(request.to)] /\ m = Forwarded
                 \/ SendResponse /\ c = peer[Event] /\ m = response
<1>1. CASE /\ EstablishConnection /\ c = peer[newFd] /\ c \notin hungUp
           /\ toClient[c] = << >> /\ toClient'[c] = <<Key>>
  <2>1. toClient'[c] = Append(toClient[c], Key) /\ Key \in Message
    BY <1>1 DEF Message
  <2> QED
    BY <1>1, <2>1
<1>2. ForwardChat => Forwarded \in Message
  BY ForwardFacts DEF Message
<1>3. SendResponse => response \in Message
  BY RespondFacts DEF Message
<1> QED
  BY <1>1, <1>2, <1>3, ToClientChange

\* A step of the server is none of a client.
LEMMA ServerAlone ==
  ASSUME [Next]_vars, pc' # pc
  PROVE  UNCHANGED clientVars
BY DEF Next, vars, ServerStep, NetworkStep, UserAction, ClientAction, Connect, SendRequest, GetUnread,
   HangUp, Connected, ConnectFails, GetResponse, Disconnected, serverVars, threadVars

\* One sequence after the other.
LEMMA ConcatElements ==
  ASSUME NEW S, NEW s \in Seq(S), NEW t \in Seq(S)
  PROVE  /\ Len(s) \in Nat
         /\ \A k \in DOMAIN s : (s \o t)[k] = s[k] /\ k \in 1..Len(s)
         /\ \A k \in DOMAIN t : (s \o t)[Len(s) + k] = t[k] /\ k \in 1..Len(t)
OBVIOUS

-----------------------------------------------------------------------------
(* Connections *)

\* A client without a connection gets none, unless by Connect.
LEMMA LinkedOnlyByConnect ==
  ASSUME CoreInv, [Next]_vars, NEW c \in Client, Linked(c)'
  PROVE  Linked(c) \/ Connect(c)
<1> USE LinkedMeaning
<1>1. CASE Accept
  <2>1. \A fd \in Fd : peer'[fd] = IF fd = newFd' THEN acceptQ[1] ELSE peer[fd]
    BY <1>1, AcceptFacts DEF CoreInv, NetTypes
  <2>2. /\ 1 \in DOMAIN acceptQ
        /\ \A i \in DOMAIN acceptQ' : i + 1 \in DOMAIN acceptQ /\ acceptQ'[i] = acceptQ[i + 1]
    BY <1>1, AcceptFacts
  <2> QED
    BY <2>1, <2>2
<1>2. ASSUME NEW fd \in Fd, peer' = [peer EXCEPT ![fd] = NoClient] \/ UNCHANGED peer, UNCHANGED acceptQ
      PROVE  Linked(c)
  BY <1>2, TransportAssumption DEF CoreInv, NetTypes
<1>3. CASE EstablishFails
  <2>1. newFd \in Fd
    BY <1>3 DEF EstablishFails, Close, CoreInv, Thread
  <2> QED
    BY <1>2, <1>3, <2>1 DEF EstablishFails, Close
<1>4. ASSUME NEW fd \in Fd, CloseConnection(fd) PROVE Linked(c)
  BY <1>2, <1>4 DEF CloseConnection, EndSession, Close
<1>5. CASE Stop
  BY <1>5, TransportAssumption DEF Stop
<1>6. ASSUME NEW d \in Client, Connect(d), UNCHANGED peer PROVE Linked(c) \/ Connect(c)
  <2>1. acceptQ \in Seq(Client) /\ acceptQ' = Append(acceptQ, d)
    BY <1>6 DEF Connect, CoreInv, NetTypes
  <2>2. \A i \in DOMAIN acceptQ' : acceptQ'[i] = d \/ (i \in DOMAIN acceptQ /\ acceptQ'[i] = acceptQ[i])
    BY <2>1
  <2> QED
    BY <1>6, <2>2
<1>7. CASE UNCHANGED <<peer, acceptQ>>
  BY <1>7
<1> QED
  BY <1>1, <1>3, <1>4, <1>5, <1>6, <1>7, Footprint DEF NetFootprint

\* A descriptor with a session keeps it while its client is there and the
\* server runs.
LEMMA SessionKept ==
  ASSUME CoreInv, [Next]_vars, pc' # "down", NEW fd \in Fd, IsEstablished(fd),
         peer[fd] \notin hungUp
  PROVE  IsEstablished(fd)' /\ peer'[fd] = peer[fd]
<1>1. ~Stop
  BY DEF Stop
<1>2. IsOpen(fd) /\ fd # newFd
  BY DEF CoreInv, Ownership
<1>3. IsEstablished(fd)'
  <2>1. CASE EstablishConnection
    BY <2>1, EstablishFacts DEF IsEstablished, Emplace
  <2>2. ASSUME NEW f \in Fd, CloseConnection(f) PROVE IsEstablished(fd)'
    <3>1. fd # f /\ (sessions' = Erase(sessions, f) \/ sessions' = sessions)
      BY <2>2 DEF CloseConnection, EndSession, Close, Destroy, sessionVars
    <3> QED
      BY <3>1 DEF IsEstablished, Erase, Restrict
  <2>3. ASSUME NEW f \in Fd, HandleLogin(f) PROVE IsEstablished(fd)'
    BY <2>3, HandleKeepsSessions DEF Handle, IsEstablished
  <2> QED
    BY <1>1, <2>1, <2>2, <2>3, Footprint DEF TableFootprint, sessionVars, IsEstablished
<1>4. peer'[fd] = peer[fd]
  <2>1. CASE Accept
    BY <1>2, <2>1, AcceptFacts DEF CoreInv, NetTypes
  <2>2. CASE EstablishFails
    BY <1>2, <2>2 DEF EstablishFails, Close, CoreInv, NetTypes
  <2>3. ASSUME NEW f \in Fd, CloseConnection(f) PROVE peer'[fd] = peer[fd]
    BY <2>3 DEF CloseConnection, EndSession, Close, CoreInv, NetTypes
  <2> QED
    BY <1>1, <2>1, <2>2, <2>3, Footprint DEF NetFootprint
<1> QED
  BY <1>3, <1>4

-----------------------------------------------------------------------------
(* Who may be sent what *)

IsKey(m) == m = Key

\* Once the server is gone nothing is connected, and a client that waits for a
\* response has a session as long as the server runs.  The key is the first
\* message and only a client that is connecting has it before it; nothing is on
\* its way to a client that has hung up.
Links ==
  /\ pc = "down" => acceptQ = << >> /\ \A fd \in Fd : ~IsOpen(fd)
  /\ \A c \in Client : cstate[c] = "failed" => ~Linked(c)
  /\ \A c \in Client : pending[c] # Nothing => cstate[c] = "up"
  /\ \A c \in Client : \A i \in DOMAIN toClient[c] :
       IsKey(toClient[c][i]) => i = 1 /\ cstate[c] = "connecting"
  /\ \A c \in Client \ hungUp :
       /\ pc # "down"
       /\ cstate[c] = "up" \/ \E i \in DOMAIN toClient[c] : IsKey(toClient[c][i])
       => \E fd \in Fd : IsEstablished(fd) /\ peer[fd] = c
  /\ \A c \in hungUp : toClient[c] = << >> /\ inbox[c] = << >> /\ pending[c] = Nothing

\* The channel of a client only goes forward.
LEMMA StateChange ==
  ASSUME CoreInv, [Next]_vars, NEW c \in Client, cstate'[c] # cstate[c]
  PROVE  \/ Connect(c) /\ cstate[c] = "off" /\ cstate'[c] = "connecting"
         \/ Connected(c) /\ cstate[c] = "connecting" /\ cstate'[c] = "up"
         \/ ConnectFails(c) /\ cstate[c] = "connecting" /\ cstate'[c] = "failed"
<1>1. cstate \in [Client -> {"off", "connecting", "up", "failed"}]
  BY DEF CoreInv, ClientTypes
<1>2. ASSUME NEW d \in Client, Connect(d) \/ Connected(d) \/ ConnectFails(d)
      PROVE  d = c
  BY <1>1, <1>2 DEF Connect, Connected, ConnectFails
<1>3. Connect(c) => cstate[c] = "off" /\ cstate'[c] = "connecting"
  BY <1>1 DEF Connect
<1>4. Connected(c) => cstate[c] = "connecting" /\ cstate'[c] = "up"
  BY <1>1 DEF Connected
<1>5. ConnectFails(c) => cstate[c] = "connecting" /\ cstate'[c] = "failed"
  BY <1>1 DEF ConnectFails
<1> QED
  BY <1>2, <1>3, <1>4, <1>5, Footprint DEF ClientFootprint

\* A client asks while it waits for nothing and stops to wait with a response,
\* without a connection, or for good.
LEMMA PendingChange ==
  ASSUME CoreInv, [Next]_vars, NEW c \in Client, pending'[c] # pending[c]
  PROVE  \/ \E r \in Requests(c) : SendRequest(c, r) /\ pending[c] = Nothing /\ pending'[c] = r
         \/ /\ GetResponse(c) \/ Disconnected(c) \/ HangUp(c)
            /\ pending'[c] = Nothing
<1>1. \/ Asks(c) \/ GetResponse(c) \/ Disconnected(c) \/ HangUp(c)
  BY Footprint DEF ClientFootprint, Asks, SendRequest, GetResponse, Disconnected, HangUp,
     CoreInv, ClientTypes
<1>2. ASSUME NEW r \in Requests(c), SendRequest(c, r)
      PROVE  pending[c] = Nothing /\ pending'[c] = r
  BY <1>2 DEF SendRequest, CoreInv, ClientTypes
<1>3. GetResponse(c) \/ Disconnected(c) \/ HangUp(c) => pending'[c] = Nothing
  BY DEF GetResponse, Disconnected, HangUp, CoreInv, ClientTypes
<1> QED
  BY <1>1, <1>2, <1>3 DEF Asks

\* A chat is not a key, nor a response.
LEMMA Kinds ==
  /\ \A m \in ReceiveChat : ~IsKey(m) /\ ~IsResponse(m) /\ m.type = "ReceiveChat"
  /\ \A m \in Response : ~IsKey(m) /\ IsResponse(m) /\ m.type # "ReceiveChat"
  /\ \A m \in Message : m.type = "ReceiveChat" => m \in ReceiveChat
  /\ \A m \in Message : IsResponse(m) => m \in Response
  /\ \A m \in Message : IsKey(m) \/ IsResponse(m) \/ m.type = "ReceiveChat"
  /\ Key \in Message /\ Key.type # "ReceiveChat" /\ ~IsResponse(Key)
BY DEF Response, ReceiveChat, Message, Key, IsKey, IsResponse

\* The server ends by Stop, and for good.
LEMMA Ending ==
  ASSUME CoreInv, [Next]_vars
  PROVE  pc' = "down" <=> pc = "down" \/ Stop
<1>1. \A fd \in Fd : Handle(fd) => pc = "loop" /\ pc' # "down"
  BY HandleFacts
<1>2. CASE UNCHANGED pc \/ Stop
  BY <1>2 DEF Stop
<1>3. CASE ~UNCHANGED pc /\ ~Stop
  BY <1>1, <1>3, Footprint DEF ThreadFootprint, Accept, EstablishConnection, EstablishFails,
     ForwardChat, ForwardFails, SendResponse, Handling
<1> QED
  BY <1>2, <1>3

\* Every step keeps what comes to a client within its connection.
LEMMA LinksStep ==
  ASSUME CoreInv, Links, [Next]_vars
  PROVE  Links'
<1>1. ASSUME pc' = "down"
      PROVE  acceptQ' = << >> /\ \A fd \in Fd : peer'[fd] = NoClient
  <2>1. CASE Stop
    BY <2>1 DEF Stop
  <2>2. CASE ~Stop
    <3>1. pc = "down"
      BY <1>1, <2>2, Ending
    <3>2. UNCHANGED <<peer, acceptQ>>
      BY <2>2, <3>1, Footprint DEF NetFootprint, Accept, EstablishFails, CloseConnection,
         Handling, Connect
    <3> QED
      BY <3>1, <3>2 DEF Links, IsOpen
  <2> QED
    BY <2>1, <2>2
<1>2. ASSUME NEW c \in Client, cstate'[c] = "failed"
      PROVE  ~Linked(c)'
  <2>1. ~Linked(c) /\ ~Connect(c)
    BY <1>2, StateChange DEF ConnectFails, Connect, Links, CoreInv, ClientTypes
  <2> QED
    BY <2>1, LinkedOnlyByConnect
<1>3. ASSUME NEW c \in Client, pending'[c] # Nothing
      PROVE  cstate'[c] = "up"
  <2>1. cstate[c] = "up"
    BY <1>3, PendingChange DEF SendRequest, Links
  <2> QED
    BY <2>1, StateChange
<1>4. ASSUME NEW c \in Client, NEW i \in DOMAIN toClient'[c], IsKey(toClient'[c][i])
      PROVE  i = 1 /\ cstate'[c] = "connecting"
  <2>0. toClient[c] \in Seq(Message)
    BY DEF CoreInv, NetTypes
  <2>1. CASE toClient'[c] = toClient[c]
    <3>1. i = 1 /\ cstate[c] = "connecting" /\ toClient[c] # << >>
      BY <1>4, <2>0, <2>1 DEF Links
    <3>2. ~Connected(c)
      BY <2>0, <2>1, <3>1 DEF Connected, CoreInv, NetTypes
    <3> QED
      BY <3>1, <3>2, StateChange DEF ConnectFails
  <2>2. CASE toClient[c] # << >> /\ toClient'[c] = Tail(toClient[c])
    BY <1>4, <2>0, <2>2, TailElements DEF Links
  <2>3. ASSUME NEW m \in Message, toClient'[c] = Append(toClient[c], m), c \notin hungUp,
               EstablishConnection /\ c = peer[newFd] /\ toClient[c] = << >> /\ m = Key
        PROVE  i = 1 /\ cstate'[c] = "connecting"
    <3>1. i = 1
      BY <1>4, <2>0, <2>3, AppendElements
    <3>2. newFd \in Fd /\ ~IsEstablished(newFd) /\ IsOpen(newFd)
      BY <2>3, EstablishFacts
    <3>3. Linked(c) /\ \A fd \in Fd : peer[fd] = c => ~IsEstablished(fd)
      BY <2>3, <3>2, LinkedMeaning DEF CoreInv, Ownership
    <3>4. cstate[c] \notin {"off", "up", "failed"}
      BY <2>3, <3>3 DEF CoreInv, Ownership, Links, EstablishConnection
    <3>5. cstate'[c] = cstate[c]
      BY <2>3, ServerAlone DEF EstablishConnection, clientVars
    <3> QED
      BY <3>1, <3>4, <3>5 DEF CoreInv, ClientTypes
  <2>4. ASSUME NEW m \in Message, toClient'[c] = Append(toClient[c], m), ~IsKey(m),
               ForwardChat \/ SendResponse
        PROVE  i = 1 /\ cstate'[c] = "connecting"
    <3>1. i \in DOMAIN toClient[c] /\ IsKey(toClient[c][i])
      BY <1>4, <2>0, <2>4, AppendElements
    <3>2. i = 1 /\ cstate[c] = "connecting"
      BY <3>1 DEF Links
    <3>3. cstate'[c] = cstate[c]
      BY <2>4, ServerAlone DEF ForwardChat, SendResponse, clientVars
    <3> QED
      BY <3>2, <3>3
  <2>5. CASE toClient'[c] = << >>
    BY <1>4, <2>5
  <2>6. ForwardChat => ~IsKey(Forwarded)
    BY ForwardFacts, Kinds
  <2>7. SendResponse => ~IsKey(response)
    BY RespondFacts, Kinds
  <2> QED
    BY <2>1, <2>2, <2>3, <2>4, <2>5, <2>6, <2>7, QueueChange
<1>5. ASSUME NEW c \in Client, c \notin hungUp', pc' # "down",
             cstate'[c] = "up" \/ \E i \in DOMAIN toClient'[c] : IsKey(toClient'[c][i])
      PROVE  \E fd \in Fd : IsEstablished(fd)' /\ peer'[fd] = c
  <2>1. pc # "down" /\ c \notin hungUp
    <3>1. hungUp \subseteq hungUp'
      BY Footprint DEF NetFootprint, HangUp
    <3>2. pc # "down"
      BY <1>5, Ending
    <3> QED
      BY <1>5, <3>1, <3>2
  <2>2. CASE cstate[c] = "up" \/ \E i \in DOMAIN toClient[c] : IsKey(toClient[c][i])
    <3>1. PICK fd \in Fd : IsEstablished(fd) /\ peer[fd] = c
      BY <2>1, <2>2 DEF Links
    <3> QED
      BY <1>5, <2>1, <3>1, SessionKept
  <2>3. CASE EstablishConnection /\ c = peer[newFd]
    <3>1. newFd \in Fd /\ newFd \in DOMAIN sessions' /\ peer' = peer
      BY <2>3, EstablishFacts DEF Emplace, EstablishConnection
    <3> QED
      BY <2>3, <3>1 DEF IsEstablished
  <2>4. CASE ~(EstablishConnection /\ c = peer[newFd])
    <3>0. toClient[c] \in Seq(Message)
      BY DEF CoreInv, NetTypes
    <3>1. cstate'[c] = "up" => cstate[c] = "up" \/ Connected(c)
      BY StateChange
    <3>2. Connected(c) => \E i \in DOMAIN toClient[c] : IsKey(toClient[c][i])
      BY <3>0, TailElements DEF Connected, IsKey
    <3>3. ASSUME NEW i \in DOMAIN toClient'[c], IsKey(toClient'[c][i])
          PROVE  \E j \in DOMAIN toClient[c] : IsKey(toClient[c][j])
      <4>1. CASE toClient[c] # << >> /\ toClient'[c] = Tail(toClient[c])
        BY <3>0, <3>3, <4>1, TailElements
      <4>2. ASSUME NEW m \in Message, toClient'[c] = Append(toClient[c], m), ~IsKey(m)
            PROVE  \E j \in DOMAIN toClient[c] : IsKey(toClient[c][j])
        BY <3>0, <3>3, <4>2, AppendElements
      <4>3. CASE toClient'[c] = << >>
        BY <3>3, <4>3
      <4>4. (ForwardChat => ~IsKey(Forwarded)) /\ (SendResponse => ~IsKey(response))
        BY ForwardFacts, RespondFacts, Kinds
      <4>5. CASE toClient'[c] = toClient[c]
        BY <3>3, <4>5
      <4> QED
        BY <2>4, <4>1, <4>2, <4>3, <4>4, <4>5, QueueChange
    <3>4. cstate[c] = "up" \/ \E i \in DOMAIN toClient[c] : IsKey(toClient[c][i])
      BY <1>5, <3>1, <3>2, <3>3
    <3> QED
      BY <2>2, <3>4
  <2> QED
    BY <2>3, <2>4
<1>6. ASSUME NEW c \in hungUp'
      PROVE  toClient'[c] = << >> /\ inbox'[c] = << >> /\ pending'[c] = Nothing
  <2>0. c \in Client
    BY NetTypesStep DEF NetTypes
  <2>1. CASE HangUp(c)
    BY <2>0, <2>1 DEF HangUp, CoreInv, NetTypes, ClientTypes
  <2>2. CASE ~HangUp(c)
    <3>1. c \in hungUp
      BY <1>6, <2>2, Footprint DEF NetFootprint, HangUp
    <3>2. toClient[c] = << >> /\ inbox[c] = << >> /\ pending[c] = Nothing
      BY <3>1 DEF Links
    <3>3. toClient'[c] = << >>
      BY <2>0, <3>1, <3>2, QueueChange
    <3>4. pending'[c] = Nothing
      BY <2>0, <3>1, <3>2, PendingChange DEF SendRequest, Alive
    <3>5. inbox'[c] = << >>
      BY <2>0, <3>1, <3>2, Footprint DEF ClientFootprint, GetResponse, GetUnread, HangUp, Alive,
         CoreInv, ClientTypes
    <3> QED
      BY <3>3, <3>4, <3>5
  <2> QED
    BY <2>1, <2>2
<1>7. (pc = "down" => acceptQ = << >> /\ \A fd \in Fd : ~IsOpen(fd))'
  BY <1>1 DEF IsOpen
<1> QED
  BY <1>2, <1>3, <1>4, <1>5, <1>6, <1>7 DEF Links

-----------------------------------------------------------------------------
(* Where a request is *)

\* The server is at work on a request of c.
Handled(c) == pc \in {"forward", "respond"} /\ peer[Event] = c

\* The places of the responses on their way to c.
Answers(c) == {i \in DOMAIN toClient[c] : IsResponse(toClient[c][i])}

\* A client has at most one request on its way, none while one is handled, and
\* at most one response, to the request it waits for.  While it is there and the
\* server runs, what it waits for is on its way, handled or answered.
Requesting ==
  \A c \in Client :
    /\ Len(toServer[c]) <= 1
    /\ Handled(c) => toServer[c] = << >>
    /\ \A i, j \in Answers(c) : i = j
    /\ \A i \in Answers(c) : toClient[c][i].re = pending[c]
    /\ c \notin hungUp /\ pc # "down" =>
         IF pending[c] = Nothing
         THEN toServer[c] = << >> /\ ~Handled(c) /\ Answers(c) = {}
         ELSE \/ toServer[c] = <<pending[c]>> /\ ~Handled(c) /\ Answers(c) = {}
              \/ /\ toServer[c] = << >> /\ Handled(c) /\ request = pending[c]
                 /\ Answers(c) = {}
              \/ toServer[c] = << >> /\ ~Handled(c) /\ Answers(c) # {}

\* What happens to the requests on their way to the server.
LEMMA RequestsChange ==
  ASSUME CoreInv, [Next]_vars, NEW c \in Client
  PROVE  \/ toServer'[c] = toServer[c]
         \/ \E fd \in Fd : /\ Handle(fd) /\ peer[fd] = c /\ toServer[c] # << >>
                           /\ toServer'[c] = Tail(toServer[c]) /\ request' = Head(toServer[c])
         \/ \E r \in Requests(c) : /\ SendRequest(c, r) /\ Linked(c)
                                   /\ toServer'[c] = Append(toServer[c], r)
<1>0. toServer \in [Client -> Seq(Request)]
  BY DEF CoreInv, NetTypes
<1>1. ASSUME NEW fd \in Fd, Handle(fd)
      PROVE  \/ toServer'[c] = toServer[c]
             \/ /\ peer[fd] = c /\ toServer[c] # << >>
                /\ toServer'[c] = Tail(toServer[c]) /\ request' = Head(toServer[c])
  <2> DEFINE d == peer[fd]
             rest == Tail(toServer[d])
  <2>1. /\ d \in Client /\ toServer[d] # << >> /\ request' = Head(toServer[d])
        /\ toServer' = [toServer EXCEPT ![d] = rest]
    BY <1>1, HandleFacts
  <2> HIDE DEF rest
  <2>2. toServer'[c] = IF c = d THEN rest ELSE toServer[c]
    BY <1>0, <2>1
  <2> QED
    BY <2>1, <2>2 DEF rest
<1>2. ASSUME NEW d \in Client, NEW r \in Requests(d), SendRequest(d, r)
      PROVE  \/ toServer'[c] = toServer[c]
             \/ d = c /\ Linked(c) /\ toServer'[c] = Append(toServer[c], r)
  <2> DEFINE longer == Append(toServer[d], r)
  <2>1. \/ toServer' = toServer
        \/ Linked(d) /\ toServer' = [toServer EXCEPT ![d] = longer]
    BY <1>2 DEF SendRequest
  <2> HIDE DEF longer
  <2>2. toServer'[c] = toServer[c] \/ (Linked(d) /\ c = d /\ toServer'[c] = longer)
    BY <1>0, <2>1
  <2> QED
    BY <2>2 DEF longer
<1> QED
  BY <1>1, <1>2, Footprint DEF NetFootprint, Asks

\* What happens to the request that is handled.
LEMMA HandledChange ==
  ASSUME CoreInv, [Next]_vars, NEW c \in Client
  PROVE  \/ (Handled(c)' <=> Handled(c)) /\ (Handled(c) => request' = request)
         \/ Stop /\ ~Handled(c)'
         \/ \E fd \in Fd : Handle(fd) /\ peer[fd] = c /\ ~Handled(c) /\ Handled(c)'
         \/ SendResponse /\ peer[Event] = c /\ Handled(c) /\ ~Handled(c)'
<1>1. ASSUME NEW fd \in Fd, Handle(fd)
      PROVE  /\ ~Handled(c)
             /\ Handled(c)' <=> peer[fd] = c
  <2>1. pc = "loop" /\ pc' \in {"forward", "respond"} /\ peer' = peer /\ Event' = fd
    BY <1>1, HandleFacts DEF Event
  <2> QED
    BY <2>1 DEF Handled
<1>2. CASE SendResponse
  BY <1>2 DEF SendResponse, Handled
<1>3. CASE ForwardChat \/ ForwardFails
  BY <1>3 DEF ForwardChat, ForwardFails, Handled, Event, netVars
<1>4. CASE Stop
  BY <1>4 DEF Stop, Handled
<1>5. CASE Accept \/ EstablishConnection \/ EstablishFails
  BY <1>5 DEF Accept, Handling, EstablishConnection, EstablishFails, Handled
<1>6. CASE UNCHANGED pc /\ ~Stop /\ ~SendResponse
  <2>1. CASE pc \in {"forward", "respond"}
    <3>1. \A fd \in Fd : ~Handle(fd)
      BY <2>1, HandleFacts
    <3>2. UNCHANGED <<batch, peer, request>>
      BY <1>6, <2>1, <3>1, Footprint DEF ThreadFootprint, NetFootprint, EpollWait, Accept, AcceptFails,
         EstablishConnection, EstablishFails, CloseConnection, Handling
    <3> QED
      BY <1>6, <3>2 DEF Handled, Event
  <2>2. CASE pc \notin {"forward", "respond"}
    BY <1>6, <2>2 DEF Handled
  <2> QED
    BY <2>1, <2>2
<1> QED
  BY <1>1, <1>2, <1>3, <1>4, <1>5, <1>6, Footprint DEF ThreadFootprint

\* The responses when the first message is taken.
LEMMA AnswersTaken ==
  ASSUME CoreInv, NEW c \in Client, toClient[c] # << >>, toClient'[c] = Tail(toClient[c])
  PROVE  /\ \A i \in Answers(c)' : i + 1 \in Answers(c) /\ toClient'[c][i] = toClient[c][i + 1]
                                    /\ i \in Nat \ {0}
         /\ \A i \in Answers(c) : i = 1 \/ i - 1 \in Answers(c)'
         /\ 1 \in Answers(c) <=> IsResponse(Head(toClient[c]))
<1>1. toClient[c] \in Seq(Message)
  BY DEF CoreInv, NetTypes
<1>2. /\ 1 \in DOMAIN toClient[c] /\ Head(toClient[c]) = toClient[c][1]
      /\ \A i \in DOMAIN toClient'[c] : /\ i + 1 \in DOMAIN toClient[c]
                                         /\ toClient'[c][i] = toClient[c][i + 1]
                                         /\ i \in Nat \ {0}
      /\ \A i \in DOMAIN toClient[c] :
           i = 1 \/ (i - 1 \in DOMAIN toClient'[c] /\ toClient'[c][i - 1] = toClient[c][i])
  BY <1>1, TailElements
<1> QED
  BY <1>2 DEF Answers

\* The responses when a message is added.
LEMMA AnswersAdded ==
  ASSUME CoreInv, NEW c \in Client, NEW m \in Message, toClient'[c] = Append(toClient[c], m)
  PROVE  /\ \A i \in Answers(c) : i \in Answers(c)' /\ toClient'[c][i] = toClient[c][i]
         /\ IF IsResponse(m)
            THEN \E n : Answers(c)' = Answers(c) \cup {n} /\ toClient'[c][n] = m
            ELSE Answers(c)' = Answers(c)
<1>1. toClient[c] \in Seq(Message)
  BY DEF CoreInv, NetTypes
<1> DEFINE n == Len(toClient[c]) + 1
<1>2. /\ n \in DOMAIN toClient'[c] /\ toClient'[c][n] = m
      /\ \A i \in DOMAIN toClient[c] : i \in DOMAIN toClient'[c] /\ toClient'[c][i] = toClient[c][i]
      /\ \A i \in DOMAIN toClient'[c] : i \in DOMAIN toClient[c] \/ i = n
  BY <1>1, AppendElements
<1> HIDE DEF n
<1> QED
  BY <1>2 DEF Answers

\* Every step keeps the request where it is, or takes it to the next place.
LEMMA RequestingStep ==
  ASSUME CoreInv, Links, Requesting, [Next]_vars
  PROVE  Requesting'
<1> SUFFICES ASSUME NEW c \in Client
             PROVE  /\ Len(toServer'[c]) <= 1
                    /\ Handled(c)' => toServer'[c] = << >>
                    /\ \A i, j \in Answers(c)' : i = j
                    /\ \A i \in Answers(c)' : toClient'[c][i].re = pending'[c]
                    /\ c \notin hungUp' /\ pc' # "down" =>
                         IF pending'[c] = Nothing
                         THEN toServer'[c] = << >> /\ ~Handled(c)' /\ Answers(c)' = {}
                         ELSE \/ /\ toServer'[c] = <<pending'[c]>> /\ ~Handled(c)'
                                 /\ Answers(c)' = {}
                              \/ /\ toServer'[c] = << >> /\ Handled(c)'
                                 /\ request' = pending'[c] /\ Answers(c)' = {}
                              \/ toServer'[c] = << >> /\ ~Handled(c)' /\ Answers(c)' # {}
  BY DEF Requesting
<1> DEFINE Before ==
             /\ Len(toServer[c]) <= 1
             /\ Handled(c) => toServer[c] = << >>
             /\ \A i, j \in Answers(c) : i = j
             /\ \A i \in Answers(c) : toClient[c][i].re = pending[c]
             /\ c \notin hungUp /\ pc # "down" =>
                  IF pending[c] = Nothing
                  THEN toServer[c] = << >> /\ ~Handled(c) /\ Answers(c) = {}
                  ELSE \/ toServer[c] = <<pending[c]>> /\ ~Handled(c) /\ Answers(c) = {}
                       \/ /\ toServer[c] = << >> /\ Handled(c) /\ request = pending[c]
                          /\ Answers(c) = {}
                       \/ toServer[c] = << >> /\ ~Handled(c) /\ Answers(c) # {}
<1>1. Before
  BY DEF Requesting
<1>2. /\ toServer[c] \in Seq(Request) /\ toClient[c] \in Seq(Message)
      /\ c \in hungUp => toClient[c] = << >> /\ Answers(c) = {}
      /\ hungUp \subseteq hungUp'
      /\ pc = "down" => pc' = "down"
  BY Ending, Footprint DEF CoreInv, NetTypes, Links, Answers, NetFootprint, HangUp
<1>3. ASSUME NEW r \in Requests(c), SendRequest(c, r)
      PROVE  Before'
  <2>1. /\ c \notin hungUp /\ pending[c] = Nothing /\ pending'[c] = r
        /\ UNCHANGED <<hungUp, toClient, pc, peer, batch, request>>
        /\ r \in Request /\ r # Nothing /\ cstate[c] = "up"
    BY <1>3, RequestsTypes, MessageTypes DEF SendRequest, Alive, serverVars, threadVars, CoreInv,
       ClientTypes
  <2>2. Answers(c) = {} /\ Answers(c)' = {} /\ (Handled(c)' <=> Handled(c))
    <3>1. \A i \in Answers(c) : toClient[c][i] \in Response
      BY <1>2, Kinds DEF Answers
    <3>2. Answers(c) = {}
      BY <1>1, <2>1, <3>1, MessageTypes
    <3> QED
      BY <2>1, <3>2 DEF Answers, Handled, Event
  <2>3. CASE pc = "down"
    <3>1. ~Linked(c) /\ ~Handled(c)
      BY <1>2, <2>3, TransportAssumption, LinkedMeaning DEF Links, IsOpen, Handled
    <3>2. toServer'[c] = toServer[c]
      BY <1>3, <3>1 DEF SendRequest
    <3> QED
      BY <1>1, <2>1, <2>2, <2>3, <3>1, <3>2
  <2>4. CASE pc # "down"
    <3>1. Linked(c)
      BY <2>1, <2>4, LinkedMeaning DEF Links
    <3>2. toServer[c] = << >> /\ ~Handled(c)
      BY <1>1, <2>1, <2>4
    <3>3. toServer'[c] = <<r>>
      <4> DEFINE longer == Append(toServer[c], r)
      <4>1. longer = <<r>> /\ toServer' = [toServer EXCEPT ![c] = longer]
        BY <1>3, <3>1, <3>2 DEF SendRequest
      <4> HIDE DEF longer
      <4> QED
        BY <4>1 DEF CoreInv, NetTypes
    <3>4. Len(<<r>>) = 1
      OBVIOUS
    <3> QED
      BY <2>1, <2>2, <3>2, <3>3, <3>4
  <2> QED
    BY <2>3, <2>4
<1>4. ASSUME NEW fd \in Fd, Handle(fd), peer[fd] = c
      PROVE  Before'
  <2>1. /\ toServer[c] # << >> /\ toServer'[c] = Tail(toServer[c]) /\ request' = Head(toServer[c])
        /\ pc = "loop" /\ pc' # "down"
        /\ UNCHANGED <<hungUp, toClient>>
        /\ Handled(c)' /\ ~Handled(c)
    <3>1. /\ toServer[c] # << >> /\ request' = Head(toServer[c])
          /\ pc = "loop" /\ pc' \in {"forward", "respond"}
          /\ UNCHANGED <<hungUp, toClient, peer>> /\ Event' = fd
      BY <1>4, HandleFacts DEF Event
    <3>2. toServer' = [toServer EXCEPT ![c] = Tail(@)]
      BY <1>4, HandleFacts
    <3> QED
      BY <1>4, <3>1, <3>2 DEF Handled, CoreInv, NetTypes
  <2>2. UNCHANGED pending
    BY <2>1, ServerAlone, <1>4, HandleFacts DEF clientVars
  <2>3. toServer'[c] = << >> /\ Len(<< >>) <= 1 /\ toServer[c] = <<Head(toServer[c])>>
    BY <1>1, <1>2, <2>1
  <2>4. \A r : <<r>> # << >> /\ Head(<<r>>) = r
    OBVIOUS
  <2>5. Answers(c)' = Answers(c)
    BY <2>1 DEF Answers
  <2> QED
    BY <1>1, <1>2, <2>1, <2>2, <2>3, <2>4, <2>5
<1>5. CASE SendResponse /\ peer[Event] = c
  <2>1. /\ Handled(c) /\ ~Handled(c)' /\ pc' = "loop" /\ pc = "respond"
        /\ UNCHANGED <<hungUp, toServer>>
        /\ response \in Response /\ response.re = request
    BY <1>5, RespondFacts DEF SendResponse, Handled
  <2>2. UNCHANGED pending
    BY <2>1, ServerAlone DEF clientVars
  <2>3. CASE c \in hungUp
    <3>1. Answers(c)' = {}
      BY <1>5, <1>2, <2>1, <2>3, QueueChange DEF Answers, Connected, GetResponse, Alive
    <3> QED
      BY <1>1, <2>1, <2>3, <3>1
  <2>4. CASE c \notin hungUp
    <3>1. response \in Message /\ IsResponse(response)
      BY <2>1, Kinds DEF Message
    <3>2. toClient'[c] = Append(toClient[c], response)
      BY <1>5, <2>4, <3>1, RespondFacts, OpenPeer, SendFacts DEF CoreInv
    <3>3. PICK n : Answers(c)' = Answers(c) \cup {n} /\ toClient'[c][n] = response
      BY <3>1, <3>2, AnswersAdded
    <3> QED
      BY <1>1, <2>1, <2>2, <2>4, <3>3
  <2> QED
    BY <2>3, <2>4
<1>6. CASE Connected(c) \/ GetResponse(c)
  <2>1. /\ toClient[c] # << >> /\ toClient'[c] = Tail(toClient[c])
        /\ UNCHANGED <<hungUp, toServer, pc, peer, batch, request>>
        /\ c \notin hungUp
    BY <1>6 DEF Connected, GetResponse, Alive, serverVars, threadVars, CoreInv, NetTypes
  <2>2. Handled(c)' <=> Handled(c)
    BY <2>1 DEF Handled, Event
  <2>3. /\ \A i \in Answers(c)' : i + 1 \in Answers(c) /\ toClient'[c][i] = toClient[c][i + 1]
                                  /\ i \in Nat \ {0}
        /\ \A i \in Answers(c) : i = 1 \/ i - 1 \in Answers(c)'
        /\ 1 \in Answers(c) <=> IsResponse(Head(toClient[c]))
    BY <2>1, AnswersTaken
  <2>4. \A i, j \in Answers(c)' : i = j
    BY <1>1, <2>3
  <2>5. ASSUME pending'[c] = pending[c], ~IsResponse(Head(toClient[c]))
        PROVE  Before'
    <3>1. Answers(c) = {} <=> Answers(c)' = {}
      BY <2>3, <2>5
    <3>2. \A i \in Answers(c)' : toClient'[c][i].re = pending'[c]
      BY <1>1, <2>3, <2>5
    <3>3. /\ toServer'[c] = toServer[c] /\ request' = request /\ pc' = pc
          /\ hungUp' = hungUp
      BY <2>1
    <3> QED
      BY <1>1, <2>2, <2>4, <2>5, <3>1, <3>2, <3>3
  <2>6. CASE Connected(c)
    <3>1. pending'[c] = pending[c] /\ ~IsResponse(Head(toClient[c]))
      BY <2>6, Kinds DEF Connected
    <3> QED
      BY <2>5, <3>1
  <2>7. CASE GetResponse(c) /\ Head(toClient[c]).type = "ReceiveChat"
    <3>1. pending'[c] = pending[c] /\ ~IsResponse(Head(toClient[c]))
      BY <2>7 DEF GetResponse, IsResponse
    <3> QED
      BY <2>5, <3>1
  <2>8. CASE GetResponse(c) /\ Head(toClient[c]).type # "ReceiveChat"
    <3>1. pending'[c] = Nothing /\ pending[c] # Nothing
      BY <2>8 DEF GetResponse, CoreInv, ClientTypes
    <3>2. IsResponse(Head(toClient[c]))
      <4>1. Head(toClient[c]) = toClient[c][1] /\ 1 \in DOMAIN toClient[c]
            /\ Head(toClient[c]) \in Message
        BY <1>2, <2>1
      <4>2. ~IsKey(Head(toClient[c]))
        BY <3>1, <4>1 DEF Links
      <4> QED
        BY <2>8, <4>1, <4>2, Kinds
    <3>3. Answers(c) # {} /\ Answers(c)' = {}
      BY <1>1, <2>3, <3>2
    <3> QED
      BY <1>1, <2>1, <2>2, <3>1, <3>3
  <2> QED
    BY <1>6, <2>6, <2>7, <2>8
<1>7. CASE Disconnected(c)
  <2>1. /\ UNCHANGED <<netVars, pc, batch, request>> /\ c \notin hungUp /\ pending[c] # Nothing
        /\ toClient[c] = << >> /\ ~Linked(c)
    BY <1>7 DEF Disconnected, Alive, serverVars, threadVars
  <2>2. pc = "down"
    BY <2>1, LinkedMeaning DEF Links
  <2>3. Answers(c)' = {} /\ (Handled(c)' <=> Handled(c))
    BY <2>1 DEF Answers, Handled, Event, netVars
  <2> QED
    BY <1>1, <2>1, <2>2, <2>3 DEF netVars
<1>8. CASE HangUp(c)
  <2>1. /\ UNCHANGED <<toServer, pc, batch, request, peer>> /\ c \in hungUp' /\ toClient'[c] = << >>
    BY <1>8 DEF HangUp, serverVars, threadVars, CoreInv, NetTypes
  <2>2. Answers(c)' = {} /\ (Handled(c)' <=> Handled(c))
    BY <2>1 DEF Answers, Handled, Event
  <2> QED
    BY <1>1, <2>1, <2>2
<1>9. ASSUME ~(\E r \in Requests(c) : SendRequest(c, r)),
             ~(\E fd \in Fd : Handle(fd) /\ peer[fd] = c),
             ~(SendResponse /\ peer[Event] = c),
             ~(Connected(c) \/ GetResponse(c)), ~Disconnected(c), ~HangUp(c)
      PROVE  Before'
  <2>1. toServer'[c] = toServer[c]
    BY <1>9, RequestsChange
  <2>2. pending'[c] = pending[c]
    BY <1>9, PendingChange
  <2>3. \/ (Handled(c)' <=> Handled(c)) /\ (Handled(c) => request' = request)
        \/ Stop /\ ~Handled(c)'
    BY <1>9, HandledChange
  <2>4. Answers(c)' = Answers(c) /\ \A i \in Answers(c) : toClient'[c][i] = toClient[c][i]
    <3>1. CASE toClient'[c] = toClient[c]
      BY <3>1 DEF Answers
    <3>2. ASSUME NEW m \in Message, toClient'[c] = Append(toClient[c], m), ~IsResponse(m)
          PROVE  Answers(c)' = Answers(c) /\ \A i \in Answers(c) : toClient'[c][i] = toClient[c][i]
      BY <3>2, AnswersAdded
    <3>3. ~IsResponse(Key) /\ (ForwardChat => ~IsResponse(Forwarded))
      BY ForwardFacts, Kinds
    <3> QED
      BY <1>9, <3>1, <3>2, <3>3, QueueChange
  <2>5. Stop => pc' = "down"
    BY DEF Stop
  <2> QED
    BY <1>1, <1>2, <2>1, <2>2, <2>3, <2>4, <2>5
<1> QED
  BY <1>3, <1>4, <1>5, <1>6, <1>7, <1>8, <1>9

RequestInv == CoreInv /\ Links /\ Requesting

\* At the start there is no request.
LEMMA RequestInitially == Init => RequestInv
<1> SUFFICES ASSUME Init
             PROVE  RequestInv
  OBVIOUS
<1> USE DEF Init, TransportInit, ServerInit, ClientInit
<1>1. Links
  BY LinkedMeaning, TransportAssumption DEF Links, IsOpen
<1>2. Requesting
  BY DEF Requesting, Handled, Answers
<1> QED
  BY <1>1, <1>2, CoreInitially DEF RequestInv

\* The inductive invariant of a request's way to the server and back.
THEOREM RequestInvariant == Spec => []RequestInv
BY RequestInitially, CoreStep, LinksStep, RequestingStep, PTL DEF Spec, RequestInv

\* Every response a client finds is to the request it waits for, and the request
\* is in exactly one place meanwhile: it is neither lost nor answered twice.
THEOREM ResponsesMatch == Spec => []ResponseMatchesRequest
<1>1. ASSUME RequestInv
      PROVE  ResponseMatchesRequest
  <2> SUFFICES ASSUME NEW c \in Client, c \notin hungUp
               PROVE  /\ pc # "down" => Copies(c) = (IF pending[c] = Nothing THEN 0 ELSE 1)
                      /\ \A i \in DOMAIN toClient[c] :
                           IsResponse(toClient[c][i]) => toClient[c][i].re = pending[c]
    BY DEF ResponseMatchesRequest
  <2> DEFINE asked == Len(toServer[c])
             handled == IF Handled(c) THEN 1 ELSE 0
             answers == Cardinality(Answers(c))
  <2>1. Copies(c) = asked + handled + answers
    BY DEF Copies, Handled, Answers
  <2>2. (Answers(c) = {} => answers = 0) /\ (Answers(c) # {} => answers = 1)
    <3>1. CASE Answers(c) = {}
      BY <3>1, FS_EmptySet
    <3>2. ASSUME NEW i \in Answers(c)
          PROVE  answers = 1
      <4>1. Answers(c) = {i}
        BY <1>1, <3>2 DEF RequestInv, Requesting
      <4> QED
        BY <4>1, FS_Singleton
    <3> QED
      BY <3>1, <3>2
  <2>3. pc # "down" =>
          IF pending[c] = Nothing
          THEN asked = 0 /\ handled = 0 /\ answers = 0
          ELSE \/ asked = 1 /\ handled = 0 /\ answers = 0
               \/ asked = 0 /\ handled = 1 /\ answers = 0
               \/ asked = 0 /\ handled = 0 /\ answers = 1
    <3>0. Len(<< >>) = 0 /\ \A r : Len(<<r>>) = 1
      OBVIOUS
    <3>1. /\ toServer[c] = << >> => asked = 0
          /\ toServer[c] = <<pending[c]>> => asked = 1
      BY <3>0, Zenon
    <3>2. (Handled(c) => handled = 1) /\ (~Handled(c) => handled = 0)
      OBVIOUS
    <3> HIDE DEF asked, handled, answers
    <3> QED
      BY <1>1, <2>2, <3>1, <3>2 DEF RequestInv, Requesting
  <2>4. \A i \in Answers(c) : toClient[c][i].re = pending[c]
    BY <1>1 DEF RequestInv, Requesting
  <2> HIDE DEF asked, handled, answers
  <2>5. pc # "down" => Copies(c) = (IF pending[c] = Nothing THEN 0 ELSE 1)
    BY <2>1, <2>3
  <2> QED
    BY <2>4, <2>5 DEF Answers
<1> QED
  BY <1>1, RequestInvariant, PTL

-----------------------------------------------------------------------------
(* Logins *)

HasLogin(c) == \E u \in User : <<c, u>> \in logins

\* Who is logged in has a login, and if users log in once on a connection then
\* the client of a login on its way has none and no client has two.
LoginInv ==
  /\ \A fd \in DOMAIN sessions :
       IsAuthenticated(fd) => <<peer[fd], GetUsername(fd)>> \in logins
  /\ LoginOnce =>
       /\ \A c \in Client : \A i \in DOMAIN toServer[c] :
            toServer[c][i].type = "Login" => ~HasLogin(c)
       /\ \A c \in Client, u, v \in User :
            <<c, u>> \in logins /\ <<c, v>> \in logins => u = v

\* What a login does to the sessions and to the history of logins.
LEMMA LoginFacts ==
  ASSUME CoreInv, NEW fd \in Fd, HandleLogin(fd)
  PROVE  LET u == request'.username
         IN  /\ u \in User /\ peer[fd] \in Client /\ IsEstablished(fd) /\ peer' = peer
             /\ toServer[peer[fd]] # << >> /\ Head(toServer[peer[fd]]).type = "Login"
             /\ \/ UNCHANGED <<sessionVars, logins>>
                \/ /\ Authenticate(fd, u) /\ CanAuthenticate(fd, u)
                   /\ logins' = logins \cup {<<peer[fd], u>>}
                   /\ response'.type = "Success"
<1> DEFINE u == request'.username
<1>1. /\ peer[fd] \in Client /\ IsEstablished(fd) /\ peer' = peer /\ toServer[peer[fd]] # << >>
      /\ request' \in Request /\ request' = Head(toServer[peer[fd]])
  BY HandleFacts DEF Handle
<1>2. request'.type = "Login"
  BY <1>1 DEF HandleLogin, Receive
<1>3. u \in User
  BY <1>1, <1>2 DEF Request
<1>4. \/ UNCHANGED <<sessionVars, logins>>
      \/ /\ Authenticate(fd, u) /\ CanAuthenticate(fd, u)
         /\ logins' = logins \cup {<<peer[fd], u>>}
         /\ response'.type = "Success"
  BY DEF HandleLogin, Authenticate, Return, sessionVars
<1> QED
  BY <1>1, <1>2, <1>3, <1>4

\* Nothing is handled, and nothing is asked, twice: the client of a login that is
\* handled has no other on its way.
LEMMA LoginInvStep ==
  ASSUME RequestInv, LoginInv, [Next]_vars
  PROVE  LoginInv'
<1> USE DEF RequestInv
<1>1. ASSUME NEW fd \in DOMAIN sessions', IsAuthenticated(fd)'
      PROVE  <<peer'[fd], sessions'[fd].username>> \in logins'
  <2>1. logins \subseteq logins'
    BY Footprint DEF TableFootprint, HandleLogin
  <2>2. ASSUME NEW f \in Fd, HandleLogin(f), ~UNCHANGED sessionVars
        PROVE  <<peer'[fd], sessions'[fd].username>> \in logins'
    <3> DEFINE u == request'.username
               new == [username |-> u, authenticated |-> TRUE]
    <3>1. /\ u \in User /\ IsEstablished(f) /\ peer' = peer
          /\ logins' = logins \cup {<<peer[f], u>>}
          /\ sessions' = [sessions EXCEPT ![f] = new]
      BY <2>2, LoginFacts DEF Authenticate
    <3>2. new.username = u
      OBVIOUS
    <3> HIDE DEF new, u
    <3> QED
      BY <1>1, <3>1, <3>2 DEF LoginInv, IsAuthenticated, GetUsername, IsEstablished
  <2>3. CASE EstablishConnection
    <3> DEFINE new == NewSession
    <3>1. new.authenticated = FALSE
      BY DEF NewSession
    <3>2. /\ fd \in DOMAIN sessions \/ sessions'[fd] = new
          /\ fd \in DOMAIN sessions => sessions'[fd] = sessions[fd]
          /\ peer' = peer
      BY <2>3, EstablishFacts DEF Emplace, EstablishConnection
    <3> HIDE DEF new
    <3> QED
      BY <1>1, <2>1, <3>1, <3>2 DEF LoginInv, IsAuthenticated, GetUsername
  <2>4. ASSUME NEW f \in Fd, CloseConnection(f)
        PROVE  <<peer'[fd], sessions'[fd].username>> \in logins'
    <3>1. \/ UNCHANGED <<peer, sessions>>
          \/ /\ peer' = [peer EXCEPT ![f] = NoClient] /\ fd # f
             /\ fd \in DOMAIN sessions /\ sessions'[fd] = sessions[fd]
      BY <2>4 DEF CloseConnection, EndSession, Close, Destroy, Erase, Restrict, sessionVars
    <3>2. fd \in Fd
      BY TableTypesStep DEF TableTypes, SessionTypeOK
    <3> QED
      BY <1>1, <2>1, <3>1, <3>2 DEF LoginInv, IsAuthenticated, GetUsername, CoreInv, NetTypes
  <2>5. CASE Stop
    BY <2>5 DEF Stop, EmptyMap
  <2>6. CASE UNCHANGED sessionVars /\ ~Stop
    <3>1. fd \in DOMAIN sessions /\ sessions' = sessions
      BY <2>6 DEF sessionVars
    <3>2. fd \in Fd /\ IsOpen(fd) /\ fd # newFd
      BY <3>1 DEF CoreInv, TableTypes, SessionTypeOK, Ownership, IsEstablished
    <3>3. peer'[fd] = peer[fd]
      <4>1. CASE Accept
        BY <3>2, <4>1, AcceptFacts DEF CoreInv, NetTypes
      <4>2. CASE EstablishFails
        BY <3>2, <4>2 DEF EstablishFails, Close, CoreInv, NetTypes
      <4>3. ASSUME NEW f \in Fd, CloseConnection(f) PROVE peer'[fd] = peer[fd]
        BY <2>6, <3>1, <4>3 DEF CloseConnection, EndSession, Close, CoreInv, NetTypes, Destroy, Erase,
           Restrict, CanDestroy, IsEstablished, sessionVars
      <4> QED
        BY <2>6, <4>1, <4>2, <4>3, Footprint DEF NetFootprint
    <3> QED
      BY <1>1, <2>1, <3>1, <3>3 DEF LoginInv, IsAuthenticated, GetUsername
  <2> QED
    BY <2>2, <2>3, <2>4, <2>5, <2>6, Footprint DEF TableFootprint
<1>2. ASSUME LoginOnce, NEW c \in Client, NEW i \in DOMAIN toServer'[c],
             toServer'[c][i].type = "Login"
      PROVE  ~HasLogin(c)'
  <2>0. toServer[c] \in Seq(Request) /\ Len(toServer[c]) <= 1
    BY DEF CoreInv, NetTypes, Requesting
  <2>1. ~HasLogin(c)
    <3>1. CASE toServer'[c] = toServer[c]
      BY <1>2, <3>1 DEF LoginInv
    <3>2. CASE toServer[c] # << >> /\ toServer'[c] = Tail(toServer[c])
      BY <1>2, <2>0, <3>2
    <3>3. ASSUME NEW r \in Requests(c), toServer'[c] = Append(toServer[c], r)
          PROVE  ~HasLogin(c)
      <4>1. r \in Request /\ (r.type = "Login" => ~HasLogin(c))
        BY <1>2, RequestsTypes DEF CoreInv, HasLogin
      <4>2. toServer'[c][i] = r \/ (i \in DOMAIN toServer[c] /\ toServer'[c][i] = toServer[c][i])
        BY <2>0, <3>3, <4>1, AppendElements
      <4> QED
        BY <1>2, <4>1, <4>2 DEF LoginInv
    <3> QED
      BY <3>1, <3>2, <3>3, RequestsChange
  <2>2. ASSUME NEW fd \in Fd, HandleLogin(fd), peer[fd] = c
        PROVE  FALSE
    <3>1. toServer[c] # << >> /\ toServer' = [toServer EXCEPT ![c] = Tail(@)]
      BY <2>2, HandleFacts DEF Handle
    <3>2. toServer'[c] = Tail(toServer[c])
      BY <3>1 DEF CoreInv, NetTypes
    <3>3. i + 1 \in DOMAIN toServer[c] /\ i \in Nat \ {0}
      BY <1>2, <2>0, <3>1, <3>2, TailElements
    <3> QED
      BY <2>0, <3>3
  <2>3. \A u \in User : <<c, u>> \in logins' => <<c, u>> \in logins
    <3>1. ASSUME NEW fd \in Fd, HandleLogin(fd), NEW u \in User, <<c, u>> \in logins'
          PROVE  <<c, u>> \in logins
      BY <2>2, <3>1, LoginFacts
    <3> QED
      BY <3>1, Footprint DEF TableFootprint
  <2> QED
    BY <2>1, <2>3 DEF HasLogin
<1>3. ASSUME LoginOnce, NEW c \in Client, NEW u \in User, NEW v \in User,
             <<c, u>> \in logins', <<c, v>> \in logins'
      PROVE  u = v
  <2>1. ASSUME NEW fd \in Fd, HandleLogin(fd)
        PROVE  u = v
    <3>1. HasLogin(c) => c # peer[fd] \/ logins' = logins
      <4>1. /\ toServer[peer[fd]] # << >> /\ Head(toServer[peer[fd]]).type = "Login"
            /\ peer[fd] \in Client /\ toServer[peer[fd]] \in Seq(Request)
        BY <2>1, LoginFacts DEF CoreInv, NetTypes
      <4>2. ~HasLogin(peer[fd])
        BY <1>3, <4>1, TailElements DEF LoginInv
      <4> QED
        BY <4>2
    <3>2. logins' = logins \/ logins' = logins \cup {<<peer[fd], request'.username>>}
      BY <2>1, LoginFacts
    <3> QED
      BY <1>3, <3>1, <3>2 DEF LoginInv, HasLogin
  <2> QED
    BY <1>3, <2>1, Footprint DEF TableFootprint, LoginInv
<1> QED
  BY <1>1, <1>2, <1>3 DEF LoginInv, GetUsername

-----------------------------------------------------------------------------
(* The server as the caller of its SessionManager *)

\* Every step of the system is a call that SessionManager expects, or none, or the
\* end of the process.
LEMMA SessionCall ==
  ASSUME RequestInv, LoginInv, [Next]_vars
  PROVE  [SessionNext]_sessionVars \/ Stop
<1> USE DEF RequestInv
<1>1. CASE EstablishConnection
  <2>1. newFd \in Fd /\ ~IsEstablished(newFd) /\ Create(newFd)
    BY <1>1, EstablishFacts DEF EstablishConnection
  <2> QED
    BY <2>1 DEF SessionNext
<1>2. ASSUME NEW fd \in Fd, CloseConnection(fd)
      PROVE  SessionNext
  BY <1>2 DEF CloseConnection, EndSession, Close, SessionNext
<1>3. ASSUME NEW fd \in Fd, HandleLogin(fd), ~UNCHANGED sessionVars
      PROVE  SessionNext
  <2> DEFINE u == request'.username
  <2>1. /\ u \in User /\ peer[fd] \in Client /\ IsEstablished(fd) /\ Authenticate(fd, u)
        /\ toServer[peer[fd]] # << >> /\ Head(toServer[peer[fd]]).type = "Login"
    BY <1>3, LoginFacts
  <2>2. LoginOnce => ~IsAuthenticated(fd)
    <3>1. toServer[peer[fd]] \in Seq(Request)
      BY <2>1 DEF CoreInv, NetTypes
    <3>2. LoginOnce => ~HasLogin(peer[fd])
      BY <2>1, <3>1, TailElements DEF LoginInv
    <3>3. IsAuthenticated(fd) => GetUsername(fd) \in User
      BY <2>1 DEF CoreInv, TableTypes, SessionTypeOK, NamedIffAuthenticated, IsEstablished, Session,
         GetUsername
    <3> QED
      BY <2>1, <3>2, <3>3 DEF LoginInv, HasLogin, IsEstablished
  <2> HIDE DEF u
  <2> QED
    BY <2>1, <2>2 DEF SessionNext
<1> QED
  BY <1>1, <1>2, <1>3, Footprint DEF TableFootprint

\* The process ends only if it may.
LEMMA StopsOnlyIfMay ==
  ASSUME [Next]_vars, Stop
  PROVE  MayStop
<1>1. pc # "down" /\ pc' = "down"
  BY DEF Stop
<1>2. ~HandleEvents
  BY <1>1 DEF HandleEvents, EpollWait, Accept, AcceptFails, EstablishConnection, EstablishFails,
     CloseConnection, HandlePing, HandleOther, HandleRegister, HandleLogin, HandleSendChat, Receive,
     Return, ForwardChat, ForwardFails, SendResponse
<1>3. \A c \in Client : ~UserAction(c) /\ ~ClientAction(c)
  BY <1>1 DEF UserAction, ClientAction, Connect, SendRequest, GetUnread, HangUp, Connected,
     ConnectFails, GetResponse, Disconnected, serverVars, threadVars
<1>4. \A fd \in Fd : ~NetworkStep(fd)
  BY <1>1 DEF NetworkStep, serverVars, threadVars
<1> QED
  BY <1>1, <1>2, <1>3, <1>4 DEF Next, ServerStep, vars, serverVars, threadVars

\* The inductive invariant of requests and logins.
TableInv == RequestInv /\ LoginInv /\ (LoginOnce => MapsAgree)

\* Every step preserves the invariant of the logins.
LEMMA TableStep ==
  ASSUME TableInv, [Next]_vars
  PROVE  TableInv'
<1> USE DEF TableInv
<1>1. RequestInv'
  BY CoreStep, LinksStep, RequestingStep DEF RequestInv
<1>2. LoginInv'
  BY LoginInvStep
<1>3. ASSUME LoginOnce
      PROVE  MapsAgree'
  <2>1. CASE Stop
    BY <2>1 DEF Stop, EmptyMap, MapsAgree
  <2>2. SessionTypeOK
    BY DEF RequestInv, CoreInv, TableTypes
  <2> QED
    BY <1>3, <2>1, <2>2, SessionCall, MapsAgreeStep
<1> QED
  BY <1>1, <1>2, <1>3

\* A session with a name has logged in under it, and the two maps agree if each
\* session logs in once: inductive with the request that the login is.
THEOREM TableInvariant == Spec => []TableInv
<1>1. Init => LoginInv /\ MapsAgree
  BY DEF Init, TransportInit, ServerInit, SessionInit, EmptyMap, LoginInv, MapsAgree
<1>2. Init => TableInv
  BY <1>1, RequestInitially DEF TableInv
<1> QED
  BY <1>2, TableStep, PTL DEF Spec

\* The server uses its SessionManager as SessionManager.tla assumes: it creates a
\* session for a descriptor that has none and, if no user logs in twice on one
\* connection, authenticates a session once.  The descriptors, the requests and
\* the history of logins all take part in the argument.
THEOREM ServerUsesSessionManager ==
  ASSUME ~MayStop
  PROVE  Spec => UsesSessionManager
<1>1. Init => SessionInit
  BY DEF Init, ServerInit
<1>2. TableInv /\ [Next]_vars => [SessionNext]_sessionVars
  BY ~MayStop, SessionCall, StopsOnlyIfMay DEF TableInv
<1> QED
  BY <1>1, <1>2, TableInvariant, PTL DEF Spec, SessionSpec, UsesSessionManager

\* In the composed system, too, index and sessions always agree, whether or not the
\* process may end.
THEOREM SystemMapsAgree ==
  ASSUME LoginOnce
  PROVE  Spec => []MapsAgree
BY LoginOnce, TableInvariant, PTL DEF TableInv

\* No user is logged in on two connections to the server.
THEOREM SystemSingleLogin ==
  ASSUME LoginOnce
  PROVE  Spec => []SingleLogin
<1>1. MapsAgree => SingleLogin
  BY DEF MapsAgree, SingleLogin
<1> QED
  BY <1>1, LoginOnce, SystemMapsAgree, PTL

\* The server turns a login away only while its user is logged in on a connection
\* it still has a session for.
THEOREM SystemRefusalIsTruthful ==
  ASSUME LoginOnce
  PROVE  Spec => []RefusalIsTruthful
BY LoginOnce, SystemMapsAgree, AgreementIsTruthful, PTL

\* Through its sessions the server implements the directory: each login, and each
\* end of a connection with one, is a step of the abstract directory.
THEOREM SystemImplementsDirectory ==
  ASSUME LoginOnce, ~MayStop
  PROVE  Spec => ImplementsDirectory
BY LoginOnce, ~MayStop, ServerUsesSessionManager, SessionManagerImplementsDirectory, PTL
DEF UsesSessionManager

-----------------------------------------------------------------------------
(* Chats: where they are *)

\* The chat m has reached c, or is on its way to it.
Held(c, m) ==
  \/ \E i \in DOMAIN inbox[c] : inbox[c][i] = m
  \/ \E i \in DOMAIN toClient[c] : toClient[c][i] = m

\* The request r of client s has not been carried out.
Asked(s, r) ==
  \/ \E i \in DOMAIN toServer[s] : toServer[s][i] = r
  \/ pc = "forward" /\ peer[Event] = s /\ request = r

\* What GetResponse does to the inbox.
LEMMA InboxTaken ==
  ASSUME CoreInv, NEW c \in Client, GetResponse(c)
  PROVE  /\ toClient[c] # << >> /\ Head(toClient[c]) \in Message
         /\ toClient'[c] = Tail(toClient[c])
         /\ IF Head(toClient[c]).type = "ReceiveChat"
            THEN /\ Head(toClient[c]) \in ReceiveChat
                 /\ inbox'[c] = Append(inbox[c], Head(toClient[c]))
            ELSE inbox'[c] = inbox[c]
<1> DEFINE m == Head(toClient[c])
<1>1. toClient[c] # << >> /\ toClient[c] \in Seq(Message) /\ m \in Message
  BY DEF GetResponse, CoreInv, NetTypes
<1>2. m.type = "ReceiveChat" => m \in ReceiveChat
  BY <1>1, Kinds
<1>3. toClient'[c] = Tail(toClient[c])
  BY DEF GetResponse, CoreInv, NetTypes
<1>4. CASE m.type = "ReceiveChat"
  <2> DEFINE longer == Append(inbox[c], m)
  <2>1. inbox' = [inbox EXCEPT ![c] = longer]
    BY <1>4 DEF GetResponse, InboxWith
  <2> HIDE DEF longer
  <2>2. inbox'[c] = longer
    BY <2>1 DEF CoreInv, ClientTypes
  <2> QED
    BY <1>1, <1>2, <1>3, <1>4, <2>2 DEF longer
<1>5. CASE m.type # "ReceiveChat"
  BY <1>1, <1>3, <1>5 DEF GetResponse
<1> QED
  BY <1>4, <1>5

\* What happens to an inbox.
LEMMA InboxChange ==
  ASSUME CoreInv, [Next]_vars, NEW c \in Client
  PROVE  \/ inbox'[c] = inbox[c]
         \/ GetResponse(c)
         \/ GetUnread(c) /\ inbox'[c] = << >>
         \/ HangUp(c) /\ inbox'[c] = << >>
BY Footprint DEF ClientFootprint, GetResponse, GetUnread, HangUp, CoreInv, ClientTypes

\* A client holds only chats that were forwarded to it.
LEMMA HeldChange ==
  ASSUME CoreInv, [Next]_vars, NEW c \in Client, NEW m \in ReceiveChat, Held(c, m)'
  PROVE  \/ Held(c, m)
         \/ /\ ForwardChat /\ c = peer[ChannelOf(request.to)] /\ c \notin hungUp
            /\ m = Forwarded
<1>0. toClient[c] \in Seq(Message) /\ inbox[c] \in Seq(ReceiveChat)
  BY DEF CoreInv, NetTypes, ClientTypes
<1>1. ASSUME NEW i \in DOMAIN inbox'[c], inbox'[c][i] = m
      PROVE  Held(c, m)
  <2>1. CASE GetResponse(c)
    <3>1. CASE Head(toClient[c]).type = "ReceiveChat"
      <4>1. /\ Head(toClient[c]) \in ReceiveChat /\ toClient[c] # << >>
            /\ inbox'[c] = Append(inbox[c], Head(toClient[c]))
        BY <2>1, <3>1, InboxTaken
      <4>2. i \in DOMAIN inbox[c] \/ i = Len(inbox[c]) + 1
        BY <1>0, <4>1, AppendElements
      <4>3. CASE i \in DOMAIN inbox[c]
        BY <1>0, <1>1, <4>1, <4>3, AppendElements DEF Held
      <4>4. CASE i = Len(inbox[c]) + 1
        <5>1. m = toClient[c][1] /\ 1 \in DOMAIN toClient[c]
          BY <1>0, <1>1, <4>1, <4>4, AppendElements, TailElements
        <5> QED
          BY <5>1 DEF Held
      <4> QED
        BY <4>2, <4>3, <4>4
    <3>2. CASE Head(toClient[c]).type # "ReceiveChat"
      BY <1>1, <2>1, <3>2, InboxTaken DEF Held
    <3> QED
      BY <3>1, <3>2
  <2>2. CASE inbox'[c] = inbox[c] \/ inbox'[c] = << >>
    BY <1>1, <2>2 DEF Held
  <2> QED
    BY <2>1, <2>2, InboxChange
<1>2. ASSUME NEW i \in DOMAIN toClient'[c], toClient'[c][i] = m
      PROVE  \/ Held(c, m)
             \/ /\ ForwardChat /\ c = peer[ChannelOf(request.to)] /\ c \notin hungUp
                /\ m = Forwarded
  <2>1. CASE toClient'[c] = toClient[c] \/ toClient'[c] = << >>
    BY <1>2, <2>1 DEF Held
  <2>2. CASE toClient[c] # << >> /\ toClient'[c] = Tail(toClient[c])
    BY <1>0, <1>2, <2>2, TailElements DEF Held
  <2>3. ASSUME NEW x \in Message, toClient'[c] = Append(toClient[c], x)
        PROVE  Held(c, m) \/ m = x
    BY <1>0, <1>2, <2>3, AppendElements DEF Held
  <2>4. m # Key /\ (SendResponse => m # response)
    BY RespondFacts, Kinds DEF IsKey
  <2> QED
    BY <2>1, <2>2, <2>3, <2>4, QueueChange
<1> QED
  BY <1>1, <1>2 DEF Held

\* A request that has not been carried out was sent before, or is sent now.
LEMMA AskedChange ==
  ASSUME CoreInv, [Next]_vars, NEW s \in Client, NEW r, Asked(s, r)'
  PROVE  Asked(s, r) \/ (r \in Requests(s) /\ SendRequest(s, r) /\ Linked(s))
<1>0. toServer[s] \in Seq(Request)
  BY DEF CoreInv, NetTypes
<1>1. ASSUME NEW i \in DOMAIN toServer'[s], toServer'[s][i] = r
      PROVE  Asked(s, r) \/ (r \in Requests(s) /\ SendRequest(s, r) /\ Linked(s))
  <2>1. CASE toServer'[s] = toServer[s]
    BY <1>1, <2>1 DEF Asked
  <2>2. CASE toServer[s] # << >> /\ toServer'[s] = Tail(toServer[s])
    BY <1>0, <1>1, <2>2, TailElements DEF Asked
  <2>3. ASSUME NEW q \in Requests(s), SendRequest(s, q), Linked(s),
               toServer'[s] = Append(toServer[s], q)
        PROVE  Asked(s, r) \/ (r \in Requests(s) /\ SendRequest(s, r) /\ Linked(s))
    <3>1. q \in Request
      BY RequestsTypes DEF CoreInv
    <3>2. r = q \/ Asked(s, r)
      BY <1>0, <1>1, <2>3, <3>1, AppendElements DEF Asked
    <3> QED
      BY <2>3, <3>2
  <2> QED
    BY <2>1, <2>2, <2>3, RequestsChange
<1>2. ASSUME pc' = "forward", Handled(s)', request' = r
      PROVE  Asked(s, r)
  <2>1. CASE /\ Handled(s)' <=> Handled(s)
             /\ Handled(s) => request' = request
    <3>1. Handled(s) /\ request = r
      BY <1>2, <2>1
    <3>2. pc = "forward"
      <4>1. \A fd \in Fd : ~Handle(fd)
        BY <3>1, HandleFacts DEF Handled
      <4> QED
        BY <1>2, <4>1, Footprint DEF ThreadFootprint, Accept, EstablishConnection, EstablishFails,
           ForwardChat, ForwardFails, SendResponse, Stop
    <3> QED
      BY <3>1, <3>2 DEF Asked, Handled
  <2>2. ASSUME NEW fd \in Fd, Handle(fd), peer[fd] = s
        PROVE  Asked(s, r)
    BY <1>0, <1>2, <2>2, HandleFacts, TailElements DEF Asked
  <2> QED
    BY <1>2, <2>1, <2>2, HandledChange
<1> QED
  BY <1>1, <1>2 DEF Asked, Handled

-----------------------------------------------------------------------------
(* Chats: who sent them *)

\* A chat carries the name its sender is logged in with.
Authentic ==
  \A c \in Client, m \in ReceiveChat : Held(c, m) => <<m.content.by, m.from>> \in logins

\* While the server runs: a client has sent no chat after the one that has not been
\* carried out, and nobody has received that one.
Flight ==
  pc # "down" =>
    \A s \in Client, r \in Request :
      Asked(s, r) /\ r.type = "SendChat" =>
        /\ r.content.by = s /\ r.content.n = chats[s]
        /\ \A c \in Client, m \in ReceiveChat :
             Held(c, m) /\ m.content.by = s => m.content.n < chats[s]

\* Nobody has received a chat that has not been sent.
Sent ==
  \A c \in Client, m \in ReceiveChat : Held(c, m) => m.content.n <= chats[m.content.by]

\* The chat that is forwarded is its sender's last, and new to everybody.
LEMMA ForwardedFacts ==
  ASSUME RequestInv, LoginInv, Flight, ForwardChat
  PROVE  /\ peer[Event] \in Client /\ Handled(peer[Event]) /\ Asked(peer[Event], request)
         /\ Forwarded \in ReceiveChat /\ Forwarded.content = request.content
         /\ Forwarded.to = request.to
         /\ Forwarded.content.by = peer[Event] /\ Forwarded.content.n = chats[peer[Event]]
         /\ <<peer[Event], Forwarded.from>> \in logins
         /\ \A c \in Client, m \in ReceiveChat :
              Held(c, m) /\ m.content.by = peer[Event] => m.content.n < Forwarded.content.n
<1>1. /\ pc = "forward" /\ IsEstablished(Event) /\ IsAuthenticated(Event)
      /\ request \in Request /\ request.type = "SendChat" /\ Forwarded \in ReceiveChat
  BY ForwardFacts DEF RequestInv
<1>2. peer[Event] \in Client
  BY <1>1, OpenPeer DEF RequestInv, CoreInv
<1>3. Handled(peer[Event]) /\ Asked(peer[Event], request)
  BY <1>1 DEF Handled, Asked
<1>4. /\ Forwarded.content = request.content /\ Forwarded.to = request.to
      /\ Forwarded.from = GetUsername(Event)
  BY DEF Forwarded
<1>5. <<peer[Event], GetUsername(Event)>> \in logins
  BY <1>1 DEF LoginInv, IsEstablished
<1>6. /\ request.content.by = peer[Event] /\ request.content.n = chats[peer[Event]]
      /\ \A c \in Client, m \in ReceiveChat :
           Held(c, m) /\ m.content.by = peer[Event] => m.content.n < chats[peer[Event]]
  BY <1>1, <1>2, <1>3 DEF Flight
<1> QED
  BY <1>1, <1>2, <1>3, <1>4, <1>5, <1>6

\* A chat keeps its name, and a new one gets the name its sender has.
LEMMA AuthenticStep ==
  ASSUME RequestInv, LoginInv, Flight, Authentic, [Next]_vars
  PROVE  Authentic'
<1> SUFFICES ASSUME NEW c \in Client, NEW m \in ReceiveChat, Held(c, m)'
             PROVE  <<m.content.by, m.from>> \in logins'
  BY DEF Authentic
<1>1. logins \subseteq logins'
  BY Footprint DEF TableFootprint, HandleLogin
<1>2. Held(c, m) \/ (ForwardChat /\ m = Forwarded)
  BY HeldChange DEF RequestInv
<1> QED
  BY <1>1, <1>2, ForwardedFacts DEF Authentic

\* Who sends how many chats.
LEMMA ChatsChange ==
  ASSUME CoreInv, [Next]_vars, NEW s \in Client
  PROVE  \/ chats'[s] = chats[s] /\ \A r \in Requests(s) : SendRequest(s, r) => r.type # "SendChat"
         \/ /\ chats'[s] = chats[s] + 1
            /\ \E r \in Requests(s) :
                 SendRequest(s, r) /\ r.type = "SendChat" /\ pending'[s] = r
<1>1. chats \in [Client -> 0..MaxChats] /\ pending \in [Client -> Request \cup {Nothing}]
  BY DEF CoreInv, ClientTypes
<1>2. ASSUME NEW d \in Client, NEW r \in Requests(d), SendRequest(d, r)
      PROVE  /\ chats'[s] = IF s = d /\ r.type = "SendChat" THEN chats[s] + 1 ELSE chats[s]
             /\ pending' = [pending EXCEPT ![d] = r]
  BY <1>1, <1>2 DEF SendRequest
<1>3. ASSUME NEW r \in Requests(s), SendRequest(s, r)
      PROVE  chats'[s] = (IF r.type = "SendChat" THEN chats[s] + 1 ELSE chats[s]) /\ pending'[s] = r
  BY <1>1, <1>2, <1>3
<1>4. CASE \E r \in Requests(s) : SendRequest(s, r) /\ r.type = "SendChat"
  BY <1>3, <1>4
<1>5. CASE ~ \E r \in Requests(s) : SendRequest(s, r) /\ r.type = "SendChat"
  <2>1. chats'[s] = chats[s]
    BY <1>2, <1>5, Footprint DEF ClientFootprint, Asks
  <2> QED
    BY <1>5, <2>1
<1> QED
  BY <1>4, <1>5

\* A chat that is held was sent.
LEMMA SentStep ==
  ASSUME RequestInv, LoginInv, Flight, Sent, [Next]_vars
  PROVE  Sent'
<1> USE DEF RequestInv
<1> SUFFICES ASSUME NEW c \in Client, NEW m \in ReceiveChat, Held(c, m)'
             PROVE  m.content.n <= chats'[m.content.by]
  BY DEF Sent
<1> DEFINE s == m.content.by
           n == m.content.n
<1>1. s \in Client /\ n \in Nat
  <2>1. m.content \in Content
    BY DEF ReceiveChat
  <2> QED
    BY <2>1, ServerAssumption DEF Content
<1>2. chats[s] \in Nat
  BY <1>1, ServerAssumption DEF CoreInv, ClientTypes
<1>3. Held(c, m) \/ (ForwardChat /\ m = Forwarded)
  BY HeldChange
<1>4. n <= chats[s]
  BY <1>1, <1>2, <1>3, ForwardedFacts DEF Sent
<1>5. chats'[s] = chats[s] \/ chats'[s] = chats[s] + 1
  BY <1>1, ChatsChange
<1> HIDE DEF s, n
<1>6. n <= chats'[s]
  BY <1>1, <1>2, <1>4, <1>5
<1> QED
  BY <1>6 DEF s, n

\* A chat that is being sent is the last its sender has begun.
LEMMA FlightStep ==
  ASSUME RequestInv, LoginInv, Flight, Sent, [Next]_vars
  PROVE  Flight'
<1> USE DEF RequestInv
<1> SUFFICES ASSUME pc' # "down", NEW s \in Client, NEW r \in Request, Asked(s, r)',
                    r.type = "SendChat"
             PROVE  /\ r.content.by = s /\ r.content.n = chats'[s]
                    /\ \A c \in Client, m \in ReceiveChat :
                         Held(c, m)' /\ m.content.by = s => m.content.n < chats'[s]
  BY DEF Flight
<1>0. pc # "down"
  BY Ending
<1>1. CASE r \in Requests(s) /\ SendRequest(s, r)
  <2>1. r.content.by = s /\ r.content.n = chats[s] + 1 /\ chats[s] \in Nat
    <3>1. chats[s] \in Nat
      BY ServerAssumption DEF CoreInv, ClientTypes
    <3>2. r.content = [by |-> s, n |-> chats[s] + 1]
      BY <1>1, RequestsTypes DEF CoreInv
    <3> QED
      BY <3>1, <3>2
  <2>2. chats'[s] = chats[s] + 1
    BY <1>1, ChatsChange
  <2>3. ASSUME NEW c \in Client, NEW m \in ReceiveChat, Held(c, m)', m.content.by = s
        PROVE  m.content.n < chats'[s]
    <3>1. ~ForwardChat
      BY <1>1, ServerAlone DEF ForwardChat, SendRequest, serverVars, threadVars
    <3>2. m.content.n <= chats[s]
      BY <2>3, <3>1, HeldChange DEF Sent
    <3>3. m.content.n \in Nat
      <4>1. m.content \in Content
        BY DEF ReceiveChat
      <4> QED
        BY <4>1, ServerAssumption DEF Content
    <3> QED
      BY <2>1, <2>2, <3>2, <3>3
  <2> QED
    BY <2>1, <2>2, <2>3
<1>2. CASE Asked(s, r) /\ ~(r \in Requests(s) /\ SendRequest(s, r))
  <2>1. /\ r.content.by = s /\ r.content.n = chats[s]
        /\ \A c \in Client, m \in ReceiveChat :
             Held(c, m) /\ m.content.by = s => m.content.n < chats[s]
    BY <1>0, <1>2 DEF Flight
  <2>2. chats'[s] = chats[s]
    <3> SUFFICES ASSUME NEW q \in Requests(s), SendRequest(s, q)
                 PROVE  FALSE
      BY ChatsChange
    <3>1. s \notin hungUp /\ pending[s] = Nothing
      BY DEF SendRequest, Alive
    <3>2. toServer[s] = << >> /\ ~Handled(s)
      BY <1>0, <3>1 DEF Requesting
    <3> QED
      BY <1>2, <3>2 DEF Asked, Handled
  <2>3. ASSUME NEW c \in Client, NEW m \in ReceiveChat, Held(c, m)', m.content.by = s
        PROVE  Held(c, m)
    <3> SUFFICES ASSUME ForwardChat, m = Forwarded
                 PROVE  FALSE
      BY <2>3, HeldChange
    <3>1. s = peer[Event] /\ Handled(s)
      BY <2>3, ForwardedFacts
    <3>2. toServer'[s] = << >>
      <4>1. toServer[s] = << >>
        BY <3>1 DEF Requesting
      <4> QED
        BY <4>1 DEF ForwardChat
    <3>3. pc' # "forward"
      BY DEF ForwardChat
    <3> QED
      BY <3>2, <3>3 DEF Asked
  <2> QED
    BY <2>1, <2>2, <2>3
<1> QED
  BY <1>1, <1>2, AskedChange

-----------------------------------------------------------------------------
(* Chats: their order *)

\* y comes after x: if both are chats of one sender, it was sent later.
After(x, y) ==
  x.type = "ReceiveChat" /\ y.type = "ReceiveChat" /\ x.content.by = y.content.by
  => x.content.n < y.content.n

\* What c has received comes in order, and before what is on its way to it.
Ordered ==
  \A c \in Client :
    /\ \A i, j \in DOMAIN inbox[c] : i < j => After(inbox[c][i], inbox[c][j])
    /\ \A i, j \in DOMAIN toClient[c] : i < j => After(toClient[c][i], toClient[c][j])
    /\ \A i \in DOMAIN inbox[c], j \in DOMAIN toClient[c] : After(inbox[c][i], toClient[c][j])

\* A chat that arrives is later than those that have arrived from its sender.
LEMMA OrderedStep ==
  ASSUME RequestInv, LoginInv, Flight, Ordered, [Next]_vars
  PROVE  Ordered'
<1> USE DEF RequestInv
<1> SUFFICES ASSUME NEW c \in Client
             PROVE  /\ \A i, j \in DOMAIN inbox'[c] : i < j => After(inbox'[c][i], inbox'[c][j])
                    /\ \A i, j \in DOMAIN toClient'[c] :
                         i < j => After(toClient'[c][i], toClient'[c][j])
                    /\ \A i \in DOMAIN inbox'[c], j \in DOMAIN toClient'[c] :
                         After(inbox'[c][i], toClient'[c][j])
  BY DEF Ordered, After
<1> DEFINE Goal ==
             /\ \A i, j \in DOMAIN inbox'[c] : i < j => After(inbox'[c][i], inbox'[c][j])
             /\ \A i, j \in DOMAIN toClient'[c] : i < j => After(toClient'[c][i], toClient'[c][j])
             /\ \A i \in DOMAIN inbox'[c], j \in DOMAIN toClient'[c] :
                  After(inbox'[c][i], toClient'[c][j])
<1>1. /\ toClient[c] \in Seq(Message) /\ inbox[c] \in Seq(ReceiveChat)
      /\ DOMAIN toClient[c] \subseteq Nat /\ DOMAIN inbox[c] \subseteq Nat
  BY DEF CoreInv, NetTypes, ClientTypes
<1>2. /\ \A i, j \in DOMAIN inbox[c] : i < j => After(inbox[c][i], inbox[c][j])
      /\ \A i, j \in DOMAIN toClient[c] : i < j => After(toClient[c][i], toClient[c][j])
      /\ \A i \in DOMAIN inbox[c], j \in DOMAIN toClient[c] : After(inbox[c][i], toClient[c][j])
  BY DEF Ordered
<1>3. CASE GetResponse(c)
  <2> DEFINE m == Head(toClient[c])
  <2>1. /\ 1 \in DOMAIN toClient[c] /\ m = toClient[c][1]
        /\ \A i \in DOMAIN toClient'[c] : /\ i + 1 \in DOMAIN toClient[c]
                                           /\ toClient'[c][i] = toClient[c][i + 1]
                                           /\ i \in Nat \ {0}
    <3>1. toClient[c] # << >> /\ toClient'[c] = Tail(toClient[c])
      BY <1>3, InboxTaken
    <3> QED
      BY <1>1, <3>1, TailElements
  <2>2. CASE m.type # "ReceiveChat"
    BY <1>2, <1>3, <2>1, <2>2, InboxTaken
  <2>3. CASE m.type = "ReceiveChat"
    <3> DEFINE n == Len(inbox[c]) + 1
    <3>1. m \in ReceiveChat /\ inbox'[c] = Append(inbox[c], m)
      BY <1>3, <2>3, InboxTaken
    <3>2. /\ n \in DOMAIN inbox'[c] /\ inbox'[c][n] = m /\ n \in Nat
          /\ \A i \in DOMAIN inbox[c] : inbox'[c][i] = inbox[c][i] /\ i < n
          /\ \A i \in DOMAIN inbox'[c] : i \in DOMAIN inbox[c] \/ i = n
      BY <1>1, <3>1, AppendElements
    <3> HIDE DEF m, n
    <3>3. ASSUME NEW i \in DOMAIN inbox'[c], NEW j \in DOMAIN inbox'[c], i < j
          PROVE  After(inbox'[c][i], inbox'[c][j])
      <4>1. i \in DOMAIN inbox[c]
        BY <1>1, <3>2, <3>3
      <4> QED
        BY <1>2, <2>1, <3>2, <3>3, <4>1
    <3>4. ASSUME NEW i \in DOMAIN toClient'[c], NEW j \in DOMAIN toClient'[c], i < j
          PROVE  After(toClient'[c][i], toClient'[c][j])
      BY <1>2, <2>1, <3>4
    <3>5. ASSUME NEW i \in DOMAIN inbox'[c], NEW j \in DOMAIN toClient'[c]
          PROVE  After(inbox'[c][i], toClient'[c][j])
      <4>1. 1 < j + 1
        BY <2>1
      <4> QED
        BY <1>2, <2>1, <3>2, <4>1
    <3> QED
      BY <3>3, <3>4, <3>5
  <2> QED
    BY <2>2, <2>3
<1>4. CASE HangUp(c)
  BY <1>4 DEF HangUp, CoreInv, NetTypes, ClientTypes
<1>5. CASE ~GetResponse(c) /\ ~HangUp(c)
  <2>1. inbox'[c] = inbox[c] \/ inbox'[c] = << >>
    BY <1>5, InboxChange
  <2>2. CASE toClient'[c] = toClient[c]
    BY <1>2, <2>1, <2>2
  <2>3. CASE toClient[c] # << >> /\ toClient'[c] = Tail(toClient[c])
    <3>1. /\ 1 \in DOMAIN toClient[c]
          /\ \A i \in DOMAIN toClient'[c] : /\ i + 1 \in DOMAIN toClient[c]
                                             /\ toClient'[c][i] = toClient[c][i + 1]
                                             /\ i \in Nat \ {0}
      BY <1>1, <2>3, TailElements
    <3>2. \A i, j \in DOMAIN toClient'[c] : i < j => After(toClient'[c][i], toClient'[c][j])
      BY <1>2, <3>1
    <3> QED
      BY <1>2, <2>1, <3>1, <3>2
  <2>4. ASSUME NEW m \in Message, toClient'[c] = Append(toClient[c], m),
               /\ \A i \in DOMAIN inbox[c] : After(inbox[c][i], m)
               /\ \A i \in DOMAIN toClient[c] : After(toClient[c][i], m)
        PROVE  Goal
    <3> DEFINE n == Len(toClient[c]) + 1
    <3>1. /\ n \in DOMAIN toClient'[c] /\ toClient'[c][n] = m /\ n \in Nat
          /\ \A i \in DOMAIN toClient[c] : toClient'[c][i] = toClient[c][i] /\ i < n
          /\ \A i \in DOMAIN toClient'[c] : i \in DOMAIN toClient[c] \/ i = n
      BY <1>1, <2>4, AppendElements
    <3> HIDE DEF n
    <3>2. ASSUME NEW i \in DOMAIN toClient'[c], NEW j \in DOMAIN toClient'[c], i < j
          PROVE  After(toClient'[c][i], toClient'[c][j])
      <4>1. i \in DOMAIN toClient[c]
        BY <1>1, <3>1, <3>2
      <4> QED
        BY <1>2, <2>4, <3>1, <3>2, <4>1
    <3>3. ASSUME NEW i \in DOMAIN inbox'[c], NEW j \in DOMAIN toClient'[c]
          PROVE  After(inbox'[c][i], toClient'[c][j])
      BY <1>2, <2>1, <2>4, <3>1
    <3>4. \A i, j \in DOMAIN inbox'[c] : i < j => After(inbox'[c][i], inbox'[c][j])
      BY <1>2, <2>1
    <3> QED
      BY <3>2, <3>3, <3>4
  <2>5. \A x : After(x, Key) /\ (SendResponse => After(x, response))
    BY RespondFacts, Kinds DEF After
  <2>6. ASSUME ForwardChat, NEW x \in Message, x \in ReceiveChat => Held(c, x)
        PROVE  After(x, Forwarded)
    BY <2>6, ForwardedFacts, Kinds DEF After
  <2>7. /\ \A i \in DOMAIN inbox[c] : inbox[c][i] \in Message /\ Held(c, inbox[c][i])
        /\ \A i \in DOMAIN toClient[c] : toClient[c][i] \in Message /\ Held(c, toClient[c][i])
    BY <1>1 DEF Held, Message
  <2>8. ASSUME NEW m \in Message, toClient'[c] = Append(toClient[c], m),
               m = Key \/ (SendResponse /\ m = response) \/ (ForwardChat /\ m = Forwarded)
        PROVE  Goal
    <3>1. /\ \A i \in DOMAIN inbox[c] : After(inbox[c][i], m)
          /\ \A i \in DOMAIN toClient[c] : After(toClient[c][i], m)
      BY <2>5, <2>6, <2>7, <2>8
    <3> QED
      BY <2>4, <2>8, <3>1
  <2> QED
    BY <1>5, <2>2, <2>3, <2>8, QueueChange
<1> QED
  BY <1>3, <1>4, <1>5

-----------------------------------------------------------------------------
(* Chats: the theorems *)

\* The chats of c are those it holds, those in the inbox first, each part in its order.
LEMMA ChatsOfElements ==
  ASSUME CoreInv, NEW c \in Client
  PROVE  LET received == ChatsOf(c)
         IN  /\ received \in Seq(ReceiveChat)
             /\ \A i \in DOMAIN received : Held(c, received[i])
             /\ \A i, j \in DOMAIN received : i < j =>
                  \/ \E a, b \in DOMAIN inbox[c] :
                       a < b /\ inbox[c][a] = received[i] /\ inbox[c][b] = received[j]
                  \/ \E a \in DOMAIN inbox[c], b \in DOMAIN toClient[c] :
                       inbox[c][a] = received[i] /\ toClient[c][b] = received[j]
                  \/ \E a, b \in DOMAIN toClient[c] :
                       a < b /\ toClient[c][a] = received[i] /\ toClient[c][b] = received[j]
<1> DEFINE kinds == {m \in Range(toClient[c]) : m.type = "ReceiveChat"}
           first == inbox[c]
           second == Filter(toClient[c], kinds)
           received == first \o second
<1>1. first \in Seq(ReceiveChat) /\ toClient[c] \in Seq(Message)
  BY DEF CoreInv, NetTypes, ClientTypes
<1>4. kinds \subseteq ReceiveChat
  BY <1>1, Kinds DEF Range
<1>6. ChatsOf(c) = received
  BY DEF ChatsOf
<1> HIDE DEF kinds
<1>2. \A j \in DOMAIN second :
        second[j] \in kinds /\ \E b \in DOMAIN toClient[c] : toClient[c][b] = second[j]
  BY <1>1, FilterElements
<1>3. \A j, k \in DOMAIN second :
        j < k => \E a, b \in DOMAIN toClient[c] :
                   a < b /\ toClient[c][a] = second[j] /\ toClient[c][b] = second[k]
  BY <1>1, FilterKeepsOrder
<1>5. second \in Seq(ReceiveChat)
  <2>1. second \in Seq(Message)
    BY <1>1, FilterEmbeds
  <2>2. \A j \in DOMAIN second : second[j] \in ReceiveChat
    BY <1>2, <1>4
  <2> HIDE DEF second
  <2> QED
    BY <2>1, <2>2
<1> HIDE DEF second, first
<1>7. /\ received \in Seq(ReceiveChat)
      /\ \A i \in DOMAIN received :
           \/ i \in DOMAIN first /\ received[i] = first[i]
           \/ i - Len(first) \in DOMAIN second /\ received[i] = second[i - Len(first)]
      /\ \A i, j \in DOMAIN received : i < j /\ j \in DOMAIN first => i \in DOMAIN first
      /\ \A i, j \in DOMAIN received : i < j => i - Len(first) < j - Len(first)
  BY <1>1, <1>5
<1> HIDE DEF received
<1>8. ASSUME NEW i \in DOMAIN received
      PROVE  Held(c, received[i])
  BY <1>2, <1>7 DEF Held, first
<1>9. ASSUME NEW i \in DOMAIN received, NEW j \in DOMAIN received, i < j
      PROVE  \/ \E a, b \in DOMAIN first : a < b /\ first[a] = received[i] /\ first[b] = received[j]
             \/ \E a \in DOMAIN first, b \in DOMAIN toClient[c] :
                  first[a] = received[i] /\ toClient[c][b] = received[j]
             \/ \E a, b \in DOMAIN toClient[c] :
                  a < b /\ toClient[c][a] = received[i] /\ toClient[c][b] = received[j]
  <2>1. CASE j \in DOMAIN first /\ received[j] = first[j]
    <3>1. i \in DOMAIN first
      BY <1>7, <1>9, <2>1
    <3>2. received[i] = first[i]
      <4>1. first \in Seq(ReceiveChat) /\ second \in Seq(ReceiveChat)
        BY <1>1, <1>5
      <4> QED
        BY <3>1, <4>1 DEF received
    <3> QED
      BY <1>9, <2>1, <3>1, <3>2
  <2>2. CASE j - Len(first) \in DOMAIN second /\ received[j] = second[j - Len(first)]
    <3>1. CASE i \in DOMAIN first /\ received[i] = first[i]
      BY <1>2, <2>2, <3>1
    <3>2. CASE i - Len(first) \in DOMAIN second /\ received[i] = second[i - Len(first)]
      BY <1>3, <1>7, <1>9, <2>2, <3>2
    <3> QED
      BY <1>7, <3>1, <3>2
  <2> QED
    BY <1>7, <2>1, <2>2
<1> QED
  BY <1>6, <1>7, <1>8, <1>9 DEF first

ChatInv == TableInv /\ Authentic /\ Flight /\ Sent /\ Ordered

\* The inductive invariant of the chats that are held somewhere.
THEOREM ChatInvariant == Spec => []ChatInv
<1>1. Init => TableInv
  <2>1. Init => LoginInv /\ MapsAgree
    BY DEF Init, TransportInit, ServerInit, SessionInit, EmptyMap, LoginInv, MapsAgree
  <2> QED
    BY <2>1, RequestInitially DEF TableInv
<1>2. Init => Authentic /\ Sent /\ Flight /\ Ordered
  BY DEF Init, TransportInit, ServerInit, ClientInit, Authentic, Sent, Flight, Ordered, Held, Asked
<1>3. ChatInv /\ [Next]_vars => ChatInv'
  BY TableStep, AuthenticStep, FlightStep, SentStep, OrderedStep DEF ChatInv, TableInv
<1> QED
  BY <1>1, <1>2, <1>3, PTL DEF Spec, ChatInv

\* No client can send under a name that it has not logged in with.
THEOREM ChatsAlwaysAuthentic == Spec => []ChatsAreAuthentic
<1>1. ASSUME ChatInv
      PROVE  ChatsAreAuthentic
  <2> SUFFICES ASSUME NEW c \in Client, NEW i \in DOMAIN ChatsOf(c)
               PROVE  <<ChatsOf(c)[i].content.by, ChatsOf(c)[i].from>> \in logins
    BY DEF ChatsAreAuthentic
  <2>1. ChatsOf(c)[i] \in ReceiveChat /\ Held(c, ChatsOf(c)[i])
    BY <1>1, ChatsOfElements DEF ChatInv, TableInv, RequestInv
  <2> QED
    BY <1>1, <2>1 DEF ChatInv, Authentic
<1> QED
  BY <1>1, ChatInvariant, PTL

\* The chats of one sender arrive in the order they were sent, none twice: over the
\* request, the server's buffer, the channel to the recipient and its inbox.
THEOREM ChatsAlwaysInOrder == Spec => []ChatsInOrder
<1>1. ASSUME ChatInv
      PROVE  ChatsInOrder
  <2> SUFFICES ASSUME NEW c \in Client, NEW i \in DOMAIN ChatsOf(c), NEW j \in DOMAIN ChatsOf(c),
                      i < j
               PROVE  ChatsOf(c)[i].content.by = ChatsOf(c)[j].content.by
                      => ChatsOf(c)[i].content.n < ChatsOf(c)[j].content.n
    BY DEF ChatsInOrder
  <2>1. ChatsOf(c)[i].type = "ReceiveChat" /\ ChatsOf(c)[j].type = "ReceiveChat"
    BY <1>1, ChatsOfElements, Kinds DEF ChatInv, TableInv, RequestInv
  <2>2. After(ChatsOf(c)[i], ChatsOf(c)[j])
    BY <1>1, ChatsOfElements DEF ChatInv, TableInv, RequestInv, Ordered
  <2> QED
    BY <2>1, <2>2 DEF After
<1> QED
  BY <1>1, ChatInvariant, PTL

-----------------------------------------------------------------------------
(* Chats: who receives them, if users log in once on a connection *)

\* A chat is held by a client that logged in as the user it was sent to.
Delivered ==
  LoginOnce =>
    \A c \in Client, m \in ReceiveChat : Held(c, m) => <<c, m.to>> \in logins

\* The name of the recipient leads to the session that is logged in with it.
LEMMA DeliveredStep ==
  ASSUME TableInv, Flight, Delivered, [Next]_vars
  PROVE  Delivered'
<1> SUFFICES ASSUME LoginOnce, NEW c \in Client, NEW m \in ReceiveChat, Held(c, m)'
             PROVE  <<c, m.to>> \in logins'
  BY DEF Delivered
<1>1. logins \subseteq logins'
  BY Footprint DEF TableFootprint, HandleLogin
<1>2. CASE Held(c, m)
  BY <1>1, <1>2 DEF Delivered
<1>3. CASE ForwardChat /\ c = peer[ChannelOf(request.to)] /\ m = Forwarded
  <2> DEFINE fd == userToFd[request.to]
  <2>1. m.to = request.to /\ IsEstablishedUser(request.to)
    BY <1>3, ForwardedFacts DEF TableInv, RequestInv, CoreInv, Thread, MayForward, ForwardChat
  <2>2. fd \in DOMAIN sessions /\ sessions[fd] = [username |-> request.to, authenticated |-> TRUE]
    BY <2>1 DEF TableInv, MapsAgree, IsEstablishedUser, IsEstablished
  <2>3. IsAuthenticated(fd) /\ GetUsername(fd) = request.to
    BY <2>2 DEF IsAuthenticated, GetUsername
  <2>4. <<peer[fd], request.to>> \in logins
    BY <2>2, <2>3 DEF TableInv, LoginInv
  <2> QED
    BY <1>1, <1>3, <2>1, <2>4 DEF ChannelOf
<1> QED
  BY <1>2, <1>3, HeldChange DEF TableInv, RequestInv

\* Whatever happens to sessions on the way, a chat reaches a client that logged in
\* as the user it was sent to.
THEOREM ChatsAlwaysReachRecipients ==
  ASSUME LoginOnce
  PROVE  Spec => []ChatsReachRecipients
<1>1. Init => Delivered
  BY DEF Init, TransportInit, ClientInit, Delivered, Held
<1>2. ChatInv /\ Delivered /\ [Next]_vars => Delivered'
  BY DeliveredStep DEF ChatInv
<1>3. ASSUME ChatInv, Delivered
      PROVE  ChatsReachRecipients
  <2> SUFFICES ASSUME NEW c \in Client, NEW i \in DOMAIN ChatsOf(c)
               PROVE  <<c, ChatsOf(c)[i].to>> \in logins
    BY DEF ChatsReachRecipients
  <2>1. ChatsOf(c)[i] \in ReceiveChat /\ Held(c, ChatsOf(c)[i])
    BY <1>3, ChatsOfElements DEF ChatInv, TableInv, RequestInv
  <2> QED
    BY <1>3, <2>1, LoginOnce DEF Delivered
<1> QED
  BY <1>1, <1>2, <1>3, ChatInvariant, PTL DEF Spec

-----------------------------------------------------------------------------
(* Chats with oneself, if users log in once on a connection *)

\* The chat with content x is in the inbox of c, or among the messages on their way
\* to c that come before the n-th.
Got(c, n, x) ==
  \/ \E k \in DOMAIN inbox[c] : inbox[c][k].content = x
  \/ \E k \in DOMAIN toClient[c] :
       k < n /\ toClient[c][k].type = "ReceiveChat" /\ toClient[c][k].content = x

\* Who is told that a chat was sent has logged in by then, and if it was with the
\* name of the recipient it has got the chat before.
Told(c, i) ==
  LET m == toClient[c][i]
  IN  m.type = "Success" /\ m.re.type = "SendChat" =>
        HasLogin(c) /\ (<<c, m.re.to>> \in logins => Got(c, i, m.re.content))

\* So has who is about to be told.
ToBeTold(c) ==
  pc = "respond" /\ peer[Event] = c /\ response.type = "Success" /\ request.type = "SendChat" =>
    /\ HasLogin(c)
    /\ c \notin hungUp /\ <<c, request.to>> \in logins =>
         Got(c, Len(toClient[c]) + 1, request.content)

SelfChats ==
  LoginOnce => \A c \in Client : (\A i \in DOMAIN toClient[c] : Told(c, i)) /\ ToBeTold(c)

\* A client that has a login gets no other.
LEMMA LoginStays ==
  ASSUME RequestInv, LoginInv, LoginOnce, [Next]_vars, NEW c \in Client, HasLogin(c)
  PROVE  HasLogin(c)' /\ \A u : <<c, u>> \in logins' => <<c, u>> \in logins
<1>1. ASSUME NEW fd \in Fd, HandleLogin(fd), NEW u, <<c, u>> \in logins'
      PROVE  <<c, u>> \in logins
  <2>1. /\ toServer[peer[fd]] # << >> /\ Head(toServer[peer[fd]]).type = "Login"
        /\ peer[fd] \in Client /\ toServer[peer[fd]] \in Seq(Request)
    BY <1>1, LoginFacts DEF RequestInv, CoreInv, NetTypes
  <2>2. ~HasLogin(peer[fd])
    BY LoginOnce, <2>1, TailElements DEF LoginInv
  <2>3. logins' = logins \/ logins' = logins \cup {<<peer[fd], request'.username>>}
    BY <1>1, LoginFacts DEF RequestInv
  <2> QED
    BY <1>1, <2>2, <2>3
<1>2. logins \subseteq logins'
  BY Footprint DEF TableFootprint, HandleLogin
<1> QED
  BY <1>1, <1>2, Footprint DEF TableFootprint, HasLogin

\* A client that waits for a response keeps what it got, however much is left to
\* receive before it.
LEMMA GotTaken ==
  ASSUME CoreInv, NEW c \in Client, NEW n \in Nat, NEW x, GetResponse(c), Got(c, n, x)
  PROVE  Got(c, n - 1, x)'
<1>0. /\ toClient[c] \in Seq(Message) /\ inbox[c] \in Seq(ReceiveChat)
      /\ toClient[c] # << >> /\ Head(toClient[c]) \in Message
      /\ toClient'[c] = Tail(toClient[c])
  BY InboxTaken DEF CoreInv, NetTypes, ClientTypes
<1>1. \A k \in DOMAIN inbox[c] : k \in DOMAIN inbox'[c] /\ inbox'[c][k] = inbox[c][k]
  BY <1>0, InboxTaken, AppendElements
<1>2. ASSUME NEW k \in DOMAIN toClient[c], k < n, toClient[c][k].type = "ReceiveChat",
             toClient[c][k].content = x
      PROVE  Got(c, n - 1, x)'
  <2>1. CASE k = 1
    <3>1. Head(toClient[c]) = toClient[c][k]
      BY <1>0, <2>1, TailElements
    <3>2. inbox'[c] = Append(inbox[c], Head(toClient[c])) /\ Head(toClient[c]) \in ReceiveChat
      BY <1>2, <3>1, InboxTaken
    <3>3. Len(inbox[c]) + 1 \in DOMAIN inbox'[c] /\ inbox'[c][Len(inbox[c]) + 1] = toClient[c][k]
      BY <1>0, <3>1, <3>2, AppendElements
    <3> QED
      BY <1>2, <3>3 DEF Got
  <2>2. CASE k # 1
    <3>1. k - 1 \in DOMAIN toClient'[c] /\ toClient'[c][k - 1] = toClient[c][k]
      BY <1>0, <2>2, TailElements
    <3>2. k - 1 < n - 1
      <4>1. k \in Nat
        BY <1>0
      <4> QED
        BY <1>2, <4>1
    <3> QED
      BY <1>2, <3>1, <3>2 DEF Got
  <2> QED
    BY <2>1, <2>2
<1> QED
  BY <1>1, <1>2 DEF Got

\* What a waiting client has got stays, but for what GetResponse takes.
LEMMA GotKept ==
  ASSUME RequestInv, [Next]_vars, NEW c \in Client, c \notin hungUp', pending[c] # Nothing,
         ~GetResponse(c)
  PROVE  /\ \/ toClient'[c] = toClient[c]
            \/ \E m \in Message : /\ toClient'[c] = Append(toClient[c], m)
                                  /\ \/ EstablishConnection /\ m = Key
                                     \/ ForwardChat /\ m = Forwarded
                                     \/ SendResponse /\ c = peer[Event] /\ m = response
         /\ \A n \in Nat : \A x : Got(c, n, x) => Got(c, n, x)'
<1> USE DEF RequestInv
<1>0. toClient[c] \in Seq(Message)
  BY DEF CoreInv, NetTypes
<1>1. ~HangUp(c) /\ ~Connected(c) /\ ~GetUnread(c)
  BY DEF HangUp, Connected, GetUnread, Links
<1>2. inbox'[c] = inbox[c]
  BY <1>1, InboxChange
<1>3. \/ toClient'[c] = toClient[c]
      \/ \E m \in Message : /\ toClient'[c] = Append(toClient[c], m)
                            /\ \/ EstablishConnection /\ m = Key
                               \/ ForwardChat /\ m = Forwarded
                               \/ SendResponse /\ c = peer[Event] /\ m = response
  BY <1>1, QueueChange
<1>4. \A k \in DOMAIN toClient[c] : k \in DOMAIN toClient'[c] /\ toClient'[c][k] = toClient[c][k]
  BY <1>0, <1>3, AppendElements
<1> QED
  BY <1>2, <1>3, <1>4 DEF Got

\* A response to a chat is "Success" only if the chat was forwarded.
LEMMA ChatAnswered ==
  ASSUME CoreInv, [Next]_vars, pc' = "respond", request'.type = "SendChat",
         response'.type = "Success"
  PROVE  \/ ForwardChat /\ UNCHANGED <<peer, hungUp, batch, request, logins>>
         \/ /\ pc = "respond"
            /\ UNCHANGED <<peer, batch, request, response, logins>>
<1>1. ASSUME NEW fd \in Fd, Handle(fd)
      PROVE  FALSE
  <2>1. /\ \/ HandlePing(fd) \/ HandleOther(fd) \/ HandleRegister(fd) \/ HandleLogin(fd)
           => request'.type # "SendChat"
    BY DEF HandlePing, HandleOther, HandleRegister, HandleLogin, Receive
  <2>2. HandleSendChat(fd)
    BY <1>1, <2>1 DEF Handle
  <2>3. response' = [type |-> "Failure", re |-> request']
    BY <2>2 DEF HandleSendChat, Return
  <2> QED
    BY <2>3
<1>2. ~ForwardFails
  BY DEF ForwardFails, Failure
<1>3. CASE ForwardChat
  BY <1>3 DEF ForwardChat
<1>4. CASE ~ForwardChat
  <2>1. pc = "respond"
    BY <1>1, <1>2, <1>4, Footprint DEF ThreadFootprint, Accept, EstablishConnection, EstablishFails,
       SendResponse, Stop
  <2>2. ~SendResponse /\ ~Stop
    BY DEF SendResponse, Stop
  <2> QED
    BY <1>1, <1>2, <1>4, <2>1, <2>2, Footprint DEF ThreadFootprint, NetFootprint, TableFootprint,
       EpollWait, Accept, AcceptFails, EstablishConnection, EstablishFails, CloseConnection, Handling,
       Handle
<1> QED
  BY <1>3, <1>4

\* The response is behind the chat: both take the same channel, in this order.
LEMMA SelfChatsStep ==
  ASSUME TableInv, Flight, SelfChats, [Next]_vars
  PROVE  SelfChats'
<1> SUFFICES ASSUME LoginOnce, NEW c \in Client
             PROVE  (\A i \in DOMAIN toClient'[c] : Told(c, i)') /\ ToBeTold(c)'
  BY DEF SelfChats
<1>0. /\ toClient[c] \in Seq(Message) /\ Len(toClient[c]) \in Nat
      /\ hungUp \subseteq hungUp'
      /\ c \in hungUp' => toClient'[c] = << >>
      /\ CoreInv /\ RequestInv /\ LoginInv
  <2>1. RequestInv'
    BY CoreStep, LinksStep, RequestingStep DEF TableInv, RequestInv
  <2>2. hungUp \subseteq hungUp'
    BY Footprint DEF NetFootprint, HangUp
  <2>3. CoreInv /\ RequestInv /\ LoginInv
    BY DEF TableInv, RequestInv
  <2>4. c \in hungUp' => toClient'[c] = << >>
    <3>1. Links'
      BY <2>1 DEF RequestInv
    <3> QED
      BY <3>1 DEF Links
  <2> QED
    BY <2>2, <2>3, <2>4 DEF CoreInv, NetTypes
<1>1. ASSUME NEW i \in DOMAIN toClient'[c],
             toClient'[c][i].type = "Success", toClient'[c][i].re.type = "SendChat"
      PROVE  HasLogin(c)' /\ (<<c, toClient'[c][i].re.to>> \in logins' =>
                                 \A x : x = toClient'[c][i].re.content => Got(c, i, x)')
  <2>1. c \notin hungUp' /\ c \notin hungUp
    BY <1>0, <1>1
  <2>2. ASSUME NEW j \in DOMAIN toClient[c], toClient[c][j] = toClient'[c][i]
        PROVE  /\ pending[c] # Nothing /\ HasLogin(c)' /\ j \in Nat
               /\ <<c, toClient'[c][i].re.to>> \in logins' =>
                    Got(c, j, toClient'[c][i].re.content)
    <3>1. j \in Answers(c) /\ toClient[c][j] \in Response /\ j \in Nat
      BY <1>0, <1>1, <2>2, Kinds DEF Answers, IsResponse
    <3>2. pending[c] # Nothing
      BY <1>0, <3>1, MessageTypes DEF RequestInv, Requesting
    <3>3. /\ HasLogin(c)
          /\ <<c, toClient[c][j].re.to>> \in logins => Got(c, j, toClient[c][j].re.content)
      BY <1>1, <2>2 DEF SelfChats, Told
    <3> QED
      BY <1>0, <2>2, <3>1, <3>2, <3>3, LoginStays
  <2>3. CASE GetResponse(c)
    <3>1. toClient[c] # << >> /\ toClient'[c] = Tail(toClient[c])
      BY <1>0, <2>3, InboxTaken
    <3>2. i + 1 \in DOMAIN toClient[c] /\ toClient[c][i + 1] = toClient'[c][i] /\ i \in Nat
      BY <1>0, <1>1, <3>1, TailElements
    <3> DEFINE n == i + 1
    <3>3. n - 1 = i /\ n \in Nat /\ n \in DOMAIN toClient[c] /\ toClient[c][n] = toClient'[c][i]
      BY <3>2
    <3> HIDE DEF n
    <3>4. ASSUME NEW x, Got(c, n, x)
          PROVE  Got(c, i, x)'
      <4>1. Got(c, n - 1, x)'
        BY <1>0, <2>3, <3>3, <3>4, GotTaken
      <4> QED
        BY <3>3, <4>1
    <3> QED
      BY <2>2, <3>3, <3>4
  <2>4. CASE ~GetResponse(c) /\ i \in DOMAIN toClient[c] /\ toClient[c][i] = toClient'[c][i]
    <3>1. pending[c] # Nothing /\ i \in Nat
      BY <2>2, <2>4
    <3>2. \A x : Got(c, i, x) => Got(c, i, x)'
      BY <1>0, <2>1, <2>4, <3>1, GotKept
    <3> QED
      BY <2>2, <2>4, <3>2
  <2>5. CASE SendResponse /\ c = peer[Event] /\ toClient'[c] = Append(toClient[c], response)
             /\ i = Len(toClient[c]) + 1
    <3>1. /\ pc = "respond" /\ request \in Request /\ response.re = request
          /\ response \in Response /\ UNCHANGED logins
      BY <1>0, <2>5, RespondFacts DEF SendResponse
    <3>2. toClient'[c][i] = response
      BY <1>0, <2>5, <3>1, AppendElements DEF Message
    <3>3. pending[c] # Nothing
      <4>1. Handled(c)
        BY <2>5, <3>1 DEF Handled
      <4> QED
        BY <1>0, <2>1, <3>1, <4>1 DEF RequestInv, Requesting
    <3>4. ~GetResponse(c)
      BY <3>1, <2>5 DEF SendResponse, GetResponse, serverVars, threadVars
    <3>5. HasLogin(c) /\ (<<c, request.to>> \in logins => Got(c, i, request.content))
      BY <1>1, <2>1, <2>5, <3>1, <3>2 DEF SelfChats, ToBeTold
    <3>6. i \in Nat /\ HasLogin(c)'
      BY <1>0, <2>5, <3>1, <3>5 DEF HasLogin
    <3>7. \A x : Got(c, i, x) => Got(c, i, x)'
      BY <1>0, <2>1, <3>3, <3>4, <3>6, GotKept
    <3> QED
      BY <3>1, <3>2, <3>5, <3>6, <3>7
  <2>6. CASE ~GetResponse(c)
    <3>1. ASSUME NEW m \in Message, toClient'[c] = Append(toClient[c], m)
          PROVE  \/ i \in DOMAIN toClient[c] /\ toClient[c][i] = toClient'[c][i]
                 \/ i = Len(toClient[c]) + 1 /\ m = toClient'[c][i]
      BY <1>0, <3>1, AppendElements
    <3>2. ForwardChat => Forwarded.type # "Success"
      BY DEF Forwarded
    <3>3. Key.type # "Success"
      BY DEF Key
    <3>4. CASE toClient[c] # << >> /\ toClient'[c] = Tail(toClient[c]) /\ Connected(c)
      <4>1. i + 1 \in DOMAIN toClient[c] /\ toClient[c][i + 1] = toClient'[c][i]
        BY <1>0, <1>1, <3>4, TailElements
      <4> QED
        BY <1>0, <2>2, <3>4, <4>1 DEF Connected, RequestInv, Links
    <3> QED
      BY <1>0, <1>1, <2>1, <2>4, <2>5, <2>6, <3>1, <3>2, <3>3, <3>4, QueueChange
  <2> QED
    BY <2>3, <2>6
<1>2. ASSUME pc' = "respond", peer'[Event'] = c,
             response'.type = "Success", request'.type = "SendChat"
      PROVE  HasLogin(c)' /\ (c \notin hungUp' /\ <<c, request'.to>> \in logins' =>
                                 \A n, x : n = Len(toClient'[c]) + 1 /\ x = request'.content =>
                                              Got(c, n, x)')
  <2>1. CASE ForwardChat /\ UNCHANGED <<peer, hungUp, batch, request, logins>>
    <3>1. /\ c = peer[Event] /\ IsEstablished(Event) /\ IsAuthenticated(Event)
          /\ SendTo(ChannelOf(request.to), Forwarded) /\ Forwarded \in ReceiveChat
          /\ request \in Request /\ request.type = "SendChat"
      BY <1>0, <1>2, <2>1, ForwardFacts DEF Event
    <3>2. <<c, GetUsername(Event)>> \in logins /\ GetUsername(Event) \in User
      BY <1>0, <3>1 DEF LoginInv, IsEstablished, CoreInv, TableTypes
    <3>3. ASSUME c \notin hungUp, <<c, request.to>> \in logins
          PROVE  toClient'[c] = Append(toClient[c], Forwarded)
      <4>1. GetUsername(Event) = request.to
        BY <1>0, <3>2, <3>3 DEF LoginInv, CoreInv, TableTypes
      <4>2. ChannelOf(request.to) = Event
        BY <3>1, <4>1 DEF TableInv, MapsAgree, IsEstablished, ChannelOf
      <4> QED
        BY <3>1, <3>3, <4>2 DEF SendTo, CoreInv, NetTypes, TableInv, RequestInv
    <3>4. ASSUME c \notin hungUp, <<c, request.to>> \in logins,
                 NEW n, n = Len(toClient'[c]) + 1, NEW x, x = request.content
          PROVE  Got(c, n, x)'
      <4> DEFINE k == Len(toClient[c]) + 1
      <4>1. k \in DOMAIN toClient'[c] /\ toClient'[c][k] = Forwarded
        BY <1>0, <3>1, <3>3, <3>4, AppendElements DEF Message
      <4>2. k < n
        <5>1. Len(toClient'[c]) = k
          BY <1>0, <3>1, <3>3, <3>4 DEF Message
        <5>2. k \in Nat
          BY <1>0
        <5> HIDE DEF k
        <5> QED
          BY <3>4, <5>1, <5>2
      <4>3. Forwarded.type = "ReceiveChat" /\ Forwarded.content = x
        BY <3>4 DEF Forwarded
      <4> HIDE DEF k
      <4> QED
        BY <4>1, <4>2, <4>3 DEF Got
    <3> QED
      BY <2>1, <3>2, <3>4 DEF HasLogin
  <2>2. CASE pc = "respond" /\ UNCHANGED <<peer, batch, request, response, logins>>
    <3>1. /\ c = peer[Event] /\ HasLogin(c)
          /\ c \notin hungUp /\ <<c, request.to>> \in logins =>
               Got(c, Len(toClient[c]) + 1, request.content)
      BY <1>2, <2>2 DEF Event, SelfChats, ToBeTold
    <3>2. ASSUME c \notin hungUp', <<c, request.to>> \in logins, NEW x, x = request.content,
                 NEW n, n = Len(toClient'[c]) + 1
          PROVE  Got(c, n, x)'
      <4>1. pending[c] # Nothing
        BY <1>0, <2>2, <3>1, <3>2 DEF RequestInv, Requesting, Handled, CoreInv, Thread
      <4>2. PICK m \in Nat : m = Len(toClient[c]) + 1 /\ Got(c, m, x)
        BY <1>0, <3>1, <3>2
      <4>3. CASE GetResponse(c)
        <5>1. toClient[c] # << >> /\ toClient'[c] = Tail(toClient[c])
          BY <1>0, <4>3, InboxTaken
        <5>2. Len(toClient'[c]) = Len(toClient[c]) - 1
          BY <1>0, <5>1
        <5>3. m - 1 = n
          BY <1>0, <3>2, <4>2, <5>2
        <5>4. Got(c, m - 1, x)'
          BY <1>0, <4>2, <4>3, GotTaken
        <5> QED
          BY <5>3, <5>4
      <4>4. CASE ~GetResponse(c)
        <5>1. toClient'[c] = toClient[c]
          BY <1>0, <1>2, <2>2, <3>2, <4>1, <4>4, GotKept
             DEF EstablishConnection, ForwardChat, SendResponse
        <5> QED
          BY <1>0, <3>2, <4>1, <4>2, <4>4, <5>1, GotKept
      <4> QED
        BY <4>3, <4>4
    <3> QED
      BY <2>2, <3>1, <3>2 DEF HasLogin
  <2> QED
    BY <1>0, <1>2, <2>1, <2>2, ChatAnswered
<1>3. \A i \in DOMAIN toClient'[c] : Told(c, i)'
  BY <1>1 DEF Told
<1>4. ToBeTold(c)'
  BY <1>2 DEF ToBeTold
<1> QED
  BY <1>3, <1>4

\* Who sends to its own name can read the chat as soon as it is told that it was
\* sent: the handler forwards before it answers.
THEOREM SelfChatsAlwaysComeFirst ==
  ASSUME LoginOnce
  PROVE  Spec => []SelfChatComesFirst
<1>1. Init => SelfChats
  BY DEF Init, TransportInit, ServerInit, ClientInit, SelfChats, Told, ToBeTold
<1>2. ChatInv /\ SelfChats /\ [Next]_vars => SelfChats'
  BY SelfChatsStep DEF ChatInv
<1>3. ASSUME ChatInv, SelfChats
      PROVE  SelfChatComesFirst
  <2> DEFINE IsFirst(c, k, x) ==
               LET chat == (inbox[c] \o toClient[c])[k]
               IN  chat.type = "ReceiveChat" /\ chat.content = x
  <2> SUFFICES ASSUME NEW c \in Client, NEW i \in DOMAIN toClient[c],
                      toClient[c][i].type = "Success", toClient[c][i].re.type = "SendChat",
                      <<c, toClient[c][i].re.to>> \in logins
               PROVE  \E k \in 1..(Len(inbox[c]) + i - 1) :
                        IsFirst(c, k, toClient[c][i].re.content)
    BY DEF SelfChatComesFirst
  <2>1. /\ inbox[c] \in Seq(ReceiveChat) /\ inbox[c] \in Seq(Message)
        /\ toClient[c] \in Seq(Message)
    BY <1>3 DEF ChatInv, TableInv, RequestInv, CoreInv, NetTypes, ClientTypes, Message
  <2>0. i \in Nat \ {0} /\ Len(inbox[c]) \in Nat
    BY <2>1
  <2>2. Got(c, i, toClient[c][i].re.content)
    BY <1>3, LoginOnce DEF SelfChats, Told
  <2>3. ASSUME NEW k \in DOMAIN inbox[c], inbox[c][k].content = toClient[c][i].re.content
        PROVE  \E n \in 1..(Len(inbox[c]) + i - 1) : IsFirst(c, n, toClient[c][i].re.content)
    <3>0. (inbox[c] \o toClient[c])[k] = inbox[c][k] /\ k \in 1..Len(inbox[c])
      BY <2>1, ConcatElements, ZenonT(60)
    <3>1. (inbox[c] \o toClient[c])[k] = inbox[c][k] /\ k \in 1..(Len(inbox[c]) + i - 1)
      BY <2>0, <3>0
    <3>2. inbox[c][k].type = "ReceiveChat"
      BY <2>1, Kinds
    <3> QED
      BY <2>3, <3>1, <3>2
  <2>4. ASSUME NEW k \in DOMAIN toClient[c], k < i, toClient[c][k].type = "ReceiveChat",
               toClient[c][k].content = toClient[c][i].re.content
        PROVE  \E n \in 1..(Len(inbox[c]) + i - 1) : IsFirst(c, n, toClient[c][i].re.content)
    <3> DEFINE n == Len(inbox[c]) + k
    <3>0. (inbox[c] \o toClient[c])[n] = toClient[c][k] /\ k \in 1..Len(toClient[c])
      <4> DEFINE first == inbox[c]
                 second == toClient[c]
      <4>1. first \in Seq(Message) /\ second \in Seq(Message) /\ k \in DOMAIN second
        BY <2>1
      <4> HIDE DEF first, second
      <4>2. (first \o second)[Len(first) + k] = second[k] /\ k \in 1..Len(second)
        BY <4>1, ConcatElements
      <4> QED
        BY <4>2 DEF first, second
    <3>1. (inbox[c] \o toClient[c])[n] = toClient[c][k] /\ n \in 1..(Len(inbox[c]) + i - 1)
      BY <2>0, <2>4, <3>0, SMTT(30)
    <3> HIDE DEF n
    <3> QED
      BY <2>4, <3>1
  <2> QED
    BY <2>2, <2>3, <2>4 DEF Got
<1> QED
  BY <1>1, <1>2, <1>3, ChatInvariant, PTL DEF Spec

-----------------------------------------------------------------------------
(* Lists of descriptors *)

In(s, x) == \E i \in DOMAIN s : s[i] = x

Distinct(s) == \A i, j \in DOMAIN s : s[i] = s[j] => i = j

\* What is left of a list when its first element is taken.
LEMMA RestFacts ==
  ASSUME NEW S, NEW s \in Seq(S), s # << >>
  PROVE  /\ 1 \in DOMAIN s /\ Head(s) = s[1]
         /\ \A i \in DOMAIN Tail(s) : i + 1 \in DOMAIN s /\ i + 1 # 1 /\ Tail(s)[i] = s[i + 1]
         /\ Tail(s) # s
         /\ \A x : In(s, x) => x = s[1] \/ In(Tail(s), x)
         /\ Distinct(s) => Distinct(Tail(s)) /\ ~In(Tail(s), s[1])
<1>1. /\ 1 \in DOMAIN s /\ Head(s) = s[1]
      /\ \A i \in DOMAIN Tail(s) : i + 1 \in DOMAIN s /\ Tail(s)[i] = s[i + 1] /\ i \in Nat \ {0}
      /\ \A i \in DOMAIN s : i = 1 \/ (i - 1 \in DOMAIN Tail(s) /\ Tail(s)[i - 1] = s[i])
  BY TailElements
<1>2. \A i \in DOMAIN Tail(s) : i + 1 # 1
  BY <1>1
<1>3. \A x : In(s, x) => x = s[1] \/ In(Tail(s), x)
  BY <1>1 DEF In
<1>4. ASSUME Distinct(s)
      PROVE  Distinct(Tail(s)) /\ ~In(Tail(s), s[1])
  BY <1>1, <1>2, <1>4 DEF Distinct, In
<1>5. Tail(s) # s
  <2> DEFINE n == Len(s)
             m == Len(Tail(s))
  <2>1. n \in Nat /\ m = n - 1
    OBVIOUS
  <2> HIDE DEF n, m
  <2>2. m # n
    BY <2>1
  <2> USE DEF n, m
  <2> QED
    BY <2>2
<1> QED
  BY <1>1, <1>2, <1>3, <1>4, <1>5

\* What is there when an element has been added.
LEMMA AddedFacts ==
  ASSUME NEW S, NEW s \in Seq(S), NEW x \in S
  PROVE  /\ \A y : In(Append(s, x), y) <=> y = x \/ In(s, y)
         /\ Distinct(s) /\ ~In(s, x) => Distinct(Append(s, x))
<1>1. /\ Len(s) + 1 \in DOMAIN Append(s, x) /\ Append(s, x)[Len(s) + 1] = x
      /\ \A i \in DOMAIN s : i \in DOMAIN Append(s, x) /\ Append(s, x)[i] = s[i]
                             /\ i < Len(s) + 1 /\ i \in Nat
      /\ \A i \in DOMAIN Append(s, x) : i \in DOMAIN s \/ i = Len(s) + 1
  BY AppendElements
<1> QED
  BY <1>1 DEF In, Distinct

\* A filtered list.
LEMMA FilteredFacts ==
  ASSUME NEW S, NEW s \in Seq(S), NEW T
  PROVE  /\ Filter(s, T) \in Seq(S)
         /\ \A x : In(Filter(s, T), x) <=> x \in T /\ In(s, x)
         /\ Distinct(s) => Distinct(Filter(s, T))
<1>1. Filter(s, T) \in Seq(S)
  BY FilterEmbeds
<1>2. \A x : In(Filter(s, T), x) <=> x \in T /\ In(s, x)
  BY FilterElements DEF In
<1>3. ASSUME Distinct(s)
      PROVE  Distinct(Filter(s, T))
  <2>1. \A i, j \in DOMAIN s : i # j => s[i] # s[j]
    BY <1>3 DEF Distinct
  <2> QED
    BY <2>1, FilterKeepsDistinct DEF Distinct
<1> QED
  BY <1>1, <1>2, <1>3

\* A list cut in two.
LEMMA CutFacts ==
  ASSUME NEW S, NEW s \in Seq(S), NEW n \in 0..Len(s)
  PROVE  LET first == SubSeq(s, 1, n)
             rest == SubSeq(s, n + 1, Len(s))
         IN  /\ first \in Seq(S) /\ rest \in Seq(S)
             /\ \A x : In(s, x) <=> In(first, x) \/ In(rest, x)
             /\ Distinct(s) => /\ Distinct(first) /\ Distinct(rest)
                               /\ \A x : ~(In(first, x) /\ In(rest, x))
<1> DEFINE first == SubSeq(s, 1, n)
           rest == SubSeq(s, n + 1, Len(s))
<1>1. /\ first \in Seq(S) /\ rest \in Seq(S) /\ n \in Nat /\ Len(s) \in Nat
      /\ DOMAIN s = 1..Len(s) /\ DOMAIN first = 1..n /\ DOMAIN rest = 1..(Len(s) - n)
      /\ \A i \in 1..n : first[i] = s[i]
      /\ \A i \in 1..(Len(s) - n) : rest[i] = s[n + i]
  OBVIOUS
<1> HIDE DEF first, rest
<1>2. ASSUME NEW x, In(s, x)
      PROVE  In(first, x) \/ In(rest, x)
  <2>1. PICK i \in 1..Len(s) : s[i] = x
    BY <1>1, <1>2 DEF In
  <2>2. CASE i <= n
    BY <1>1, <2>1, <2>2 DEF In
  <2>3. CASE ~(i <= n)
    <3>1. i - n \in 1..(Len(s) - n) /\ rest[i - n] = s[n + (i - n)] /\ n + (i - n) = i
      BY <1>1, <2>3
    <3> QED
      BY <1>1, <2>1, <3>1 DEF In
  <2> QED
    BY <2>2, <2>3
<1>3. \A x : In(first, x) \/ In(rest, x) => In(s, x)
  <2>1. \A i \in 1..n : i \in 1..Len(s)
    BY <1>1
  <2>2. \A i \in 1..(Len(s) - n) : n + i \in 1..Len(s)
    BY <1>1
  <2> QED
    BY <1>1, <2>1, <2>2 DEF In
<1>4. ASSUME Distinct(s)
      PROVE  Distinct(first) /\ Distinct(rest) /\ \A x : ~(In(first, x) /\ In(rest, x))
  <2>1. Distinct(first)
    BY <1>1, <1>4 DEF Distinct
  <2>2. Distinct(rest)
    <3>1. ASSUME NEW i \in 1..(Len(s) - n), NEW j \in 1..(Len(s) - n), rest[i] = rest[j]
          PROVE  i = j
      <4>1. n + i \in 1..Len(s) /\ n + j \in 1..Len(s) /\ s[n + i] = s[n + j]
        BY <1>1, <3>1
      <4>2. n + i = n + j
        BY <1>1, <1>4, <4>1 DEF Distinct
      <4> QED
        BY <1>1, <4>2
    <3> QED
      BY <1>1, <3>1 DEF Distinct
  <2>3. ASSUME NEW i \in 1..n, NEW j \in 1..(Len(s) - n), first[i] = rest[j]
        PROVE  FALSE
    <3>1. i \in 1..Len(s) /\ n + j \in 1..Len(s) /\ s[i] = s[n + j]
      BY <1>1, <2>3
    <3>2. i = n + j
      BY <1>1, <1>4, <3>1 DEF Distinct
    <3> QED
      BY <1>1, <3>2
  <2> QED
    BY <1>1, <2>1, <2>2, <2>3 DEF In
<1> QED
  BY <1>1, <1>2, <1>3, <1>4 DEF first, rest

\* One list after another.
LEMMA JoinedFacts ==
  ASSUME NEW S, NEW s \in Seq(S), NEW t \in Seq(S)
  PROVE  /\ s \o t \in Seq(S)
         /\ \A x : In(s \o t, x) <=> In(s, x) \/ In(t, x)
         /\ Distinct(s) /\ Distinct(t) /\ (\A x : ~(In(s, x) /\ In(t, x))) => Distinct(s \o t)
<1> DEFINE both == s \o t
<1>1. /\ both \in Seq(S) /\ Len(s) \in Nat /\ Len(t) \in Nat
      /\ DOMAIN s = 1..Len(s) /\ DOMAIN t = 1..Len(t) /\ DOMAIN both = 1..(Len(s) + Len(t))
      /\ \A i \in 1..Len(s) : both[i] = s[i]
      /\ \A i \in 1..Len(t) : both[Len(s) + i] = t[i]
  OBVIOUS
<1> HIDE DEF both
<1>2. ASSUME NEW i \in DOMAIN both
      PROVE  \/ i \in DOMAIN s /\ both[i] = s[i]
             \/ i - Len(s) \in DOMAIN t /\ both[i] = t[i - Len(s)]
  <2>1. CASE i <= Len(s)
    BY <1>1, <2>1
  <2>2. CASE ~(i <= Len(s))
    <3>1. i - Len(s) \in 1..Len(t) /\ both[Len(s) + (i - Len(s))] = t[i - Len(s)]
          /\ Len(s) + (i - Len(s)) = i
      BY <1>1, <2>2
    <3> QED
      BY <1>1, <3>1
  <2> QED
    BY <2>1, <2>2
<1>3. \A x : In(both, x) => In(s, x) \/ In(t, x)
  BY <1>2 DEF In
<1>4. \A x : In(s, x) \/ In(t, x) => In(both, x)
  <2>1. \A i \in 1..Len(s) : i \in 1..(Len(s) + Len(t))
    BY <1>1
  <2>2. \A i \in 1..Len(t) : Len(s) + i \in 1..(Len(s) + Len(t))
    BY <1>1
  <2> QED
    BY <1>1, <2>1, <2>2 DEF In
<1>5. ASSUME Distinct(s), Distinct(t), \A x : ~(In(s, x) /\ In(t, x))
      PROVE  Distinct(both)
  <2> SUFFICES ASSUME NEW i \in DOMAIN both, NEW j \in DOMAIN both, both[i] = both[j]
               PROVE  i = j
    BY DEF Distinct
  <2>1. CASE i \in DOMAIN s /\ both[i] = s[i] /\ j \in DOMAIN s /\ both[j] = s[j]
    BY <1>5, <2>1 DEF Distinct
  <2>2. CASE /\ i - Len(s) \in DOMAIN t /\ both[i] = t[i - Len(s)]
             /\ j - Len(s) \in DOMAIN t /\ both[j] = t[j - Len(s)]
    <3>1. i - Len(s) = j - Len(s)
      BY <1>5, <2>2 DEF Distinct
    <3> QED
      BY <1>1, <3>1
  <2> QED
    BY <1>2, <1>5, <2>1, <2>2 DEF In
<1> QED
  BY <1>1, <1>3, <1>4, <1>5 DEF both

-----------------------------------------------------------------------------
(* The inductive invariant *)

Watched == interest \cup {Listener}

\* Only sessions are registered, and a session with a login is.
Registered ==
  /\ interest \subseteq DOMAIN sessions
  /\ \A fd \in DOMAIN sessions : IsAuthenticated(fd) => fd \in interest

\* A registered descriptor is in the ready list at most once, and in the batch at
\* most once; the listener stays in the list when it is in the batch, and it is
\* the event that is handled while a key exchange runs.
Entries ==
  /\ \A fd : In(ready, fd) \/ In(batch, fd) => fd \in Watched
  /\ Distinct(ready) /\ Distinct(batch)
  /\ In(batch, Listener) => In(ready, Listener)
  /\ pc = "establish" => batch[1] = Listener

\* An event that is not handled yet has input.
Fresh == \A i \in DOMAIN batch : pc = "loop" \/ i # 1 => HasInput(batch[i])

\* Only an open connection whose client has hung up is reset.  A reset that came
\* with nothing in front of it has nothing in front of it later, and if it came
\* while the descriptor's request was handled, its edge is in the ready list.
Resets ==
  /\ \A fd \in Fd : reset[fd] # "none" => IsOpen(fd) /\ peer[fd] \in hungUp
  /\ \A fd \in Fd : reset[fd] = "arrived" => toServer[peer[fd]] = << >>
  /\ pc \in {"forward", "respond"} /\ reset[Event] = "arrived" => In(ready, Event)

\* Input that epoll watches for will be seen, unless nothing announces it.
Woken ==
  \A fd \in Watched : HasInput(fd) => In(ready, fd) \/ In(batch, fd) \/ IsUnannounced(fd)

EventInv == Registered /\ Entries /\ Fresh /\ Resets /\ Woken

-----------------------------------------------------------------------------
(* The ready list *)

\* An edge adds a watched descriptor that is not in the list, and nothing else.
LEMMA EdgeFacts ==
  ASSUME CoreInv, Distinct(ready), NEW fds, \A f, g \in fds : f = g
  PROVE  /\ WithEdge(fds) \in Seq(Fd \cup {Listener})
         /\ \A x : In(WithEdge(fds), x) <=> In(ready, x) \/ x \in fds \cap Watched
         /\ Distinct(WithEdge(fds))
<1> DEFINE new == {fd \in fds \cap Watched : ~InReady(fd)}
           edge == CHOOSE fd \in new : TRUE
<1>1. /\ ready \in Seq(Fd \cup {Listener}) /\ interest \subseteq Fd
      /\ \A fd : InReady(fd) <=> In(ready, fd)
  BY DEF CoreInv, EventTypes, NetTypes, InReady, In
<1>2. WithEdge(fds) = IF new = {} THEN ready ELSE Append(ready, edge)
  BY DEF WithEdge, Watched
<1>3. CASE new = {}
  BY <1>1, <1>2, <1>3
<1>4. CASE new # {}
  <2>1. edge \in new
    BY <1>4
  <2>2. edge \in fds \cap Watched /\ ~In(ready, edge) /\ edge \in Fd \cup {Listener}
    BY <1>1, <2>1 DEF Watched
  <2>3. WithEdge(fds) = Append(ready, edge)
    BY <1>2, <1>4
  <2> HIDE DEF edge, new
  <2>4. \A x \in fds : x = edge
    BY <2>2
  <2> QED
    BY <1>1, <2>2, <2>3, <2>4, AddedFacts
<1> QED
  BY <1>3, <1>4

\* epoll_wait returns some of the entries that have input and keeps the others, and
\* the listener.
LEMMA EpollFacts ==
  ASSUME CoreInv, Entries, EpollWait
  PROVE  /\ batch = << >> /\ pc = "loop" /\ pc' = "loop"
         /\ UNCHANGED <<peer, hungUp, reset, acceptQ, toServer, toClient, interest, sessionVars>>
         /\ Distinct(batch') /\ Distinct(ready')
         /\ \A fd : In(batch', fd) => In(ready, fd) /\ HasInput(fd)
         /\ \A fd : In(ready', fd) => In(ready, fd)
         /\ \A fd : In(ready, fd) /\ HasInput(fd) => In(batch', fd) \/ In(ready', fd)
         /\ In(batch', Listener) => In(ready', Listener)
<1> DEFINE S == Fd \cup {Listener}
           list == Reportable
           n == EventCount(list)
           first == SubSeq(list, 1, n)
           rest == SubSeq(list, n + 1, Len(list))
           back == Filter(first, {Listener})
<1>1. /\ list \in Seq(S) /\ Distinct(list)
      /\ \A fd : In(list, fd) <=> fd \in S /\ HasInput(fd) /\ In(ready, fd)
  <2> DEFINE T == {fd \in S : HasInput(fd)}
  <2>1. list = Filter(ready, T) /\ ready \in Seq(S) /\ Distinct(ready)
    BY DEF Reportable, CoreInv, EventTypes, Entries
  <2>2. \A fd : fd \in T <=> fd \in S /\ HasInput(fd)
    OBVIOUS
  <2> HIDE DEF T, list, S
  <2>3. /\ Filter(ready, T) \in Seq(S) /\ Distinct(Filter(ready, T))
        /\ \A fd : In(Filter(ready, T), fd) <=> fd \in T /\ In(ready, fd)
    BY <2>1, FilteredFacts
  <2> QED
    BY <2>1, <2>2, <2>3
<1>2. n \in 0..Len(list)
  BY WaitFacts DEF CoreInv
<1>3. /\ batch = << >> /\ pc = "loop" /\ pc' = "loop"
      /\ UNCHANGED <<peer, hungUp, reset, acceptQ, toServer, toClient, interest, sessionVars>>
      /\ batch' = first /\ ready' = rest \o back
  BY DEF EpollWait, Events, AfterWait
<1> HIDE DEF list, n
<1>4. /\ first \in Seq(S) /\ rest \in Seq(S)
      /\ \A fd : In(list, fd) <=> In(first, fd) \/ In(rest, fd)
      /\ Distinct(first) /\ Distinct(rest)
      /\ \A fd : ~(In(first, fd) /\ In(rest, fd))
  BY <1>1, <1>2, CutFacts
<1> HIDE DEF first, rest
<1>5. /\ back \in Seq(S) /\ Distinct(back)
      /\ \A fd : In(back, fd) <=> fd = Listener /\ In(first, fd)
  BY <1>4, FilteredFacts
<1> HIDE DEF back
<1>6. /\ Distinct(rest \o back)
      /\ \A fd : In(rest \o back, fd) <=> In(rest, fd) \/ In(back, fd)
  BY <1>4, <1>5, JoinedFacts
<1>7. \A fd : In(ready, fd) => fd \in S
  BY DEF CoreInv, EventTypes, In
<1> HIDE DEF S
<1> QED
  BY <1>1, <1>3, <1>4, <1>5, <1>6, <1>7

\* What happens to the ready list in every other step: only closing takes an entry
\* out, what comes in is watched, and an edge gets its entry.
LEMMA ReadyChange ==
  ASSUME CoreInv, Registered, Entries, [Next]_vars, ~EpollWait
  PROVE  /\ Distinct(ready')
         /\ \A f : In(ready', f) => f \in Watched'
         /\ \A f : In(ready, f) => In(ready', f) \/ (f \in Fd /\ CloseConnection(f)) \/ Stop
         /\ \A c \in Client : Connect(c) => In(ready', Listener)
         /\ \A c \in Client, f \in interest :
              (Asks(c) \/ HangUp(c)) /\ peer[f] = c => In(ready', f)
         /\ \A f \in interest : ResetArrives(f) => In(ready', f)
         /\ EstablishConnection /\ HasInput(newFd) => In(ready', newFd)
<1>1. /\ ready \in Seq(Fd \cup {Listener}) /\ interest \subseteq Fd /\ Listener \notin Fd
      /\ \A f : In(ready, f) => f \in Watched
      /\ Distinct(ready)
  BY TransportAssumption DEF CoreInv, EventTypes, NetTypes, Entries
<1>2. ASSUME NEW fds, \A f, g \in fds : f = g, ready' = WithEdge(fds), UNCHANGED interest
      PROVE  /\ Distinct(ready')
             /\ \A f : In(ready', f) => f \in Watched'
             /\ \A f : In(ready, f) => In(ready', f)
             /\ \A f \in fds \cap Watched : In(ready', f)
  BY <1>1, <1>2, EdgeFacts DEF Watched
<1>3. ASSUME NEW c \in Client
      PROVE  \A f, g \in FdsOf(c) : f = g
  BY TransportAssumption DEF CoreInv, Ownership, FdsOf, IsOpen
<1>4. ASSUME EstablishConnection
      PROVE  /\ Distinct(ready')
             /\ \A f : In(ready', f) => f \in Watched'
             /\ \A f : In(ready, f) => In(ready', f)
             /\ HasInput(newFd) => In(ready', newFd)
  <2>1. newFd \in Fd /\ ~In(ready, newFd)
    BY <1>1, <1>4, EstablishFacts, TransportAssumption DEF Registered, Watched, IsEstablished
  <2>2. /\ interest' = interest \cup {newFd}
        /\ ready' = IF HasInput(newFd) THEN Append(ready, newFd) ELSE ready
    BY <1>4 DEF EstablishConnection
  <2>3. \A f : In(Append(ready, newFd), f) <=> f = newFd \/ In(ready, f)
    BY <1>1, <2>1, AddedFacts
  <2>4. Distinct(Append(ready, newFd))
    BY <1>1, <2>1, AddedFacts
  <2> QED
    BY <1>1, <2>2, <2>3, <2>4 DEF Watched
<1>5. ASSUME NEW fd \in Fd, CloseConnection(fd)
      PROVE  /\ Distinct(ready')
             /\ \A f : In(ready', f) => f \in Watched'
             /\ \A f : In(ready, f) => In(ready', f) \/ f = fd
  <2>1. interest' = interest \ {fd} /\ ready' = Filter(ready, (Fd \cup {Listener}) \ {fd})
    BY <1>5 DEF CloseConnection, WithoutFd
  <2>2. /\ Distinct(ready')
        /\ \A f : In(ready', f) <=> f \in (Fd \cup {Listener}) \ {fd} /\ In(ready, f)
    BY <1>1, <2>1, FilteredFacts
  <2> QED
    BY <1>1, <2>1, <2>2 DEF Watched
<1>6. ASSUME Stop
      PROVE  Distinct(ready') /\ \A f : ~In(ready', f)
  BY <1>6 DEF Stop, Distinct, In
<1>7. ASSUME NEW c \in Client, Connect(c)
      PROVE  ready' = WithEdge({Listener}) /\ UNCHANGED <<interest, pc>>
  BY <1>7 DEF Connect, serverVars, threadVars
<1>8. ASSUME NEW c \in Client, Asks(c) \/ HangUp(c)
      PROVE  ready' = WithEdge(FdsOf(c)) /\ UNCHANGED <<interest, pc>>
  BY <1>8 DEF Asks, SendRequest, HangUp, serverVars, threadVars
<1>9. ASSUME NEW fd \in Fd, ResetArrives(fd)
      PROVE  ready' = WithEdge({fd}) /\ UNCHANGED interest
  BY <1>9 DEF ResetArrives
<1> DEFINE Listed == /\ Distinct(ready')
                     /\ \A f : In(ready', f) => f \in Watched'
                     /\ \A f : In(ready, f) =>
                          In(ready', f) \/ (f \in Fd /\ CloseConnection(f)) \/ Stop
<1>10. Listed
  <2>1. CASE EstablishConnection \/ Stop \/ \E fd \in Fd : CloseConnection(fd)
    BY <1>4, <1>5, <1>6, <2>1
  <2>2. CASE UNCHANGED ready /\ UNCHANGED interest
    BY <1>1, <2>2 DEF Watched
  <2>3. ASSUME NEW c \in Client, Connect(c) PROVE Listed
    BY <1>2, <1>7, <2>3
  <2>4. ASSUME NEW c \in Client, Asks(c) \/ HangUp(c) PROVE Listed
    BY <1>2, <1>3, <1>8, <2>4
  <2>5. ASSUME NEW fd \in Fd, ResetArrives(fd) PROVE Listed
    <3>1. \A f, g \in {fd} : f = g
      OBVIOUS
    <3>2. ready' = WithEdge({fd}) /\ UNCHANGED interest
      BY <1>9, <2>5
    <3> QED
      BY <1>2, <3>1, <3>2
  <2> QED
    BY <2>1, <2>2, <2>3, <2>4, <2>5, Footprint DEF NetFootprint
<1>11. ASSUME NEW c \in Client, Connect(c)
       PROVE  In(ready', Listener)
  BY <1>2, <1>7, <1>11 DEF Watched
<1>12. ASSUME NEW c \in Client, NEW f \in interest, Asks(c) \/ HangUp(c), peer[f] = c
       PROVE  In(ready', f)
  <2>1. f \in FdsOf(c) \cap Watched
    BY <1>1, <1>12 DEF Watched, FdsOf
  <2>2. \A x, y \in FdsOf(c) : x = y
    BY <1>3
  <2>3. ready' = WithEdge(FdsOf(c)) /\ UNCHANGED interest
    BY <1>8, <1>12
  <2> QED
    BY <1>2, <2>1, <2>2, <2>3
<1>13. \A f \in interest : ResetArrives(f) => In(ready', f)
  BY <1>1, <1>2, <1>9 DEF Watched
<1>14. EstablishConnection /\ HasInput(newFd) => In(ready', newFd)
  BY <1>4
<1> QED
  BY <1>10, <1>11, <1>12, <1>13, <1>14

-----------------------------------------------------------------------------
(* Events and input *)

\* A batch is worked off event by event, and only then is there a next one.
LEMMA BatchChange ==
  ASSUME CoreInv, [Next]_vars, ~EpollWait, ~Stop
  PROVE  \/ /\ batch' = batch
            /\ pc' = "loop" => pc = "loop"
            /\ pc' = "establish" => pc = "establish" \/ Accept
         \/ /\ batch # << >> /\ batch' = Tail(batch) /\ pc' = "loop"
            /\ \/ AcceptFails \/ EstablishConnection \/ EstablishFails \/ SendResponse
               \/ \E fd \in Fd : CloseConnection(fd)
<1>1. CASE \/ AcceptFails \/ EstablishConnection \/ EstablishFails \/ SendResponse
           \/ \E fd \in Fd : CloseConnection(fd)
  BY <1>1 DEF CoreInv, Thread, AcceptFails, EstablishConnection, EstablishFails, SendResponse,
     CloseConnection, Handling, RestOfBatch
<1>2. CASE ~(\/ AcceptFails \/ EstablishConnection \/ EstablishFails \/ SendResponse
             \/ \E fd \in Fd : CloseConnection(fd))
  <2>1. batch' = batch
    BY <1>2, Footprint DEF ThreadFootprint
  <2>2. \A fd \in Fd : Handle(fd) => pc' \in {"forward", "respond"}
    BY HandleFacts
  <2> QED
    BY <1>2, <2>1, <2>2, Footprint DEF ThreadFootprint, Accept, ForwardChat, ForwardFails
<1> QED
  BY <1>1, <1>2

\* A registered descriptor is that of a session.
LEMMA WatchedFacts ==
  ASSUME CoreInv, Registered, NEW f \in interest
  PROVE  /\ f \in Fd /\ IsEstablished(f) /\ IsOpen(f) /\ f # newFd /\ f # Listener
         /\ peer[f] \in Client
BY OpenPeer, TransportAssumption DEF CoreInv, Ownership, Registered, IsEstablished

\* When the set of registered descriptors changes.
LEMMA InterestChange ==
  ASSUME CoreInv, [Next]_vars, ~Stop
  PROVE  \/ UNCHANGED interest /\ ~EstablishConnection /\ \A fd \in Fd : ~CloseConnection(fd)
         \/ EstablishConnection /\ interest' = interest \cup {newFd}
         \/ \E fd \in Fd : CloseConnection(fd) /\ fd = batch[1] /\ interest' = interest \ {fd}
<1>1. ASSUME NEW fd \in Fd, CloseConnection(fd)
      PROVE  fd = batch[1]
  BY <1>1, TailElements DEF CloseConnection, Handling, Event, CoreInv, EventTypes
<1> QED
  BY <1>1, Footprint DEF NetFootprint, EstablishConnection, CloseConnection

\* The other end of a session's descriptor is the same until it is closed.
LEMMA PeerKept ==
  ASSUME CoreInv, [Next]_vars, ~Stop, NEW f \in Fd, IsEstablished(f), ~CloseConnection(f)
  PROVE  peer'[f] = peer[f]
<1>1. IsOpen(f) /\ f # newFd
  BY DEF CoreInv, Ownership
<1>2. CASE Accept
  BY <1>1, <1>2, AcceptFacts DEF CoreInv, NetTypes
<1>3. CASE EstablishFails
  BY <1>1, <1>3 DEF EstablishFails, Close, CoreInv, NetTypes
<1>4. ASSUME NEW g \in Fd, CloseConnection(g) PROVE peer'[f] = peer[f]
  BY <1>4 DEF CloseConnection, EndSession, Close, CoreInv, NetTypes
<1> QED
  BY <1>2, <1>3, <1>4, Footprint DEF NetFootprint

\* The other end of an open descriptor is the same until the server closes it, and
\* then nothing is left of its reset.
LEMMA OpenKept ==
  ASSUME CoreInv, [Next]_vars, NEW f \in Fd, IsOpen(f)
  PROVE  peer'[f] = peer[f] \/ reset'[f] = "none"
<1> USE DEF CoreInv, NetTypes
<1>1. CASE Accept
  BY <1>1, AcceptFacts
<1>2. CASE EstablishFails
  BY <1>2 DEF EstablishFails, Close
<1>3. CASE Stop
  BY <1>3 DEF Stop
<1>4. ASSUME NEW g \in Fd, CloseConnection(g)
      PROVE  peer'[f] = peer[f] \/ reset'[f] = "none"
  BY <1>4 DEF CloseConnection, EndSession, Close
<1> QED
  BY <1>1, <1>2, <1>3, <1>4, Footprint DEF NetFootprint

\* A connection is reset by its client's close or by what is sent after it, and the
\* reset arrives once.
LEMMA ResetChange ==
  ASSUME CoreInv, [Next]_vars, NEW f \in Fd
  PROVE  \/ reset'[f] = reset[f]
         \/ reset'[f] = "none" /\ (Stop \/ CloseConnection(f) \/ (EstablishFails /\ f = newFd))
         \/ /\ reset[f] = "none" /\ reset'[f] = "coming" /\ UNCHANGED peer
            /\ IsOpen(f) /\ peer[f] \in hungUp'
         \/ ResetArrives(f)
<1> DEFINE Answered == /\ reset[f] = "none" /\ reset'[f] = "coming" /\ UNCHANGED peer
                       /\ IsOpen(f) /\ peer[f] \in hungUp'
<1> USE DEF CoreInv, NetTypes
<1>1. ASSUME NEW fds, reset' = Resetting(fds)
      PROVE  \/ reset'[f] = reset[f]
             \/ f \in fds /\ reset[f] = "none" /\ reset'[f] = "coming"
  BY <1>1 DEF Resetting
<1>2. ASSUME NEW fd \in Fd, IsOpen(fd), NEW m, SendTo(fd, m), UNCHANGED <<peer, hungUp>>
      PROVE  reset'[f] = reset[f] \/ Answered
  BY <1>1, <1>2 DEF SendTo
<1>3. CASE EstablishConnection
  BY <1>2, <1>3, EstablishFacts DEF EstablishConnection
<1>4. CASE ForwardChat
  BY <1>2, <1>4, ForwardFacts, OpenPeer DEF ForwardChat
<1>5. CASE SendResponse
  BY <1>2, <1>5, RespondFacts, OpenPeer DEF SendResponse
<1>6. CASE EstablishFails \/ Stop
  BY <1>6 DEF EstablishFails, Close, Stop
<1>7. ASSUME NEW fd \in Fd, CloseConnection(fd)
      PROVE  reset'[f] = reset[f] \/ (reset'[f] = "none" /\ CloseConnection(f))
  BY <1>7 DEF CloseConnection, EndSession, Close
<1>8. ASSUME NEW fd \in Fd, ResetArrives(fd)
      PROVE  reset'[f] = reset[f] \/ ResetArrives(f)
  BY <1>8 DEF ResetArrives
<1>9. ASSUME NEW c \in Client, HangUp(c)
      PROVE  reset'[f] = reset[f] \/ Answered
  <2>1. UNCHANGED peer /\ hungUp' = hungUp \cup {c}
    BY <1>9 DEF HangUp
  <2>2. UNCHANGED reset \/ reset' = Resetting(FdsOf(c))
    BY <1>9 DEF HangUp
  <2>3. f \in FdsOf(c) => peer[f] = c /\ IsOpen(f)
    BY TransportAssumption DEF FdsOf, IsOpen
  <2> QED
    BY <1>1, <2>1, <2>2, <2>3
<1> QED
  BY <1>3, <1>4, <1>5, <1>6, <1>7, <1>8, <1>9, Footprint DEF NetFootprint

\* A client that has hung up sends nothing more.
LEMMA NothingAfterHangUp ==
  ASSUME CoreInv, [Next]_vars, NEW c \in Client, c \in hungUp, toServer[c] = << >>
  PROVE  toServer'[c] = << >>
BY RequestsChange DEF SendRequest, Alive

\* Input stays until the event for it is handled.
LEMMA InputKept ==
  ASSUME CoreInv, Registered, [Next]_vars, ~Stop, NEW f \in Watched, HasInput(f)
  PROVE  \/ HasInput(f)'
         \/ /\ batch # << >> /\ f = batch[1] /\ pc = "loop"
            /\ \/ Accept /\ f = Listener
               \/ f \in Fd /\ (Handle(f) \/ CloseConnection(f))
<1>0. batch \in Seq(Fd \cup {Listener}) /\ acceptQ \in Seq(Client) /\ Listener \notin Fd
  BY TransportAssumption DEF CoreInv, EventTypes, NetTypes
<1>1. batch # << >> => Event = batch[1]
  BY <1>0, TailElements DEF Event
<1>2. CASE f = Listener
  <2>1. CASE Accept
    BY <1>1, <1>2, <2>1 DEF Accept, Handling
  <2>2. ASSUME NEW c \in Client, Connect(c)
        PROVE  acceptQ' # << >>
    BY <1>0, <2>2 DEF Connect
  <2>3. acceptQ # << >>
    BY <1>2 DEF HasInput
  <2> QED
    BY <1>2, <2>1, <2>2, <2>3, Footprint DEF NetFootprint, HasInput
<1>3. CASE f \in interest
  <2> DEFINE c == peer[f]
  <2>1. f \in Fd /\ IsEstablished(f) /\ IsOpen(f) /\ f # Listener /\ c \in Client
    BY <1>3, WatchedFacts
  <2>2. toServer[c] # << >> \/ c \in hungUp
    BY <2>1 DEF HasInput
  <2>3. CASE CloseConnection(f)
    BY <1>1, <2>1, <2>3 DEF CloseConnection, Handling
  <2>4. ASSUME NEW fd \in Fd, Handle(fd), peer[fd] = c
        PROVE  batch # << >> /\ f = batch[1] /\ pc = "loop" /\ Handle(f)
    <3>1. fd = f
      BY <2>1, <2>4 DEF CoreInv, Ownership
    <3> QED
      BY <1>1, <2>4, <3>1, HandleFacts
  <2>5. CASE ~CloseConnection(f) /\ ~ \E fd \in Fd : Handle(fd) /\ peer[fd] = c
    <3>1. peer'[f] = c
      BY <2>1, <2>5, PeerKept
    <3>2. hungUp \subseteq hungUp'
      BY Footprint DEF NetFootprint, HangUp
    <3>3. toServer[c] # << >> => toServer'[c] # << >>
      <4>1. ASSUME NEW r \in Requests(c), toServer'[c] = Append(toServer[c], r)
            PROVE  toServer'[c] # << >>
        <5>1. r \in Request /\ toServer[c] \in Seq(Request)
          BY <2>1, RequestsTypes DEF CoreInv, NetTypes
        <5> QED
          BY <4>1, <5>1
      <4> QED
        BY <2>1, <2>5, <4>1, RequestsChange
    <3>4. c # NoClient
      BY <2>1, TransportAssumption
    <3> HIDE DEF c
    <3> QED
      BY <2>1, <2>2, <3>1, <3>2, <3>3, <3>4 DEF HasInput, IsOpen
  <2> QED
    BY <2>1, <2>3, <2>4, <2>5
<1> QED
  BY <1>2, <1>3 DEF Watched

\* New input of a watched descriptor comes with an edge.
LEMMA InputGained ==
  ASSUME CoreInv, Registered, [Next]_vars, ~Stop, NEW f \in Watched, HasInput(f)',
         \A fd \in Fd : CloseConnection(fd) => f # fd
  PROVE  \/ HasInput(f)
         \/ f = Listener /\ \E c \in Client : Connect(c)
         \/ f \in interest /\ \E c \in Client : peer[f] = c /\ (Asks(c) \/ HangUp(c))
<1>1. CASE f = Listener
  <2>1. acceptQ' # << >>
    BY <1>1 DEF HasInput
  <2> QED
    BY <1>1, <2>1, Footprint DEF NetFootprint, HasInput, Accept
<1>2. CASE f \in interest
  <2> DEFINE c == peer[f]
  <2>1. f \in Fd /\ IsEstablished(f) /\ IsOpen(f) /\ f # Listener /\ c \in Client
    BY <1>2, WatchedFacts
  <2>2. peer'[f] = c
    BY <2>1, PeerKept
  <2>3. toServer'[c] # << >> \/ c \in hungUp'
    BY <2>1, <2>2 DEF HasInput
  <2>4. toServer'[c] # << >> => toServer[c] # << >> \/ Asks(c)
    BY <2>1, RequestsChange DEF Asks
  <2>5. c \in hungUp' => c \in hungUp \/ HangUp(c)
    BY Footprint DEF NetFootprint, HangUp
  <2> QED
    BY <1>2, <2>1, <2>3, <2>4, <2>5 DEF HasInput
<1> QED
  BY <1>1, <1>2 DEF Watched

-----------------------------------------------------------------------------
(* Every step preserves the invariant *)

\* Every step keeps the registered descriptors those of the sessions ...
LEMMA RegisteredStep ==
  ASSUME CoreInv, Registered, Entries, [Next]_vars
  PROVE  Registered'
<1>1. interest \subseteq DOMAIN sessions /\ DOMAIN sessions \subseteq Fd
  BY DEF Registered, CoreInv, TableTypes, SessionTypeOK
<1>2. CASE Stop
  BY <1>2 DEF Stop, Registered, EmptyMap
<1>3. CASE EstablishConnection
  <2> DEFINE new == NewSession
  <2>1. /\ newFd \in Fd /\ interest' = interest \cup {newFd}
        /\ sessions' = Emplace(sessions, newFd, new)
    BY <1>3, EstablishFacts DEF EstablishConnection
  <2> HIDE DEF new
  <2>2. /\ DOMAIN sessions' = DOMAIN sessions \cup {newFd}
        /\ \A fd \in DOMAIN sessions : sessions'[fd] = sessions[fd]
    BY <1>3, <2>1, EstablishFacts DEF Emplace, IsEstablished
  <2> QED
    BY <1>1, <2>1, <2>2 DEF Registered, IsAuthenticated
<1>4. ASSUME NEW fd \in Fd, CloseConnection(fd)
      PROVE  Registered'
  <2>1. interest' = interest \ {fd} /\ IsEstablished(fd)
    BY <1>4 DEF CloseConnection
  <2>2. CASE IsAuthenticated(fd)
    <3>1. sessions' = Erase(sessions, fd)
      BY <1>4, <2>1, <2>2 DEF CloseConnection, EndSession, Close, Destroy, CanDestroy
    <3>2. /\ DOMAIN sessions' = DOMAIN sessions \ {fd}
          /\ \A g \in DOMAIN sessions' : sessions'[g] = sessions[g]
      BY <3>1 DEF Erase, Restrict
    <3> QED
      BY <2>1, <3>2 DEF Registered, IsAuthenticated
  <2>3. CASE ~IsAuthenticated(fd)
    <3>1. sessions' = sessions
      BY <1>4, <2>3 DEF CloseConnection, EndSession, Close, Destroy, CanDestroy, sessionVars
    <3> QED
      BY <2>1, <2>3, <3>1 DEF Registered, IsAuthenticated
  <2> QED
    BY <2>2, <2>3
<1>5. ASSUME NEW fd \in Fd, HandleLogin(fd)
      PROVE  Registered'
  <2>1. fd = batch[1] /\ 1 \in DOMAIN batch /\ IsEstablished(fd) /\ UNCHANGED interest
    BY <1>5, HandleFacts, TailElements DEF Handle, Event, CoreInv, EventTypes
  <2>2. fd \in interest
    BY <2>1, TransportAssumption DEF Entries, In, Watched
  <2> DEFINE new == [username |-> request'.username, authenticated |-> TRUE]
  <2>3. sessions' = sessions \/ sessions' = [sessions EXCEPT ![fd] = new]
    BY <1>5, LoginFacts DEF Authenticate, sessionVars
  <2> HIDE DEF new
  <2> QED
    BY <2>1, <2>2, <2>3 DEF Registered, IsAuthenticated
<1>6. CASE UNCHANGED <<sessions, interest>>
  BY <1>6 DEF Registered, IsAuthenticated
<1> QED
  BY <1>2, <1>3, <1>4, <1>5, <1>6, InterestChange, Footprint DEF TableFootprint, sessionVars

\* ... the entries of the two lists distinct and registered ...
LEMMA EntriesStep ==
  ASSUME CoreInv, Registered, Entries, [Next]_vars
  PROVE  Entries'
<1>0. batch \in Seq(Fd \cup {Listener}) /\ Listener \notin Fd
  BY TransportAssumption DEF CoreInv, EventTypes
<1>1. CASE EpollWait
  BY <1>1, EpollFacts DEF Entries, Watched
<1>2. CASE Stop
  BY <1>2 DEF Stop, Entries, In, Distinct
<1>3. CASE ~EpollWait /\ ~Stop
  <2>1. /\ Distinct(ready')
        /\ \A f : In(ready', f) => f \in Watched'
        /\ In(ready, Listener) => In(ready', Listener)
    BY <1>0, <1>3, ReadyChange
  <2>2. \A f \in Watched : f \in Watched' \/ \E fd \in Fd : CloseConnection(fd) /\ f = fd /\ f = batch[1]
    BY <1>3, InterestChange DEF Watched
  <2>3. CASE batch' = batch
    <3>1. \A fd \in Fd : ~CloseConnection(fd)
      <4>1. \A fd \in Fd : CloseConnection(fd) => batch' = Tail(batch) /\ batch # << >>
        BY DEF CloseConnection, Handling, RestOfBatch
      <4> QED
        BY <1>0, <2>3, <4>1, RestFacts
    <3>2. \A f : In(batch', f) => f \in Watched'
      BY <2>2, <2>3, <3>1 DEF Entries
    <3>3. pc' = "establish" => batch'[1] = Listener
      <4>1. Accept => batch[1] = Listener
        BY <1>0, TailElements DEF Accept, Handling, Event
      <4>2. pc' = "establish" => pc = "establish" \/ Accept
        BY <1>3, BatchChange
      <4> QED
        BY <2>3, <4>1, <4>2 DEF Entries
    <3> QED
      BY <2>1, <2>3, <3>2, <3>3 DEF Entries
  <2>4. CASE batch # << >> /\ batch' = Tail(batch) /\ pc' = "loop"
    <3>1. Distinct(batch') /\ ~In(batch', batch[1])
      BY <1>0, <2>4, RestFacts DEF Entries
    <3>2. \A f : In(batch', f) => In(batch, f)
      BY <1>0, <2>4, RestFacts DEF In
    <3>3. \A f : In(batch', f) => f \in Watched'
      BY <2>2, <3>1, <3>2 DEF Entries
    <3> QED
      BY <2>1, <2>4, <3>1, <3>2, <3>3 DEF Entries
  <2> QED
    BY <1>3, <2>3, <2>4, BatchChange
<1> QED
  BY <1>1, <1>2, <1>3

\* ... the events those of descriptors with something to receive ...
LEMMA FreshStep ==
  ASSUME CoreInv, Registered, Entries, Fresh, [Next]_vars
  PROVE  Fresh'
<1>0. batch \in Seq(Fd \cup {Listener}) /\ Listener \notin Fd
  BY TransportAssumption DEF CoreInv, EventTypes
<1>1. CASE EpollWait
  <2>1. \A f : In(batch', f) => HasInput(f)
    BY <1>1, EpollFacts
  <2>2. \A f : HasInput(f) => HasInput(f)'
    BY <1>1, EpollFacts DEF HasInput, IsOpen
  <2> QED
    BY <2>1, <2>2 DEF Fresh, In
<1>2. CASE Stop
  BY <1>2 DEF Stop, Fresh
<1>3. CASE ~EpollWait /\ ~Stop
  <2> SUFFICES ASSUME NEW i \in DOMAIN batch', pc' = "loop" \/ i # 1
               PROVE  \A f : f = batch'[i] => HasInput(f)'
    BY DEF Fresh
  <2>1. \A j \in DOMAIN batch : batch[j] \in Watched
    BY DEF Entries, In
  <2>2. ASSUME NEW j \in DOMAIN batch, pc = "loop" \/ j # 1, batch[j] = batch'[i],
               NEW f, f = batch'[i],
               \/ j # 1
               \/ pc' = "loop" /\ batch' = batch
        PROVE  HasInput(f)'
    <3>1. HasInput(f) /\ f \in Watched
      BY <2>1, <2>2 DEF Fresh
    <3>2. j # 1 => f # batch[1]
      BY <1>0, <2>2, TailElements DEF Entries, Distinct
    <3>3. ASSUME f \in Fd, Handle(f)
          PROVE  pc' # "loop"
      BY <3>3, HandleFacts
    <3>4. ASSUME NEW g \in Fd, CloseConnection(g)
          PROVE  batch' # batch
      <4>1. batch' = Tail(batch) /\ batch # << >>
        BY <3>4 DEF CloseConnection, Handling, RestOfBatch
      <4> QED
        BY <1>0, <4>1, RestFacts
    <3>5. Accept => pc' # "loop"
      BY DEF Accept
    <3> QED
      BY <1>3, <2>2, <3>1, <3>2, <3>3, <3>4, <3>5, InputKept
  <2>3. CASE batch' = batch /\ (pc' = "loop" => pc = "loop")
    BY <2>2, <2>3
  <2>4. CASE batch # << >> /\ batch' = Tail(batch)
    <3>1. i + 1 \in DOMAIN batch /\ i + 1 # 1 /\ batch'[i] = batch[i + 1]
      BY <1>0, <2>4, RestFacts
    <3> QED
      BY <2>2, <3>1
  <2> QED
    BY <1>3, <2>3, <2>4, BatchChange
<1> QED
  BY <1>1, <1>2, <1>3

\* ... the resets those of clients that have hung up ...
LEMMA ResetsStep ==
  ASSUME RequestInv, Registered, Entries, Resets, [Next]_vars
  PROVE  Resets'
<1>0. /\ CoreInv /\ CoreInv' /\ Listener \notin Fd /\ batch \in Seq(Fd \cup {Listener})
      /\ hungUp \subseteq hungUp'
  <2>1. hungUp \subseteq hungUp'
    BY Footprint DEF NetFootprint, HangUp
  <2> QED
    BY <2>1, TransportAssumption, CoreStep DEF RequestInv, CoreInv, EventTypes
<1>1. ASSUME NEW f \in Fd, ResetArrives(f)
      PROVE  /\ reset[f] = "coming" /\ UNCHANGED <<peer, hungUp, toServer>>
             /\ reset'[f] = "arrived" => toServer[peer[f]] = << >>
  BY <1>0, <1>1 DEF ResetArrives, CoreInv, NetTypes
<1>2. ASSUME NEW f \in Fd, reset'[f] # "none"
      PROVE  IsOpen(f)' /\ peer'[f] \in hungUp' /\ peer'[f] = peer[f]
  BY <1>0, <1>1, <1>2, OpenKept, ResetChange DEF Resets, IsOpen
<1>3. ASSUME NEW f \in Fd, reset'[f] = "arrived"
      PROVE  toServer'[peer'[f]] = << >>
  <2>1. CASE reset[f] = "arrived"
    <3>1. peer'[f] = peer[f] /\ peer[f] \in hungUp /\ peer[f] \in Client
      BY <1>0, <1>2, <1>3, <2>1 DEF Resets, CoreInv, NetTypes
    <3> QED
      BY <1>0, <2>1, <3>1, NothingAfterHangUp DEF Resets
  <2>2. CASE ResetArrives(f)
    BY <1>1, <1>3, <2>2
  <2> QED
    BY <1>0, <1>3, <2>1, <2>2, ResetChange
<1>4. ASSUME pc' \in {"forward", "respond"}, reset'[Event'] = "arrived"
      PROVE  In(ready', Event')
  <2>1. ASSUME NEW fd \in Fd, Handle(fd)
        PROVE  FALSE
    <3>1. toServer[peer[fd]] # << >> /\ UNCHANGED <<batch, reset>> /\ Event = fd
      BY <1>0, <2>1, HandleFacts
    <3>2. Event' = fd /\ reset[fd] = "arrived"
      BY <1>4, <3>1 DEF Event
    <3> QED
      BY <3>1, <3>2 DEF Resets
  <2>2. pc \in {"forward", "respond"} /\ ~SendResponse /\ ~Stop
    BY <1>4, <2>1, Footprint DEF ThreadFootprint, Accept, EstablishConnection, EstablishFails,
       ForwardChat, ForwardFails, SendResponse, Stop
  <2>3. ~EpollWait /\ \A fd \in Fd : ~CloseConnection(fd)
    BY <2>2 DEF EpollWait, CloseConnection, Handling
  <2>4. batch' = batch /\ Event' = Event
    <3>1. batch' = batch
      BY <2>2, <2>3, Footprint DEF ThreadFootprint, AcceptFails, Handling, EstablishConnection,
         EstablishFails
    <3> QED
      BY <3>1 DEF Event
  <2>5. Event \in Fd /\ Event \in interest
    <3>1. Event \in Fd /\ batch # << >>
      BY <1>0, <2>2, OpenPeer DEF CoreInv, Thread
    <3>2. Event = batch[1] /\ 1 \in DOMAIN batch
      BY <1>0, <3>1, TailElements DEF Event
    <3> QED
      BY <1>0, <3>1, <3>2 DEF Entries, In, Watched
  <2>6. CASE ResetArrives(Event)
    BY <1>0, <2>3, <2>4, <2>5, <2>6, ReadyChange
  <2>7. CASE reset[Event] = "arrived"
    <3>1. In(ready, Event)
      BY <2>2, <2>7 DEF Resets
    <3> QED
      BY <1>0, <2>2, <2>3, <2>4, <3>1, ReadyChange
  <2> QED
    BY <1>0, <1>4, <2>4, <2>5, <2>6, <2>7, ResetChange
<1> QED
  BY <1>2, <1>3, <1>4 DEF Resets

\* ... a hang-up that nothing announces stays so until its reset arrives ...
LEMMA UnannouncedStep ==
  ASSUME RequestInv, Registered, Entries, Resets, [Next]_vars, NEW f \in interest,
         f \in interest', IsUnannounced(f), ~EpollWait
  PROVE  In(ready', f) \/ IsUnannounced(f)'
<1>1. CoreInv /\ f \in Fd /\ IsEstablished(f) /\ IsOpen(f) /\ f # Listener /\ peer[f] \in Client
  BY WatchedFacts DEF RequestInv
<1>2. toServer[peer[f]] = << >> /\ reset[f] \in {"coming", "behind"} /\ peer[f] \in hungUp
  BY <1>1 DEF IsUnannounced, Resets
<1>3. ~Stop /\ ~CloseConnection(f)
  BY DEF Stop, CloseConnection
<1>4. peer'[f] = peer[f] /\ toServer'[peer[f]] = << >>
  BY <1>1, <1>2, <1>3, PeerKept, NothingAfterHangUp
<1>5. reset'[f] = reset[f] \/ ResetArrives(f)
  <2>1. f # newFd
    BY <1>1 DEF CoreInv, Ownership
  <2> QED
    BY <1>1, <1>2, <1>3, <2>1, ResetChange
<1>6. CASE ResetArrives(f)
  BY <1>1, <1>6, ReadyChange
<1>7. CASE reset'[f] = reset[f]
  BY <1>1, <1>2, <1>4, <1>7 DEF IsUnannounced
<1> QED
  BY <1>5, <1>6, <1>7

\* ... and a descriptor with something to receive on one of the two lists.
LEMMA WokenStep ==
  ASSUME RequestInv, Registered, Entries, Resets, Woken, [Next]_vars
  PROVE  Woken'
<1>0. /\ batch \in Seq(Fd \cup {Listener}) /\ Listener \notin Fd /\ CoreInv
      /\ CoreInv' /\ Registered'
  BY TransportAssumption, CoreStep, RegisteredStep DEF RequestInv, CoreInv, EventTypes
<1> SUFFICES ASSUME NEW f, f \in Watched', HasInput(f)'
             PROVE  In(ready', f) \/ In(batch', f) \/ IsUnannounced(f)'
  BY DEF Woken
<1>1. CASE EpollWait
  <2>1. HasInput(f) /\ f \in Watched /\ batch = << >>
    BY <1>0, <1>1, EpollFacts DEF HasInput, IsOpen, Watched
  <2>2. In(ready, f) \/ IsUnannounced(f)
    BY <2>1 DEF Woken, In
  <2>3. IsUnannounced(f) => IsUnannounced(f)'
    BY <1>0, <1>1, EpollFacts DEF IsUnannounced
  <2> QED
    BY <1>0, <1>1, <2>1, <2>2, <2>3, EpollFacts
<1>2. CASE Stop
  BY <1>2 DEF Stop, HasInput, Watched
<1>3. CASE EstablishConnection /\ f = newFd
  <2>1. f \in Fd /\ f # Listener
    BY <1>0, <1>3, EstablishFacts
  <2>2. HasInput(f)
    BY <1>3, <2>1 DEF EstablishConnection, HasInput, IsOpen
  <2>3. ~EpollWait
    BY <1>3 DEF EstablishConnection, EpollWait
  <2> QED
    BY <1>0, <1>3, <2>2, <2>3, ReadyChange
<1>4. CASE ~EpollWait /\ ~Stop /\ ~(EstablishConnection /\ f = newFd)
  <2>1. f \in Watched /\ \A fd \in Fd : CloseConnection(fd) => f # fd
    <3>1. \A fd \in Fd : CloseConnection(fd) => interest' = interest \ {fd}
      BY DEF CloseConnection
    <3> QED
      BY <1>0, <1>4, <3>1, InterestChange DEF Watched
  <2>2. CASE ~HasInput(f)
    BY <1>0, <1>4, <2>1, <2>2, InputGained, ReadyChange
  <2>3. CASE In(ready, f)
    BY <1>0, <1>4, <2>1, <2>3, ReadyChange
  <2>4. CASE In(batch, f) /\ ~In(ready, f)
    <3>1. f # Listener /\ f \in interest
      BY <2>1, <2>4 DEF Entries, Watched
    <3>2. CASE batch' = batch
      BY <2>4, <3>2
    <3>3. CASE /\ batch # << >> /\ batch' = Tail(batch)
               /\ \/ AcceptFails \/ EstablishConnection \/ EstablishFails \/ SendResponse
                  \/ \E fd \in Fd : CloseConnection(fd)
      <4>1. Event = batch[1] /\ (In(batch', f) \/ f = batch[1])
        BY <1>0, <2>4, <3>3, RestFacts DEF Event
      <4>2. CASE f = Event
        <5>1. ~AcceptFails /\ ~EstablishConnection /\ ~EstablishFails
          BY <3>1, <4>1, <4>2 DEF AcceptFails, Handling, EstablishConnection, EstablishFails, Entries
        <5>2. \A fd \in Fd : ~CloseConnection(fd)
          BY <2>1, <4>2 DEF CloseConnection, Handling
        <5>3. SendResponse
          BY <3>3, <5>1, <5>2
        <5>4. f \in Fd /\ peer[f] \in Client
          BY <1>0, <3>1, WatchedFacts
        <5>5. toServer[peer[f]] = << >>
          BY <4>2, <5>3, <5>4 DEF RequestInv, Requesting, Handled, SendResponse
        <5>6. UNCHANGED <<peer, toServer, hungUp>>
          BY <5>3 DEF SendResponse
        <5>7. peer[f] \in hungUp
          BY <1>0, <5>4, <5>5, <5>6 DEF HasInput
        <5>8. SendTo(f, response) /\ pc = "respond"
          BY <4>2, <5>3 DEF SendResponse
        <5>9. reset'[f] \in {"coming", "behind"}
          <6>1. reset' = Resetting({f})
            BY <5>7, <5>8 DEF SendTo
          <6>2. reset[f] # "arrived"
            BY <2>4, <4>2, <5>8 DEF Resets
          <6> QED
            BY <1>0, <5>4, <6>1, <6>2 DEF Resetting, CoreInv, NetTypes
        <5> QED
          BY <3>1, <5>5, <5>6, <5>9 DEF IsUnannounced
      <4> QED
        BY <4>1, <4>2
    <3> QED
      BY <1>0, <1>4, <3>2, <3>3, BatchChange
  <2>5. CASE IsUnannounced(f)
    <3>1. f \in interest /\ f \in interest'
      BY <2>1, <2>5 DEF IsUnannounced, Watched
    <3> QED
      BY <1>4, <2>5, <3>1, UnannouncedStep
  <2> QED
    BY <2>1, <2>2, <2>3, <2>4, <2>5 DEF Woken
<1> QED
  BY <1>1, <1>2, <1>3, <1>4

\* The inductive invariant of the event loop.
THEOREM EventInvariant == Spec => [](RequestInv /\ EventInv)
<1>1. Init => EventInv
  BY DEF Init, TransportInit, ServerInit, SessionInit, EmptyMap, EventInv, Registered, Entries, Fresh,
     Resets, Woken, In, Distinct, HasInput, Watched
<1>2. RequestInv /\ EventInv /\ [Next]_vars => EventInv'
  BY RegisteredStep, EntriesStep, FreshStep, ResetsStep, WokenStep DEF EventInv, RequestInv
<1> QED
  BY <1>1, <1>2, RequestInvariant, PTL DEF Spec

-----------------------------------------------------------------------------
(* The theorems *)

\* No event outlives its descriptor, whatever the handlers of earlier events of the
\* batch closed, accepted or sent, and the receive it leads to does not block.
THEOREM EventsAlwaysFresh == Spec => []EventsAreFresh
<1>1. ASSUME RequestInv, EventInv
      PROVE  EventsAreFresh
  <2>0. batch \in Seq(Fd \cup {Listener})
    BY <1>1 DEF RequestInv, CoreInv, EventTypes
  <2>1. \A i, j \in DOMAIN batch : i # j => batch[i] # batch[j]
    BY <1>1 DEF EventInv, Entries, Distinct
  <2>2. ASSUME NEW k \in DOMAIN batch, pc = "loop" \/ k # 1
        PROVE  HasInput(batch[k]) /\ (batch[k] # Listener => IsEstablished(batch[k]))
    <3>1. HasInput(batch[k])
      BY <1>1, <2>2 DEF EventInv, Fresh
    <3>2. batch[k] \in Watched
      BY <1>1 DEF EventInv, Entries, In
    <3>3. batch[k] \in interest => IsEstablished(batch[k])
      BY <1>1, WatchedFacts DEF EventInv, RequestInv
    <3> QED
      BY <3>1, <3>2, <3>3 DEF Watched
  <2>3. ASSUME NEW i \in DOMAIN EventsAhead
        PROVE  \E k \in DOMAIN batch : EventsAhead[i] = batch[k] /\ (pc = "loop" \/ k # 1)
    <3>1. CASE pc = "loop"
      BY <3>1 DEF EventsAhead
    <3>2. CASE pc # "loop"
      <4> DEFINE rest == SubSeq(batch, 2, Len(batch))
      <4>1. i \in DOMAIN rest /\ EventsAhead[i] = rest[i]
        BY <3>2 DEF EventsAhead
      <4>2. \A j \in DOMAIN rest : j + 1 \in DOMAIN batch /\ rest[j] = batch[j + 1] /\ j + 1 # 1
        BY <2>0
      <4> HIDE DEF rest
      <4> QED
        BY <4>1, <4>2
    <3> QED
      BY <3>1, <3>2
  <2> QED
    BY <2>1, <2>2, <2>3 DEF EventsAreFresh
<1> QED
  BY <1>1, EventInvariant, PTL

\* Edge-triggered registration with one receive for each event loses one input only:
\* a hang-up whose reset has come behind a request, or is still to come.
THEOREM NoWakeupLost == Spec => []NoLostWakeup
<1>1. EventInv => NoLostWakeup
  BY DEF EventInv, Woken, Watched, NoLostWakeup, In, InReady
<1> QED
  BY <1>1, EventInvariant, PTL

\* Once the server has nothing left to do, only the login of a client whose
\* connection was reset behind a request is left: a session with a login is
\* registered, so any other end of its stream would still be in the ready list.
THEOREM LoginsAlwaysEndUnlessReset == Spec => []LoginsEndUnlessReset
<1>1. ASSUME RequestInv, EventInv
      PROVE  LoginsEndUnlessReset
  <2> SUFFICES ASSUME Quiescent, NEW fd \in DOMAIN sessions, IsAuthenticated(fd),
                      peer[fd] \in hungUp, reset[fd] # "behind"
               PROVE  FALSE
    BY DEF LoginsEndUnlessReset
  <2>1. fd \in interest /\ fd \in Fd /\ IsOpen(fd) /\ fd # Listener
    BY <1>1, WatchedFacts DEF EventInv, Registered, RequestInv
  <2>2. HasInput(fd)
    BY <2>1 DEF HasInput
  <2>3. In(ready, fd)
    <3>1. ~IsUnannounced(fd)
      BY <2>1 DEF IsUnannounced, Quiescent
    <3> QED
      BY <1>1, <2>1, <2>2, <3>1 DEF EventInv, Woken, Watched, Quiescent, In
  <2> DEFINE T == {f \in Fd \cup {Listener} : HasInput(f)}
  <2>4. fd \in T
    BY <2>1, <2>2
  <2>5. Reportable = Filter(ready, T) /\ ready \in Seq(Fd \cup {Listener})
    BY <1>1 DEF Reportable, RequestInv, CoreInv, EventTypes
  <2> HIDE DEF T
  <2>6. In(Filter(ready, T), fd)
    BY <2>3, <2>4, <2>5, FilteredFacts
  <2> QED
    BY <2>5, <2>6 DEF Quiescent, In
<1> QED
  BY <1>1, EventInvariant, PTL
=============================================================================
