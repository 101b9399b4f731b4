------------------------ MODULE SecureMessagingProofs ------------------------
(***************************************************************************)
(* What holds of the composed system for every number of clients,          *)
(* descriptors and users and every bound: the types, and who owns which    *)
(* descriptor.  Before that, what Filter returns for every sequence and    *)
(* every set: the induction there is by the least counterexample, as a set *)
(* of numbers that is not empty has a least element.                       *)
(***************************************************************************)
EXTENDS SecureMessaging, FiniteSetTheorems, WellFoundedInduction, TLAPS

-----------------------------------------------------------------------------
(* Least elements *)

\* A set of natural numbers that is not empty has a least element.
LEMMA LeastElement ==
  ASSUME NEW T, T \subseteq Nat, T # {}
  PROVE  \E x \in T : \A y \in T : x <= y
<1>1. IsWellFoundedOn({ss \in Nat \X Nat : ss[1] < ss[2]}, Nat)
  BY NatLessThanWellFounded DEF OpToRel
<1>2. PICK x \in T : \A y \in T : <<y, x>> \notin {ss \in Nat \X Nat : ss[1] < ss[2]}
  BY <1>1, WFMin
<1>3. \A y \in T : ~(y < x)
  BY <1>2
<1> QED
  BY <1>3

-----------------------------------------------------------------------------
(* The recursive function *)

\* k is the function Kept(s, T) on the first n elements of s.
KeptUpTo(k, s, T, n) ==
  k = [i \in 0..n |-> IF i = 0 THEN << >>
                      ELSE IF s[i] \in T THEN Append(k[i - 1], s[i]) ELSE k[i - 1]]

\* The equation has a solution, so Kept(s, T) satisfies it.
LEMMA KeptEquation ==
  ASSUME NEW S, NEW s \in Seq(S), NEW T
  PROVE  KeptUpTo(Kept(s, T), s, T, Len(s))
<1> DEFINE W == {n \in Nat : ~ \E k : KeptUpTo(k, s, T, n)}
<1>1. W = {}
  <2> SUFFICES ASSUME W # {} PROVE FALSE
    OBVIOUS
  <2>1. PICK n \in W : \A m \in W : n <= m
    BY LeastElement
  <2>2. n # 0
    <3>1. KeptUpTo([i \in 0..0 |-> << >>], s, T, 0)
      BY DEF KeptUpTo
    <3> QED
      BY <3>1
  <2>3. n - 1 \in Nat /\ n - 1 \notin W
    BY <2>1, <2>2
  <2>4. PICK k : KeptUpTo(k, s, T, n - 1)
    BY <2>3
  <2> DEFINE last == IF s[n] \in T THEN Append(k[n - 1], s[n]) ELSE k[n - 1]
             longer == [i \in 0..n |-> IF i = n THEN last ELSE k[i]]
  <2>5. KeptUpTo(longer, s, T, n)
    <3>1. \A i \in 0..n - 1 : k[i] = IF i = 0 THEN << >>
                                     ELSE IF s[i] \in T THEN Append(k[i - 1], s[i]) ELSE k[i - 1]
      BY <2>4 DEF KeptUpTo
    <3> HIDE DEF last
    <3>2. \A i \in 0..n - 1 : longer[i] = k[i]
      BY <2>3
    <3>3. longer[n] = last
      BY <2>3
    <3>4. ASSUME NEW i \in 0..n
          PROVE  longer[i] = IF i = 0 THEN << >>
                             ELSE IF s[i] \in T THEN Append(longer[i - 1], s[i]) ELSE longer[i - 1]
      <4>1. CASE i = n
        BY <2>2, <2>3, <3>2, <3>3, <4>1 DEF last
      <4>2. CASE i \in 0..n - 1
        BY <2>3, <3>1, <3>2, <4>2
      <4> QED
        BY <2>3, <4>1, <4>2
    <3> QED
      BY <3>4 DEF KeptUpTo
  <2> QED
    BY <2>1, <2>5
<1>2. \A n \in Nat : \E k : KeptUpTo(k, s, T, n)
  BY <1>1
<1>3. \E k : KeptUpTo(k, s, T, Len(s))
  BY <1>2
<1> QED
  BY <1>3 DEF Kept, KeptUpTo

-----------------------------------------------------------------------------
(* The filtered sequence *)

\* r consists of the elements of s that are in T: at tells where each one is.
Embeds(at, r, s, T, n) ==
  /\ at \in [1..Len(r) -> 1..n]
  /\ \A j \in 1..Len(r) : r[j] = s[at[j]] /\ r[j] \in T
  /\ \A j, k \in 1..Len(r) : j < k => at[j] < at[k]
  /\ \A i \in 1..n : s[i] \in T => \E j \in 1..Len(r) : at[j] = i

\* Filter(s, T) is a subsequence of s made of its elements in T, all of them.
LEMMA FilterEmbeds ==
  ASSUME NEW S, NEW s \in Seq(S), NEW T
  PROVE  /\ Filter(s, T) \in Seq(S)
         /\ \E at : Embeds(at, Filter(s, T), s, T, Len(s))
<1> DEFINE kept == Kept(s, T)
           P(n) == kept[n] \in Seq(S) /\ \E at : Embeds(at, kept[n], s, T, n)
           W == {n \in Nat : n <= Len(s) /\ ~P(n)}
<1>1. \A i \in 0..Len(s) :
        kept[i] = IF i = 0 THEN << >>
                  ELSE IF s[i] \in T THEN Append(kept[i - 1], s[i]) ELSE kept[i - 1]
  <2>1. KeptUpTo(kept, s, T, Len(s))
    BY KeptEquation
  <2> HIDE DEF kept
  <2> QED
    BY <2>1 DEF KeptUpTo
<1> HIDE DEF kept
<1>2. W = {}
  <2> SUFFICES ASSUME W # {} PROVE FALSE
    OBVIOUS
  <2>1. PICK n \in W : \A m \in W : n <= m
    BY LeastElement
  <2>2. n # 0
    <3> SUFFICES P(0)
      BY <2>1
    <3>1. kept[0] = << >>
      BY <1>1
    <3>2. Embeds([j \in {} |-> 0], << >>, s, T, 0)
      BY DEF Embeds
    <3> QED
      BY <3>1, <3>2
  <2>3. n \in 1..Len(s) /\ n - 1 \in Nat /\ n - 1 \notin W
    BY <2>1, <2>2
  <2>4. P(n - 1)
    BY <2>3
  <2> DEFINE r == kept[n - 1]
  <2>5. r \in Seq(S) /\ s[n] \in S
    BY <2>3, <2>4
  <2>6. PICK at : Embeds(at, r, s, T, n - 1)
    BY <2>4
  <2>7. CASE s[n] \in T
    <3> DEFINE at2 == [j \in 1..Len(r) + 1 |-> IF j = Len(r) + 1 THEN n ELSE at[j]]
               r2 == Append(r, s[n])
    <3>1. kept[n] = r2
      <4>1. n \in 0..Len(s) /\ n # 0
        BY <2>3
      <4>2. kept[n] = IF s[n] \in T THEN Append(kept[n - 1], s[n]) ELSE kept[n - 1]
        BY <1>1, <4>1
      <4> QED
        BY <2>7, <4>2
    <3>2. /\ r2 \in Seq(S) /\ Len(r2) = Len(r) + 1
          /\ \A j \in 1..Len(r) : r2[j] = r[j]
          /\ r2[Len(r) + 1] = s[n]
          /\ Len(r) \in Nat
      BY <2>5
    <3> HIDE DEF r2, r
    <3>3. Embeds(at2, r2, s, T, n)
      <4>1. at2 \in [1..Len(r2) -> 1..n]
        BY <2>3, <2>6, <3>2 DEF Embeds
      <4>2. \A j \in 1..Len(r2) : r2[j] = s[at2[j]] /\ r2[j] \in T
        BY <2>6, <2>7, <3>2 DEF Embeds
      <4>3. ASSUME NEW j \in 1..Len(r2), NEW k \in 1..Len(r2), j < k
            PROVE  at2[j] < at2[k]
        <5>1. j \in 1..Len(r) /\ at2[j] = at[j] /\ at[j] \in 1..n - 1
          <6>1. j \in 1..Len(r) /\ j # Len(r) + 1 /\ j \in 1..Len(r) + 1
            BY <3>2, <4>3
          <6>2. at \in [1..Len(r) -> 1..n - 1]
            BY <2>6 DEF Embeds
          <6> QED
            BY <6>1, <6>2
        <5>2. CASE k = Len(r) + 1
          BY <2>3, <3>2, <5>1, <5>2
        <5>3. CASE k \in 1..Len(r)
          BY <2>6, <4>3, <5>1, <5>3, <3>2 DEF Embeds
        <5> QED
          BY <3>2, <5>2, <5>3
      <4>4. ASSUME NEW i \in 1..n, s[i] \in T
            PROVE  \E j \in 1..Len(r2) : at2[j] = i
        <5>1. CASE i = n
          <6>1. Len(r) + 1 \in 1..Len(r2) /\ at2[Len(r) + 1] = n
            BY <3>2
          <6> QED
            BY <5>1, <6>1
        <5>2. CASE i \in 1..n - 1
          <6>1. PICK j \in 1..Len(r) : at[j] = i
            BY <2>6, <4>4, <5>2 DEF Embeds
          <6>2. j \in 1..Len(r2) /\ at2[j] = i
            BY <3>2, <6>1
          <6> QED
            BY <6>2
        <5> QED
          BY <2>3, <5>1, <5>2
      <4> QED
        BY <4>1, <4>2, <4>3, <4>4 DEF Embeds
    <3> QED
      BY <2>1, <3>1, <3>2, <3>3
  <2>8. CASE s[n] \notin T
    <3>1. kept[n] = r
      BY <1>1, <2>3, <2>8
    <3>2. Embeds(at, r, s, T, n)
      BY <2>3, <2>5, <2>6, <2>8 DEF Embeds
    <3> QED
      BY <2>1, <2>5, <3>1, <3>2
  <2> QED
    BY <2>7, <2>8
<1>3. P(Len(s))
  BY <1>2
<1> QED
  BY <1>3 DEF Filter, kept

\* What is in s and in T, and nothing else, is in the result.
LEMMA FilterElements ==
  ASSUME NEW S, NEW s \in Seq(S), NEW T
  PROVE  /\ \A j \in DOMAIN Filter(s, T) :
              Filter(s, T)[j] \in T /\ \E i \in DOMAIN s : s[i] = Filter(s, T)[j]
         /\ \A i \in DOMAIN s :
              s[i] \in T => \E j \in DOMAIN Filter(s, T) : Filter(s, T)[j] = s[i]
<1> DEFINE r == Filter(s, T)
<1>1. r \in Seq(S) /\ \E at : Embeds(at, r, s, T, Len(s))
  BY FilterEmbeds
<1> HIDE DEF r
<1>2. PICK at : Embeds(at, r, s, T, Len(s))
  BY <1>1
<1>3. DOMAIN r = 1..Len(r) /\ DOMAIN s = 1..Len(s)
  BY <1>1
<1>4. ASSUME NEW j \in DOMAIN r
      PROVE  r[j] \in T /\ \E i \in DOMAIN s : s[i] = r[j]
  BY <1>2, <1>3, <1>4 DEF Embeds
<1>5. ASSUME NEW i \in DOMAIN s, s[i] \in T
      PROVE  \E j \in DOMAIN r : r[j] = s[i]
  BY <1>2, <1>3, <1>5, SMTT(30) DEF Embeds
<1> QED
  BY <1>4, <1>5 DEF r

\* Two elements of the result come from two places of s, in the same order.
LEMMA FilterKeepsOrder ==
  ASSUME NEW S, NEW s \in Seq(S), NEW T
  PROVE  \A j, k \in DOMAIN Filter(s, T) :
           j < k => \E a, b \in DOMAIN s :
                      a < b /\ s[a] = Filter(s, T)[j] /\ s[b] = Filter(s, T)[k]
<1> DEFINE r == Filter(s, T)
<1>1. r \in Seq(S) /\ \E at : Embeds(at, r, s, T, Len(s))
  BY FilterEmbeds
<1> HIDE DEF r
<1>2. PICK at : Embeds(at, r, s, T, Len(s))
  BY <1>1
<1>3. DOMAIN r = 1..Len(r) /\ DOMAIN s = 1..Len(s)
  BY <1>1
<1>4. ASSUME NEW j \in DOMAIN r, NEW k \in DOMAIN r, j < k
      PROVE  \E a, b \in DOMAIN s : a < b /\ s[a] = r[j] /\ s[b] = r[k]
  <2>1. at[j] \in DOMAIN s /\ at[k] \in DOMAIN s /\ at[j] < at[k]
    BY <1>2, <1>3, <1>4 DEF Embeds
  <2>2. s[at[j]] = r[j] /\ s[at[k]] = r[k]
    BY <1>2, <1>3, <1>4 DEF Embeds
  <2> QED
    BY <2>1, <2>2
<1> QED
  BY <1>4 DEF r

\* A sequence without repetitions keeps having none.
LEMMA FilterKeepsDistinct ==
  ASSUME NEW S, NEW s \in Seq(S), NEW T,
         \A i, j \in DOMAIN s : i # j => s[i] # s[j]
  PROVE  \A i, j \in DOMAIN Filter(s, T) : i # j => Filter(s, T)[i] # Filter(s, T)[j]
<1> DEFINE r == Filter(s, T)
<1>1. r \in Seq(S)
  BY FilterEmbeds
<1>2. \A j, k \in DOMAIN r :
        j < k => \E a, b \in DOMAIN s : a < b /\ s[a] = r[j] /\ s[b] = r[k]
  BY FilterKeepsOrder
<1> HIDE DEF r
<1>3. \A j, k \in DOMAIN r : j < k => r[j] # r[k]
  BY <1>2
<1>4. \A i, j \in DOMAIN r : i # j => r[i] # r[j]
  BY <1>1, <1>3
<1> QED
  BY <1>4 DEF r

-----------------------------------------------------------------------------
(* Which actions change which variables *)

Handle(fd) ==
  HandlePing(fd) \/ HandleOther(fd) \/ HandleRegister(fd)
  \/ HandleLogin(fd) \/ HandleSendChat(fd)

Asks(c) == \E r \in Requests(c) : SendRequest(c, r)

\* A variable that changes is changed by one of these actions.
NetFootprint ==
  /\ \/ UNCHANGED peer
     \/ Accept \/ EstablishFails \/ Stop \/ \E fd \in Fd : CloseConnection(fd)
  /\ UNCHANGED hungUp \/ \E c \in Client : HangUp(c)
  /\ \/ UNCHANGED reset
     \/ EstablishConnection \/ EstablishFails \/ ForwardChat \/ SendResponse \/ Stop
     \/ \E fd \in Fd : CloseConnection(fd) \/ ResetArrives(fd)
     \/ \E c \in Client : HangUp(c)
  /\ UNCHANGED acceptQ \/ Accept \/ Stop \/ \E c \in Client : Connect(c)
  /\ \/ UNCHANGED toServer
     \/ \E fd \in Fd : Handle(fd)
     \/ \E c \in Client : Asks(c)
  /\ \/ UNCHANGED toClient
     \/ EstablishConnection \/ ForwardChat \/ SendResponse
     \/ \E c \in Client : Connected(c) \/ GetResponse(c) \/ HangUp(c)
  /\ \/ UNCHANGED interest
     \/ EstablishConnection \/ Stop \/ \E fd \in Fd : CloseConnection(fd)
  /\ \/ UNCHANGED ready
     \/ EpollWait \/ EstablishConnection \/ Stop
     \/ \E fd \in Fd : CloseConnection(fd) \/ ResetArrives(fd)
     \/ \E c \in Client : Connect(c) \/ Asks(c) \/ HangUp(c)

ThreadFootprint ==
  /\ \/ UNCHANGED pc
     \/ Accept \/ EstablishConnection \/ EstablishFails \/ ForwardChat \/ ForwardFails
     \/ SendResponse \/ Stop \/ \E fd \in Fd : Handle(fd)
  /\ \/ UNCHANGED batch
     \/ EpollWait \/ AcceptFails \/ EstablishConnection \/ EstablishFails
     \/ SendResponse \/ Stop \/ \E fd \in Fd : CloseConnection(fd)
  /\ \/ UNCHANGED newFd
     \/ Accept \/ EstablishConnection \/ EstablishFails \/ Stop
  /\ UNCHANGED request \/ SendResponse \/ Stop \/ \E fd \in Fd : Handle(fd)
  /\ \/ UNCHANGED response
     \/ ForwardChat \/ ForwardFails \/ SendResponse \/ Stop \/ \E fd \in Fd : Handle(fd)

TableFootprint ==
  /\ \/ UNCHANGED sessionVars
     \/ EstablishConnection \/ Stop
     \/ \E fd \in Fd : CloseConnection(fd) \/ HandleLogin(fd)
  /\ UNCHANGED registryVars \/ Stop \/ \E fd \in Fd : HandleRegister(fd)
  /\ UNCHANGED logins \/ \E fd \in Fd : HandleLogin(fd)

ClientFootprint ==
  /\ UNCHANGED cstate \/ \E c \in Client : Connect(c) \/ Connected(c) \/ ConnectFails(c)
  /\ \/ UNCHANGED pending
     \/ \E c \in Client : Asks(c) \/ GetResponse(c) \/ Disconnected(c) \/ HangUp(c)
  /\ UNCHANGED inbox \/ \E c \in Client : GetResponse(c) \/ GetUnread(c) \/ HangUp(c)
  /\ UNCHANGED chats \/ \E c \in Client : Asks(c)

\* Which they are, in one place, so that the proofs below need look only at them.
LEMMA Footprint ==
  ASSUME [Next]_vars
  PROVE  NetFootprint /\ ThreadFootprint /\ TableFootprint /\ ClientFootprint
<1> USE DEF Handle, Asks, NetFootprint, ThreadFootprint, TableFootprint, ClientFootprint,
        netVars, serverVars, threadVars, sessionVars, registryVars, clientVars
<1>1. CASE ServerStep
  <2> USE <1>1 DEF ServerStep, HandleEvents, EpollWait, Accept, AcceptFails,
      EstablishConnection, EstablishFails, CloseConnection, Receive, HandlePing, HandleOther,
      HandleRegister, HandleLogin, HandleSendChat, ForwardChat, ForwardFails, SendResponse,
      SendTo, EndSession
  <2>1. NetFootprint
    BY ZenonT(60)
  <2>2. ThreadFootprint
    BY ZenonT(60)
  <2>3. TableFootprint
    OBVIOUS
  <2>4. ClientFootprint
    OBVIOUS
  <2> QED
    BY <2>1, <2>2, <2>3, <2>4
<1>2. CASE Stop /\ UNCHANGED clientVars
  BY <1>2 DEF Stop
<1>3. ASSUME NEW c \in Client, UserAction(c) \/ ClientAction(c)
      PROVE  NetFootprint /\ ThreadFootprint /\ TableFootprint /\ ClientFootprint
  <2> USE <1>3 DEF UserAction, ClientAction, Connect, SendRequest, GetUnread, HangUp,
      Connected, ConnectFails, GetResponse, Disconnected
  <2>1. NetFootprint
    OBVIOUS
  <2>2. ThreadFootprint /\ TableFootprint
    OBVIOUS
  <2>3. ClientFootprint
    OBVIOUS
  <2> QED
    BY <2>1, <2>2, <2>3
<1>4. ASSUME NEW fd \in Fd, NetworkStep(fd)
      PROVE  NetFootprint /\ ThreadFootprint /\ TableFootprint /\ ClientFootprint
  BY <1>4 DEF NetworkStep, ResetArrives
<1>5. CASE UNCHANGED vars
  BY <1>5 DEF vars
<1> QED
  BY <1>1, <1>2, <1>3, <1>4, <1>5 DEF Next
-----------------------------------------------------------------------------
(* The inductive invariant of the core *)

Message == Response \cup ReceiveChat \cup {Key}

\* The variables have their types, as functions where they are functions.
NetTypes ==
  /\ peer \in [Fd -> Client \cup {NoClient}]
  /\ hungUp \subseteq Client
  /\ reset \in [Fd -> {"none", "coming", "arrived", "behind"}]
  /\ acceptQ \in Seq(Client) /\ Len(acceptQ) <= Backlog
  /\ toServer \in [Client -> Seq(Request)]
  /\ toClient \in [Client -> Seq(Message)]
  /\ interest \subseteq Fd

EventTypes ==
  /\ ready \in Seq(Fd \cup {Listener})
  /\ batch \in Seq(Fd \cup {Listener}) /\ Len(batch) <= MaxEvents

TableTypes ==
  /\ SessionTypeOK /\ NamedIffAuthenticated
  /\ Registry!AccountTypeOK
  /\ logins \subseteq Client \X User

ClientTypes ==
  /\ inbox \in [Client -> Seq(ReceiveChat)]
  /\ pending \in [Client -> Request \cup {Nothing}]
  /\ cstate \in [Client -> {"off", "connecting", "up", "failed"}]
  /\ chats \in [Client -> 0..MaxChats]

\* What the thread holds where it is: the event it handles is for a session,
\* a chat it is about to forward has a sender and a recipient, and the response
\* it is about to send is to the request it received.
Thread ==
  /\ pc \in {"loop", "establish", "forward", "respond", "down"}
  /\ IF pc = "establish" THEN newFd \in Fd ELSE newFd = Listener
  /\ pc \in {"establish", "forward", "respond"} => batch # << >>
  /\ IF pc \in {"forward", "respond"}
     THEN IsEstablished(Event) /\ request \in Request
     ELSE request = Nothing
  /\ pc = "forward" => request.type = "SendChat" /\ MayForward(Event, request.to)
  /\ IF pc = "respond"
     THEN response \in Response /\ response.re = request
     ELSE response = Nothing

\* A descriptor is open for exactly one session or for the key exchange, and
\* leads to a client no other descriptor and no waiting connection leads to.
Ownership ==
  /\ \A fd \in Fd : IsOpen(fd) <=> IsEstablished(fd) \/ fd = newFd
  /\ ~IsEstablished(newFd)
  /\ \A f, g \in Fd : IsOpen(f) /\ peer[f] = peer[g] => f = g
  /\ \A i, j \in DOMAIN acceptQ : acceptQ[i] = acceptQ[j] => i = j
  /\ \A i \in DOMAIN acceptQ, fd \in Fd : peer[fd] # acceptQ[i]
  /\ \A c \in Client : cstate[c] = "off" => ~Linked(c)

\* What is on its way to a client fits, and there is nothing for a client whose
\* key exchange has not ended, so that the key fits too.
Room ==
  /\ \A c \in Client : Len(toClient[c]) <= Cap
  /\ \A c \in Client : cstate[c] = "off" => toClient[c] = << >>
  /\ \A i \in DOMAIN acceptQ : toClient[acceptQ[i]] = << >>
  /\ newFd # Listener => toClient[peer[newFd]] = << >>

CoreInv ==
  /\ NetTypes /\ EventTypes /\ TableTypes /\ ClientTypes
  /\ Thread /\ Ownership /\ Room

-----------------------------------------------------------------------------
(* The messages *)

\* What tells a message of one kind from one of another, and from none.
LEMMA MessageTypes ==
  /\ \A m \in Request : m # Nothing
  /\ \A m \in Response : m.type \in {"Success", "Failure"} /\ m.re \in Request /\ m # Nothing
  /\ \A m \in ReceiveChat : m.type = "ReceiveChat"
  /\ Key.type = "Key"
BY DEF Request, Response, ReceiveChat, Key, Nothing

\* A descriptor with a session leads to a client.
LEMMA OpenPeer ==
  ASSUME NetTypes, Ownership, TableTypes, NEW fd, IsEstablished(fd)
  PROVE  fd \in Fd /\ IsOpen(fd) /\ peer[fd] \in Client
BY DEF NetTypes, Ownership, TableTypes, SessionTypeOK, IsEstablished, IsOpen

\* What every handler of a request does to the thread and the sockets.
LEMMA HandleFacts ==
  ASSUME CoreInv, NEW fd \in Fd, Handle(fd)
  PROVE  /\ pc = "loop" /\ batch # << >> /\ Event = fd
         /\ IsEstablished(fd) /\ IsOpen(fd) /\ peer[fd] \in Client
         /\ toServer[peer[fd]] # << >>
         /\ request' = Head(toServer[peer[fd]]) /\ request' \in Request
         /\ toServer' = [toServer EXCEPT ![peer[fd]] = Tail(@)]
         /\ UNCHANGED <<peer, hungUp, reset, acceptQ, toClient, interest, ready, batch, newFd>>
         /\ \/ pc' = "respond" /\ response' \in Response /\ response'.re = request'
            \/ /\ pc' = "forward" /\ request'.type = "SendChat" /\ MayForward(fd, request'.to)
               /\ UNCHANGED <<response, sessionVars>>
<1>1. PICK types : Receive(fd, types)
  BY DEF Handle, HandlePing, HandleOther, HandleRegister, HandleLogin, HandleSendChat
<1>2. /\ pc = "loop" /\ batch # << >> /\ Event = fd /\ IsEstablished(fd)
      /\ toServer[peer[fd]] # << >>
      /\ request' = Head(toServer[peer[fd]])
      /\ toServer' = [toServer EXCEPT ![peer[fd]] = Tail(@)]
      /\ UNCHANGED <<peer, hungUp, reset, acceptQ, toClient, interest, ready, batch, newFd>>
  BY <1>1 DEF Receive, Handling
<1>3. IsOpen(fd) /\ peer[fd] \in Client
  BY <1>2, OpenPeer DEF CoreInv
<1>4. request' \in Request
  BY <1>2, <1>3 DEF CoreInv, NetTypes
<1>5. ASSUME NEW answer \in {"Success", "Failure"}, response' = [type |-> answer, re |-> request']
      PROVE  response' \in Response /\ response'.re = request'
  BY <1>4, <1>5 DEF Response
<1>6. CASE HandleSendChat(fd) /\ MayForward(fd, request'.to)
  BY <1>2, <1>3, <1>4, <1>6 DEF HandleSendChat, Receive, sessionVars
<1>7. CASE ~(HandleSendChat(fd) /\ MayForward(fd, request'.to))
  <2>1. /\ pc' = "respond"
        /\ \E answer \in {"Success", "Failure"} : response' = [type |-> answer, re |-> request']
    BY <1>7 DEF Handle, HandlePing, HandleOther, HandleRegister, HandleLogin, HandleSendChat, Return
  <2> QED
    BY <1>2, <1>3, <1>4, <1>5, <2>1
<1> QED
  BY <1>6, <1>7

\* A handler creates and destroys no session.
LEMMA HandleKeepsSessions ==
  ASSUME NEW fd, Handle(fd)
  PROVE  DOMAIN sessions' = DOMAIN sessions
BY DEF Handle, HandlePing, HandleOther, HandleRegister, HandleLogin, HandleSendChat,
   Authenticate, sessionVars

\* The offered requests are requests, and chats are numbered in order.
LEMMA RequestsTypes ==
  ASSUME ClientTypes, NEW c \in Client, NEW r \in Requests(c)
  PROVE  /\ r \in Request
         /\ r.type = "SendChat" =>
              chats[c] < MaxChats /\ r.content = [by |-> c, n |-> chats[c] + 1]
         /\ r.type = "Login" /\ LoginOnce => \A u \in User : <<c, u>> \notin logins
<1>1. r.type = "SendChat" => chats[c] < MaxChats
  BY DEF Requests
<1>2. chats[c] \in 0..MaxChats
  BY DEF ClientTypes
<1>3. CASE r \in [type : {"SendChat"}, to : User, content : {[by |-> c, n |-> chats[c] + 1]}]
  <2>1. [by |-> c, n |-> chats[c] + 1] \in Content
    BY <1>1, <1>2, <1>3, ServerAssumption DEF Content
  <2> QED
    BY <1>1, <1>3, <2>1 DEF Request
<1>4. CASE r \in [type : {"Ping", "Other"}]
              \cup [type : {"Register", "Login"}, username : User, password : Password]
  <2>1. r \in Request /\ r.type # "SendChat"
    BY <1>4 DEF Request
  <2> QED
    BY <2>1 DEF Requests
<1> QED
  BY <1>3, <1>4 DEF Requests

-----------------------------------------------------------------------------
(* Sending *)

\* The ready list only gets descriptors that can be watched.
LEMMA WithEdgeType ==
  ASSUME NetTypes, EventTypes, NEW fds
  PROVE  WithEdge(fds) \in Seq(Fd \cup {Listener})
<1> DEFINE new == {fd \in fds \cap (interest \cup {Listener}) : ~InReady(fd)}
           edge == CHOOSE fd \in new : TRUE
<1>1. new # {} => edge \in Fd \cup {Listener}
  BY DEF NetTypes
<1>2. WithEdge(fds) = IF new = {} THEN ready ELSE Append(ready, edge)
  BY DEF WithEdge
<1> HIDE DEF new, edge
<1> QED
  BY <1>1, <1>2 DEF EventTypes

\* A reset that comes is one of the four.
LEMMA ResettingType ==
  ASSUME NetTypes, NEW fds
  PROVE  Resetting(fds) \in [Fd -> {"none", "coming", "arrived", "behind"}]
BY DEF Resetting, NetTypes

\* A message is appended to what is on its way to the peer, if that still reads,
\* and otherwise makes for a reset.
LEMMA SendFacts ==
  ASSUME NetTypes, NEW fd \in Fd, peer[fd] \in Client, NEW m \in Message,
         SendTo(fd, m)
  PROVE  /\ toClient' \in [Client -> Seq(Message)]
         /\ reset' \in [Fd -> {"none", "coming", "arrived", "behind"}]
         /\ \A c \in Client \ {peer[fd]} : toClient'[c] = toClient[c]
         /\ IF peer[fd] \in hungUp
            THEN UNCHANGED toClient /\ reset' = Resetting({fd})
            ELSE toClient'[peer[fd]] = Append(toClient[peer[fd]], m) /\ UNCHANGED reset
<1>1. CASE peer[fd] \in hungUp
  BY <1>1, ResettingType DEF SendTo, NetTypes
<1>2. CASE peer[fd] \notin hungUp
  <2> DEFINE longer == Append(toClient[peer[fd]], m)
  <2>1. longer \in Seq(Message)
    BY DEF NetTypes
  <2>2. toClient' = [toClient EXCEPT ![peer[fd]] = longer] /\ UNCHANGED reset
    BY <1>2 DEF SendTo
  <2> HIDE DEF longer
  <2>3. /\ toClient' \in [Client -> Seq(Message)]
        /\ \A c \in Client \ {peer[fd]} : toClient'[c] = toClient[c]
        /\ toClient'[peer[fd]] = longer
    BY <2>1, <2>2 DEF NetTypes
  <2> QED
    BY <1>2, <2>2, <2>3 DEF longer, NetTypes
<1> QED
  BY <1>1, <1>2

\* The chat that is forwarded, and the session it is forwarded to.
LEMMA ForwardFacts ==
  ASSUME CoreInv, ForwardChat
  PROVE  /\ pc = "forward" /\ batch # << >> /\ IsEstablished(Event) /\ IsAuthenticated(Event)
         /\ request \in Request /\ request.type = "SendChat"
         /\ IsEstablished(ChannelOf(request.to))
         /\ CanSend(ChannelOf(request.to)) /\ SendTo(ChannelOf(request.to), Forwarded)
         /\ Forwarded \in ReceiveChat
         /\ pc' = "respond" /\ response' \in Response /\ response'.re = request
<1>1. /\ pc = "forward" /\ batch # << >> /\ IsEstablished(Event) /\ IsAuthenticated(Event)
      /\ request \in Request /\ request.type = "SendChat" /\ IsEstablished(userToFd[request.to])
  BY DEF ForwardChat, CoreInv, Thread, MayForward, IsEstablishedUser
<1>2. request.to \in User /\ request.content \in Content
  BY <1>1 DEF Request
<1>3. GetUsername(Event) \in User
  BY <1>1 DEF CoreInv, TableTypes, SessionTypeOK, NamedIffAuthenticated, IsEstablished,
     Session, GetUsername
<1>4. Forwarded \in ReceiveChat
  BY <1>2, <1>3 DEF Forwarded, ReceiveChat
<1>5. Success \in Response /\ Success.re = request /\ Failure \in Response /\ Failure.re = request
  BY <1>1 DEF Success, Failure, Response
<1> QED
  BY <1>1, <1>4, <1>5 DEF ForwardChat, ChannelOf

\* What is true when a response is sent.
LEMMA RespondFacts ==
  ASSUME CoreInv, SendResponse
  PROVE  /\ pc = "respond" /\ batch # << >> /\ IsEstablished(Event)
         /\ request \in Request /\ response \in Response /\ response.re = request
         /\ CanSend(Event) /\ SendTo(Event, response)
BY DEF SendResponse, CoreInv, Thread

\* accept() takes the first waiting client and a descriptor that is not open.
LEMMA AcceptFacts ==
  ASSUME CoreInv, Accept
  PROVE  /\ newFd = Listener /\ newFd' \in Fd /\ ~IsOpen(newFd') /\ ~IsEstablished(newFd')
         /\ acceptQ # << >> /\ Head(acceptQ) = acceptQ[1] /\ Head(acceptQ) \in Client
         /\ 1 \in DOMAIN acceptQ
         /\ peer' = [peer EXCEPT ![newFd'] = Head(acceptQ)]
         /\ \A i \in DOMAIN acceptQ' : i + 1 \in DOMAIN acceptQ /\ acceptQ'[i] = acceptQ[i + 1]
                                     /\ i # 0
<1>1. newFd' \in FreeFds
  <2>1. FreeFds \subseteq Nat /\ FreeFds # {}
    BY TransportAssumption DEF Accept, FreeFds
  <2>2. \E x \in FreeFds : \A y \in FreeFds : x <= y
    BY <2>1, LeastElement
  <2> QED
    BY <2>2 DEF Accept, Min
<1>2. newFd = Listener
  BY DEF Accept, Handling, CoreInv, Thread
<1>3. newFd' \in Fd /\ ~IsOpen(newFd') /\ ~IsEstablished(newFd')
  BY <1>1 DEF FreeFds, CoreInv, Ownership
<1>4. /\ acceptQ # << >> /\ acceptQ \in Seq(Client) /\ acceptQ' = Tail(acceptQ)
      /\ peer' = [peer EXCEPT ![newFd'] = Head(acceptQ)]
  BY DEF Accept, CoreInv, NetTypes
<1>5. \A i \in DOMAIN acceptQ' : i + 1 \in DOMAIN acceptQ /\ acceptQ'[i] = acceptQ[i + 1] /\ i # 0
  BY <1>4
<1> QED
  BY <1>2, <1>3, <1>4, <1>5

\* The key is the first message to a client.
LEMMA EstablishFacts ==
  ASSUME CoreInv, EstablishConnection
  PROVE  /\ newFd \in Fd /\ IsOpen(newFd) /\ peer[newFd] \in Client /\ ~IsEstablished(newFd)
         /\ batch # << >>
         /\ toClient[peer[newFd]] = << >>
         /\ sessions' = Emplace(sessions, newFd, NewSession) /\ userToFd' = userToFd
         /\ \A c \in Client \ {peer[newFd]} : toClient'[c] = toClient[c]
         /\ toClient'[peer[newFd]] = IF peer[newFd] \in hungUp THEN << >> ELSE <<Key>>
         /\ toClient' \in [Client -> Seq(Message)]
         /\ reset' \in [Fd -> {"none", "coming", "arrived", "behind"}]
<1>1. newFd \in Fd /\ batch # << >>
  BY DEF EstablishConnection, CoreInv, Thread
<1>2. IsOpen(newFd) /\ ~IsEstablished(newFd) /\ peer[newFd] \in Client
  BY <1>1 DEF CoreInv, Ownership, NetTypes, IsOpen
<1>3. toClient[peer[newFd]] = << >>
  BY <1>1, TransportAssumption DEF CoreInv, Room
<1>4. Key \in Message
  BY DEF Message
<1>5. /\ \A c \in Client \ {peer[newFd]} : toClient'[c] = toClient[c]
      /\ toClient'[peer[newFd]] = IF peer[newFd] \in hungUp THEN << >> ELSE <<Key>>
      /\ toClient' \in [Client -> Seq(Message)]
      /\ reset' \in [Fd -> {"none", "coming", "arrived", "behind"}]
  <2>1. /\ toClient' \in [Client -> Seq(Message)]
        /\ reset' \in [Fd -> {"none", "coming", "arrived", "behind"}]
        /\ \A c \in Client \ {peer[newFd]} : toClient'[c] = toClient[c]
        /\ peer[newFd] \in hungUp => toClient' = toClient
        /\ peer[newFd] \notin hungUp => toClient'[peer[newFd]] = Append(toClient[peer[newFd]], Key)
    BY <1>1, <1>2, <1>4, SendFacts DEF EstablishConnection, CoreInv
  <2>2. Append(toClient[peer[newFd]], Key) = <<Key>>
    BY <1>3
  <2> QED
    BY <1>3, <2>1, <2>2
<1> QED
  BY <1>1, <1>2, <1>3, <1>5 DEF EstablishConnection, Create

-----------------------------------------------------------------------------
(* The types *)

\* Every step preserves the types of the connections and the queues ...
LEMMA NetTypesStep ==
  ASSUME CoreInv, [Next]_vars
  PROVE  NetTypes'
<1>1. peer' \in [Fd -> Client \cup {NoClient}]
  <2> USE DEF CoreInv, NetTypes
  <2>1. CASE Accept
    <3>1. Head(acceptQ) \in Client
      BY <2>1 DEF Accept
    <3> QED
      BY <2>1, <3>1 DEF Accept
  <2>2. CASE EstablishFails
    BY <2>2 DEF EstablishFails, Close
  <2>3. CASE Stop
    BY <2>3 DEF Stop
  <2>4. ASSUME NEW fd \in Fd, CloseConnection(fd) PROVE peer' \in [Fd -> Client \cup {NoClient}]
    BY <2>4 DEF CloseConnection, EndSession, Close
  <2> QED
    BY <2>1, <2>2, <2>3, <2>4, Footprint DEF NetFootprint
<1>2. hungUp' \subseteq Client
  BY Footprint DEF NetFootprint, CoreInv, NetTypes, HangUp
<1>3. acceptQ' \in Seq(Client) /\ Len(acceptQ') <= Backlog
  <2> USE DEF CoreInv, NetTypes
  <2>1. CASE Accept
    BY <2>1, TransportAssumption DEF Accept
  <2>2. CASE Stop
    BY <2>2, TransportAssumption DEF Stop
  <2>3. ASSUME NEW c \in Client, Connect(c)
        PROVE  acceptQ' \in Seq(Client) /\ Len(acceptQ') <= Backlog
    BY <2>3, TransportAssumption DEF Connect
  <2> QED
    BY <2>1, <2>2, <2>3, Footprint DEF NetFootprint
<1>4. toServer' \in [Client -> Seq(Request)]
  <2> USE DEF CoreInv, NetTypes
  <2>1. ASSUME NEW fd \in Fd, Handle(fd) PROVE toServer' \in [Client -> Seq(Request)]
    <3> DEFINE rest == Tail(toServer[peer[fd]])
    <3>1. rest \in Seq(Request)
      BY <2>1, HandleFacts
    <3>2. toServer' = [toServer EXCEPT ![peer[fd]] = rest]
      BY <2>1, HandleFacts
    <3> QED
      BY <3>1, <3>2
  <2>2. ASSUME NEW c \in Client, Asks(c) PROVE toServer' \in [Client -> Seq(Request)]
    <3>1. PICK r \in Requests(c) : SendRequest(c, r)
      BY <2>2 DEF Asks
    <3> DEFINE longer == Append(toServer[c], r)
    <3>2. longer \in Seq(Request)
      <4>1. r \in Request
        BY RequestsTypes
      <4>2. toServer[c] \in Seq(Request)
        BY DEF NetTypes
      <4> QED
        BY <4>1, <4>2
    <3>3. toServer' = [toServer EXCEPT ![c] = longer] \/ toServer' = toServer
      BY <3>1 DEF SendRequest
    <3> HIDE DEF longer
    <3> QED
      BY <3>2, <3>3
  <2> QED
    BY <2>1, <2>2, Footprint DEF NetFootprint
<1>5. toClient' \in [Client -> Seq(Message)]
  <2>1. CASE EstablishConnection
    BY <2>1, EstablishFacts
  <2>2. CASE ForwardChat
    BY <2>2, ForwardFacts, OpenPeer, SendFacts DEF CoreInv, Message
  <2>3. CASE SendResponse
    BY <2>3, RespondFacts, OpenPeer, SendFacts DEF CoreInv, Message
  <2>4. ASSUME NEW c \in Client, Connected(c) \/ GetResponse(c)
        PROVE  toClient' \in [Client -> Seq(Message)]
    <3> DEFINE rest == Tail(toClient[c])
    <3>1. rest \in Seq(Message) /\ toClient' = [toClient EXCEPT ![c] = rest]
      BY <2>4 DEF Connected, GetResponse, CoreInv, NetTypes
    <3> QED
      BY <3>1 DEF CoreInv, NetTypes
  <2>5. ASSUME NEW c \in Client, HangUp(c)
        PROVE  toClient' \in [Client -> Seq(Message)]
    BY <2>5 DEF HangUp, CoreInv, NetTypes
  <2> QED
    BY <2>1, <2>2, <2>3, <2>4, <2>5, Footprint DEF NetFootprint, CoreInv, NetTypes
<1>6. interest' \subseteq Fd
  <2>1. CASE EstablishConnection
    BY <2>1, EstablishFacts DEF EstablishConnection, CoreInv, NetTypes
  <2>2. CASE Stop
    BY <2>2 DEF Stop
  <2>3. ASSUME NEW fd \in Fd, CloseConnection(fd) PROVE interest' \subseteq Fd
    BY <2>3 DEF CloseConnection, CoreInv, NetTypes
  <2> QED
    BY <2>1, <2>2, <2>3, Footprint DEF NetFootprint, CoreInv, NetTypes
<1>7. reset' \in [Fd -> {"none", "coming", "arrived", "behind"}]
  <2> USE DEF CoreInv, NetTypes
  <2>1. CASE EstablishConnection
    BY <2>1, EstablishFacts
  <2>2. CASE ForwardChat
    BY <2>2, ForwardFacts, OpenPeer, SendFacts DEF Message
  <2>3. CASE SendResponse
    BY <2>3, RespondFacts, OpenPeer, SendFacts DEF Message
  <2>4. CASE EstablishFails \/ Stop
    BY <2>4 DEF EstablishFails, Close, Stop
  <2>5. ASSUME NEW fd \in Fd, CloseConnection(fd) \/ ResetArrives(fd)
        PROVE  reset' \in [Fd -> {"none", "coming", "arrived", "behind"}]
    BY <2>5 DEF CloseConnection, EndSession, Close, ResetArrives
  <2>6. ASSUME NEW c \in Client, HangUp(c)
        PROVE  reset' \in [Fd -> {"none", "coming", "arrived", "behind"}]
    BY <2>6, ResettingType DEF HangUp
  <2> QED
    BY <2>1, <2>2, <2>3, <2>4, <2>5, <2>6, Footprint DEF NetFootprint
<1> QED
  BY <1>1, <1>2, <1>3, <1>4, <1>5, <1>6, <1>7 DEF NetTypes

\* What epoll_wait returns and what it leaves.
LEMMA WaitFacts ==
  ASSUME EventTypes
  PROVE  /\ Reportable \in Seq(Fd \cup {Listener})
         /\ EventCount(Reportable) \in 0..Len(Reportable)
         /\ EventCount(Reportable) <= MaxEvents
         /\ Events \in Seq(Fd \cup {Listener}) /\ Len(Events) = EventCount(Reportable)
         /\ AfterWait \in Seq(Fd \cup {Listener})
<1> DEFINE list == Reportable
           n == EventCount(list)
<1>1. list \in Seq(Fd \cup {Listener})
  BY FilterEmbeds DEF Reportable, EventTypes
<1>2. n \in {Len(list), MaxEvents} /\ n <= Len(list) /\ n <= MaxEvents /\ n \in Nat
  <2> HIDE DEF list
  <2>1. Len(list) \in Nat /\ MaxEvents \in Nat
    BY <1>1, TransportAssumption
  <2>2. \E m \in {Len(list), MaxEvents} : \A k \in {Len(list), MaxEvents} : m <= k
    BY <2>1
  <2> QED
    BY <2>1, <2>2 DEF EventCount, Min
<1>3. /\ SubSeq(list, 1, n) \in Seq(Fd \cup {Listener}) /\ Len(SubSeq(list, 1, n)) = n
      /\ SubSeq(list, n + 1, Len(list)) \in Seq(Fd \cup {Listener})
  <2> HIDE DEF list, n
  <2> QED
    BY <1>1, <1>2
<1>4. Filter(SubSeq(list, 1, n), {Listener}) \in Seq(Fd \cup {Listener})
  BY <1>3, FilterEmbeds
<1> QED
  BY <1>1, <1>2, <1>3, <1>4 DEF Events, AfterWait

\* ... of the lists of events ...
LEMMA EventTypesStep ==
  ASSUME CoreInv, [Next]_vars
  PROVE  EventTypes'
<1> USE DEF CoreInv, EventTypes
<1>1. ready' \in Seq(Fd \cup {Listener})
  <2>1. CASE EpollWait
    BY <2>1, WaitFacts DEF EpollWait
  <2>2. CASE EstablishConnection
    BY <2>2, EstablishFacts DEF EstablishConnection
  <2>3. CASE Stop
    BY <2>3 DEF Stop
  <2>4. ASSUME NEW fd \in Fd, CloseConnection(fd) PROVE ready' \in Seq(Fd \cup {Listener})
    BY <2>4, FilterEmbeds DEF CloseConnection, WithoutFd
  <2>5. ASSUME NEW fd \in Fd, ResetArrives(fd) PROVE ready' \in Seq(Fd \cup {Listener})
    BY <2>5, WithEdgeType DEF ResetArrives
  <2>6. ASSUME NEW c \in Client, Connect(c) \/ Asks(c) \/ HangUp(c)
        PROVE  ready' \in Seq(Fd \cup {Listener})
    BY <2>6, WithEdgeType DEF Connect, Asks, SendRequest, HangUp
  <2> QED
    BY <2>1, <2>2, <2>3, <2>4, <2>5, <2>6, Footprint DEF NetFootprint
<1>2. batch' \in Seq(Fd \cup {Listener}) /\ Len(batch') <= MaxEvents
  <2>1. CASE EpollWait
    BY <2>1, WaitFacts DEF EpollWait
  <2>2. CASE Stop
    BY <2>2, TransportAssumption DEF Stop
  <2>3. CASE batch' = RestOfBatch /\ batch # << >>
    BY <2>3, TransportAssumption DEF RestOfBatch
  <2>4. AcceptFails \/ EstablishConnection \/ EstablishFails \/ SendResponse
        \/ (\E fd \in Fd : CloseConnection(fd))
        => batch' = RestOfBatch /\ batch # << >>
    BY DEF Thread, AcceptFails, EstablishConnection, EstablishFails, SendResponse,
       CloseConnection, Handling
  <2> QED
    BY <2>1, <2>2, <2>3, <2>4, Footprint DEF ThreadFootprint
<1> QED
  BY <1>1, <1>2

\* ... of the tables, names exactly on authenticated sessions included ...
LEMMA TableTypesStep ==
  ASSUME CoreInv, [Next]_vars
  PROVE  TableTypes'
<1>1. SessionTypeOK' /\ NamedIffAuthenticated'
  <2> USE NameAssumption DEF SessionTypeOK, NamedIffAuthenticated, IsEstablished,
          IsAuthenticated, GetUsername, Session
  <2>1. CASE EstablishConnection
    <3> DEFINE new == NewSession
    <3>1. new \in Session /\ new.username = EmptyName /\ new.authenticated = FALSE
      BY DEF NewSession
    <3> HIDE DEF new
    <3>2. /\ DOMAIN sessions' = DOMAIN sessions \cup {newFd} /\ newFd \in Fd
          /\ \A f \in DOMAIN sessions : sessions'[f] = sessions[f]
          /\ userToFd' = userToFd
      BY <2>1, EstablishFacts DEF Emplace, new
    <3>3. /\ \A f \in DOMAIN sessions : sessions[f] \in Session
          /\ \A f \in DOMAIN sessions : sessions[f].authenticated <=> sessions[f].username # EmptyName
      BY DEF CoreInv, TableTypes
    <3>4. \A f \in DOMAIN sessions' : f \in DOMAIN sessions \/ sessions'[f] = new
      BY <2>1, EstablishFacts DEF Emplace, new
    <3>5. SessionTypeOK'
      <4> HIDE DEF Session
      <4>1. DOMAIN sessions' \subseteq Fd /\ \A f \in DOMAIN sessions' : sessions'[f] \in Session
        BY <3>1, <3>2, <3>3, <3>4 DEF CoreInv, TableTypes
      <4> QED
        BY <3>2, <4>1 DEF CoreInv, TableTypes
    <3>6. NamedIffAuthenticated'
      BY <3>1, <3>2, <3>3, <3>4
    <3> QED
      BY <3>5, <3>6
  <2>2. CASE Stop
    BY <2>2 DEF Stop, EmptyMap
  <2>3. ASSUME NEW fd \in Fd, CloseConnection(fd)
        PROVE  SessionTypeOK' /\ NamedIffAuthenticated'
    BY <2>3 DEF CloseConnection, EndSession, Destroy, CanDestroy, Erase, Restrict, sessionVars,
       CoreInv, TableTypes
  <2>4. ASSUME NEW fd \in Fd, HandleLogin(fd)
        PROVE  SessionTypeOK' /\ NamedIffAuthenticated'
    <3> DEFINE u == request'.username
    <3>1. u \in User
      BY <2>4, HandleFacts DEF Handle, HandleLogin, Receive, Request
    <3>2. CASE Authenticate(fd, u) /\ CanAuthenticate(fd, u)
      <4> DEFINE new == [username |-> u, authenticated |-> TRUE]
      <4>1. sessions' = [sessions EXCEPT ![fd] = new]
        BY <3>2 DEF Authenticate
      <4>2. userToFd' = Emplace(userToFd, u, fd)
        BY <3>2 DEF Authenticate
      <4>3. new \in Session /\ new.authenticated /\ new.username # EmptyName
        BY <3>1
      <4> HIDE DEF new
      <4>4. NamedIffAuthenticated'
        BY <4>1, <4>3 DEF CoreInv, TableTypes
      <4>5. DOMAIN sessions' \subseteq Fd /\ \A f \in DOMAIN sessions' : sessions'[f] \in Session
        BY <4>1, <4>3 DEF CoreInv, TableTypes
      <4>6. DOMAIN userToFd' \subseteq User /\ \A v \in DOMAIN userToFd' : userToFd'[v] \in Fd
        BY <4>2, <3>1 DEF Emplace, CoreInv, TableTypes
      <4> QED
        BY <4>4, <4>5, <4>6
    <3>3. CASE UNCHANGED sessionVars
      BY <3>3 DEF sessionVars, CoreInv, TableTypes
    <3> QED
      BY <2>4, <3>2, <3>3 DEF HandleLogin, Authenticate
  <2>5. CASE UNCHANGED sessionVars
    BY <2>5 DEF sessionVars, CoreInv, TableTypes
  <2> QED
    BY <2>1, <2>2, <2>3, <2>4, <2>5, Footprint DEF TableFootprint
<1>2. Registry!AccountTypeOK'
  <2> USE DEF Registry!AccountTypeOK
  <2>1. ASSUME NEW fd \in Fd, HandleRegister(fd) PROVE Registry!AccountTypeOK'
    <3>1. request'.username \in User /\ request'.password \in Password
      BY <2>1, HandleFacts DEF Handle, HandleRegister, Receive, Request
    <3> DEFINE digest == Registry!HashPassword(request'.password)
    <3>2. CASE UNCHANGED registryVars
      BY <3>2 DEF registryVars, CoreInv, TableTypes
    <3>3. CASE /\ accounts' = Registry!Emplace(accounts, request'.username, digest)
               /\ accepted' = accepted \cup {<<request'.username, request'.password>>}
      BY <3>1, <3>3 DEF Registry!Emplace, CoreInv, TableTypes
    <3> QED
      BY <2>1, <3>2, <3>3 DEF HandleRegister, Registry!Register, Registry!accountVars, registryVars
  <2>2. CASE Stop
    BY <2>2 DEF Stop, EmptyMap
  <2>3. CASE UNCHANGED registryVars
    BY <2>3 DEF registryVars, CoreInv, TableTypes
  <2> QED
    BY <2>1, <2>2, <2>3, Footprint DEF TableFootprint
<1>3. logins' \subseteq Client \X User
  <2>1. ASSUME NEW fd \in Fd, HandleLogin(fd) PROVE logins' \subseteq Client \X User
    <3>1. request'.username \in User /\ peer[fd] \in Client
      BY <2>1, HandleFacts DEF Handle, HandleLogin, Receive, Request
    <3> QED
      BY <2>1, <3>1 DEF HandleLogin, CoreInv, TableTypes
  <2> QED
    BY <2>1, Footprint DEF TableFootprint, CoreInv, TableTypes
<1> QED
  BY <1>1, <1>2, <1>3 DEF TableTypes

\* ... and of the clients.
LEMMA ClientTypesStep ==
  ASSUME CoreInv, [Next]_vars
  PROVE  ClientTypes'
<1> USE DEF CoreInv, ClientTypes
<1>1. inbox' \in [Client -> Seq(ReceiveChat)]
  <2>1. ASSUME NEW c \in Client, GetResponse(c) PROVE inbox' \in [Client -> Seq(ReceiveChat)]
    <3> DEFINE m == Head(toClient[c])
               longer == Append(inbox[c], m)
    <3>1. m \in Message
      BY <2>1 DEF GetResponse, NetTypes
    <3>2. CASE m.type = "ReceiveChat"
      <4>1. m \in ReceiveChat
        BY <3>1, <3>2, MessageTypes DEF Message
      <4>2. longer \in Seq(ReceiveChat)
        BY <4>1
      <4>3. inbox' = [inbox EXCEPT ![c] = longer]
        BY <2>1, <3>2 DEF GetResponse, InboxWith
      <4> HIDE DEF longer
      <4> QED
        BY <4>2, <4>3
    <3> QED
      BY <2>1, <3>2 DEF GetResponse
  <2>2. ASSUME NEW c \in Client, GetUnread(c) \/ HangUp(c)
        PROVE  inbox' \in [Client -> Seq(ReceiveChat)]
    <3>1. << >> \in Seq(ReceiveChat)
      OBVIOUS
    <3>2. inbox' = [inbox EXCEPT ![c] = << >>]
      BY <2>2 DEF GetUnread, HangUp
    <3> QED
      BY <3>1, <3>2
  <2> QED
    BY <2>1, <2>2, Footprint DEF ClientFootprint
<1>2. pending' \in [Client -> Request \cup {Nothing}]
  <2>1. ASSUME NEW c \in Client, NEW r \in Requests(c), SendRequest(c, r)
        PROVE  pending' \in [Client -> Request \cup {Nothing}]
    BY <2>1, RequestsTypes DEF SendRequest
  <2>2. ASSUME NEW c \in Client, GetResponse(c) \/ Disconnected(c) \/ HangUp(c)
        PROVE  pending' \in [Client -> Request \cup {Nothing}]
    BY <2>2 DEF GetResponse, Disconnected, HangUp
  <2> QED
    BY <2>1, <2>2, Footprint DEF ClientFootprint, Asks
<1>3. cstate' \in [Client -> {"off", "connecting", "up", "failed"}]
  BY Footprint DEF ClientFootprint, Connect, Connected, ConnectFails
<1>4. chats' \in [Client -> 0..MaxChats]
  <2>1. ASSUME NEW c \in Client, NEW r \in Requests(c), SendRequest(c, r)
        PROVE  chats' \in [Client -> 0..MaxChats]
    <3>1. r.type = "SendChat" => chats[c] + 1 \in 0..MaxChats
      <4>1. chats[c] \in 0..MaxChats
        OBVIOUS
      <4>2. r.type = "SendChat" => chats[c] < MaxChats
        BY RequestsTypes
      <4> QED
        BY <4>1, <4>2, ServerAssumption
    <3>2. \/ chats' = chats
          \/ r.type = "SendChat" /\ chats' = [chats EXCEPT ![c] = chats[c] + 1]
      BY <2>1 DEF SendRequest
    <3> QED
      BY <3>1, <3>2
  <2> QED
    BY <2>1, Footprint DEF ClientFootprint, Asks
<1> QED
  BY <1>1, <1>2, <1>3, <1>4

-----------------------------------------------------------------------------
(* The thread *)

\* Every step leaves the thread with what the next part of the handler needs.
LEMMA ThreadStep ==
  ASSUME CoreInv, [Next]_vars
  PROVE  Thread'
<1> USE DEF Thread
<1>1. CASE EpollWait
  BY <1>1 DEF EpollWait, CoreInv
<1>2. CASE Accept
  BY <1>2, AcceptFacts DEF Accept, Handling, CoreInv
<1>3. CASE EstablishConnection \/ EstablishFails
  BY <1>3 DEF EstablishConnection, EstablishFails, CoreInv
<1>4. ASSUME NEW fd \in Fd, Handle(fd)
      PROVE  Thread'
  <2>1. /\ pc = "loop" /\ batch' = batch /\ batch # << >> /\ Event = fd /\ newFd' = newFd
        /\ request' \in Request
        /\ IsEstablished(fd)'
    BY <1>4, HandleFacts, HandleKeepsSessions DEF IsEstablished
  <2>2. Event' = fd /\ newFd' = Listener /\ response = Nothing
    BY <2>1 DEF Event, CoreInv
  <2>3. CASE pc' = "respond" /\ response' \in Response /\ response'.re = request'
    BY <2>1, <2>2, <2>3
  <2>4. CASE /\ pc' = "forward" /\ request'.type = "SendChat" /\ MayForward(fd, request'.to)
             /\ UNCHANGED <<response, sessionVars>>
    <3>1. MayForward(fd, request.to)'
      BY <2>4 DEF MayForward, IsAuthenticated, IsEstablishedUser, IsEstablished, sessionVars
    <3> QED
      BY <2>1, <2>2, <2>4, <3>1
  <2> QED
    BY <1>4, <2>3, <2>4, HandleFacts
<1>5. CASE ForwardChat
  <2>1. UNCHANGED <<sessionVars, batch, newFd, request>>
    BY <1>5 DEF ForwardChat
  <2> QED
    BY <1>5, <2>1, ForwardFacts DEF Event, IsEstablished, sessionVars, CoreInv
<1>6. CASE ForwardFails
  <2>1. request \in Request /\ pc = "forward" /\ IsEstablished(Event) /\ batch # << >>
    BY <1>6 DEF ForwardFails, CoreInv
  <2>2. Failure \in Response /\ Failure.re = request
    BY <2>1 DEF Failure, Response
  <2> QED
    BY <1>6, <2>1, <2>2 DEF ForwardFails, Event, IsEstablished, sessionVars, CoreInv
<1>7. CASE SendResponse
  BY <1>7 DEF SendResponse, CoreInv
<1>8. CASE Stop
  BY <1>8 DEF Stop
<1>9. ASSUME NEW fd \in Fd, CloseConnection(fd)
      PROVE  Thread'
  BY <1>9 DEF CloseConnection, Handling, CoreInv
<1>10. CASE AcceptFails
  BY <1>10 DEF AcceptFails, Handling, CoreInv
<1>11. CASE UNCHANGED <<pc, batch, newFd, request, response, sessionVars>>
  BY <1>11 DEF Event, MayForward, IsAuthenticated, IsEstablishedUser, IsEstablished,
     sessionVars, CoreInv
<1>12. UNCHANGED sessionVars
       \/ EstablishConnection \/ Stop \/ \E fd \in Fd : CloseConnection(fd) \/ Handle(fd)
  BY Footprint DEF TableFootprint, Handle
<1> QED
  BY <1>1, <1>2, <1>3, <1>4, <1>5, <1>6, <1>7, <1>8, <1>9, <1>10, <1>11, <1>12, Footprint
  DEF ThreadFootprint

-----------------------------------------------------------------------------
(* Descriptors *)

\* A client has a connection, now and in the next state.
LEMMA LinkedMeaning ==
  ASSUME NEW c
  PROVE  /\ Linked(c) <=> \/ \E fd \in Fd : peer[fd] = c
                          \/ \E i \in DOMAIN acceptQ : acceptQ[i] = c
         /\ Linked(c)' <=> \/ \E fd \in Fd : peer'[fd] = c
                           \/ \E i \in DOMAIN acceptQ' : acceptQ'[i] = c
BY DEF Linked, FdsOf

\* A client that has not connected has no past.
LEMMA OffBefore ==
  ASSUME CoreInv, [Next]_vars, NEW c \in Client, cstate'[c] = "off"
  PROVE  cstate[c] = "off"
BY Footprint DEF ClientFootprint, Connect, Connected, ConnectFails, CoreInv, ClientTypes

\* Connections are only made by Connect, and there is one for each client.
LEMMA OwnershipStep ==
  ASSUME CoreInv, [Next]_vars
  PROVE  Ownership'
<1> USE TransportAssumption DEF IsOpen, IsEstablished
<1> DEFINE OneEach == /\ \A f, g \in Fd : IsOpen(f) /\ peer[f] = peer[g] => f = g
                      /\ \A i, j \in DOMAIN acceptQ : acceptQ[i] = acceptQ[j] => i = j
                      /\ \A i \in DOMAIN acceptQ, fd \in Fd : peer[fd] # acceptQ[i]
           Sessions == /\ \A fd \in Fd : IsOpen(fd) <=> IsEstablished(fd) \/ fd = newFd
                       /\ ~IsEstablished(newFd)
           Off == \A c \in Client : cstate[c] = "off" => ~Linked(c)
<1>0. OneEach /\ Sessions /\ Off
  BY DEF CoreInv, Ownership
<1>1. CASE Accept
  <2>1. \A fd \in Fd : peer'[fd] = IF fd = newFd' THEN acceptQ[1] ELSE peer[fd]
    BY <1>1, AcceptFacts DEF CoreInv, NetTypes
  <2>2. /\ newFd' \in Fd /\ peer[newFd'] = NoClient /\ 1 \in DOMAIN acceptQ
        /\ acceptQ[1] \in Client
        /\ \A i \in DOMAIN acceptQ' : i + 1 \in DOMAIN acceptQ /\ acceptQ'[i] = acceptQ[i + 1]
                                     /\ i + 1 # 1
        /\ DOMAIN acceptQ' \subseteq Nat
    BY <1>1, AcceptFacts, NetTypesStep DEF NetTypes
  <2>3. OneEach'
    <3>1. \A f, g \in Fd : IsOpen(f)' /\ peer'[f] = peer'[g] => f = g
      BY <1>0, <2>1, <2>2
    <3>2. ASSUME NEW i \in DOMAIN acceptQ', NEW j \in DOMAIN acceptQ', acceptQ'[i] = acceptQ'[j]
          PROVE  i = j
      <4>1. i + 1 = j + 1
        BY <1>0, <2>2, <3>2
      <4> QED
        BY <2>2, <4>1
    <3>3. \A i \in DOMAIN acceptQ', fd \in Fd : peer'[fd] # acceptQ'[i]
      BY <1>0, <2>1, <2>2
    <3> QED
      BY <3>1, <3>2, <3>3
  <2>4. Sessions'
    BY <1>1, AcceptFacts DEF CoreInv, NetTypes, Ownership, Accept, sessionVars
  <2>5. ASSUME NEW c \in Client, Linked(c)' PROVE Linked(c)
    <3>1. CASE \E fd \in Fd : peer'[fd] = c
      BY <2>1, <2>2, <3>1, LinkedMeaning
    <3>2. CASE \E i \in DOMAIN acceptQ' : acceptQ'[i] = c
      BY <2>2, <3>2, LinkedMeaning
    <3> QED
      BY <2>5, <3>1, <3>2, LinkedMeaning
  <2>6. Off'
    BY <1>0, <2>5, OffBefore
  <2> QED
    BY <2>3, <2>4, <2>6 DEF Ownership
<1>2. CASE EstablishConnection
  <2>1. /\ DOMAIN sessions' = DOMAIN sessions \cup {newFd} /\ newFd' = Listener
        /\ newFd \in Fd /\ IsOpen(newFd)
        /\ UNCHANGED <<peer, acceptQ>>
    BY <1>2, EstablishFacts DEF EstablishConnection, Emplace
  <2>2. DOMAIN sessions \subseteq Fd
    BY DEF CoreInv, TableTypes, SessionTypeOK
  <2>3. OneEach' /\ Sessions'
    BY <1>0, <2>1, <2>2
  <2>4. Off'
    BY <1>0, <2>1, OffBefore, LinkedMeaning
  <2> QED
    BY <2>3, <2>4 DEF Ownership
<1>3. ASSUME NEW fd \in Fd, peer' = [peer EXCEPT ![fd] = NoClient],
             IsEstablished(fd) \/ fd = newFd,
             DOMAIN sessions' = DOMAIN sessions \ {fd},
             newFd' = IF fd = newFd THEN Listener ELSE newFd,
             UNCHANGED acceptQ
      PROVE  Ownership'
  <2>1. /\ \A f \in Fd : peer'[f] = IF f = fd THEN NoClient ELSE peer[f]
        /\ \A i \in DOMAIN acceptQ : acceptQ[i] \in Client
    BY <1>3 DEF CoreInv, NetTypes
  <2>2. DOMAIN sessions \subseteq Fd
    BY DEF CoreInv, TableTypes, SessionTypeOK
  <2>3. OneEach'
    BY <1>0, <1>3, <2>1
  <2>4. Sessions'
    BY <1>0, <1>3, <2>1, <2>2
  <2>5. \A c \in Client : Linked(c)' => Linked(c)
    BY <1>3, <2>1, LinkedMeaning
  <2>6. Off'
    BY <1>0, <2>5, OffBefore
  <2> QED
    BY <2>3, <2>4, <2>6 DEF Ownership
<1>4. CASE EstablishFails
  <2>1. /\ newFd \in Fd /\ peer' = [peer EXCEPT ![newFd] = NoClient] /\ newFd' = Listener
        /\ UNCHANGED <<acceptQ, sessions>>
    BY <1>4 DEF EstablishFails, Close, sessionVars, CoreInv, Thread
  <2>2. DOMAIN sessions' = DOMAIN sessions \ {newFd}
    BY <1>0, <2>1
  <2> QED
    BY <1>3, <2>1, <2>2
<1>5. ASSUME NEW fd \in Fd, CloseConnection(fd)
      PROVE  Ownership'
  <2>1. CASE CanDestroy(fd)
    <3>1. DOMAIN sessions' = DOMAIN sessions \ {fd}
      BY <1>5, <2>1 DEF CloseConnection, EndSession, Destroy, Erase, Restrict
    <3> QED
      BY <1>0, <1>3, <1>5, <2>1, <3>1 DEF CloseConnection, EndSession, Close
  <2>2. CASE ~CanDestroy(fd)
    BY <1>0, <1>5, <2>2, OffBefore, LinkedMeaning
    DEF CloseConnection, EndSession, Destroy, sessionVars, Ownership
  <2> QED
    BY <2>1, <2>2
<1>6. CASE Stop
  BY <1>0, <1>6, OffBefore, LinkedMeaning DEF Stop, EmptyMap, Ownership
<1>7. ASSUME NEW c \in Client, Connect(c), UNCHANGED <<peer, newFd>>,
             DOMAIN sessions' = DOMAIN sessions
      PROVE  Ownership'
  <2>1. acceptQ \in Seq(Client) /\ acceptQ' = Append(acceptQ, c) /\ cstate[c] = "off"
    BY <1>7 DEF Connect, CoreInv, NetTypes
  <2>2. ~Linked(c) /\ cstate'[c] = "connecting"
    BY <1>0, <1>7, <2>1 DEF Connect, CoreInv, ClientTypes
  <2>3. /\ DOMAIN acceptQ \subseteq Nat
        /\ \A i \in DOMAIN acceptQ' : acceptQ'[i] = c \/ i \in DOMAIN acceptQ
        /\ \A i \in DOMAIN acceptQ : acceptQ'[i] = acceptQ[i]
        /\ \A i, j \in DOMAIN acceptQ' : i \in DOMAIN acceptQ \/ j \in DOMAIN acceptQ \/ i = j
    BY <2>1
  <2>4. OneEach'
    <3>1. \A f, g \in Fd : IsOpen(f)' /\ peer'[f] = peer'[g] => f = g
      BY <1>0, <1>7
    <3>2. (\A i \in DOMAIN acceptQ : acceptQ[i] # c) /\ \A fd \in Fd : peer[fd] # c
      BY <2>2, LinkedMeaning
    <3>3. \A i, j \in DOMAIN acceptQ' : acceptQ'[i] = acceptQ'[j] => i = j
      BY <1>0, <2>3, <3>2
    <3>4. \A i \in DOMAIN acceptQ', fd \in Fd : peer'[fd] # acceptQ'[i]
      BY <1>0, <1>7, <2>3, <3>2
    <3> QED
      BY <3>1, <3>3, <3>4
  <2>5. \A d \in Client : Linked(d)' => Linked(d) \/ d = c
    BY <1>7, <2>3, LinkedMeaning
  <2>6. Off'
    BY <1>0, <2>2, <2>5, OffBefore
  <2> QED
    BY <1>0, <1>7, <2>4, <2>6 DEF Ownership
<1>8. CASE UNCHANGED <<peer, acceptQ, newFd>> /\ DOMAIN sessions' = DOMAIN sessions
  BY <1>0, <1>8, OffBefore, LinkedMeaning DEF Ownership
<1>9. \A fd \in Fd : HandleLogin(fd) => DOMAIN sessions' = DOMAIN sessions
  BY HandleKeepsSessions DEF Handle
<1>10. DOMAIN sessions' = DOMAIN sessions
       \/ EstablishConnection \/ Stop \/ \E fd \in Fd : CloseConnection(fd)
  BY <1>9, Footprint DEF TableFootprint, sessionVars
<1> QED
  BY <1>1, <1>2, <1>4, <1>5, <1>6, <1>7, <1>8, <1>10, Footprint
  DEF NetFootprint, ThreadFootprint

-----------------------------------------------------------------------------
(* The queues to the clients *)

\* All that can happen to what is on its way to a client.
LEMMA ToClientChange ==
  ASSUME CoreInv, [Next]_vars, NEW c \in Client
  PROVE  \/ toClient'[c] = toClient[c]
         \/ /\ Connected(c) \/ GetResponse(c)
            /\ toClient[c] # << >> /\ toClient'[c] = Tail(toClient[c])
         \/ HangUp(c) /\ toClient'[c] = << >>
         \/ /\ EstablishConnection /\ c = peer[newFd] /\ c \notin hungUp
            /\ toClient[c] = << >> /\ toClient'[c] = <<Key>>
         \/ /\ ForwardChat /\ c = peer[ChannelOf(request.to)] /\ c \notin hungUp
            /\ toClient'[c] = Append(toClient[c], Forwarded) /\ Len(toClient[c]) < Cap
         \/ /\ SendResponse /\ c = peer[Event] /\ c \notin hungUp
            /\ toClient'[c] = Append(toClient[c], response) /\ Len(toClient[c]) < Cap
<1>1. CASE EstablishConnection
  BY <1>1, EstablishFacts
<1>2. CASE ForwardChat
  <2> DEFINE to == ChannelOf(request.to)
  <2>1. /\ to \in Fd /\ peer[to] \in Client /\ CanSend(to) /\ SendTo(to, Forwarded)
        /\ Forwarded \in Message
    BY <1>2, ForwardFacts, OpenPeer DEF CoreInv, Message
  <2> HIDE DEF to
  <2>2. /\ \A d \in Client \ {peer[to]} : toClient'[d] = toClient[d]
        /\ peer[to] \in hungUp => toClient' = toClient
        /\ peer[to] \notin hungUp => toClient'[peer[to]] = Append(toClient[peer[to]], Forwarded)
    BY <2>1, SendFacts DEF CoreInv
  <2> QED
    BY <1>2, <2>1, <2>2 DEF CanSend, to
<1>3. CASE SendResponse
  <2>1. /\ Event \in Fd /\ peer[Event] \in Client /\ CanSend(Event) /\ SendTo(Event, response)
        /\ response \in Message
    BY <1>3, RespondFacts, OpenPeer DEF CoreInv, Message
  <2>2. /\ \A d \in Client \ {peer[Event]} : toClient'[d] = toClient[d]
        /\ peer[Event] \in hungUp => toClient' = toClient
        /\ peer[Event] \notin hungUp
             => toClient'[peer[Event]] = Append(toClient[peer[Event]], response)
    BY <2>1, SendFacts DEF CoreInv
  <2> QED
    BY <1>3, <2>1, <2>2 DEF CanSend
<1>4. ASSUME NEW d \in Client, Connected(d) \/ GetResponse(d)
      PROVE  toClient'[c] = toClient[c]
             \/ (d = c /\ toClient[c] # << >> /\ toClient'[c] = Tail(toClient[c]))
  <2> DEFINE rest == Tail(toClient[d])
  <2>1. toClient[d] # << >> /\ toClient' = [toClient EXCEPT ![d] = rest]
    BY <1>4 DEF Connected, GetResponse
  <2>2. toClient \in [Client -> Seq(Message)]
    BY DEF CoreInv, NetTypes
  <2> HIDE DEF rest
  <2>3. toClient'[c] = toClient[c] \/ (d = c /\ toClient'[c] = rest)
    BY <2>1, <2>2
  <2> QED
    BY <2>1, <2>3 DEF rest
<1>5. ASSUME NEW d \in Client, HangUp(d)
      PROVE  toClient'[c] = toClient[c] \/ (d = c /\ toClient'[c] = << >>)
  <2>1. toClient' = [toClient EXCEPT ![d] = << >>]
    BY <1>5 DEF HangUp
  <2>2. toClient \in [Client -> Seq(Message)]
    BY DEF CoreInv, NetTypes
  <2> QED
    BY <2>1, <2>2
<1> QED
  BY <1>1, <1>2, <1>3, <1>4, <1>5, Footprint DEF NetFootprint

\* Only a client with a session is sent to.
LEMMA SentToSessions ==
  ASSUME CoreInv, NEW c,
         \/ ForwardChat /\ c = peer[ChannelOf(request.to)]
         \/ SendResponse /\ c = peer[Event]
  PROVE  /\ \E fd \in Fd : IsEstablished(fd) /\ peer[fd] = c
         /\ Linked(c)
         /\ newFd # Listener => peer[newFd] # c
         /\ \A i \in DOMAIN acceptQ : acceptQ[i] # c
<1>1. PICK fd \in Fd : IsEstablished(fd) /\ peer[fd] = c /\ IsOpen(fd)
  BY ForwardFacts, RespondFacts, OpenPeer DEF CoreInv
<1>2. newFd # Listener => newFd \in Fd /\ ~IsEstablished(newFd)
  BY DEF CoreInv, Thread, Ownership
<1> QED
  BY <1>1, <1>2, LinkedMeaning DEF CoreInv, Ownership

\* Every step keeps the queues within their bounds.
LEMMA RoomStep ==
  ASSUME CoreInv, [Next]_vars
  PROVE  Room'
<1> USE TransportAssumption
<1>1. ASSUME NEW c \in Client
      PROVE  Len(toClient'[c]) <= Cap
  <2>1. /\ toClient[c] \in Seq(Message) /\ Len(toClient[c]) <= Cap
        /\ Len(toClient[c]) \in Nat /\ Cap \in Nat \ {0}
    BY DEF CoreInv, NetTypes, Room
  <2>2. toClient'[c] \in Seq(Message) /\ Len(toClient'[c]) \in Nat
    BY NetTypesStep DEF NetTypes
  <2> DEFINE n == Len(toClient[c])
             n2 == Len(toClient'[c])
  <2>3. \/ Len(toClient'[c]) <= Len(toClient[c]) \/ Len(toClient'[c]) = 1
        \/ Len(toClient'[c]) = Len(toClient[c]) + 1 /\ Len(toClient[c]) < Cap
    <3>1. CASE toClient[c] # << >> /\ toClient'[c] = Tail(toClient[c])
      BY <2>1, <3>1
    <3>2. ASSUME NEW m \in Message, toClient'[c] = Append(toClient[c], m), Len(toClient[c]) < Cap
          PROVE  Len(toClient'[c]) = Len(toClient[c]) + 1
      BY <2>1, <3>2
    <3>3. ForwardChat => Forwarded \in Message
      BY ForwardFacts DEF Message
    <3>4. SendResponse => response \in Message
      BY RespondFacts DEF Message
    <3>5. CASE toClient'[c] = toClient[c]
      <4>1. n2 = n /\ n \in Nat
        BY <2>1, <3>5
      <4> HIDE DEF n, n2
      <4>2. n2 <= n
        BY <4>1
      <4> QED
        BY <4>2 DEF n, n2
    <3>6. CASE toClient'[c] = << >> \/ toClient'[c] = <<Key>>
      <4>1. n \in Nat /\ (n2 = 0 \/ n2 = 1)
        BY <2>1, <3>6
      <4> HIDE DEF n, n2
      <4>2. n2 <= n \/ n2 = 1
        BY <4>1
      <4> QED
        BY <4>2 DEF n, n2
    <3>7. CASE ForwardChat /\ toClient'[c] = Append(toClient[c], Forwarded) /\ Len(toClient[c]) < Cap
      BY <3>2, <3>3, <3>7
    <3>8. CASE SendResponse /\ toClient'[c] = Append(toClient[c], response) /\ Len(toClient[c]) < Cap
      BY <3>2, <3>4, <3>8
    <3> QED
      BY <3>1, <3>5, <3>6, <3>7, <3>8, ToClientChange
  <2>4. n \in Nat /\ n <= Cap /\ Cap \in Nat \ {0} /\ n2 \in Nat
    BY <2>1, <2>2
  <2>5. n2 <= n \/ n2 = 1 \/ (n2 = n + 1 /\ n < Cap)
    BY <2>3
  <2> HIDE DEF n, n2
  <2>6. n2 <= Cap
    BY <2>4, <2>5
  <2> QED
    BY <2>6 DEF n2
<1>2. ASSUME NEW c \in Client, cstate'[c] = "off"
      PROVE  toClient'[c] = << >>
  <2>1. toClient[c] = << >> /\ ~Linked(c)
    BY <1>2, OffBefore DEF CoreInv, Room, Ownership
  <2>2. EstablishConnection => newFd \in Fd
    BY EstablishFacts
  <2> QED
    BY <2>1, <2>2, ToClientChange, SentToSessions, LinkedMeaning
<1>3. ASSUME NEW i \in DOMAIN acceptQ'
      PROVE  toClient'[acceptQ'[i]] = << >>
  <2> DEFINE c == acceptQ'[i]
  <2>1. c \in Client
    BY NetTypesStep DEF NetTypes
  <2>2. toClient[c] = << >> /\ (~Linked(c) \/ \E k \in DOMAIN acceptQ : acceptQ[k] = c)
    <3>1. CASE Accept
      BY <3>1, AcceptFacts DEF CoreInv, Room
    <3>2. CASE Stop
      BY <3>2 DEF Stop
    <3>3. ASSUME NEW d \in Client, Connect(d)
          PROVE  (c = d /\ cstate[d] = "off") \/ \E k \in DOMAIN acceptQ : acceptQ[k] = c
      BY <3>3, SMTT(30) DEF Connect, CoreInv, NetTypes
    <3>4. \/ c \in Client /\ cstate[c] = "off"
          \/ \E k \in DOMAIN acceptQ : acceptQ[k] = c
      BY <3>1, <3>2, <3>3, <2>1, AcceptFacts, Footprint DEF NetFootprint, Stop
    <3> QED
      BY <3>4, <2>1 DEF CoreInv, Room, Ownership
  <2> HIDE DEF c
  <2>3. EstablishConnection => newFd \in Fd
    BY EstablishFacts
  <2>4. toClient'[c] = << >>
    <3>1. EstablishConnection => c # peer[newFd]
      BY <2>2, <2>3, LinkedMeaning DEF CoreInv, Ownership
    <3>2. ForwardChat => c # peer[ChannelOf(request.to)]
      BY <2>2, SentToSessions
    <3>3. SendResponse => c # peer[Event]
      BY <2>2, SentToSessions
    <3> QED
      BY <2>1, <2>2, <3>1, <3>2, <3>3, ToClientChange
  <2> QED
    BY <2>4 DEF c
<1>4. ASSUME newFd' # Listener
      PROVE  toClient'[peer'[newFd']] = << >>
  <2>1. CASE Accept
    <3>1. peer'[newFd'] = acceptQ[1] /\ acceptQ[1] \in Client /\ 1 \in DOMAIN acceptQ
      BY <2>1, AcceptFacts DEF CoreInv, NetTypes
    <3>2. toClient' = toClient
      BY <2>1 DEF Accept
    <3> QED
      BY <3>1, <3>2 DEF CoreInv, Room
  <2>2. CASE ~Accept
    <3>1. newFd' = newFd /\ ~EstablishConnection /\ ~EstablishFails /\ ~Stop
      BY <1>4, <2>2, Footprint DEF ThreadFootprint, EstablishConnection, EstablishFails, Stop
    <3>2. newFd \in Fd /\ ~IsEstablished(newFd) /\ peer[newFd] \in Client
      BY <1>4, <3>1 DEF CoreInv, Thread, Ownership, NetTypes, IsOpen
    <3>3. peer'[newFd] = peer[newFd]
      BY <2>2, <3>1, <3>2, Footprint
      DEF NetFootprint, CloseConnection, EndSession, Close, CoreInv, NetTypes
    <3>4. toClient[peer[newFd]] = << >>
      BY <1>4, <3>1 DEF CoreInv, Room
    <3>5. toClient'[peer[newFd]] = << >>
      BY <1>4, <3>1, <3>2, <3>4, ToClientChange, SentToSessions
    <3> QED
      BY <3>1, <3>3, <3>5
  <2> QED
    BY <2>1, <2>2
<1> QED
  BY <1>1, <1>2, <1>3, <1>4 DEF Room

-----------------------------------------------------------------------------
(* The core theorems *)

\* The system starts with all of it ...
LEMMA CoreInitially == Init => CoreInv
<1> SUFFICES ASSUME Init
             PROVE  CoreInv
  OBVIOUS
<1> USE DEF Init, TransportInit, ServerInit, ClientInit, SessionInit, EmptyMap
<1>1. NetTypes /\ EventTypes
  BY TransportAssumption DEF NetTypes, EventTypes
<1>2. TableTypes
  BY DEF TableTypes, SessionTypeOK, NamedIffAuthenticated, Registry!AccountTypeOK,
     Registry!AccountInit, Registry!EmptyMap
<1>3. ClientTypes
  BY ServerAssumption DEF ClientTypes
<1>4. Thread
  BY DEF Thread
<1>5. Ownership
  BY TransportAssumption, LinkedMeaning DEF Ownership, IsOpen, IsEstablished
<1>6. Room
  BY TransportAssumption DEF Room
<1> QED
  BY <1>1, <1>2, <1>3, <1>4, <1>5, <1>6 DEF CoreInv

\* ... and every step preserves it.
LEMMA CoreStep ==
  ASSUME CoreInv, [Next]_vars
  PROVE  CoreInv'
BY NetTypesStep, EventTypesStep, TableTypesStep, ClientTypesStep, ThreadStep, OwnershipStep,
   RoomStep DEF CoreInv

\* The inductive invariant of the core: types, what the thread holds, who owns
\* which descriptor, and that what is on its way to a client fits.
THEOREM CoreInvariant == Spec => []CoreInv
BY CoreInitially, CoreStep, PTL DEF Spec

\* The variables have their types in every reachable state, whatever the bounds:
\* a send never overfills a channel, and a batch never exceeds MaxEvents.
THEOREM SystemTypes == Spec => []TypeOK
<1>1. CoreInv => TypeOK
  BY TransportAssumption DEF CoreInv, NetTypes, EventTypes, TableTypes, ClientTypes, Thread,
     Room, TypeOK, Message
<1> QED
  BY <1>1, CoreInvariant, PTL

\* No descriptor is leaked or closed twice: the open ones are those of the
\* sessions and of the key exchange, and no client is at the end of two.
THEOREM DescriptorsOwned == Spec => []SessionsOwnDescriptors
<1>1. ASSUME CoreInv
      PROVE  SessionsOwnDescriptors
  <2> USE <1>1 DEF CoreInv, Ownership
  <2>1. DOMAIN sessions \subseteq Fd /\ newFd \in Fd \cup {Listener} /\ Listener \notin Fd
    BY TransportAssumption DEF TableTypes, SessionTypeOK, Thread
  <2>2. {fd \in Fd : IsOpen(fd)} = DOMAIN sessions \cup ({newFd} \ {Listener})
    BY <2>1 DEF IsEstablished
  <2>3. newFd \notin DOMAIN sessions
    BY DEF IsEstablished
  <2>4. ASSUME NEW c \in Client
        PROVE  Cardinality(FdsOf(c)) <= 1
    <3>1. \A f, g \in FdsOf(c) : f = g
      BY TransportAssumption DEF FdsOf, IsOpen
    <3>2. CASE FdsOf(c) = {}
      BY <3>2, FS_EmptySet
    <3>3. ASSUME NEW f \in FdsOf(c)
          PROVE  Cardinality(FdsOf(c)) = 1
      <4>1. FdsOf(c) = {f}
        BY <3>1, <3>3
      <4> QED
        BY <4>1, FS_Singleton
    <3> QED
      BY <3>2, <3>3
  <2> QED
    BY <2>2, <2>3, <2>4 DEF SessionsOwnDescriptors
<1> QED
  BY <1>1, CoreInvariant, PTL
=============================================================================
