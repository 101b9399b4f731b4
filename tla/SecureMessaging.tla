--------------------------- MODULE SecureMessaging ---------------------------
(***************************************************************************)
(* The whole system: the server of Server.tla and the clients of Client.tla*)
(* joined by the sockets of Transport.tla, and what must be true of it.    *)
(***************************************************************************)
EXTENDS Client

CONSTANT MayStop   \* TRUE: the server process may end

vars == <<netVars, serverVars, clientVars>>

Init ==
  /\ TransportInit
  /\ ServerInit
  /\ ClientInit

ServerStep == HandleEvents /\ UNCHANGED clientVars

NetworkStep(fd) == ResetArrives(fd) /\ UNCHANGED <<serverVars, clientVars>>

Next ==
  \/ ServerStep
  \/ MayStop /\ Stop /\ UNCHANGED clientVars
  \/ \E c \in Client : UserAction(c) \/ ClientAction(c)
  \/ \E fd \in Fd : NetworkStep(fd)

Spec == Init /\ [][Next]_vars

(***************************************************************************)
(* Run() loops for ever and a client that waits is inside recv(), so both  *)
(* get on with what they can do, and a reset arrives.  Nothing makes a     *)
(* user act.                                                               *)
(***************************************************************************)
Fairness ==
  /\ WF_vars(ServerStep)
  /\ \A c \in Client : WF_vars(ClientAction(c))
  /\ \A fd \in Fd : WF_vars(NetworkStep(fd))

FairSpec == Spec /\ Fairness

-----------------------------------------------------------------------------
(* Safety, whatever the users do *)

TypeOK ==
  /\ peer \in [Fd -> Client \cup {NoClient}]
  /\ hungUp \subseteq Client
  /\ reset \in [Fd -> {"none", "coming", "arrived", "behind"}]
  /\ acceptQ \in Seq(Client) /\ Len(acceptQ) <= Backlog
  /\ \A c \in Client :
       /\ toServer[c] \in Seq(Request)
       /\ toClient[c] \in Seq(Response \cup ReceiveChat \cup {Key})
       /\ Len(toClient[c]) <= Cap
       /\ inbox[c] \in Seq(ReceiveChat)
       /\ pending[c] \in Request \cup {Nothing}
       /\ cstate[c] \in {"off", "connecting", "up", "failed"}
       /\ chats[c] \in 0..MaxChats
  /\ interest \subseteq Fd
  /\ ready \in Seq(Fd \cup {Listener})
  /\ batch \in Seq(Fd \cup {Listener}) /\ Len(batch) <= MaxEvents
  /\ pc \in {"loop", "establish", "forward", "respond", "down"}
  /\ newFd \in Fd \cup {Listener}
  /\ request \in Request \cup {Nothing}
  /\ response \in Response \cup {Nothing}
  /\ SessionTypeOK
  /\ Registry!AccountTypeOK
  /\ logins \subseteq Client \X User

\* A session owns its descriptor: the open descriptors are those of the
\* sessions and the one whose key exchange runs, and two are never connected to
\* the same client.  A descriptor is neither leaked nor closed twice.
SessionsOwnDescriptors ==
  /\ {fd \in Fd : IsOpen(fd)} = DOMAIN sessions \cup ({newFd} \ {Listener})
  /\ newFd \notin DOMAIN sessions
  /\ \A c \in Client : Cardinality(FdsOf(c)) <= 1

\* The events still to be handled.
EventsAhead == IF pc = "loop" THEN batch ELSE SubSeq(batch, 2, Len(batch))

\* No event outlives its descriptor: whatever the handlers of earlier events
\* of the batch closed or accepted, an event ahead is for a session, nothing
\* else in the batch is for the same one, and the blocking receive it leads to
\* has something to return (Server.cpp:61,68,81).
EventsAreFresh ==
  /\ \A i, j \in DOMAIN batch : i # j => batch[i] # batch[j]
  /\ \A i \in DOMAIN EventsAhead :
       LET fd == EventsAhead[i]
       IN  HasInput(fd) /\ (fd # Listener => IsEstablished(fd))

\* All that is left to receive on fd is a hang-up that nothing announces now:
\* its reset is still to come, or came while a request was unread before it.
IsUnannounced(fd) ==
  /\ fd # Listener /\ toServer[peer[fd]] = << >>
  /\ reset[fd] \in {"coming", "behind"}

\* Edge-triggered registration with one receive per event loses no wake-up but
\* one: a connection, a request or a hang-up that is there when the server is
\* back in its loop is in the ready list or among the events ahead, unless it
\* is a hang-up whose reset is on its way or has come behind a request
\* (Server.cpp:68,97).
NoLostWakeup ==
  pc = "loop" =>
    \A fd \in interest \cup {Listener} :
      HasInput(fd) =>
        InReady(fd) \/ (\E i \in DOMAIN batch : batch[i] = fd) \/ IsUnannounced(fd)

IsResponse(m) == m.type \in {"Success", "Failure"}

\* How often the pending request of c exists: on its way, being handled, or
\* answered.
Copies(c) ==
  Len(toServer[c])
  + (IF pc \in {"forward", "respond"} /\ peer[Event] = c THEN 1 ELSE 0)
  + Cardinality({i \in DOMAIN toClient[c] : IsResponse(toClient[c][i])})

\* A client gets the response to the request it waits for: while it waits the
\* request is in exactly one place, and every response is to that request.
ResponseMatchesRequest ==
  \A c \in Client \ hungUp :
    /\ pc # "down" => Copies(c) = (IF pending[c] = Nothing THEN 0 ELSE 1)
    /\ \A i \in DOMAIN toClient[c] :
         IsResponse(toClient[c][i]) => toClient[c][i].re = pending[c]

\* The chats c has received or will receive, in order.
ChatsOf(c) ==
  inbox[c] \o Filter(toClient[c], {m \in Range(toClient[c]) : m.type = "ReceiveChat"})

\* The name a chat arrives under is one its sender logged in with.
ChatsAreAuthentic ==
  \A c \in Client :
    LET received == ChatsOf(c)
    IN  \A i \in DOMAIN received :
          <<received[i].content.by, received[i].from>> \in logins

\* Two chats of one sender arrive in the order it sent them, and none twice.
ChatsInOrder ==
  \A c \in Client :
    LET received == ChatsOf(c)
    IN  \A i, j \in DOMAIN received :
          /\ i < j
          /\ received[i].content.by = received[j].content.by
          => received[i].content.n < received[j].content.n

\* The server has nothing left to do, and no reset will change that.
Quiescent ==
  /\ pc = "loop" /\ batch = << >> /\ Reportable = << >>
  /\ \A fd \in Fd : reset[fd] # "coming"

\* When the server has nothing left to do, no client that is gone is still
\* logged in: its user can log in again (tests/singlelogin.cpp:20).
LoginsEndWithConnections ==
  Quiescent => \A fd \in DOMAIN sessions : IsAuthenticated(fd) => peer[fd] \notin hungUp

\* What is true of it: only the login of a client whose connection was reset
\* while a request of it was unread can stay (Server.cpp:68,72).
LoginsEndUnlessReset ==
  Quiescent =>
    \A fd \in DOMAIN sessions :
      IsAuthenticated(fd) /\ peer[fd] \in hungUp => reset[fd] = "behind"

\* When the server has nothing left to do, its sessions are those of clients
\* that are still there: "Stores live client connections" (docs/hierarchy.txt:28).
SessionsAreLive == Quiescent => \A fd \in DOMAIN sessions : peer[fd] \notin hungUp

-----------------------------------------------------------------------------
(* Safety, if no user logs in twice on one connection (LoginOnce) *)

\* A chat reaches a client that logged in as the user it was sent to.
ChatsReachRecipients ==
  \A c \in Client :
    LET received == ChatsOf(c)
    IN  \A i \in DOMAIN received : <<c, received[i].to>> \in logins

\* Who chats with the user it is logged in as has the chat in its inbox when
\* the request returns (tests/handshake.cpp:13-14).
SelfChatComesFirst ==
  \A c \in Client : \A i \in DOMAIN toClient[c] :
    LET m == toClient[c][i]
    IN  /\ m.type = "Success" /\ m.re.type = "SendChat" /\ <<c, m.re.to>> \in logins
        => \E k \in 1..(Len(inbox[c]) + i - 1) :
             LET chat == (inbox[c] \o toClient[c])[k]
             IN  chat.type = "ReceiveChat" /\ chat.content = m.re.content

\* The server calls its SessionManager as SessionManager.tla assumes.
UsesSessionManager == SessionSpec

-----------------------------------------------------------------------------
(* Liveness *)

\* No client leaves what was sent to it unread for ever.
ClientsDrain == \A c \in Client : []<>(Len(toClient[c]) < Cap)

\* Every request ends: with its response, or with Disconnected if the server is
\* gone, unless some client never reads again with its channel full.
RequestsEnd ==
  ClientsDrain => \A c \in Client : pending[c] # Nothing ~> pending[c] = Nothing

\* The same without the exception: a server that takes requests and "sends back
\* encrypted responses" (docs/hierarchy.txt:27) answers each of them, whether or
\* not some other client reads what was sent to it.
RequestsAnswered == \A c \in Client : pending[c] # Nothing ~> pending[c] = Nothing

\* Connect() returns, unless the process is out of descriptors for good.
ConnectsEnd ==
  ClientsDrain /\ []<>(FreeFds # {} \/ acceptQ = << >>)
  => \A c \in Client : cstate[c] = "connecting" /\ Alive(c)
                         ~> cstate[c] # "connecting" \/ ~Alive(c)

\* A user whose client is gone is logged out in the end, so that it can log in
\* again, with the same exception (tests/singlelogin.cpp:20).
LostLoginsEnd ==
  ClientsDrain =>
    \A fd \in Fd :
      IsEstablished(fd) /\ IsAuthenticated(fd) /\ peer[fd] \in hungUp
      ~> ~IsEstablished(fd) \/ reset[fd] = "behind"
=============================================================================
