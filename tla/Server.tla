------------------------------- MODULE Server -------------------------------
(***************************************************************************)
(* src/Server/Server.{h,cpp}: one thread that waits for epoll events and   *)
(* handles them one after the other.  A handler is cut into several        *)
(* actions where it may block: in the key exchange with a new client, in   *)
(* the chat it forwards to another client and in the response.  Its table  *)
(* of sessions is SessionManager's sessions and userToFd.                  *)
(***************************************************************************)
EXTENDS Transport, SessionManager

CONSTANTS
  Password, Size, Chars,   \* as in AccountRegistry
  MaxChats,                \* bound: chats a client sends
  ChatSize                 \* bound: 1..MaxChats -> "short" or "long", their sizes

VARIABLES
  pc,         \* where the thread is: "loop", "establish", "forward", "respond", "down"
  batch,      \* the events of the last epoll_wait not handled yet
  newFd,      \* the descriptor whose key exchange runs, Listener if none does
  request,    \* the request being handled
  response,   \* the response HandleRequest returned
  accounts, accepted,   \* AccountRegistry's
  logins      \* history: <<client, user>> for every login answered with Success

ASSUME ServerAssumption == MaxChats \in Nat

Registry == INSTANCE AccountRegistry

registryVars == <<accounts, accepted>>
threadVars == <<pc, batch, newFd, request, response>>
serverVars == <<threadVars, sessionVars, registryVars, logins>>

-----------------------------------------------------------------------------
(* Messages *)

\* The content of a chat: enough to tell chats apart.  A long one just fits the
\* message buffer beside the recipient's name.
Content == [by : Client, n : 1..MaxChats]

\* "Other" is any message that is none of the four requests or not a
\* well-formed one.
Request ==
  [type : {"Ping", "Other"}]
  \cup [type : {"Register", "Login"}, username : User, password : Password]
  \cup [type : {"SendChat"}, to : User, content : Content]

\* re: the request it answers (history, not on the wire).
Response == [type : {"Success", "Failure"}, re : Request]

\* to: the recipient its sender named (history, not on the wire).
ReceiveChat == [type : {"ReceiveChat"}, from : User, to : User, content : Content]

Key == [type |-> "Key"]   \* the server's half of the key exchange

Success == [type |-> "Success", re |-> request]

Failure == [type |-> "Failure", re |-> request]

Nothing == [type |-> "Nothing"]   \* no request, no response

-----------------------------------------------------------------------------
(* The event loop *)

Event == Head(batch)

\* epoll_wait: with no event to report it times out and is called again.
EpollWait ==
  /\ pc = "loop" /\ batch = << >>
  /\ batch' = Events
  /\ ready' = AfterWait
  /\ UNCHANGED <<peer, hungUp, reset, acceptQ, toServer, toClient, interest>>
  /\ UNCHANGED <<pc, newFd, request, response, sessionVars, registryVars, logins>>

\* Mutants of RestOfBatch: a send to a client that is gone ends the handling of
\* the whole batch; a descriptor is received from again after each response.
RestOfBatchDropped ==
  IF pc = "respond" /\ peer[Event] \in hungUp THEN << >> ELSE Tail(batch)

RestOfBatchDraining == IF pc = "respond" THEN batch ELSE Tail(batch)

RestOfBatch == Tail(batch)

Handling(fd) == pc = "loop" /\ batch # << >> /\ Event = fd

Accept ==
  /\ Handling(Listener)
  /\ acceptQ # << >> /\ FreeFds # {}
  /\ newFd' = Min(FreeFds)
  /\ peer' = [peer EXCEPT ![newFd'] = Head(acceptQ)]
  /\ acceptQ' = Tail(acceptQ)
  /\ pc' = "establish"
  /\ UNCHANGED <<hungUp, reset, toServer, toClient, interest, ready>>
  /\ UNCHANGED <<batch, request, response, sessionVars, registryVars, logins>>

\* Accept returns -1: the process is out of descriptors.
AcceptFails ==
  /\ Handling(Listener)
  /\ FreeFds = {}
  /\ batch' = RestOfBatch
  /\ UNCHANGED <<netVars, pc, newFd, request, response, sessionVars, registryVars, logins>>

\* The key exchange succeeds: the session is created and the descriptor
\* registered, which is an edge if there is input by then.
EstablishConnection ==
  /\ pc = "establish"
  /\ Create(newFd)
  /\ interest' = interest \cup {newFd}
  /\ ready' = IF HasInput(newFd) THEN Append(ready, newFd) ELSE ready
  /\ SendTo(newFd, Key)
  /\ pc' = "loop"
  /\ newFd' = Listener
  /\ batch' = RestOfBatch
  /\ UNCHANGED <<peer, hungUp, acceptQ, toServer>>
  /\ UNCHANGED <<request, response, registryVars, logins>>

\* The key exchange fails: the channel, and with it the descriptor, is gone.
EstablishFails ==
  /\ pc = "establish"
  /\ Close(newFd)
  /\ pc' = "loop"
  /\ newFd' = Listener
  /\ batch' = RestOfBatch
  /\ UNCHANGED <<hungUp, acceptQ, toServer, toClient, interest, ready>>
  /\ UNCHANGED <<request, response, sessionVars, registryVars, logins>>

\* Mutants of EndSession: the descriptor is closed although the session may stay;
\* the session goes whether or not it has a login.
EndSessionCloses(fd) ==
  /\ Destroy(fd)
  /\ Close(fd)

EndSessionErases(fd) ==
  /\ sessions' = Erase(sessions, fd)
  /\ userToFd' = Erase(userToFd, GetUsername(fd))
  /\ Close(fd)

\* Destroying the session closes the descriptor; a session that stays keeps it.
EndSession(fd) ==
  /\ Destroy(fd)
  /\ IF CanDestroy(fd) THEN Close(fd) ELSE UNCHANGED <<peer, reset>>

\* Receive returns no message: the client has hung up.
CloseConnection(fd) ==
  /\ Handling(fd) /\ IsEstablished(fd)
  /\ toServer[peer[fd]] = << >> /\ peer[fd] \in hungUp
  /\ interest' = interest \ {fd}
  /\ ready' = WithoutFd(fd)
  /\ EndSession(fd)
  /\ batch' = RestOfBatch
  /\ UNCHANGED <<hungUp, acceptQ, toServer, toClient>>
  /\ UNCHANGED <<pc, newFd, request, response, registryVars, logins>>

-----------------------------------------------------------------------------
(* Requests *)

\* Receive puts the next message, of one of the given types, into the buffer.
Receive(fd, types) ==
  /\ Handling(fd) /\ IsEstablished(fd)
  /\ toServer[peer[fd]] # << >>
  /\ Head(toServer[peer[fd]]).type \in types
  /\ request' = Head(toServer[peer[fd]])
  /\ toServer' = [toServer EXCEPT ![peer[fd]] = Tail(@)]
  /\ UNCHANGED <<peer, hungUp, reset, acceptQ, toClient, interest, ready>>
  /\ UNCHANGED <<batch, newFd>>

\* HandleRequest returns Success or Failure for the request just received.
Return(ok) ==
  /\ pc' = "respond"
  /\ response' = [type |-> IF ok THEN "Success" ELSE "Failure", re |-> request']

HandlePing(fd) ==
  /\ Receive(fd, {"Ping"})
  /\ Return(TRUE)
  /\ UNCHANGED <<sessionVars, registryVars, logins>>

\* HandleBufferedRequest's failures: an unknown or a malformed message.
HandleOther(fd) ==
  /\ Receive(fd, {"Other"})
  /\ Return(FALSE)
  /\ UNCHANGED <<sessionVars, registryVars, logins>>

HandleRegister(fd) ==
  /\ Receive(fd, {"Register"})
  /\ Registry!Register(request'.username, request'.password)
  /\ Return(Registry!RegisterErrors(request'.username, request'.password) = {})
  /\ UNCHANGED <<sessionVars, logins>>

HandleLogin(fd) ==
  /\ Receive(fd, {"Login"})
  /\ LET u == request'.username
         matches == Registry!MatchingPassword(u, request'.password)
     IN  /\ IF matches THEN Authenticate(fd, u) ELSE UNCHANGED sessionVars
         /\ Return(matches /\ CanAuthenticate(fd, u))
         /\ logins' = IF matches /\ CanAuthenticate(fd, u)
                      THEN logins \cup {<<peer[fd], u>>} ELSE logins
  /\ UNCHANGED registryVars

\* Mutant of MayForward: a client need not be logged in to send.
MayForwardUnchecked(fd, to) == IsEstablishedUser(to)

MayForward(fd, to) == IsAuthenticated(fd) /\ IsEstablishedUser(to)

\* A chat that will be forwarded is not answered yet.
HandleSendChat(fd) ==
  /\ Receive(fd, {"SendChat"})
  /\ IF MayForward(fd, request'.to)
     THEN pc' = "forward" /\ UNCHANGED response
     ELSE Return(FALSE)
  /\ UNCHANGED <<sessionVars, registryVars, logins>>

-----------------------------------------------------------------------------
(* Sending *)

\* ReceiveChat::Serialize succeeds: the sender's name takes the place of the
\* recipient's.
Fits ==
  ChatSize[request.content.n] = "short" \/ Size[GetUsername(Event)] <= Size[request.to]

\* Mutant of Forwarded: the request is still in the message buffer.
ForwardedUnserialized == request

Forwarded ==
  [type |-> "ReceiveChat", from |-> GetUsername(Event),
   to |-> request.to, content |-> request.content]

\* Hand the ReceiveChat to the recipient's channel and answer accordingly.  That
\* the recipient has hung up does not show before its connection is reset.
ForwardChat ==
  /\ pc = "forward" /\ Fits
  /\ LET to == ChannelOf(request.to)
     IN  /\ CanSend(to)
         /\ SendTo(to, Forwarded)
         /\ response' = IF SendSucceeds(to) THEN Success ELSE Failure
  /\ pc' = "respond"
  /\ UNCHANGED <<peer, hungUp, acceptQ, toServer, interest, ready>>
  /\ UNCHANGED <<batch, newFd, request, sessionVars, registryVars, logins>>

\* Mutant of ForwardFails: the handler returns without a response.
ForwardFailsSilently ==
  /\ pc = "forward" /\ ~Fits
  /\ request' = Nothing
  /\ pc' = "loop"
  /\ batch' = RestOfBatch
  /\ UNCHANGED <<netVars, newFd, response, sessionVars, registryVars, logins>>

\* The ReceiveChat does not fit the buffer: nothing is sent.
ForwardFails ==
  /\ pc = "forward" /\ ~Fits
  /\ response' = Failure
  /\ pc' = "respond"
  /\ UNCHANGED <<netVars, batch, newFd, request, sessionVars, registryVars, logins>>

SendResponse ==
  /\ pc = "respond"
  /\ CanSend(Event)
  /\ SendTo(Event, response)
  /\ pc' = "loop"
  /\ batch' = RestOfBatch
  /\ request' = Nothing /\ response' = Nothing
  /\ UNCHANGED <<peer, hungUp, acceptQ, toServer, interest, ready>>
  /\ UNCHANGED <<newFd, sessionVars, registryVars, logins>>

\* The process ends: killed, or a TestServer that goes out of scope.  The
\* kernel closes its descriptors; what was in memory is gone.
Stop ==
  /\ pc # "down"
  /\ pc' = "down" /\ batch' = << >> /\ newFd' = Listener
  /\ request' = Nothing /\ response' = Nothing
  /\ sessions' = EmptyMap /\ userToFd' = EmptyMap
  /\ accounts' = EmptyMap /\ accepted' = {}
  /\ peer' = [fd \in Fd |-> NoClient] /\ reset' = [fd \in Fd |-> "none"]
  /\ acceptQ' = << >>
  /\ interest' = {} /\ ready' = << >>
  /\ UNCHANGED <<hungUp, toServer, toClient, logins>>

-----------------------------------------------------------------------------
ServerInit ==
  /\ pc = "loop" /\ batch = << >>
  /\ newFd = Listener
  /\ request = Nothing /\ response = Nothing
  /\ SessionInit
  /\ Registry!AccountInit
  /\ logins = {}

HandleEvents ==
  \/ EpollWait
  \/ Accept
  \/ AcceptFails
  \/ EstablishConnection
  \/ EstablishFails
  \/ \E fd \in Fd :
       /\ Handling(fd)
       /\ \/ CloseConnection(fd)
          \/ HandlePing(fd)
          \/ HandleOther(fd)
          \/ HandleRegister(fd)
          \/ HandleLogin(fd)
          \/ HandleSendChat(fd)
  \/ ForwardChat
  \/ ForwardFails
  \/ SendResponse
=============================================================================
