------------------------------- MODULE Client -------------------------------
(***************************************************************************)
(* src/Client/Client.{h,cpp}: a client sends one request, then receives    *)
(* until its response comes; a chat that comes first goes to its inbox.    *)
(* Between requests it does not receive at all.  Which requests it sends   *)
(* is its user's choice (ClientCLI.cpp).                                   *)
(***************************************************************************)
EXTENDS Server

CONSTANTS
  Offered,     \* bound: the types of request users send
  MayHangUp    \* bound: FALSE if no client ends

VARIABLES
  cstate,    \* Client -> "off", "connecting", "up", "failed": the channel
  pending,   \* Client -> the request that waits for its response, or Nothing
  inbox,     \* Client -> _inbox
  chats      \* Client -> how many chats it has sent

clientVars == <<cstate, pending, inbox, chats>>

-----------------------------------------------------------------------------
Alive(c) == c \notin hungUp

\* Client(c) opens its socket, Connect() starts the key exchange.
Connect(c) ==
  /\ Alive(c) /\ cstate[c] = "off"
  /\ pc # "down" /\ Len(acceptQ) < Backlog
  /\ cstate' = [cstate EXCEPT ![c] = "connecting"]
  /\ acceptQ' = Append(acceptQ, c)
  /\ ready' = WithEdge({Listener})
  /\ UNCHANGED <<peer, hungUp, reset, toServer, toClient, interest, serverVars>>
  /\ UNCHANGED <<pending, inbox, chats>>

\* Waiting for a message: the key, or the response to the pending request.
Waiting(c) == Alive(c) /\ (cstate[c] = "connecting" \/ pending[c] # Nothing)

\* EstablishKey returns: the server's key has come, or the connection is gone.
Connected(c) ==
  /\ Alive(c) /\ cstate[c] = "connecting"
  /\ toClient[c] # << >> /\ Head(toClient[c]) = Key
  /\ cstate' = [cstate EXCEPT ![c] = "up"]
  /\ toClient' = [toClient EXCEPT ![c] = Tail(@)]
  /\ UNCHANGED <<peer, hungUp, reset, acceptQ, toServer, interest, ready, serverVars>>
  /\ UNCHANGED <<pending, inbox, chats>>

ConnectFails(c) ==
  /\ Alive(c) /\ cstate[c] = "connecting"
  /\ toClient[c] = << >> /\ ~Linked(c)
  /\ cstate' = [cstate EXCEPT ![c] = "failed"]
  /\ UNCHANGED <<netVars, serverVars, pending, inbox, chats>>

\* The requests a user of client c may have it send.  With LoginOnce a user
\* does not log in on a connection that has a login already.
Requests(c) ==
  {r \in [type : {"Ping", "Other"}]
         \cup [type : {"Register", "Login"}, username : User, password : Password]
         \cup [type : {"SendChat"}, to : User, content : {[by |-> c, n |-> chats[c] + 1]}] :
     /\ r.type \in Offered
     /\ r.type = "SendChat" => chats[c] < MaxChats
     /\ r.type = "Login" /\ LoginOnce => \A u \in User : <<c, u>> \notin logins}

SendRequest(c, r) ==
  /\ Alive(c) /\ cstate[c] = "up" /\ pending[c] = Nothing
  /\ pending' = [pending EXCEPT ![c] = r]
  /\ chats' = IF r.type = "SendChat" THEN [chats EXCEPT ![c] = @ + 1] ELSE chats
  /\ toServer' = IF Linked(c) THEN [toServer EXCEPT ![c] = Append(@, r)] ELSE toServer
  /\ ready' = WithEdge(FdsOf(c))
  /\ UNCHANGED <<peer, hungUp, reset, acceptQ, toClient, interest, serverVars>>
  /\ UNCHANGED <<cstate, inbox>>

\* Mutants of InboxWith: the chat is passed over; the newest chat comes first.
InboxWithout(c, chat) == inbox[c]

InboxWithNewestFirst(c, chat) == <<chat>> \o inbox[c]

InboxWith(c, chat) == Append(inbox[c], chat)

\* GetResponse: a chat is put into the inbox and the wait goes on; the
\* response ends it.
GetResponse(c) ==
  /\ Alive(c) /\ pending[c] # Nothing
  /\ toClient[c] # << >>
  /\ LET m == Head(toClient[c])
     IN  IF m.type = "ReceiveChat"
         THEN /\ inbox' = [inbox EXCEPT ![c] = InboxWith(c, m)]
              /\ UNCHANGED pending
         ELSE /\ pending' = [pending EXCEPT ![c] = Nothing]
              /\ UNCHANGED inbox
  /\ toClient' = [toClient EXCEPT ![c] = Tail(@)]
  /\ UNCHANGED <<peer, hungUp, reset, acceptQ, toServer, interest, ready, serverVars>>
  /\ UNCHANGED <<cstate, chats>>

\* RequestError::Disconnected.
Disconnected(c) ==
  /\ Alive(c) /\ pending[c] # Nothing
  /\ toClient[c] = << >> /\ ~Linked(c)
  /\ pending' = [pending EXCEPT ![c] = Nothing]
  /\ UNCHANGED <<netVars, serverVars, cstate, inbox, chats>>

GetUnread(c) ==
  /\ Alive(c) /\ pending[c] = Nothing /\ inbox[c] # << >>
  /\ inbox' = [inbox EXCEPT ![c] = << >>]
  /\ UNCHANGED <<netVars, serverVars, cstate, pending, chats>>

\* The client object is destroyed, or its process quits or dies, at any moment.
\* A close with something unread, or still on its way, resets the connection.
HangUp(c) ==
  /\ Alive(c) /\ cstate[c] # "off"
  /\ hungUp' = hungUp \cup {c}
  /\ reset' = IF toClient[c] = << >> THEN reset ELSE Resetting(FdsOf(c))
  /\ toClient' = [toClient EXCEPT ![c] = << >>]
  /\ pending' = [pending EXCEPT ![c] = Nothing]
  /\ inbox' = [inbox EXCEPT ![c] = << >>]
  /\ ready' = WithEdge(FdsOf(c))
  /\ UNCHANGED <<peer, acceptQ, toServer, interest, serverVars>>
  /\ UNCHANGED <<cstate, chats>>

-----------------------------------------------------------------------------
ClientInit ==
  /\ cstate = [c \in Client |-> "off"]
  /\ pending = [c \in Client |-> Nothing]
  /\ inbox = [c \in Client |-> << >>]
  /\ chats = [c \in Client |-> 0]

\* What the user decides, and what the client then does by itself.  The tests of
\* cstate and pending are SendRequest's, put first for TLC: there are many requests.
UserAction(c) ==
  \/ Connect(c)
  \/ cstate[c] = "up" /\ pending[c] = Nothing /\ \E r \in Requests(c) : SendRequest(c, r)
  \/ GetUnread(c)
  \/ MayHangUp /\ HangUp(c)

ClientAction(c) ==
  \/ Connected(c)
  \/ ConnectFails(c)
  \/ GetResponse(c)
  \/ Disconnected(c)
=============================================================================
