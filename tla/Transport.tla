----------------------------- MODULE Transport -----------------------------
(***************************************************************************)
(* What lies between the clients and the server: the kernel's sockets and  *)
(* epoll, and the SecureChannel on top of them, as Server.cpp and          *)
(* Client.cpp use them (SecureChannel.h itself is not in the repository).  *)
(*                                                                         *)
(* A message is sent and received whole and in order.  A client is one     *)
(* Client object: it connects once and hangs up once, when it is           *)
(* destroyed, quits or dies.  What it sent before is still delivered; what *)
(* is on its way to it, or sent to it later, is lost and answered with a   *)
(* reset.  A connection is reset once: from then on a send fails at once,  *)
(* and nothing that happens on the connection is an edge any more.         *)
(***************************************************************************)
EXTENDS Descriptors, Filter, FiniteSets, FiniteSetsExt

CONSTANTS
  Client,
  NoClient,    \* the peer of a descriptor that is not open
  Listener,    \* the listening socket's descriptor
  Backlog,     \* connections the kernel holds for accept()
  MaxEvents,   \* the most events one epoll_wait returns
  Cap          \* messages that fit between the server and a client's receive

ASSUME TransportAssumption ==
  /\ NoClient \notin Client
  /\ Fd \subseteq Nat \ {Listener}
  /\ Listener \in Nat
  /\ {Backlog, MaxEvents, Cap} \subseteq Nat \ {0}

VARIABLES
  peer,       \* Fd -> the client at the other end, NoClient if not open
  hungUp,     \* the clients that have closed their end
  reset,      \* Fd -> the reset from its other end: "none", "coming", "arrived", or "behind" if
              \* a request was still unread when it arrived (history: all one to the kernel)
  acceptQ,    \* the listening socket's queue of connections
  toServer,   \* Client -> messages on their way to the server
  toClient,   \* Client -> messages on their way to the client
  interest,   \* the descriptors registered with epoll, Listener aside
  ready       \* epoll's ready list

netVars == <<peer, hungUp, reset, acceptQ, toServer, toClient, interest, ready>>

-----------------------------------------------------------------------------
(* Sockets *)

IsOpen(fd) == peer[fd] # NoClient

FreeFds == {fd \in Fd : ~IsOpen(fd)}

\* The descriptors whose other end is client c: at most one.
FdsOf(c) == {fd \in Fd : peer[fd] = c}

\* c is connected, or waits to be accepted, or has lost its connection.
Linked(c) == FdsOf(c) # {} \/ \E i \in DOMAIN acceptQ : acceptQ[i] = c

\* The server closes fd: a reset that is still to come finds nothing.
Close(fd) ==
  /\ peer' = [peer EXCEPT ![fd] = NoClient]
  /\ reset' = [reset EXCEPT ![fd] = "none"]

\* A receive on fd would return: with a message, or with the end of the stream.
HasInput(fd) ==
  IF fd = Listener
  THEN acceptQ # << >>
  ELSE /\ IsOpen(fd)
       /\ toServer[peer[fd]] # << >> \/ peer[fd] \in hungUp

-----------------------------------------------------------------------------
(* epoll *)

InReady(fd) == \E i \in DOMAIN ready : ready[i] = fd

\* An edge on each of fds that is registered: it joins the ready list unless
\* it is in it already.  Here fds has at most one element.
WithEdge(fds) ==
  LET new == {fd \in fds \cap (interest \cup {Listener}) : ~InReady(fd)}
  IN  IF new = {} THEN ready ELSE Append(ready, CHOOSE fd \in new : TRUE)

\* EPOLL_CTL_DEL.
WithoutFd(fd) == Filter(ready, (Fd \cup {Listener}) \ {fd})

\* What epoll_wait goes through: an entry whose input is gone is dropped.
Reportable == Filter(ready, {fd \in Fd \cup {Listener} : HasInput(fd)})

\* How many of the entries of list it returns.
EventCount(list) == Min({Len(list), MaxEvents})

\* Mutant of AfterWait: the listener is edge-triggered too.
AfterWaitAllEdges ==
  LET list == Reportable IN SubSeq(list, EventCount(list) + 1, Len(list))

\* The events it returns, and the list it leaves: a client's descriptor is
\* edge-triggered and leaves the list, the listener goes to its end again.
Events == LET list == Reportable IN SubSeq(list, 1, EventCount(list))

AfterWait ==
  LET list == Reportable
      n == EventCount(list)
  IN  SubSeq(list, n + 1, Len(list)) \o Filter(SubSeq(list, 1, n), {Listener})

-----------------------------------------------------------------------------
(* Sending to a client *)

\* The server can finish a send to fd: there is room, or nobody to read.
CanSend(fd) == peer[fd] \in hungUp \/ Len(toClient[peer[fd]]) < Cap

\* The other ends of fds answer with a reset, if they have not done so before.
Resetting(fds) ==
  [fd \in Fd |-> IF fd \in fds /\ reset[fd] = "none" THEN "coming" ELSE reset[fd]]

\* A message for a client that has hung up is lost.  It is answered, some time
\* later, unless the connection has been reset: then the send fails here.
SendTo(fd, m) ==
  IF peer[fd] \in hungUp
  THEN /\ reset' = Resetting({fd})
       /\ UNCHANGED toClient
  ELSE /\ toClient' = [toClient EXCEPT ![peer[fd]] = Append(@, m)]
       /\ UNCHANGED reset

\* What a send to fd returns: not -1.
SendSucceeds(fd) == reset[fd] \in {"none", "coming"}

\* The reset reaches the server, an edge on the descriptor.  What the client had
\* sent before stays in the receive queue.
ResetArrives(fd) ==
  /\ reset[fd] = "coming"
  /\ reset' = [reset EXCEPT ![fd] =
                  IF toServer[peer[fd]] = << >> THEN "arrived" ELSE "behind"]
  /\ ready' = WithEdge({fd})
  /\ UNCHANGED <<peer, hungUp, acceptQ, toServer, toClient, interest>>

TransportInit ==
  /\ peer = [fd \in Fd |-> NoClient]
  /\ hungUp = {}
  /\ reset = [fd \in Fd |-> "none"]
  /\ acceptQ = << >>
  /\ toServer = [c \in Client |-> << >>]
  /\ toClient = [c \in Client |-> << >>]
  /\ interest = {}
  /\ ready = << >>
=============================================================================
