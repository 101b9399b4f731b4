------------------------------ MODULE Sockets ------------------------------
(***************************************************************************)
(* src/Network: TcpSocket, TcpClient, TcpListener and IpAddress.  Each     *)
(* object holds a descriptor, an address and a port; the threads of one    *)
(* process construct, move, use and destroy such objects.  The kernel      *)
(* keeps, for every descriptor, a file, and the other end of every         *)
(* connection is outside.  What is sent is left out.                       *)
(***************************************************************************)
EXTENDS Descriptors, Integers, FiniteSets

CONSTANTS
  TcpClient, TcpListener,   \* the objects of either class the process may have
  Quad,       \* the addresses in use, four bytes each
  Port,       \* the port numbers in use: 5555
  Backlog     \* bound: connections waiting for Accept

MaxPort == 65535   \* a uint16_t's

ASSUME SocketAssumption ==
  /\ Fd \subseteq Nat
  /\ TcpClient \cap TcpListener = {}
  /\ Backlog \in Nat
  /\ Quad \subseteq [1..4 -> 0..255]
  /\ Port \subseteq 1..MaxPort

VARIABLES
  live,         \* the objects that exist
  sockets,      \* Object -> _sockfd, _address and _port
  connecting,   \* the objects inside Connect
  file,         \* Fd -> the kernel's state of it
  lingering     \* local ends of connections that were closed here (TIME_WAIT)

socketVars == <<live, sockets, connecting, file, lingering>>

Object == TcpClient \cup TcpListener

-----------------------------------------------------------------------------
(* IpAddress: a number; the kernel has the bytes *)

FromBytes(q) == ((q[1] * 256 + q[2]) * 256 + q[3]) * 256 + q[4]

\* The most significant byte first: what ToString prints, and how htonl leaves
\* the value in memory for the kernel to read.
ToBytes(value) ==
  LET by8  == value \div 256
      by16 == by8 \div 256
      by24 == by16 \div 256
  IN  <<by24 % 256, by16 % 256, by8 % 256, value % 256>>

LocalHost == <<127, 0, 0, 1>>

AnyAddress == <<0, 0, 0, 0>>   \* INADDR_ANY

\* sockaddr_in, with htons.
Endpoint(address, port) == [address |-> ToBytes(address), port |-> port % (MaxPort + 1)]

\* Connecting to INADDR_ANY is connecting to this host.
Destination(address, port) ==
  [Endpoint(address, port) EXCEPT !.address = IF @ = AnyAddress THEN LocalHost ELSE @]

-----------------------------------------------------------------------------
(* The kernel *)

\* kind: "closed", "fresh", "bound", "listening", "connected" (by Connect) or
\* "accepted"; at: the local end, or the remote one if "connected"; link: "up",
\* "eof" (the peer has closed), "reset" or "broken" (an error waits to be
\* reported: ECONNRESET or, after eof, EPIPE), "over" (it has been reported).
NoEnd == [address |-> AnyAddress, port |-> 0]

ClosedFile ==
  [kind |-> "closed", at |-> NoEnd, link |-> "none", reuse |-> FALSE,
   blocking |-> TRUE, pending |-> 0]

\* What socket() returns.
FreshFile == [ClosedFile EXCEPT !.kind = "fresh"]

FreeFds == {fd \in Fd : file[fd].kind = "closed"}

IsLowest(fd) == fd \in FreeFds /\ \A g \in FreeFds : fd <= g

Overlap(a, b) == a.port = b.port /\ (a.address = b.address \/ AnyAddress \in {a.address, b.address})

\* bind(): another socket at that port is in the way unless both have
\* SO_REUSEADDR and the other is not listening.
CanBind(f, at) ==
  /\ f.kind = "fresh"
  /\ \A fd \in Fd :
       file[fd].kind \in {"bound", "listening", "accepted"} /\ Overlap(file[fd].at, at)
       => f.reuse /\ file[fd].reuse /\ file[fd].kind # "listening"
  /\ \A end \in lingering : Overlap(end.at, at) => f.reuse /\ end.reuse

\* close() of the descriptors fds.  Who closes an accepted connection first
\* keeps its port for a while.
FilesWithout(fds) == [fd \in Fd |-> IF fd \in fds THEN ClosedFile ELSE file[fd]]

LingeringAfter(fds) ==
  lingering \cup {[at |-> file[fd].at, reuse |-> file[fd].reuse] :
                    fd \in {f \in fds \cap Fd : file[f].kind = "accepted" /\ file[f].link = "up"}}

\* What goes on outside: connections come, the peer closes or resets one, the
\* wait of a closed one is over.
Arrive(fd) ==
  /\ file[fd].kind = "listening" /\ file[fd].pending < Backlog
  /\ file' = [file EXCEPT ![fd].pending = @ + 1]
  /\ UNCHANGED <<live, sockets, connecting, lingering>>

PeerCloses(fd) ==
  /\ file[fd].link = "up"
  /\ file' = [file EXCEPT ![fd].link = "eof"]
  /\ UNCHANGED <<live, sockets, connecting, lingering>>

PeerResets(fd) ==
  /\ file[fd].link \in {"up", "eof"}
  /\ file' = [file EXCEPT ![fd].link = IF @ = "up" THEN "reset" ELSE "broken"]
  /\ UNCHANGED <<live, sockets, connecting, lingering>>

Expire(end) ==
  /\ end \in lingering
  /\ lingering' = lingering \ {end}
  /\ UNCHANGED <<live, sockets, connecting, file>>

-----------------------------------------------------------------------------
(* TcpSocket *)

NoFd == -1

\* TcpSocket().
Unset == [sockfd |-> NoFd, address |-> 0, port |-> 0]

Fresh(handle) == [Unset EXCEPT !.sockfd = handle]

\* The objects on which a thread can call something: no other thread is in
\* a call of theirs.
Idle(o) == o \in live \ connecting

Construct(o) ==
  /\ o \notin live
  /\ live' = live \cup {o}
  /\ UNCHANGED <<sockets, connecting, file, lingering>>

\* Mutant of MovedFrom: the descriptor stays in both.
MovedFromShared(s) == [s EXCEPT !.address = 0, !.port = 0]

\* What the move constructor leaves of its argument.
MovedFrom(s) == Unset

Move(from, to) ==
  /\ Idle(from) /\ to \notin live
  /\ {from, to} \subseteq TcpClient \/ {from, to} \subseteq TcpListener
  /\ live' = live \cup {to}
  /\ sockets' = [sockets EXCEPT ![to] = sockets[from], ![from] = MovedFrom(@)]
  /\ UNCHANGED <<connecting, file, lingering>>

Closing(fd) ==
  /\ file' = FilesWithout({fd})
  /\ lingering' = LingeringAfter({fd})

Close(o) ==
  /\ Idle(o) /\ sockets[o].sockfd # NoFd
  /\ Closing(sockets[o].sockfd)
  /\ sockets' = [sockets EXCEPT ![o] = Unset]
  /\ UNCHANGED <<live, connecting>>

Destroy(o) ==
  /\ Idle(o)
  /\ Closing(sockets[o].sockfd)
  /\ sockets' = [sockets EXCEPT ![o] = Unset]
  /\ live' = live \ {o}
  /\ UNCHANGED connecting

SetBlocking(o, blocking) ==
  /\ Idle(o) /\ sockets[o].sockfd # NoFd
  /\ file' = [file EXCEPT ![sockets[o].sockfd].blocking = blocking]
  /\ UNCHANGED <<live, sockets, connecting, lingering>>

-----------------------------------------------------------------------------
(* TcpClient *)

\* Mutants of Reconnected: the old descriptor is not closed; the old address
\* stays.
ReconnectedOpen(o) ==
  /\ sockets' = [sockets EXCEPT ![o] = Unset]
  /\ UNCHANGED <<file, lingering>>

ReconnectedNamed(o) ==
  /\ Closing(sockets[o].sockfd)
  /\ sockets' = [sockets EXCEPT ![o].sockfd = NoFd]

\* Connect closes the descriptor the object has.
Reconnected(o) ==
  /\ Closing(sockets[o].sockfd)
  /\ sockets' = [sockets EXCEPT ![o] = Unset]

ConnectBegins(o) ==
  /\ o \in TcpClient /\ Idle(o)
  /\ IF sockets[o].sockfd # NoFd
     THEN Reconnected(o) ELSE UNCHANGED <<sockets, file, lingering>>
  /\ connecting' = connecting \cup {o}
  /\ UNCHANGED live

\* socket(): blocking, whatever the last one was.
ConnectOpens(o, fd) ==
  /\ o \in connecting /\ sockets[o].sockfd = NoFd
  /\ IsLowest(fd)
  /\ file' = [file EXCEPT ![fd] = FreshFile]
  /\ sockets' = [sockets EXCEPT ![o].sockfd = fd]
  /\ UNCHANGED <<live, connecting, lingering>>

\* socket() or connect() fails: Connect returns false, and the object keeps
\* what it has by then.
ConnectFails(o) ==
  /\ o \in connecting
  /\ sockets[o].sockfd = NoFd => FreeFds = {}
  /\ connecting' = connecting \ {o}
  /\ UNCHANGED <<live, sockets, file, lingering>>

ConnectReturns(o, q, port) ==
  /\ o \in connecting /\ sockets[o].sockfd # NoFd
  /\ LET fd == sockets[o].sockfd
         address == FromBytes(q)
     IN  /\ file' = [file EXCEPT ![fd].kind = "connected", ![fd].link = "up",
                                 ![fd].at = Destination(address, port)]
         /\ sockets' = [sockets EXCEPT ![o] = [sockfd |-> fd, address |-> address, port |-> port]]
  /\ connecting' = connecting \ {o}
  /\ UNCHANGED <<live, lingering>>

File(o) == file[sockets[o].sockfd]

HasLink(o, links) == sockets[o].sockfd # NoFd /\ File(o).link \in links

\* IsConnected takes the error that waits; so does a Send or a Receive, but
\* for EPIPE.
TakeError(o) ==
  /\ o \in TcpClient /\ Idle(o)
  /\ HasLink(o, {"reset", "broken"})
  /\ file' = [file EXCEPT ![sockets[o].sockfd].link = "over"]
  /\ UNCHANGED <<live, sockets, connecting, lingering>>

\* send() with nobody to send to, not even an error to return: SIGPIPE ends
\* the process.
SendKills(o) ==
  /\ o \in TcpClient /\ Idle(o)
  /\ sockets[o].sockfd # NoFd
  /\ File(o).kind = "fresh" \/ File(o).link \in {"broken", "over"}
  /\ live' = {} /\ connecting' = {}
  /\ sockets' = [p \in Object |-> Unset]
  /\ file' = FilesWithout(Fd)
  /\ lingering' = LingeringAfter(Fd)

-----------------------------------------------------------------------------
(* TcpListener *)

\* Mutant of WithOptions: SO_REUSEADDR is not set.
WithoutOptions(f) == f

\* setsockopt.
WithOptions(f) == [f EXCEPT !.reuse = TRUE]

\* The descriptor Listen works on and its file after setsockopt.
ListensOn(o, fd) ==
  /\ o \in TcpListener /\ Idle(o)
  /\ IF sockets[o].sockfd = NoFd THEN IsLowest(fd) ELSE fd = sockets[o].sockfd

ListenFile(o) == WithOptions(IF sockets[o].sockfd = NoFd THEN FreshFile ELSE File(o))

\* bind() fails: the port is taken, or the socket has been bound before.
BindFails(o, fd, at) ==
  /\ ListensOn(o, fd) /\ ~CanBind(ListenFile(o), at)
  /\ file' = [file EXCEPT ![fd] = ListenFile(o)]
  /\ sockets' = [sockets EXCEPT ![o].sockfd = fd]
  /\ UNCHANGED <<live, connecting, lingering>>

\* listen() fails: somebody else has begun to listen there since bind().
ListenFails(o, fd, at) ==
  /\ ListensOn(o, fd) /\ CanBind(ListenFile(o), at)
  /\ file' = [file EXCEPT ![fd] = [ListenFile(o) EXCEPT !.kind = "bound", !.at = at]]
  /\ sockets' = [sockets EXCEPT ![o].sockfd = fd]
  /\ UNCHANGED <<live, connecting, lingering>>

Listens(o, fd, q, port) ==
  LET at == Endpoint(FromBytes(q), port)
  IN  /\ ListensOn(o, fd) /\ CanBind(ListenFile(o), at)
      /\ file' = [file EXCEPT ![fd] = [ListenFile(o) EXCEPT !.kind = "listening", !.at = at]]
      /\ sockets' = [sockets EXCEPT
                       ![o] = [sockfd |-> fd, address |-> FromBytes(q), port |-> port]]
      /\ UNCHANGED <<live, connecting, lingering>>

\* The local TcpClient of Accept is moved into its result and the result into
\* the caller's new object c; what the two are left with is destroyed.
Accept(o, c, fd) ==
  /\ o \in TcpListener /\ Idle(o)
  /\ c \in TcpClient \ live
  /\ sockets[o].sockfd # NoFd /\ File(o).kind = "listening" /\ File(o).pending > 0
  /\ IsLowest(fd)
  /\ LET taken == [file EXCEPT ![sockets[o].sockfd].pending = @ - 1,
                               ![fd] = [FreshFile EXCEPT !.kind = "accepted", !.link = "up",
                                                         !.at = File(o).at, !.reuse = File(o).reuse]]
     IN  file' = [f \in Fd |-> IF f = MovedFrom(Fresh(fd)).sockfd THEN ClosedFile ELSE taken[f]]
  /\ live' = live \cup {c}
  /\ sockets' = [sockets EXCEPT ![c] = Fresh(fd)]
  /\ UNCHANGED <<connecting, lingering>>

-----------------------------------------------------------------------------
(* The errors of the calls that change nothing *)

\* Mutant of Error: not being ready is an error like any other.
ErrorUnready(errno, lost) == IF errno \in lost THEN "Disconnected" ELSE "Unexpected"

\* TcpSocket::Error for an errno; lost: those the call takes for Disconnected.
Error(errno, lost) ==
  IF errno \in {"EAGAIN", "EWOULDBLOCK"} THEN "NotReady"
  ELSE IF errno \in lost THEN "Disconnected" ELSE "Unexpected"

\* What send, recv and accept can set errno to when they are called now.
SendErrno(o) ==
  IF sockets[o].sockfd = NoFd THEN {"EBADF"}
  ELSE IF File(o).link \in {"up", "eof"} THEN (IF File(o).blocking THEN {} ELSE {"EAGAIN"})
  ELSE IF File(o).link = "reset" THEN {"ECONNRESET"} ELSE {"EPIPE"}

ReceiveErrno(o) ==
  IF sockets[o].sockfd = NoFd THEN {"EBADF"}
  ELSE IF File(o).kind = "fresh" THEN {"ENOTCONN"}
  ELSE IF File(o).link = "up" THEN (IF File(o).blocking THEN {} ELSE {"EAGAIN"})
  ELSE IF File(o).link = "reset" THEN {"ECONNRESET"} ELSE {}

AcceptErrno(o) ==
  IF sockets[o].sockfd = NoFd THEN {"EBADF"}
  ELSE IF File(o).kind # "listening" THEN {"EINVAL"}
  ELSE IF FreeFds = {} THEN {"EMFILE"}
  ELSE IF File(o).pending = 0 /\ ~File(o).blocking THEN {"EAGAIN"} ELSE {}

SendErrors(o) == {Error(e, {"ENOTSOCK", "ENOTCONN", "EBADF"}) : e \in SendErrno(o)}

ReceiveErrors(o) ==
  {Error(e, {"ENOTSOCK", "ENOTCONN", "EBADF", "ECONNREFUSED"}) : e \in ReceiveErrno(o)}

AcceptErrors(o) == {Error(e, {"ENOTSOCK", "EINVAL"}) : e \in AcceptErrno(o)}

\* getsockopt works and has no error to report.
IsConnected(o) == sockets[o].sockfd # NoFd /\ File(o).link \notin {"reset", "broken"}

GetRemoteAddress(o) == sockets[o].address   \* 0: nullopt

-----------------------------------------------------------------------------
SocketInit ==
  /\ live = {} /\ connecting = {}
  /\ sockets = [o \in Object |-> Unset]
  /\ file = [fd \in Fd |-> ClosedFile]
  /\ lingering = {}

Outside ==
  \/ \E fd \in Fd : Arrive(fd) \/ PeerCloses(fd) \/ PeerResets(fd)
  \/ \E end \in lingering : Expire(end)

Call ==
  \E o \in Object :
    \/ Construct(o)
    \/ \E to \in Object : Move(o, to)
    \/ Close(o)
    \/ Destroy(o)
    \/ \E blocking \in BOOLEAN : SetBlocking(o, blocking)
    \/ ConnectBegins(o)
    \/ \E fd \in Fd : ConnectOpens(o, fd)
    \/ ConnectFails(o)
    \/ \E q \in Quad, port \in Port : ConnectReturns(o, q, port)
    \/ TakeError(o)
    \/ SendKills(o)
    \/ \E fd \in Fd, q \in Quad, port \in Port :
         \/ BindFails(o, fd, Endpoint(FromBytes(q), port))
         \/ ListenFails(o, fd, Endpoint(FromBytes(q), port))
         \/ Listens(o, fd, q, port)
    \/ \E c \in TcpClient, fd \in Fd : Accept(o, c, fd)

SocketNext == Outside \/ Call

SocketSpec == SocketInit /\ [][SocketNext]_socketVars

-----------------------------------------------------------------------------
(* Properties *)

End == [address : [1..4 -> 0..255], port : 0..MaxPort]

FileType ==
  [kind : {"closed", "fresh", "bound", "listening", "connected", "accepted"},
   at : End, link : {"none", "up", "eof", "reset", "broken", "over"},
   reuse : BOOLEAN, blocking : BOOLEAN, pending : 0..Backlog]

\* The records and sets the variables' comments speak of.
SocketTypeOK ==
  /\ live \subseteq Object
  /\ connecting \subseteq live \cap TcpClient
  /\ sockets \in [Object -> [sockfd : Fd \cup {NoFd}, address : Nat, port : Nat]]
  /\ file \in [Fd -> FileType]
  /\ lingering \subseteq [at : End, reuse : BOOLEAN]

\* Every open descriptor is held by exactly one object, through constructions,
\* moves, failed calls, reconnects and destructors: none leaks, and none is
\* closed twice, the second time when it is another object's already
\* (TcpSocket.cpp:12, TcpClient.cpp:31, TcpListener.cpp:45).
OneOwner ==
  /\ \A fd \in Fd :
       file[fd].kind # "closed" <=> \E o \in live : sockets[o].sockfd = fd
  /\ \A o, p \in live :
       o # p /\ sockets[o].sockfd = sockets[p].sockfd => sockets[o].sockfd = NoFd

\* What an object says of its address and port is so: a client that names a
\* remote address is connected to it, a listener that names a port listens on
\* it, and one that does is not silent about it; also after failed attempts to
\* connect or listen elsewhere (TcpClient.cpp:43, TcpListener.cpp:27).
AddressesAreTrue ==
  \A o \in live :
    LET s == sockets[o]
        named == s.sockfd # NoFd /\ File(o).at = [address |-> ToBytes(s.address), port |-> s.port]
    IN  IF o \in TcpClient
        THEN /\ GetRemoteAddress(o) # 0 => named /\ File(o).kind = "connected"
             /\ s.sockfd # NoFd /\ File(o).kind = "connected" => s.port = File(o).at.port
        ELSE s.port # 0 <=> named /\ File(o).kind = "listening"

\* A port that nobody listens on can be listened on, whatever connections to it
\* are still open or have just been closed, by this process or by the one that
\* was killed before (TcpListener.cpp:19).
PortsAreReusable ==
  \A q \in Quad, port \in Port :
    LET at == Endpoint(FromBytes(q), port)
    IN  (\A fd \in Fd : file[fd].kind = "listening" => ~Overlap(file[fd].at, at))
        => CanBind(WithOptions(FreshFile), at)

\* The errors say what has become of the connection: a call that reports
\* Disconnected, or IsConnected that is false, is never about one that still is
\* up, and NotReady is only about one on which a later call can succeed.
ErrorsAreTruthful ==
  /\ \A o \in (live \ connecting) \cap TcpClient :
       LET errors == SendErrors(o) \cup ReceiveErrors(o)
           up == HasLink(o, {"up", "eof"})
       IN  /\ "Disconnected" \in errors \/ ~IsConnected(o) => ~up
           /\ "NotReady" \in errors => up
           /\ up => errors \subseteq {"NotReady"}
  /\ \A o \in live \cap TcpListener :
       LET listening == sockets[o].sockfd # NoFd /\ File(o).kind = "listening"
       IN  /\ "Disconnected" \in AcceptErrors(o) => ~listening
           /\ "NotReady" \in AcceptErrors(o) => listening

openBar == Fd \ FreeFds
ownsBar == {held \in live \X Fd : sockets[held[1]].sockfd = held[2]}

Ownership == INSTANCE DescriptorOwnership WITH open <- openBar, owns <- ownsBar

\* Descriptors change hands as DescriptorOwnership says: nothing is closed but
\* by its owner, and a move is a transfer.
ImplementsOwnership == Ownership!OwnershipSpec
=============================================================================
