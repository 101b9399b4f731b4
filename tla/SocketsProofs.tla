--------------------------- MODULE SocketsProofs ---------------------------
(***************************************************************************)
(* Proofs about Sockets for any objects, descriptors, addresses and ports. *)
(***************************************************************************)
EXTENDS Sockets, TLAPS

-----------------------------------------------------------------------------
(* Addresses *)

\* What << 8 and | put together, >> 8 and the cast to uint8_t take apart.
LEMMA BytesTakenApart ==
  ASSUME NEW a \in 0..255, NEW b \in 0..255, NEW c \in 0..255, NEW d \in 0..255,
         NEW q, q = <<a, b, c, d>>
  PROVE  /\ FromBytes(q) \in Nat
         /\ ToBytes(FromBytes(q)) = q
         /\ FromBytes(q) = 0 <=> q = AnyAddress
<1> DEFINE by16 == a * 256 + b
           by8  == by16 * 256 + c
           v    == by8 * 256 + d
<1>1. a \in Nat /\ a % 256 = a
  OBVIOUS
<1>2. by16 \in Nat /\ by16 \div 256 = a /\ by16 % 256 = b
  OBVIOUS
<1>3. by8 = 0 <=> a = 0 /\ b = 0 /\ c = 0
  OBVIOUS
<1>4. by8 \in Nat /\ by8 \div 256 = by16 /\ by8 % 256 = c
  <2> HIDE DEF by16
  <2> QED  BY <1>2
<1>5. v \in Nat /\ v \div 256 = by8 /\ v % 256 = d
  <2> HIDE DEF by8
  <2> QED  BY <1>4
<1>6. v = 0 <=> by8 = 0 /\ d = 0
  <2> HIDE DEF by8
  <2> QED  BY <1>4
<1>7. ToBytes(v) = q
  <2> HIDE DEF v, by8, by16
  <2> QED  BY <1>1, <1>2, <1>4, <1>5 DEF ToBytes
<1>8. FromBytes(q) = v
  BY DEF FromBytes
<1>9. q = AnyAddress <=> a = 0 /\ b = 0 /\ c = 0 /\ d = 0
  BY DEF AnyAddress
<1> HIDE DEF v, by8
<1> QED
  BY <1>3, <1>5, <1>6, <1>7, <1>8, <1>9

\* An IpAddress packed from four bytes prints, and reaches the kernel, as these
\* four bytes (IpAddress.cpp:6-20).
LEMMA BytesReturn ==
  ASSUME NEW q \in [1..4 -> 0..255]
  PROVE  /\ FromBytes(q) \in Nat
         /\ ToBytes(FromBytes(q)) = q
         /\ FromBytes(q) = 0 <=> q = AnyAddress
<1>1. q[1] \in 0..255 /\ q[2] \in 0..255 /\ q[3] \in 0..255 /\ q[4] \in 0..255
  OBVIOUS
<1>2. q = <<q[1], q[2], q[3], q[4]>>
  OBVIOUS
<1> QED
  BY <1>1, <1>2, BytesTakenApart, ZenonT(60)

\* A port number fits the kernel's 16 bits, so htons takes nothing from it.
LEMMA PortsFit ==
  /\ MaxPort \in Nat /\ 0 \in 0..MaxPort
  /\ \A port \in 1..MaxPort : port % (MaxPort + 1) = port
  BY SMT DEF MaxPort

\* What the kernel is told, and what connecting to INADDR_ANY makes of it.
LEMMA EndsAreEnds ==
  ASSUME NEW q \in Quad, NEW port \in Port
  PROVE  /\ q \in [1..4 -> 0..255] /\ port \in Nat \ {0}
         /\ FromBytes(q) \in Nat
         /\ Endpoint(FromBytes(q), port) = [address |-> q, port |-> port]
         /\ Endpoint(FromBytes(q), port) \in End
         /\ Destination(FromBytes(q), port) \in End
         /\ Destination(FromBytes(q), port).port = port
         /\ q # AnyAddress => Destination(FromBytes(q), port) = [address |-> q, port |-> port]
<1>1. q \in [1..4 -> 0..255] /\ port \in 1..MaxPort
  BY SocketAssumption
<1>2. FromBytes(q) \in Nat /\ ToBytes(FromBytes(q)) = q
  BY <1>1, BytesReturn
<1>3. port % (MaxPort + 1) = port
  BY <1>1, PortsFit
<1>4. Endpoint(FromBytes(q), port) = [address |-> q, port |-> port]
  BY <1>2, <1>3 DEF Endpoint
<1>5. Endpoint(FromBytes(q), port) \in End
  <2>1. port \in 0..MaxPort
    BY <1>1, PortsFit
  <2> QED  BY <1>1, <1>4, <2>1 DEF End
<1>6. LocalHost \in [1..4 -> 0..255]
  BY DEF LocalHost
<1>7. port \in Nat \ {0}
  BY <1>1, PortsFit
<1> QED
  BY <1>1, <1>2, <1>4, <1>5, <1>6, <1>7, SMTT(60) DEF Destination, End

-----------------------------------------------------------------------------
(* Types and ownership *)

\* An object that does not exist holds nothing.
Unheld == \A o \in Object \ live : sockets[o] = Unset

SocketInv == SocketTypeOK /\ Unheld /\ OneOwner

\* What socket() returns, and a closed descriptor, are of the right type.
LEMMA FreshTypes ==
  FreshFile \in FileType /\ ClosedFile \in FileType
<1>1. AnyAddress \in [1..4 -> 0..255]
  BY DEF AnyAddress
<1>2. 0 \in 0..Backlog
  BY SocketAssumption
<1>3. 0 \in 0..MaxPort
  BY PortsFit
<1>4. NoEnd \in End
  BY <1>1, <1>3 DEF NoEnd, End
<1> QED
  BY <1>2, <1>4 DEF FreshFile, ClosedFile, FileType

\* So is what close() leaves.
LEMMA ClosingTypes ==
  ASSUME SocketTypeOK, NEW fds
  PROVE  /\ FilesWithout(fds) \in [Fd -> FileType]
         /\ LingeringAfter(fds) \subseteq [at : End, reuse : BOOLEAN]
<1>1. FilesWithout(fds) \in [Fd -> FileType]
  BY FreshTypes DEF FilesWithout, SocketTypeOK
<1>2. LingeringAfter(fds) \subseteq [at : End, reuse : BOOLEAN]
  BY DEF LingeringAfter, SocketTypeOK, FileType
<1> QED
  BY <1>1, <1>2

\* Nobody can have the number of no descriptor.
LEMMA NoFdIsNone == NoFd \notin Fd
  BY SocketAssumption DEF NoFd

\* Listen works on an open descriptor that has SO_REUSEADDR.
LEMMA ListenWorksOn ==
  ASSUME SocketInv, NEW o \in Object, NEW fd \in Fd, ListensOn(o, fd)
  PROVE  /\ ListenFile(o) \in FileType
         /\ ListenFile(o).reuse
         /\ ListenFile(o).kind # "closed"
         /\ sockets[o].sockfd # NoFd => ListenFile(o).at = file[fd].at
         /\ ListenFile(o).kind = IF sockets[o].sockfd = NoFd THEN "fresh" ELSE file[fd].kind
         /\ ListenFile(o).link = IF sockets[o].sockfd = NoFd THEN "none" ELSE file[fd].link
         /\ ListenFile(o).pending = IF sockets[o].sockfd = NoFd THEN 0 ELSE file[fd].pending
         /\ o \in live /\ o \notin connecting /\ o \in TcpListener
         /\ sockets[o].sockfd = NoFd => fd \in FreeFds
         /\ sockets[o].sockfd # NoFd => fd = sockets[o].sockfd
<1>1. CASE sockets[o].sockfd = NoFd
  <2>1. ListenFile(o) = [FreshFile EXCEPT !.reuse = TRUE]
    BY <1>1 DEF ListenFile, WithOptions
  <2>2. FreshFile.kind = "fresh" /\ FreshFile.link = "none" /\ FreshFile.pending = 0
    BY DEF FreshFile, ClosedFile
  <2> QED
    BY <1>1, <2>1, <2>2, FreshTypes DEF ListensOn, Idle, IsLowest, FileType
<1>2. CASE sockets[o].sockfd # NoFd
  <2>1. ListenFile(o) = [file[fd] EXCEPT !.reuse = TRUE]
    BY <1>2 DEF ListenFile, WithOptions, File, ListensOn
  <2>2. file[fd] \in FileType /\ file[fd].kind # "closed"
    BY <1>2 DEF SocketInv, SocketTypeOK, OneOwner, ListensOn, Idle
  <2> QED
    BY <1>2, <2>1, <2>2 DEF ListensOn, Idle, FileType
<1> QED
  BY <1>1, <1>2

\* What moving twice out of Accept comes to: the connection has a descriptor of
\* its own, which nothing closes.
LEMMA AcceptedIsKept ==
  ASSUME SocketInv, NEW o \in Object, NEW c \in TcpClient, NEW fd \in Fd, Accept(o, c, fd)
  PROVE  LET listener == sockets[o].sockfd
         IN  /\ listener \in Fd \ {fd} /\ fd \in FreeFds
             /\ file[listener].kind # "closed" /\ file[listener].pending \in 1..Backlog
             /\ file' = [file EXCEPT
                           ![listener].pending = @ - 1,
                           ![fd] = [FreshFile EXCEPT !.kind = "accepted", !.link = "up",
                                                     !.at = file[listener].at,
                                                     !.reuse = file[listener].reuse]]
<1> DEFINE listener == sockets[o].sockfd
<1>1. o \in live /\ listener \in Fd
  BY DEF Accept, SocketInv, SocketTypeOK, Idle
<1>2. file[listener].kind # "closed"
  BY <1>1 DEF SocketInv, OneOwner
<1>3. fd \in FreeFds /\ fd # listener
  BY <1>2 DEF Accept, IsLowest, FreeFds
<1>4. file[listener].pending \in 1..Backlog
  BY <1>1, SocketAssumption DEF Accept, SocketInv, SocketTypeOK, FileType, File
<1>5. MovedFrom(Fresh(fd)).sockfd \notin Fd
  BY NoFdIsNone DEF MovedFrom, Unset
<1>6. file' = [file EXCEPT ![listener].pending = @ - 1,
                           ![fd] = [FreshFile EXCEPT !.kind = "accepted", !.link = "up",
                                                     !.at = file[listener].at,
                                                     !.reuse = file[listener].reuse]]
  BY <1>5 DEF Accept, SocketInv, SocketTypeOK, File
<1> QED
  BY <1>1, <1>2, <1>3, <1>4, <1>6

\* Every step keeps the types.
LEMMA TypeStep ==
  ASSUME SocketInv, SocketNext
  PROVE  SocketTypeOK'
<1> USE SocketAssumption DEF SocketInv, SocketTypeOK, FileType, Object, Idle, HasLink, File
<1>1. ASSUME NEW fd \in Fd, Arrive(fd) PROVE SocketTypeOK'
  BY <1>1 DEF Arrive
<1>2. ASSUME NEW fd \in Fd, PeerCloses(fd) PROVE SocketTypeOK'
  BY <1>2 DEF PeerCloses
<1>3. ASSUME NEW fd \in Fd, PeerResets(fd) PROVE SocketTypeOK'
  BY <1>3 DEF PeerResets
<1>4. ASSUME NEW end \in lingering, Expire(end) PROVE SocketTypeOK'
  BY <1>4 DEF Expire
<1>5. ASSUME NEW o \in Object, Construct(o) PROVE SocketTypeOK'
  BY <1>5 DEF Construct
<1>6. ASSUME NEW o \in Object, NEW to \in Object, Move(o, to) PROVE SocketTypeOK'
  BY <1>6 DEF Move, MovedFrom, Unset
<1>7. ASSUME NEW o \in Object, Close(o) PROVE SocketTypeOK'
  BY <1>7, ClosingTypes DEF Close, Closing, Unset
<1>8. ASSUME NEW o \in Object, Destroy(o) PROVE SocketTypeOK'
  BY <1>8, ClosingTypes DEF Destroy, Closing, Unset
<1>9. ASSUME NEW o \in Object, NEW blocking \in BOOLEAN, SetBlocking(o, blocking)
      PROVE  SocketTypeOK'
  BY <1>9 DEF SetBlocking
<1>10. ASSUME NEW o \in Object, ConnectBegins(o) PROVE SocketTypeOK'
  BY <1>10, ClosingTypes DEF ConnectBegins, Reconnected, Closing, Unset
<1>11. ASSUME NEW o \in Object, NEW fd \in Fd, ConnectOpens(o, fd) PROVE SocketTypeOK'
  BY <1>11, FreshTypes DEF ConnectOpens
<1>12. ASSUME NEW o \in Object, ConnectFails(o) PROVE SocketTypeOK'
  BY <1>12 DEF ConnectFails
<1>13. ASSUME NEW o \in Object, NEW q \in Quad, NEW port \in Port, ConnectReturns(o, q, port)
       PROVE  SocketTypeOK'
  BY <1>13, EndsAreEnds, SMTT(60) DEF ConnectReturns
<1>14. ASSUME NEW o \in Object, TakeError(o) PROVE SocketTypeOK'
  BY <1>14 DEF TakeError
<1>15. ASSUME NEW o \in Object, SendKills(o) PROVE SocketTypeOK'
  BY <1>15, ClosingTypes DEF SendKills, Unset
<1>16. ASSUME NEW o \in Object, NEW fd \in Fd, NEW at \in End, BindFails(o, fd, at)
       PROVE  SocketTypeOK'
  BY <1>16, ListenWorksOn DEF BindFails
<1>17. ASSUME NEW o \in Object, NEW fd \in Fd, NEW at \in End, ListenFails(o, fd, at)
       PROVE  SocketTypeOK'
  <2>1. ListenFile(o) \in FileType
    BY <1>17, ListenWorksOn DEF ListenFails
  <2>2. [ListenFile(o) EXCEPT !.kind = "bound", !.at = at] \in FileType
    BY <2>1
  <2> QED
    <3> HIDE DEF FileType
    <3> QED  BY <1>17, <2>2 DEF ListenFails
<1>18. ASSUME NEW o \in Object, NEW fd \in Fd, NEW q \in Quad, NEW port \in Port,
              Listens(o, fd, q, port)
       PROVE  SocketTypeOK'
  <2> DEFINE at == Endpoint(FromBytes(q), port)
  <2>1. at \in End /\ FromBytes(q) \in Nat /\ port \in Nat
    BY EndsAreEnds
  <2>2. ListenFile(o) \in FileType
    BY <1>18, ListenWorksOn DEF Listens
  <2>3. [ListenFile(o) EXCEPT !.kind = "listening", !.at = at] \in FileType
    BY <2>1, <2>2
  <2> QED
    <3> HIDE DEF FileType
    <3> QED  BY <1>18, <2>1, <2>3 DEF Listens
<1>19. ASSUME NEW o \in Object, NEW c \in TcpClient, NEW fd \in Fd, Accept(o, c, fd)
       PROVE  SocketTypeOK'
  <2> DEFINE listener == sockets[o].sockfd
             accepted == [FreshFile EXCEPT !.kind = "accepted", !.link = "up",
                                           !.at = file[listener].at, !.reuse = file[listener].reuse]
             taken == [file[listener] EXCEPT !.pending = @ - 1]
  <2>1. /\ listener \in Fd \ {fd} /\ file[listener].pending \in 1..Backlog
        /\ file' = [file EXCEPT ![listener].pending = @ - 1, ![fd] = accepted]
    BY <1>19, AcceptedIsKept
  <2>2. file[listener].pending - 1 \in 0..Backlog
    BY <2>1
  <2>3. taken \in FileType
    BY <2>1, <2>2
  <2>4. accepted \in FileType
    BY <2>1, FreshTypes
  <2>5. file' \in [Fd -> FileType]
    <3> HIDE DEF FileType
    <3> QED  BY <2>1, <2>3, <2>4
  <2> QED
    BY <1>19, <2>5, ZenonT(60) DEF Accept, Fresh, Unset
<1> QED
  BY <1>1, <1>2, <1>3, <1>4, <1>5, <1>6, <1>7, <1>8, <1>9, <1>10, <1>11, <1>12, <1>13,
     <1>14, <1>15, <1>16, <1>17, <1>18, <1>19, EndsAreEnds
     DEF SocketNext, Outside, Call

\* Every step leaves every open descriptor exactly one owner.
LEMMA OwnerStep ==
  ASSUME SocketInv, SocketNext
  PROVE  (Unheld /\ OneOwner)'
<1> DEFINE Goal == (Unheld /\ OneOwner)'
<1> SUFFICES Goal
  OBVIOUS
<1> USE DEF SocketInv, SocketTypeOK, Unheld, OneOwner, Idle, Object, Unset
<1>0. ClosedFile.kind = "closed" /\ FreshFile.kind = "fresh"
  BY DEF ClosedFile, FreshFile
<1>1. ASSUME NEW fd \in Fd, Arrive(fd) PROVE Goal
  BY <1>1 DEF Arrive, FileType
<1>2. ASSUME NEW fd \in Fd, PeerCloses(fd) PROVE Goal
  BY <1>2 DEF PeerCloses, FileType
<1>3. ASSUME NEW fd \in Fd, PeerResets(fd) PROVE Goal
  BY <1>3 DEF PeerResets, FileType
<1>4. ASSUME NEW end \in lingering, Expire(end) PROVE Goal
  BY <1>4 DEF Expire
<1>5. ASSUME NEW o \in Object, Construct(o) PROVE Goal
  BY <1>5, NoFdIsNone DEF Construct
<1>6. ASSUME NEW o \in Object, NEW to \in Object, Move(o, to) PROVE Goal
  BY <1>6, NoFdIsNone DEF Move, MovedFrom
<1>7. ASSUME NEW o \in Object, Close(o) PROVE Goal
  BY <1>7, <1>0, NoFdIsNone DEF Close, Closing, FilesWithout
<1>8. ASSUME NEW o \in Object, Destroy(o) PROVE Goal
  BY <1>8, <1>0, NoFdIsNone DEF Destroy, Closing, FilesWithout
<1>9. ASSUME NEW o \in Object, NEW blocking \in BOOLEAN, SetBlocking(o, blocking) PROVE Goal
  BY <1>9 DEF SetBlocking, FileType
<1>10. ASSUME NEW o \in Object, ConnectBegins(o) PROVE Goal
  BY <1>10, <1>0, NoFdIsNone DEF ConnectBegins, Reconnected, Closing, FilesWithout
<1>11. ASSUME NEW o \in Object, NEW fd \in Fd, ConnectOpens(o, fd) PROVE Goal
  BY <1>11, <1>0, NoFdIsNone DEF ConnectOpens, IsLowest, FreeFds
<1>12. ASSUME NEW o \in Object, ConnectFails(o) PROVE Goal
  BY <1>12 DEF ConnectFails
<1>13. ASSUME NEW o \in Object, NEW q \in Quad, NEW port \in Port, ConnectReturns(o, q, port)
       PROVE  Goal
  BY <1>13, NoFdIsNone, SMTT(30) DEF ConnectReturns, FileType
<1>14. ASSUME NEW o \in Object, TakeError(o) PROVE Goal
  BY <1>14 DEF TakeError, HasLink, FileType
<1>15. ASSUME NEW o \in Object, SendKills(o) PROVE Goal
  BY <1>15, <1>0, NoFdIsNone DEF SendKills, FilesWithout
<1>16. ASSUME NEW o \in Object, NEW fd \in Fd, NEW at, BindFails(o, fd, at) PROVE Goal
  BY <1>16, ListenWorksOn, NoFdIsNone DEF BindFails, FreeFds
<1>17. ASSUME NEW o \in Object, NEW fd \in Fd, NEW at, ListenFails(o, fd, at) PROVE Goal
  <2>1. [ListenFile(o) EXCEPT !.kind = "bound", !.at = at].kind # "closed"
    BY <1>17, ListenWorksOn DEF ListenFails, FileType
  <2> QED
    BY <1>17, <2>1, ListenWorksOn, NoFdIsNone DEF ListenFails, FreeFds
<1>18. ASSUME NEW o \in Object, NEW fd \in Fd, NEW q \in Quad, NEW port \in Port,
              Listens(o, fd, q, port)
       PROVE  Goal
  <2> DEFINE at == Endpoint(FromBytes(q), port)
  <2>1. [ListenFile(o) EXCEPT !.kind = "listening", !.at = at].kind # "closed"
    BY <1>18, ListenWorksOn DEF Listens, FileType
  <2> QED
    BY <1>18, <2>1, ListenWorksOn, NoFdIsNone DEF Listens, FreeFds
<1>19. ASSUME NEW o \in Object, NEW c \in TcpClient, NEW fd \in Fd, Accept(o, c, fd) PROVE Goal
  <2>1. \A g \in Fd : file'[g].kind = IF g = fd THEN "accepted" ELSE file[g].kind
    <3> DEFINE listener == sockets[o].sockfd
               accepted == [FreshFile EXCEPT !.kind = "accepted", !.link = "up",
                                             !.at = file[listener].at,
                                             !.reuse = file[listener].reuse]
               taken == [file[listener] EXCEPT !.pending = @ - 1]
    <3>1. accepted.kind = "accepted"
      BY FreshTypes DEF FileType
    <3>2. listener \in Fd \ {fd} /\ file' = [file EXCEPT ![listener] = taken, ![fd] = accepted]
      BY <1>19, AcceptedIsKept
    <3>3. taken.kind = file[listener].kind
      BY <3>2 DEF FileType
    <3> HIDE DEF accepted, taken
    <3> QED  BY <3>1, <3>2, <3>3
  <2>2. fd \in FreeFds
    BY <1>19, AcceptedIsKept
  <2> QED
    BY <1>19, <2>1, <2>2, NoFdIsNone DEF Accept, Fresh, FreeFds
<1> HIDE DEF Goal
<1> QED
  BY <1>1, <1>2, <1>3, <1>4, <1>5, <1>6, <1>7, <1>8, <1>9, <1>10, <1>11, <1>12, <1>13,
     <1>14, <1>15, <1>16, <1>17, <1>18, <1>19
     DEF SocketNext, Outside, Call

\* The inductive invariant of the component.
LEMMA SocketInvariant == SocketSpec => []SocketInv
<1>1. SocketInit => SocketInv
  <2> SUFFICES ASSUME SocketInit PROVE SocketInv
    OBVIOUS
  <2>1. SocketTypeOK
    BY FreshTypes DEF SocketInit, SocketTypeOK, Unset
  <2>2. ClosedFile.kind = "closed"
    BY DEF ClosedFile
  <2> QED
    BY <2>1, <2>2 DEF SocketInit, SocketInv, Unheld, OneOwner
<1>2. SocketInv /\ [SocketNext]_socketVars => SocketInv'
  <2>1. CASE SocketNext
    BY <2>1, TypeStep, OwnerStep DEF SocketInv
  <2>2. CASE UNCHANGED socketVars
    BY <2>2 DEF socketVars, SocketInv, SocketTypeOK, Unheld, OneOwner
  <2> QED
    BY <2>1, <2>2
<1> QED
  BY <1>1, <1>2, PTL DEF SocketSpec

\* The objects, what they hold and the kernel's files are always of their types.
THEOREM SocketTypeInvariant == SocketSpec => []SocketTypeOK
<1>1. SocketInv => SocketTypeOK
  BY DEF SocketInv
<1> QED
  BY <1>1, SocketInvariant, PTL

\* Whatever the objects go through, and however many there are, each open
\* descriptor has exactly one owner: none leaks and none is closed twice.
THEOREM OneOwnerHolds == SocketSpec => []OneOwner
<1>1. SocketInv => OneOwner
  BY DEF SocketInv
<1> QED
  BY <1>1, SocketInvariant, PTL

-----------------------------------------------------------------------------
(* Ports and errors *)

\* Every socket that can be in a listener's way has SO_REUSEADDR, and one that
\* has not been connected has no link.
KernelInv ==
  /\ \A fd \in Fd : /\ file[fd].kind \in {"bound", "listening", "accepted"} => file[fd].reuse
                    /\ file[fd].kind = "fresh" => file[fd].link = "none"
  /\ \A end \in lingering : end.reuse

\* close() takes files away and leaves ends of accepted connections.
LEMMA ClosingKeepsKernel ==
  ASSUME SocketInv, KernelInv, NEW fds,
         file' = FilesWithout(fds), lingering' = LingeringAfter(fds)
  PROVE  KernelInv'
  BY DEF KernelInv, FilesWithout, LingeringAfter, ClosedFile

\* Every step keeps KernelInv.
LEMMA KernelStep ==
  ASSUME SocketInv, KernelInv, SocketNext
  PROVE  KernelInv'
<1> USE DEF KernelInv, SocketInv, SocketTypeOK, Idle, Object, FileType
<1>0. /\ ClosedFile.kind = "closed" /\ FreshFile.kind = "fresh" /\ FreshFile.link = "none"
  BY DEF ClosedFile, FreshFile
<1>1. ASSUME NEW fd \in Fd, Arrive(fd) PROVE KernelInv'
  BY <1>1 DEF Arrive
<1>2. ASSUME NEW fd \in Fd, PeerCloses(fd) PROVE KernelInv'
  BY <1>2 DEF PeerCloses
<1>3. ASSUME NEW fd \in Fd, PeerResets(fd) PROVE KernelInv'
  BY <1>3 DEF PeerResets
<1>4. ASSUME NEW end \in lingering, Expire(end) PROVE KernelInv'
  BY <1>4 DEF Expire
<1>5. ASSUME UNCHANGED <<file, lingering>> PROVE KernelInv'
  BY <1>5
<1>6. ASSUME NEW o \in Object, \/ Close(o) \/ Destroy(o) \/ ConnectBegins(o) \/ SendKills(o)
      PROVE  KernelInv'
  <2> HIDE DEF KernelInv, SocketInv
  <2> QED
    BY <1>5, <1>6, ClosingKeepsKernel
       DEF Close, Destroy, Closing, ConnectBegins, Reconnected, SendKills
<1>7. ASSUME NEW o \in Object, NEW blocking \in BOOLEAN, SetBlocking(o, blocking)
      PROVE  KernelInv'
  BY <1>7 DEF SetBlocking
<1>8. ASSUME NEW o \in Object, NEW fd \in Fd, ConnectOpens(o, fd) PROVE KernelInv'
  BY <1>0, <1>8 DEF ConnectOpens
<1>9. ASSUME NEW o \in Object, NEW q \in Quad, NEW port \in Port, ConnectReturns(o, q, port)
      PROVE  KernelInv'
  BY <1>9, SMTT(60) DEF ConnectReturns
<1>10. ASSUME NEW o \in Object, TakeError(o) PROVE KernelInv'
  BY <1>10 DEF TakeError, HasLink, File
<1>11. ASSUME NEW o \in Object, NEW fd \in Fd, NEW at, BindFails(o, fd, at) PROVE KernelInv'
  BY <1>11, ListenWorksOn DEF BindFails
<1>12. ASSUME NEW o \in Object, NEW fd \in Fd, NEW at, ListenFails(o, fd, at) PROVE KernelInv'
  <2> DEFINE new == [ListenFile(o) EXCEPT !.kind = "bound", !.at = at]
  <2>1. new.kind = "bound" /\ new.reuse
    BY <1>12, ListenWorksOn DEF ListenFails
  <2> HIDE DEF new
  <2>2. file' = [file EXCEPT ![fd] = new] /\ lingering' = lingering
    BY <1>12 DEF ListenFails, new
  <2> QED
    BY <2>1, <2>2
<1>13. ASSUME NEW o \in Object, NEW fd \in Fd, NEW q \in Quad, NEW port \in Port,
              Listens(o, fd, q, port)
       PROVE  KernelInv'
  <2> DEFINE at == Endpoint(FromBytes(q), port)
             new == [ListenFile(o) EXCEPT !.kind = "listening", !.at = at]
  <2>1. new.kind = "listening" /\ new.reuse
    BY <1>13, ListenWorksOn DEF Listens
  <2> HIDE DEF new
  <2>2. file' = [file EXCEPT ![fd] = new] /\ lingering' = lingering
    BY <1>13 DEF Listens, new
  <2> QED
    BY <2>1, <2>2
<1>14. ASSUME NEW o \in Object, NEW c \in TcpClient, NEW fd \in Fd, Accept(o, c, fd)
       PROVE  KernelInv'
  <2> DEFINE listener == sockets[o].sockfd
             accepted == [FreshFile EXCEPT !.kind = "accepted", !.link = "up",
                                           !.at = file[listener].at,
                                           !.reuse = file[listener].reuse]
             taken == [file[listener] EXCEPT !.pending = @ - 1]
  <2>1. /\ listener \in Fd \ {fd}
        /\ file' = [file EXCEPT ![listener] = taken, ![fd] = accepted]
        /\ lingering' = lingering
    BY <1>14, AcceptedIsKept DEF Accept
  <2>2. file[listener].reuse
    BY <1>14 DEF Accept, File
  <2>3. accepted.kind = "accepted" /\ accepted.reuse
    BY <2>2, FreshTypes
  <2>4. /\ taken.kind = file[listener].kind /\ taken.link = file[listener].link
        /\ taken.reuse = file[listener].reuse
    BY <2>1
  <2> HIDE DEF accepted, taken
  <2> QED
    BY <2>1, <2>3, <2>4
<1> HIDE DEF KernelInv, SocketInv, SocketTypeOK
<1>15. ASSUME NEW o \in Object, Construct(o) \/ ConnectFails(o) PROVE KernelInv'
  BY <1>5, <1>15 DEF Construct, ConnectFails
<1>16. ASSUME NEW o \in Object, NEW to \in Object, Move(o, to) PROVE KernelInv'
  BY <1>5, <1>16 DEF Move
<1> QED
  BY <1>1, <1>2, <1>3, <1>4, <1>6, <1>7, <1>8, <1>9, <1>10, <1>11, <1>12, <1>13, <1>14,
     <1>15, <1>16
     DEF SocketNext, Outside, Call

\* KernelInv holds of every reachable state.
LEMMA KernelInvariant == SocketSpec => []KernelInv
<1>1. SocketInit => KernelInv
  BY DEF SocketInit, KernelInv, ClosedFile
<1>2. SocketInv /\ KernelInv /\ [SocketNext]_socketVars => KernelInv'
  <2>1. ASSUME UNCHANGED socketVars, KernelInv PROVE KernelInv'
    BY <2>1 DEF socketVars, KernelInv
  <2> QED
    BY <2>1, KernelStep
<1> QED
  BY <1>1, <1>2, SocketInvariant, PTL DEF SocketSpec

\* A port that nobody listens on can be listened on.
THEOREM PortsAlwaysReusable == SocketSpec => []PortsAreReusable
<1>1. SocketInv /\ KernelInv => PortsAreReusable
  <2> SUFFICES ASSUME SocketInv, KernelInv, NEW q \in Quad, NEW port \in Port,
                      NEW at, at = Endpoint(FromBytes(q), port),
                      \A fd \in Fd : file[fd].kind = "listening" => ~Overlap(file[fd].at, at)
               PROVE  CanBind(WithOptions(FreshFile), at)
    BY DEF PortsAreReusable
  <2>1. WithOptions(FreshFile).kind = "fresh" /\ WithOptions(FreshFile).reuse
    BY DEF WithOptions, FreshFile, ClosedFile
  <2> QED
    BY <2>1 DEF CanBind, KernelInv
<1> QED
  BY <1>1, SocketInvariant, KernelInvariant, PTL

\* What the calls report of a connection is so.
THEOREM ErrorsAlwaysTruthful == SocketSpec => []ErrorsAreTruthful
<1>1. SocketInv /\ KernelInv => ErrorsAreTruthful
  <2> SUFFICES ASSUME SocketInv, KernelInv PROVE ErrorsAreTruthful
    OBVIOUS
  <2>1. ASSUME NEW o \in (live \ connecting) \cap TcpClient
        PROVE  LET errors == SendErrors(o) \cup ReceiveErrors(o)
                   up == HasLink(o, {"up", "eof"})
               IN  /\ "Disconnected" \in errors \/ ~IsConnected(o) => ~up
                   /\ "NotReady" \in errors => up
                   /\ up => errors \subseteq {"NotReady"}
    BY NoFdIsNone
       DEF SocketInv, SocketTypeOK, KernelInv, FileType, HasLink, File, IsConnected,
           SendErrors, ReceiveErrors, SendErrno, ReceiveErrno, Error
  <2>2. ASSUME NEW o \in live \cap TcpListener
        PROVE  LET listening == sockets[o].sockfd # NoFd /\ File(o).kind = "listening"
               IN  /\ "Disconnected" \in AcceptErrors(o) => ~listening
                   /\ "NotReady" \in AcceptErrors(o) => listening
    BY DEF File, AcceptErrors, AcceptErrno, Error
  <2> QED
    BY <2>1, <2>2 DEF ErrorsAreTruthful
<1> QED
  BY <1>1, SocketInvariant, KernelInvariant, PTL

-----------------------------------------------------------------------------
(* What the objects say of themselves *)

\* What AddressesAreTrue says of one object.
Honest(o) ==
  LET s == sockets[o]
      named == s.sockfd # NoFd /\ File(o).at = [address |-> ToBytes(s.address), port |-> s.port]
  IN  IF o \in TcpClient
      THEN /\ GetRemoteAddress(o) # 0 => named /\ File(o).kind = "connected"
           /\ s.sockfd # NoFd /\ File(o).kind = "connected" => s.port = File(o).at.port
      ELSE s.port # 0 <=> named /\ File(o).kind = "listening"

\* The property is that of every object.
LEMMA HonestAll == AddressesAreTrue <=> \A o \in live : Honest(o)
  BY DEF AddressesAreTrue, Honest

\* An object stays honest if neither it nor the end of its file changes.
LEMMA HonestKept ==
  ASSUME NEW p, Honest(p), sockets'[p] = sockets[p],
         sockets[p].sockfd # NoFd =>
           LET fd == sockets[p].sockfd
           IN  file'[fd].kind = file[fd].kind /\ file'[fd].at = file[fd].at
  PROVE  Honest(p)'
  BY DEF Honest, File, GetRemoteAddress

\* An object that has nothing says nothing.
LEMMA HonestUnset ==
  ASSUME NEW p, sockets'[p] = Unset
  PROVE  Honest(p)'
  BY DEF Honest, GetRemoteAddress, Unset

\* A step that changes one object and its file leaves the others honest, as
\* they have other descriptors.
LEMMA HonestOthers ==
  ASSUME SocketInv, AddressesAreTrue, NEW o \in Object,
         NEW p \in live, p # o,
         sockets'[p] = sockets[p],
         NEW fd, fd = sockets[o].sockfd \/ fd \in FreeFds, o \in live,
         \A g \in Fd \ {fd} : file'[g].kind = file[g].kind /\ file'[g].at = file[g].at
  PROVE  Honest(p)'
<1>1. sockets[p].sockfd # NoFd => sockets[p].sockfd \in Fd \ {fd}
  BY DEF SocketInv, SocketTypeOK, OneOwner, FreeFds
<1> QED
  BY <1>1, HonestAll, HonestKept

\* Every step keeps the objects honest.
LEMMA AddressStep ==
  ASSUME SocketInv, AddressesAreTrue, SocketNext
  PROVE  AddressesAreTrue'
<1> DEFINE Goal == \A p \in live' : Honest(p)'
<1> SUFFICES Goal
  BY DEF AddressesAreTrue, Honest
<1> USE DEF SocketInv, SocketTypeOK, Idle, Object, FileType
<1>a. \A p \in live : Honest(p)
  BY HonestAll
<1>b. \A p \in live : sockets[p].sockfd # NoFd => sockets[p].sockfd \in Fd
  OBVIOUS
<1>1. ASSUME live' = live, sockets' = sockets,
             \A fd \in Fd : file'[fd].kind = file[fd].kind /\ file'[fd].at = file[fd].at
      PROVE  Goal
  BY <1>1, <1>a, <1>b, HonestKept
<1>2. ASSUME NEW fd \in Fd, Arrive(fd) \/ PeerCloses(fd) \/ PeerResets(fd) PROVE Goal
  BY <1>1, <1>2 DEF Arrive, PeerCloses, PeerResets
<1>3. ASSUME NEW end \in lingering, Expire(end) PROVE Goal
  BY <1>1, <1>3 DEF Expire
<1>4. ASSUME NEW o \in Object, \/ TakeError(o) \/ ConnectFails(o)
                               \/ \E blocking \in BOOLEAN : SetBlocking(o, blocking)
      PROVE  Goal
  <2>1. CASE TakeError(o)
    BY <1>1, <2>1 DEF TakeError, HasLink
  <2>2. CASE ConnectFails(o)
    BY <1>1, <2>2 DEF ConnectFails
  <2>3. ASSUME NEW blocking \in BOOLEAN, SetBlocking(o, blocking) PROVE Goal
    BY <1>1, <2>3 DEF SetBlocking
  <2> QED
    BY <1>4, <2>1, <2>2, <2>3
<1>5. ASSUME NEW o \in Object, Construct(o) PROVE Goal
  <2>1. sockets'[o] = Unset
    BY <1>5 DEF Construct, Unheld
  <2> QED
    BY <1>5, <1>a, <2>1, HonestKept, HonestUnset DEF Construct
<1>6. ASSUME NEW o \in Object, NEW to \in Object, Move(o, to) PROVE Goal
  <2>1. sockets'[o] = Unset
    BY <1>6 DEF Move, MovedFrom
  <2>2. Honest(to)'
    <3>1. sockets'[to] = sockets[o] /\ file' = file /\ (o \in TcpClient <=> to \in TcpClient)
      BY <1>6, SocketAssumption DEF Move
    <3> QED
      BY <1>6, <1>a, <3>1 DEF Honest, File, GetRemoteAddress, Move
  <2>3. ASSUME NEW p \in live, p # o, p # to PROVE Honest(p)'
    BY <1>6, <1>a, <2>3, HonestKept DEF Move
  <2> QED
    BY <1>6, <2>1, <2>2, <2>3, HonestUnset DEF Move
<1>7. ASSUME NEW o \in Object, o \in live, live' \subseteq live, sockets' = [sockets EXCEPT ![o] = Unset],
             Closing(sockets[o].sockfd)
      PROVE  Goal
  <2>1. Honest(o)'
    BY <1>7, HonestUnset
  <2>2. ASSUME NEW p \in live, p # o PROVE Honest(p)'
    BY <1>7, <2>2, HonestOthers DEF Closing, FilesWithout
  <2> QED
    BY <1>7, <2>1, <2>2
<1>8. ASSUME NEW o \in Object, Close(o) \/ Destroy(o) \/ ConnectBegins(o) PROVE Goal
  BY <1>1, <1>7, <1>8 DEF Close, Destroy, ConnectBegins, Reconnected
<1>9. ASSUME NEW o \in Object, SendKills(o) PROVE Goal
  BY <1>9 DEF SendKills
<1>10. ASSUME NEW o \in Object, NEW fd \in Fd, ConnectOpens(o, fd) PROVE Goal
  <2>1. Honest(o)'
    <3>1. /\ o \in live /\ o \in TcpClient /\ fd \in Fd
          /\ file'[fd].kind = "fresh"
          /\ sockets'[o] = [sockets[o] EXCEPT !.sockfd = fd]
      BY <1>10 DEF ConnectOpens, FreshFile, ClosedFile
    <3>2. sockets[o].address = 0
      BY <1>10, <1>a, <3>1 DEF Honest, ConnectOpens, GetRemoteAddress
    <3> QED
      BY <3>1, <3>2 DEF Honest, File, GetRemoteAddress
  <2>2. ASSUME NEW p \in live, p # o PROVE Honest(p)'
    BY <1>10, <2>2, HonestOthers DEF ConnectOpens, IsLowest
  <2> QED
    BY <1>10, <2>1, <2>2 DEF ConnectOpens
<1>11. ASSUME NEW o \in Object, NEW q \in Quad, NEW port \in Port, ConnectReturns(o, q, port)
       PROVE  Goal
  <2> DEFINE fd == sockets[o].sockfd
             end == Destination(FromBytes(q), port)
  <2>1. /\ o \in live /\ o \in TcpClient /\ fd \in Fd
        /\ file' = [file EXCEPT ![fd] = [@ EXCEPT !.kind = "connected", !.link = "up", !.at = end]]
        /\ sockets'[o] = [sockfd |-> fd, address |-> FromBytes(q), port |-> port]
    BY <1>11 DEF ConnectReturns
  <2>2. /\ end.port = port
        /\ FromBytes(q) # 0 => end = [address |-> ToBytes(FromBytes(q)), port |-> port]
    BY EndsAreEnds, BytesReturn
  <2>3. file'[fd].kind = "connected" /\ file'[fd].at = end
    BY <2>1
  <2>4. Honest(o)'
    <3> HIDE DEF end
    <3>1. /\ o \in TcpClient /\ fd \in Fd
          /\ sockets'[o] = [sockfd |-> fd, address |-> FromBytes(q), port |-> port]
      BY <2>1
    <3>2. /\ sockets'[o].sockfd = fd /\ sockets'[o].address = FromBytes(q)
          /\ sockets'[o].port = port
      BY <3>1
    <3> QED  BY <2>2, <2>3, <3>1, <3>2, NoFdIsNone DEF Honest, File, GetRemoteAddress
  <2>5. \A g \in Fd \ {fd} : file'[g].kind = file[g].kind /\ file'[g].at = file[g].at
    <3> HIDE DEF end
    <3> QED  BY <2>1
  <2>6. ASSUME NEW p \in live, p # o PROVE Honest(p)'
    <3>1. sockets'[p] = sockets[p]
      BY <1>11, <2>6 DEF ConnectReturns
    <3> HIDE DEF SocketInv, SocketTypeOK
    <3> QED  BY <2>1, <2>5, <2>6, <3>1, HonestOthers
  <2> QED
    BY <1>11, <2>4, <2>6 DEF ConnectReturns
<1>12. ASSUME NEW o \in Object, NEW fd \in Fd, NEW at, BindFails(o, fd, at) PROVE Goal
  <2>1. /\ o \in live /\ o \notin TcpClient
        /\ file'[fd] = ListenFile(o)
        /\ sockets'[o] = [sockets[o] EXCEPT !.sockfd = fd]
    BY <1>12, ListenWorksOn, SocketAssumption DEF BindFails
  <2>2. Honest(o)'
    <3>1. CASE sockets[o].sockfd = NoFd
      <4>1. sockets[o].port = 0
        BY <1>a, <2>1, <3>1 DEF Honest
      <4>2. ListenFile(o).kind = "fresh"
        BY <1>12, <3>1, ListenWorksOn DEF BindFails
      <4> QED
        BY <2>1, <4>1, <4>2 DEF Honest, File
    <3>2. CASE sockets[o].sockfd # NoFd
      BY <1>12, <1>a, <2>1, <3>2, ListenWorksOn, HonestKept DEF BindFails
    <3> QED
      BY <3>1, <3>2
  <2>3. ASSUME NEW p \in live, p # o PROVE Honest(p)'
    <3>1. /\ fd = sockets[o].sockfd \/ fd \in FreeFds
          /\ sockets'[p] = sockets[p]
          /\ \A g \in Fd \ {fd} : file'[g] = file[g]
      BY <1>12, <2>3, ListenWorksOn DEF BindFails
    <3> HIDE DEF SocketInv, SocketTypeOK
    <3> QED  BY <2>1, <2>3, <3>1, HonestOthers
  <2> QED
    BY <1>12, <2>2, <2>3 DEF BindFails
<1>13. ASSUME NEW o \in Object, NEW fd \in Fd, NEW at, ListenFails(o, fd, at) PROVE Goal
  <2>1. /\ o \in live /\ o \notin TcpClient
        /\ file' = [file EXCEPT ![fd] = [ListenFile(o) EXCEPT !.kind = "bound", !.at = at]]
        /\ sockets'[o] = [sockets[o] EXCEPT !.sockfd = fd]
        /\ ListenFile(o).kind = "fresh"
    BY <1>13, ListenWorksOn, SocketAssumption DEF ListenFails, CanBind
  <2>2. file'[fd].kind = "bound"
    BY <1>13, <2>1, ListenWorksOn DEF ListenFails
  <2>3. sockets[o].port = 0
    <3>1. sockets[o].sockfd # NoFd => file[sockets[o].sockfd].kind = "fresh"
      BY <1>13, <2>1, ListenWorksOn DEF ListenFails
    <3> QED  BY <1>a, <2>1, <3>1 DEF Honest, File
  <2>4. Honest(o)'
    BY <2>1, <2>2, <2>3 DEF Honest, File
  <2>5. ASSUME NEW p \in live, p # o PROVE Honest(p)'
    BY <1>13, <2>1, <2>5, ListenWorksOn, HonestOthers DEF ListenFails
  <2> QED
    BY <1>13, <2>4, <2>5 DEF ListenFails
<1>14. ASSUME NEW o \in Object, NEW fd \in Fd, NEW q \in Quad, NEW port \in Port,
              Listens(o, fd, q, port)
       PROVE  Goal
  <2> DEFINE at == Endpoint(FromBytes(q), port)
  <2>1. /\ o \in live /\ o \notin TcpClient
        /\ file' = [file EXCEPT ![fd] = [ListenFile(o) EXCEPT !.kind = "listening", !.at = at]]
        /\ sockets'[o] = [sockfd |-> fd, address |-> FromBytes(q), port |-> port]
    BY <1>14, ListenWorksOn, SocketAssumption DEF Listens
  <2>2. file'[fd].kind = "listening" /\ file'[fd].at = at
    BY <1>14, <2>1, ListenWorksOn DEF Listens
  <2>3. at = [address |-> ToBytes(FromBytes(q)), port |-> port] /\ port # 0 /\ fd # NoFd
    BY EndsAreEnds, BytesReturn, NoFdIsNone
  <2>4. Honest(o)'
    <3> HIDE DEF at
    <3> QED  BY <2>1, <2>2, <2>3 DEF Honest, File
  <2>5. ASSUME NEW p \in live, p # o PROVE Honest(p)'
    <3>1. /\ fd = sockets[o].sockfd \/ fd \in FreeFds
          /\ sockets'[p] = sockets[p]
          /\ \A g \in Fd \ {fd} : file'[g] = file[g]
      BY <1>14, <2>5, ListenWorksOn DEF Listens
    <3> HIDE DEF SocketInv, SocketTypeOK
    <3> QED  BY <2>1, <2>5, <3>1, HonestOthers
  <2> QED
    BY <1>14, <2>4, <2>5 DEF Listens
<1>15. ASSUME NEW o \in Object, NEW c \in TcpClient, NEW fd \in Fd, Accept(o, c, fd) PROVE Goal
  <2> DEFINE listener == sockets[o].sockfd
             accepted == [FreshFile EXCEPT !.kind = "accepted", !.link = "up",
                                           !.at = file[listener].at,
                                           !.reuse = file[listener].reuse]
             taken == [file[listener] EXCEPT !.pending = @ - 1]
  <2>1. /\ listener \in Fd \ {fd} /\ fd \in FreeFds
        /\ file' = [file EXCEPT ![listener] = taken, ![fd] = accepted]
    BY <1>15, AcceptedIsKept
  <2>2. accepted.kind = "accepted"
    BY FreshTypes
  <2>3. taken.kind = file[listener].kind /\ taken.at = file[listener].at
    BY <2>1
  <2> HIDE DEF accepted, taken
  <2>4. sockets' = [sockets EXCEPT ![c] = Fresh(fd)] /\ live' = live \cup {c} /\ c \notin live
    BY <1>15 DEF Accept
  <2>5. Honest(c)'
    BY <2>1, <2>2, <2>4 DEF Honest, File, GetRemoteAddress, Fresh, Unset
  <2>6. ASSUME NEW p \in live PROVE Honest(p)'
    <3>1. sockets[p].sockfd # NoFd => sockets[p].sockfd \in Fd \ {fd}
      BY <2>1 DEF OneOwner, FreeFds
    <3> QED
      BY <1>a, <2>1, <2>3, <2>4, <3>1, HonestKept
  <2> QED
    BY <2>4, <2>5, <2>6
<1> HIDE DEF Goal, SocketInv, SocketTypeOK
<1> QED
  BY <1>2, <1>3, <1>4, <1>5, <1>6, <1>8, <1>9, <1>10, <1>11, <1>12, <1>13, <1>14, <1>15
     DEF SocketNext, Outside, Call

\* The addresses and ports the objects name are always those the kernel has.
THEOREM AddressesAlwaysTrue == SocketSpec => []AddressesAreTrue
<1>1. SocketInit => AddressesAreTrue
  BY DEF SocketInit, AddressesAreTrue
<1>2. SocketInv /\ AddressesAreTrue /\ [SocketNext]_socketVars => AddressesAreTrue'
  <2>1. ASSUME UNCHANGED socketVars, AddressesAreTrue PROVE AddressesAreTrue'
    BY <2>1 DEF socketVars, AddressesAreTrue, File, GetRemoteAddress
  <2> QED
    BY <2>1, AddressStep
<1> QED
  BY <1>1, <1>2, SocketInvariant, PTL DEF SocketSpec

-----------------------------------------------------------------------------
(* DescriptorOwnership *)

\* A step that closes and hands on nothing is a stutter.
LEMMA KeepingStutters ==
  ASSUME \A fd \in Fd : file'[fd].kind = "closed" <=> file[fd].kind = "closed",
         \A o \in live \cup live', fd \in Fd :
           o \in live' /\ sockets'[o].sockfd = fd <=> o \in live /\ sockets[o].sockfd = fd
  PROVE  UNCHANGED <<openBar, ownsBar>>
<1>1. openBar' = openBar
  BY DEF openBar, FreeFds
<1>2. ownsBar' = ownsBar
  <2>1. ownsBar' \subseteq ownsBar
    BY DEF ownsBar
  <2>2. ownsBar \subseteq ownsBar'
    BY DEF ownsBar
  <2> QED
    BY <2>1, <2>2
<1> QED
  BY <1>1, <1>2

\* An object that has no descriptor gets a closed one.
LEMMA OpeningAcquires ==
  ASSUME SocketInv, NEW o \in Object, NEW fd \in Fd,
         o \notin live \/ sockets[o].sockfd = NoFd, fd \in FreeFds,
         live' = live \cup {o}, sockets'[o].sockfd = fd,
         \A p \in live \ {o} : sockets'[p] = sockets[p],
         \A g \in Fd : file'[g].kind = "closed" <=> g # fd /\ file[g].kind = "closed"
  PROVE  Ownership!Acquire(o, fd)
<1>1. openBar' = openBar \cup {fd} /\ fd \notin openBar
  BY DEF openBar, FreeFds
<1>2. ownsBar' = ownsBar \cup {<<o, fd>>}
  <2>1. ownsBar' \subseteq ownsBar \cup {<<o, fd>>}
    BY DEF ownsBar
  <2>2. ownsBar \cup {<<o, fd>>} \subseteq ownsBar'
    BY NoFdIsNone DEF ownsBar
  <2> QED
    BY <2>1, <2>2
<1>3. \A g \in Fd : <<o, g>> \notin ownsBar
  BY NoFdIsNone DEF ownsBar
<1> QED
  BY <1>1, <1>2, <1>3 DEF Ownership!Acquire, Ownership!OwnsNone

\* What Close, Connect and a destructor do to the object's own descriptor.
LEMMA ClosingReleases ==
  ASSUME SocketInv, NEW o \in live, sockets[o].sockfd # NoFd,
         live \ {o} \subseteq live', live' \subseteq live,
         sockets' = [sockets EXCEPT ![o] = Unset], Closing(sockets[o].sockfd)
  PROVE  sockets[o].sockfd \in Fd /\ Ownership!Release(o, sockets[o].sockfd)
<1> DEFINE fd == sockets[o].sockfd
<1>1. fd \in Fd
  BY DEF SocketInv, SocketTypeOK
<1>2. openBar' = openBar \ {fd}
  BY DEF openBar, FreeFds, Closing, FilesWithout, ClosedFile
<1>3. <<o, fd>> \in ownsBar
  BY <1>1 DEF ownsBar
<1>4. ownsBar' = ownsBar \ {<<o, fd>>}
  <2>1. sockets'[o].sockfd = NoFd /\ \A p \in live \ {o} : sockets'[p] = sockets[p]
    BY DEF Unset, SocketInv, SocketTypeOK
  <2>2. ownsBar' \subseteq ownsBar \ {<<o, fd>>}
    BY <2>1, NoFdIsNone DEF ownsBar
  <2>3. ownsBar \ {<<o, fd>>} \subseteq ownsBar'
    BY <2>1 DEF ownsBar
  <2> QED
    BY <2>2, <2>3
<1> QED
  BY <1>1, <1>2, <1>3, <1>4 DEF Ownership!Release

\* A move hands the descriptor on.
LEMMA MovingTransfers ==
  ASSUME SocketInv, NEW o \in Object, NEW to \in Object, Move(o, to), sockets[o].sockfd # NoFd
  PROVE  sockets[o].sockfd \in Fd /\ Ownership!Transfer(o, to, sockets[o].sockfd)
<1> DEFINE fd == sockets[o].sockfd
<1>1. /\ fd \in Fd /\ o \in live /\ to \notin live /\ live' = live \cup {to} /\ file' = file
      /\ sockets'[to] = sockets[o] /\ sockets'[o].sockfd = NoFd
      /\ \A p \in live \ {o} : sockets'[p] = sockets[p]
  BY DEF Move, MovedFrom, Unset, Idle, SocketInv, SocketTypeOK
<1>2. openBar' = openBar
  BY <1>1 DEF openBar, FreeFds
<1>3. <<o, fd>> \in ownsBar /\ \A g \in Fd : <<to, g>> \notin ownsBar
  BY <1>1 DEF ownsBar
<1>4. ownsBar' = (ownsBar \ {<<o, fd>>}) \cup {<<to, fd>>}
  <2>1. ownsBar' \subseteq (ownsBar \ {<<o, fd>>}) \cup {<<to, fd>>}
    BY <1>1, NoFdIsNone DEF ownsBar
  <2>2. (ownsBar \ {<<o, fd>>}) \cup {<<to, fd>>} \subseteq ownsBar'
    BY <1>1 DEF ownsBar
  <2> QED
    BY <2>1, <2>2
<1> QED
  BY <1>1, <1>2, <1>3, <1>4 DEF Ownership!Transfer, Ownership!OwnsNone

\* Every step of the sockets is a step of DescriptorOwnership or a stutter.
LEMMA OwnershipStep ==
  ASSUME SocketInv, SocketNext
  PROVE  Ownership!OwnershipNext \/ UNCHANGED <<openBar, ownsBar>>
<1> DEFINE Goal == Ownership!OwnershipNext \/ UNCHANGED <<openBar, ownsBar>>
<1> SUFFICES Goal
  OBVIOUS
<1>a. \A o \in Object, fd \in Fd : Ownership!Acquire(o, fd) => Goal
  BY DEF Ownership!OwnershipNext
<1>b. \A o \in Object, fd \in Fd : Ownership!Release(o, fd) => Goal
  BY DEF Ownership!OwnershipNext
<1>c. \A o, p \in Object, fd \in Fd : Ownership!Transfer(o, p, fd) => Goal
  BY DEF Ownership!OwnershipNext
<1>d. Ownership!Exit => Goal
  BY DEF Ownership!OwnershipNext
<1>e. UNCHANGED <<openBar, ownsBar>> => Goal
  OBVIOUS
<1> HIDE DEF Goal
<1> USE DEF SocketInv, SocketTypeOK, Idle, Object
<1>1. ASSUME live' = live, \A o \in live : sockets'[o].sockfd = sockets[o].sockfd,
             \A fd \in Fd : file'[fd].kind = "closed" <=> file[fd].kind = "closed"
      PROVE  Goal
  BY <1>1, <1>e, KeepingStutters
<1>2. ASSUME NEW fd \in Fd, Arrive(fd) \/ PeerCloses(fd) \/ PeerResets(fd) PROVE Goal
  BY <1>1, <1>2 DEF Arrive, PeerCloses, PeerResets, FileType
<1>3. ASSUME NEW end \in lingering, Expire(end) PROVE Goal
  BY <1>1, <1>3 DEF Expire
<1>4. ASSUME NEW o \in Object, Construct(o) PROVE Goal
  <2>1. sockets[o].sockfd = NoFd
    BY <1>4 DEF Construct, Unheld, Unset
  <2> QED
    BY <1>4, <1>e, <2>1, NoFdIsNone, KeepingStutters DEF Construct
<1>5. ASSUME NEW o \in Object, NEW to \in Object, Move(o, to) PROVE Goal
  <2>1. CASE sockets[o].sockfd # NoFd
    BY <1>5, <1>c, <2>1, MovingTransfers
  <2>2. CASE sockets[o].sockfd = NoFd
    <3>1. /\ live' = live \cup {to} /\ to \notin live /\ file' = file
          /\ sockets'[to].sockfd = NoFd
          /\ \A p \in live : sockets'[p].sockfd = sockets[p].sockfd
      BY <1>5, <2>2 DEF Move, MovedFrom, Unset
    <3> QED
      BY <1>e, <3>1, NoFdIsNone, KeepingStutters
  <2> QED
    BY <2>1, <2>2
<1>6. ASSUME NEW o \in live, sockets[o].sockfd # NoFd,
             live \ {o} \subseteq live', live' \subseteq live,
             sockets' = [sockets EXCEPT ![o] = Unset], Closing(sockets[o].sockfd)
      PROVE  Goal
  BY <1>6, <1>b, ClosingReleases
<1>7. ASSUME NEW o \in Object, Close(o) PROVE Goal
  BY <1>6, <1>7 DEF Close
<1>8. ASSUME NEW o \in Object, Destroy(o) PROVE Goal
  <2>1. CASE sockets[o].sockfd # NoFd
    BY <1>6, <1>8, <2>1 DEF Destroy
  <2>2. CASE sockets[o].sockfd = NoFd
    <3>1. /\ live' = live \ {o} /\ \A p \in live' : sockets'[p] = sockets[p]
          /\ \A fd \in Fd : file'[fd] = file[fd]
      BY <1>8, <2>2, NoFdIsNone DEF Destroy, Closing, FilesWithout
    <3> QED
      BY <1>e, <2>2, <3>1, NoFdIsNone, KeepingStutters
  <2> QED
    BY <2>1, <2>2
<1>9. ASSUME NEW o \in Object, ConnectBegins(o) PROVE Goal
  BY <1>1, <1>6, <1>9 DEF ConnectBegins, Reconnected
<1>10. ASSUME NEW o \in Object, SendKills(o) PROVE Goal
  <2>1. openBar' = {} /\ ownsBar' = {}
    BY <1>10 DEF SendKills, openBar, ownsBar, FreeFds, FilesWithout, ClosedFile
  <2> QED
    BY <1>d, <2>1 DEF Ownership!Exit
<1>11. ASSUME NEW o \in Object, \/ TakeError(o) \/ ConnectFails(o)
                                \/ \E blocking \in BOOLEAN : SetBlocking(o, blocking)
                                \/ \E q \in Quad, port \in Port : ConnectReturns(o, q, port)
       PROVE  Goal
  <2>1. CASE TakeError(o)
    BY <1>1, <2>1 DEF TakeError, HasLink, FileType
  <2>2. CASE ConnectFails(o)
    BY <1>1, <2>2 DEF ConnectFails
  <2>3. ASSUME NEW blocking \in BOOLEAN, SetBlocking(o, blocking) PROVE Goal
    BY <1>1, <2>3 DEF SetBlocking, FileType
  <2>4. ASSUME NEW q \in Quad, NEW port \in Port, ConnectReturns(o, q, port) PROVE Goal
    <3>1. file[sockets[o].sockfd].kind # "closed" /\ sockets[o].sockfd \in Fd
      BY <2>4 DEF ConnectReturns, OneOwner
    <3> QED
      BY <1>1, <2>4, <3>1 DEF ConnectReturns, FileType
  <2> QED
    BY <1>11, <2>1, <2>2, <2>3, <2>4
<1>12. ASSUME NEW o \in Object, NEW fd \in Fd, o \in live, fd \in FreeFds, sockets[o].sockfd = NoFd,
              NEW new, new.kind # "closed", file' = [file EXCEPT ![fd] = new],
              sockets'[o].sockfd = fd, \A p \in live \ {o} : sockets'[p] = sockets[p],
              live' = live
       PROVE  Goal
  <2>1. \A g \in Fd : file'[g].kind = "closed" <=> g # fd /\ file[g].kind = "closed"
    BY <1>12
  <2>2. live' = live \cup {o}
    BY <1>12
  <2> HIDE DEF SocketInv, SocketTypeOK
  <2> QED
    BY <1>12, <1>a, <2>1, <2>2, OpeningAcquires
<1>13. ASSUME NEW o \in Object, NEW fd \in Fd, ConnectOpens(o, fd) PROVE Goal
  <2>1. FreshFile.kind # "closed"
    BY DEF FreshFile, ClosedFile
  <2> QED
    BY <1>12, <1>13, <2>1 DEF ConnectOpens, IsLowest
<1>14. ASSUME NEW o \in Object, NEW fd \in Fd, NEW new, ListensOn(o, fd),
              new.kind # "closed", file' = [file EXCEPT ![fd] = new],
              sockets'[o].sockfd = fd, \A p \in live \ {o} : sockets'[p] = sockets[p],
              live' = live
       PROVE  Goal
  <2>1. CASE sockets[o].sockfd = NoFd
    BY <1>12, <1>14, <2>1, ListenWorksOn
  <2>2. CASE sockets[o].sockfd # NoFd
    <3>1. fd = sockets[o].sockfd /\ file[fd].kind # "closed"
      BY <1>14, <2>2, ListenWorksOn DEF OneOwner
    <3> QED
      BY <1>1, <1>14, <3>1
  <2> QED
    BY <2>1, <2>2
<1>15. ASSUME NEW o \in Object, NEW fd \in Fd, NEW at, BindFails(o, fd, at) PROVE Goal
  <2>1. ListensOn(o, fd) /\ ListenFile(o).kind # "closed"
    BY <1>15, ListenWorksOn DEF BindFails
  <2> QED
    BY <1>14, <1>15, <2>1 DEF BindFails
<1>16. ASSUME NEW o \in Object, NEW fd \in Fd, NEW at, ListenFails(o, fd, at) PROVE Goal
  <2> DEFINE new == [ListenFile(o) EXCEPT !.kind = "bound", !.at = at]
  <2>1. ListensOn(o, fd) /\ new.kind # "closed"
    BY <1>16, ListenWorksOn DEF ListenFails, FileType
  <2> QED
    BY <1>14, <1>16, <2>1 DEF ListenFails
<1>17. ASSUME NEW o \in Object, NEW fd \in Fd, NEW q \in Quad, NEW port \in Port,
              Listens(o, fd, q, port)
       PROVE  Goal
  <2> DEFINE at == Endpoint(FromBytes(q), port)
             new == [ListenFile(o) EXCEPT !.kind = "listening", !.at = at]
  <2>1. ListensOn(o, fd) /\ new.kind # "closed"
    BY <1>17, ListenWorksOn DEF Listens, FileType
  <2> QED
    BY <1>14, <1>17, <2>1 DEF Listens
<1>18. ASSUME NEW o \in Object, NEW c \in TcpClient, NEW fd \in Fd, Accept(o, c, fd) PROVE Goal
  <2> DEFINE listener == sockets[o].sockfd
             accepted == [FreshFile EXCEPT !.kind = "accepted", !.link = "up",
                                           !.at = file[listener].at,
                                           !.reuse = file[listener].reuse]
             taken == [file[listener] EXCEPT !.pending = @ - 1]
  <2>1. /\ listener \in Fd \ {fd} /\ fd \in FreeFds
        /\ file' = [file EXCEPT ![listener] = taken, ![fd] = accepted]
    BY <1>18, AcceptedIsKept
  <2>2. accepted.kind = "accepted"
    BY FreshTypes DEF FileType
  <2>3. taken.kind = file[listener].kind
    BY <2>1 DEF FileType
  <2> HIDE DEF accepted, taken
  <2>4. \A g \in Fd : file'[g].kind = "closed" <=> g # fd /\ file[g].kind = "closed"
    BY <2>1, <2>2, <2>3
  <2>5. /\ c \notin live /\ live' = live \cup {c} /\ sockets'[c].sockfd = fd
        /\ \A p \in live \ {c} : sockets'[p] = sockets[p]
    BY <1>18 DEF Accept, Fresh, Unset
  <2> HIDE DEF SocketInv, SocketTypeOK
  <2> QED
    BY <1>a, <2>1, <2>4, <2>5, OpeningAcquires
<1> HIDE DEF SocketInv, SocketTypeOK
<1> QED
  BY <1>2, <1>3, <1>4, <1>5, <1>7, <1>8, <1>9, <1>10, <1>11, <1>13, <1>15, <1>16, <1>17, <1>18
     DEF SocketNext, Outside, Call, Goal

\* The socket classes implement DescriptorOwnership: whatever the objects, a
\* descriptor is only ever closed by the one object that has it.
THEOREM SocketsImplementOwnership == SocketSpec => ImplementsOwnership
<1>1. SocketInit => Ownership!OwnershipInit
  <2> SUFFICES ASSUME SocketInit PROVE openBar = {} /\ ownsBar = {}
    BY DEF Ownership!OwnershipInit
  <2> QED
    BY DEF SocketInit, openBar, ownsBar, FreeFds, ClosedFile
<1>2. SocketInv /\ [SocketNext]_socketVars => [Ownership!OwnershipNext]_Ownership!ownershipVars
  <2>1. CASE UNCHANGED socketVars
    BY <2>1 DEF socketVars, Ownership!ownershipVars, openBar, ownsBar, FreeFds
  <2>2. ASSUME SocketInv, SocketNext PROVE [Ownership!OwnershipNext]_Ownership!ownershipVars
    BY <2>2, OwnershipStep DEF Ownership!ownershipVars
  <2> QED
    BY <2>1, <2>2
<1> QED
  BY <1>1, <1>2, SocketInvariant, PTL
     DEF SocketSpec, ImplementsOwnership, Ownership!OwnershipSpec
=============================================================================
