--------------------------- MODULE SessionManager ---------------------------
(***************************************************************************)
(* src/Server/SessionManager.{h,cpp}: the server's table of sessions, keyed*)
(* by file descriptor, and its index from user names to descriptors.  A    *)
(* session owns its SecureChannel and hence the descriptor: it is closed   *)
(* when the session is erased and not before.                              *)
(***************************************************************************)
EXTENDS Maps, Descriptors

CONSTANTS
  User,       \* user names
  EmptyName,  \* the empty string, the name of a session without a login
  LoginOnce   \* TRUE: callers authenticate a session at most once

ASSUME NameAssumption == EmptyName \notin User
ASSUME ModeAssumption == LoginOnce \in BOOLEAN

VARIABLES
  sessions,   \* _sessions:   fd -> [username, authenticated]
  userToFd    \* _user_to_fd: username -> fd

sessionVars == <<sessions, userToFd>>

Session == [username : User \cup {EmptyName}, authenticated : BOOLEAN]
NewSession == [username |-> EmptyName, authenticated |-> FALSE]

-----------------------------------------------------------------------------
(* Queries *)

IsEstablished(fd) == fd \in DOMAIN sessions

IsEstablishedUser(u) ==
  /\ u \in DOMAIN userToFd
  /\ IsEstablished(userToFd[u])

\* The fd whose channel GetChannel(username) returns.
ChannelOf(u) == userToFd[u]

\* _sessions.at(fd) throws for an fd without a session.
IsAuthenticated(fd) == sessions[fd].authenticated
GetUsername(fd)     == sessions[fd].username

\* Mutant of CanAuthenticate: nobody looks whether the user is logged in already.
CanAuthenticateUnchecked(fd, u) == IsEstablished(fd)

\* What Authenticate(fd, u) returns.
CanAuthenticate(fd, u) == IsEstablished(fd) /\ ~IsEstablishedUser(u)

-----------------------------------------------------------------------------
(* Operations *)

SessionInit ==
  /\ sessions = EmptyMap
  /\ userToFd = EmptyMap

\* Create(fd) once its key exchange has succeeded.
Create(fd) ==
  /\ sessions' = Emplace(sessions, fd, NewSession)
  /\ UNCHANGED userToFd

\* The guard of Destroy: a session without a login is left in the table.
CanDestroy(fd) == IsEstablished(fd) /\ IsAuthenticated(fd)

\* Mutant of Destroy: the index keeps its entry.
DestroyKeepsIndex(fd) ==
  IF CanDestroy(fd)
  THEN /\ sessions' = Erase(sessions, fd)
       /\ UNCHANGED userToFd
  ELSE UNCHANGED sessionVars

Destroy(fd) ==
  IF CanDestroy(fd)
  THEN /\ userToFd' = Erase(userToFd, GetUsername(fd))
       /\ sessions' = Erase(sessions, fd)
  ELSE UNCHANGED sessionVars

Authenticate(fd, u) ==
  IF CanAuthenticate(fd, u)
  THEN /\ userToFd' = Emplace(userToFd, u, fd)
       /\ sessions' = [sessions EXCEPT ![fd] = [username |-> u, authenticated |-> TRUE]]
  ELSE UNCHANGED sessionVars

\* Mutant of Unauthenticate: the session keeps the name.
UnauthenticateKeepsName(fd) ==
  IF CanDestroy(fd)
  THEN /\ sessions' = [sessions EXCEPT ![fd].authenticated = FALSE]
       /\ UNCHANGED userToFd
  ELSE UNCHANGED sessionVars

\* Leaves the user's entry in _user_to_fd.  No caller in the repository.
Unauthenticate(fd) ==
  IF CanDestroy(fd)
  THEN /\ sessions' = [sessions EXCEPT ![fd] = NewSession]
       /\ UNCHANGED userToFd
  ELSE UNCHANGED sessionVars

-----------------------------------------------------------------------------
(***************************************************************************)
(* Every sequence of calls.  accept() never returns a descriptor that is   *)
(* still open, so Create is called with an fd that has no session.  With   *)
(* LoginOnce the caller authenticates only sessions that are not           *)
(* authenticated yet and never calls Unauthenticate.                       *)
(***************************************************************************)
SessionNext ==
  \E fd \in Fd :
    \/ ~IsEstablished(fd) /\ Create(fd)
    \/ Destroy(fd)
    \/ \E u \in User :
         /\ (LoginOnce /\ IsEstablished(fd)) => ~IsAuthenticated(fd)
         /\ Authenticate(fd, u)
    \/ ~LoginOnce /\ Unauthenticate(fd)

SessionSpec == SessionInit /\ [][SessionNext]_sessionVars

-----------------------------------------------------------------------------
(* Properties *)

\* Both maps have the types SessionManager.h declares.
SessionTypeOK ==
  /\ DOMAIN sessions \subseteq Fd
  /\ \A fd \in DOMAIN sessions : sessions[fd] \in Session
  /\ DOMAIN userToFd \subseteq User
  /\ \A u \in DOMAIN userToFd : userToFd[u] \in Fd

\* The two maps agree: the index has an entry for exactly the users of the
\* authenticated sessions, it leads to a session of that user, and a session
\* has a user name exactly when it is authenticated (docs/hierarchy.txt:29-33).
MapsAgree ==
  /\ \A u \in DOMAIN userToFd :
       /\ IsEstablished(userToFd[u])
       /\ sessions[userToFd[u]] = [username |-> u, authenticated |-> TRUE]
  /\ \A fd \in DOMAIN sessions :
       IF IsAuthenticated(fd)
       THEN GetUsername(fd) \in DOMAIN userToFd /\ userToFd[GetUsername(fd)] = fd
       ELSE GetUsername(fd) = EmptyName

\* A session carries a user name exactly while it is authenticated, however
\* often it is authenticated: a chat is never forwarded under the empty name.
NamedIffAuthenticated ==
  \A fd \in DOMAIN sessions : IsAuthenticated(fd) <=> GetUsername(fd) # EmptyName

\* No user is logged in on two connections at once (tests/singlelogin.cpp:17).
SingleLogin ==
  \A f, g \in DOMAIN sessions :
    /\ IsAuthenticated(f) /\ IsAuthenticated(g)
    /\ GetUsername(f) = GetUsername(g)
    => f = g

\* Authenticate turns a login away only when its user really is logged in
\* somewhere: what Server.cpp:185 tells the client in that case.
RefusalIsTruthful ==
  \A u \in User :
    IsEstablishedUser(u) =>
      \E fd \in DOMAIN sessions : IsAuthenticated(fd) /\ GetUsername(fd) = u

(***************************************************************************)
(* The sessions and logins as the abstract directory sees them.  The index *)
(* does not appear: that a login is refused, and a name resolved, exactly  *)
(* as the directory prescribes is what the refinement shows of it.         *)
(***************************************************************************)
onlineBar ==
  [fd \in {f \in DOMAIN sessions : IsAuthenticated(f)} |-> GetUsername(fd)]

Directory == INSTANCE LoginDirectory WITH live <- DOMAIN sessions, online <- onlineBar

\* SessionManager implements the directory: a user is on at most one
\* connection and a connection keeps its user until both go.
ImplementsDirectory == Directory!DirSpec
=============================================================================
