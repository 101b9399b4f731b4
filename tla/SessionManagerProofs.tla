------------------------ MODULE SessionManagerProofs ------------------------
(***************************************************************************)
(* What SessionManager guarantees for every set of descriptors and users.  *)
(* Without a condition on the callers only the types and the agreement of  *)
(* name and flag inside one session hold; the agreement of the two maps,   *)
(* and with it the single login and the directory, is inductive as soon as *)
(* callers authenticate a session at most once (LoginOnce).                *)
(***************************************************************************)
EXTENDS SessionManager, TLAPS

-----------------------------------------------------------------------------
(* Types, for any caller *)

\* The operations keep the types, and name and flag of a session together.
THEOREM SessionTypeInvariant == SessionSpec => [](SessionTypeOK /\ NamedIffAuthenticated)
<1> DEFINE Inv == SessionTypeOK /\ NamedIffAuthenticated
<1> USE NameAssumption DEF IsEstablished, IsAuthenticated, GetUsername, Session
<1>1. SessionInit => Inv
  BY DEF SessionInit, EmptyMap, SessionTypeOK, NamedIffAuthenticated
<1>2. Inv /\ [SessionNext]_sessionVars => Inv'
  <2> SUFFICES ASSUME Inv, [SessionNext]_sessionVars
               PROVE  Inv'
    OBVIOUS
  <2> USE DEF SessionTypeOK, NamedIffAuthenticated
  <2>1. ASSUME NEW fd \in Fd, ~IsEstablished(fd), Create(fd)
        PROVE  Inv'
    BY <2>1 DEF Create, NewSession, Emplace
  <2>2. ASSUME NEW fd \in Fd, Destroy(fd)
        PROVE  Inv'
    BY <2>2 DEF Destroy, CanDestroy, Erase, Restrict, sessionVars
  <2>3. ASSUME NEW fd \in Fd, NEW u \in User, Authenticate(fd, u)
        PROVE  Inv'
    <3>1. CASE CanAuthenticate(fd, u)
      <4>1. sessions' = [sessions EXCEPT ![fd] = [username |-> u, authenticated |-> TRUE]]
        BY <2>3, <3>1 DEF Authenticate
      <4>2. NamedIffAuthenticated'
        BY <4>1
      <4>3. DOMAIN sessions' \subseteq Fd /\ \A f \in DOMAIN sessions' : sessions'[f] \in Session
        BY <4>1
      <4>4. DOMAIN userToFd' \subseteq User /\ \A v \in DOMAIN userToFd' : userToFd'[v] \in Fd
        BY <2>3, <3>1 DEF Authenticate, Emplace
      <4> QED
        BY <4>2, <4>3, <4>4
    <3>2. CASE ~CanAuthenticate(fd, u)
      BY <2>3, <3>2 DEF Authenticate, sessionVars
    <3> QED
      BY <3>1, <3>2
  <2>4. ASSUME NEW fd \in Fd, Unauthenticate(fd)
        PROVE  Inv'
    <3>1. SessionTypeOK'
      <4>1. NewSession \in Session
        BY DEF NewSession
      <4>2. \/ sessions' = [sessions EXCEPT ![fd] = NewSession] /\ userToFd' = userToFd
            \/ UNCHANGED sessionVars
        BY <2>4 DEF Unauthenticate
      <4> QED
        BY <4>1, <4>2 DEF sessionVars
    <3>2. NamedIffAuthenticated'
      BY <2>4 DEF Unauthenticate, CanDestroy, NewSession, sessionVars
    <3> QED
      BY <3>1, <3>2
  <2>5. CASE UNCHANGED sessionVars
    BY <2>5 DEF sessionVars
  <2> QED
    BY <2>1, <2>2, <2>3, <2>4, <2>5 DEF SessionNext
<1> QED
  BY <1>1, <1>2, PTL DEF SessionSpec

-----------------------------------------------------------------------------
(* The maps, for callers that authenticate a session at most once *)

\* Every operation keeps the index and the sessions in agreement: an entry
\* leads to the session that carries its name, and every such session has one.
LEMMA MapsAgreeStep ==
  ASSUME LoginOnce, SessionTypeOK, MapsAgree, [SessionNext]_sessionVars
  PROVE  MapsAgree'
<1> USE DEF IsEstablished, IsAuthenticated, GetUsername, MapsAgree
<1>1. ASSUME NEW fd \in Fd, ~IsEstablished(fd), Create(fd)
      PROVE  MapsAgree'
  BY <1>1 DEF Create, NewSession, Emplace
<1>2. ASSUME NEW fd \in Fd, Destroy(fd)
      PROVE  MapsAgree'
  BY <1>2 DEF Destroy, CanDestroy, Erase, Restrict, sessionVars
<1>3. ASSUME NEW fd \in Fd, NEW u \in User, Authenticate(fd, u),
             IsEstablished(fd) => ~IsAuthenticated(fd)
      PROVE  MapsAgree'
  <2>1. CASE CanAuthenticate(fd, u)
    <3>1. u \notin DOMAIN userToFd
      BY <2>1 DEF CanAuthenticate, IsEstablishedUser
    <3>2. \A v \in DOMAIN userToFd : userToFd[v] # fd
      <4> SUFFICES ASSUME NEW v \in DOMAIN userToFd, userToFd[v] = fd
                   PROVE  FALSE
        OBVIOUS
      <4>1. sessions[fd] = [username |-> v, authenticated |-> TRUE]
        OBVIOUS
      <4> QED
        BY <1>3, <2>1, <4>1 DEF CanAuthenticate
    <3>3. /\ DOMAIN userToFd' = DOMAIN userToFd \cup {u}
          /\ userToFd'[u] = fd
          /\ \A v \in DOMAIN userToFd : userToFd'[v] = userToFd[v]
      BY <1>3, <2>1, <3>1 DEF Authenticate, Emplace
    <3>4. /\ DOMAIN sessions' = DOMAIN sessions
          /\ sessions'[fd] = [username |-> u, authenticated |-> TRUE]
          /\ \A f \in DOMAIN sessions \ {fd} : sessions'[f] = sessions[f]
      BY <1>3, <2>1 DEF Authenticate, CanAuthenticate
    <3>5. \A v \in DOMAIN userToFd' :
            /\ userToFd'[v] \in DOMAIN sessions'
            /\ sessions'[userToFd'[v]] = [username |-> v, authenticated |-> TRUE]
      <4> TAKE v \in DOMAIN userToFd'
      <4>1. CASE v = u
        BY <2>1, <3>3, <3>4, <4>1 DEF CanAuthenticate
      <4>2. CASE v \in DOMAIN userToFd
        BY <3>2, <3>3, <3>4, <4>2
      <4> QED
        BY <3>3, <4>1, <4>2
    <3>6. \A f \in DOMAIN sessions' :
            IF sessions'[f].authenticated
            THEN /\ sessions'[f].username \in DOMAIN userToFd'
                 /\ userToFd'[sessions'[f].username] = f
            ELSE sessions'[f].username = EmptyName
      BY <3>1, <3>3, <3>4
    <3> QED
      BY <3>5, <3>6
  <2>2. CASE ~CanAuthenticate(fd, u)
    BY <1>3, <2>2 DEF Authenticate, sessionVars
  <2> QED
    BY <2>1, <2>2
<1>4. CASE UNCHANGED sessionVars
  BY <1>4 DEF sessionVars
<1> QED
  BY <1>1, <1>2, <1>3, <1>4 DEF SessionNext

\* The index and the sessions always agree.
THEOREM MapsAlwaysAgree ==
  ASSUME LoginOnce
  PROVE  SessionSpec => []MapsAgree
<1>1. SessionInit => MapsAgree
  BY DEF SessionInit, EmptyMap, MapsAgree
<1>2. MapsAgree /\ SessionTypeOK /\ [SessionNext]_sessionVars => MapsAgree'
  BY LoginOnce, MapsAgreeStep
<1> QED
  BY <1>1, <1>2, SessionTypeInvariant, PTL DEF SessionSpec

\* No user is ever logged in on two connections.
THEOREM SingleLoginHolds ==
  ASSUME LoginOnce
  PROVE  SessionSpec => []SingleLogin
<1>1. MapsAgree => SingleLogin
  BY DEF MapsAgree, SingleLogin
<1> QED
  BY <1>1, MapsAlwaysAgree, LoginOnce, PTL

\* While the maps agree the index names nobody who is not logged in.
LEMMA AgreementIsTruthful == MapsAgree => RefusalIsTruthful
<1> SUFFICES ASSUME MapsAgree, NEW u \in User, IsEstablishedUser(u)
             PROVE  \E fd \in DOMAIN sessions : IsAuthenticated(fd) /\ GetUsername(fd) = u
  BY DEF RefusalIsTruthful
<1>1. /\ userToFd[u] \in DOMAIN sessions
      /\ sessions[userToFd[u]] = [username |-> u, authenticated |-> TRUE]
  BY DEF MapsAgree, IsEstablishedUser, IsEstablished
<1>2. IsAuthenticated(userToFd[u]) /\ GetUsername(userToFd[u]) = u
  BY <1>1 DEF IsAuthenticated, GetUsername
<1> QED
  BY <1>1, <1>2

\* A login is refused only while its user is logged in somewhere.
THEOREM RefusalIsTruthfulHolds ==
  ASSUME LoginOnce
  PROVE  SessionSpec => []RefusalIsTruthful
BY AgreementIsTruthful, MapsAlwaysAgree, LoginOnce, PTL

-----------------------------------------------------------------------------
(* Refinement of the directory *)

\* Every operation is a step of the directory or leaves it alone.
LEMMA DirectoryStep ==
  ASSUME LoginOnce, SessionTypeOK, MapsAgree, [SessionNext]_sessionVars
  PROVE  [Directory!DirNext]_(Directory!dirVars)
<1> USE DEF IsEstablished, IsAuthenticated, GetUsername, onlineBar, Directory!dirVars
<1>1. ASSUME NEW fd \in Fd, ~IsEstablished(fd), Create(fd)
      PROVE  Directory!Open(fd)
  BY <1>1 DEF Create, NewSession, Emplace, Directory!Open
<1>2. ASSUME NEW fd \in Fd, Destroy(fd), CanDestroy(fd)
      PROVE  Directory!Leave(fd)
  <2>1. /\ DOMAIN sessions' = DOMAIN sessions \ {fd}
        /\ \A f \in DOMAIN sessions \ {fd} : sessions'[f] = sessions[f]
    BY <1>2 DEF Destroy, CanDestroy, Erase, Restrict
  <2>2. DOMAIN onlineBar' = DOMAIN onlineBar \ {fd}
    BY <2>1
  <2>3. \A f \in DOMAIN onlineBar \ {fd} : onlineBar'[f] = onlineBar[f]
    BY <2>1
  <2>4. onlineBar' = [f \in DOMAIN onlineBar \ {fd} |-> onlineBar[f]]
    BY <2>2, <2>3
  <2> QED
    BY <1>2, <2>1, <2>4 DEF CanDestroy, Directory!Leave
<1>3. ASSUME NEW fd \in Fd, NEW u \in User, Authenticate(fd, u), CanAuthenticate(fd, u),
             ~IsAuthenticated(fd)
      PROVE  Directory!Login(fd, u)
  <2>1. fd \in DOMAIN sessions \ DOMAIN onlineBar
    BY <1>3 DEF CanAuthenticate
  <2>2. ~Directory!LoggedIn(u)
    BY <1>3 DEF CanAuthenticate, IsEstablishedUser, MapsAgree, Directory!LoggedIn
  <2>3. sessions' = [sessions EXCEPT ![fd] = [username |-> u, authenticated |-> TRUE]]
    BY <1>3 DEF Authenticate
  <2> QED
    BY <2>1, <2>2, <2>3 DEF Directory!Login
<1>4. CASE UNCHANGED sessionVars
  BY <1>4 DEF sessionVars
<1> QED
  BY <1>1, <1>2, <1>3, <1>4
  DEF SessionNext, Destroy, CanDestroy, Authenticate, CanAuthenticate, Directory!DirNext

\* SessionManager implements the directory.
THEOREM SessionManagerImplementsDirectory ==
  ASSUME LoginOnce
  PROVE  SessionSpec => ImplementsDirectory
<1>1. SessionInit => Directory!DirInit
  BY DEF SessionInit, EmptyMap, onlineBar, Directory!DirInit
<1>2. /\ SessionTypeOK
      /\ MapsAgree
      /\ [SessionNext]_sessionVars
      => [Directory!DirNext]_(Directory!dirVars)
  BY LoginOnce, DirectoryStep
<1> QED
  BY <1>1, <1>2, SessionTypeInvariant, MapsAlwaysAgree, LoginOnce, PTL
  DEF SessionSpec, ImplementsDirectory, Directory!DirSpec
=============================================================================
