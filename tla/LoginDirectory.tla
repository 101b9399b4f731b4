--------------------------- MODULE LoginDirectory ---------------------------
(***************************************************************************)
(* What the rest of the server expects of SessionManager, without its two  *)
(* maps: a set of live connections and, for the connections on which a     *)
(* user has logged in, who that user is.  No user is logged in on two      *)
(* connections, a connection never changes its user, and a connection that *)
(* carries a user goes away together with the login.                       *)
(***************************************************************************)
CONSTANTS Fd, User

VARIABLES
  live,     \* the connections that have a session
  online    \* partial function: connection -> the user logged in on it

dirVars == <<live, online>>

LoggedIn(u) == \E fd \in DOMAIN online : online[fd] = u

DirInit ==
  /\ live = {}
  /\ online = [fd \in {} |-> {}]

Open(fd) ==
  /\ fd \notin live
  /\ live' = live \cup {fd}
  /\ UNCHANGED online

Login(fd, u) ==
  /\ fd \in live \ DOMAIN online
  /\ ~LoggedIn(u)
  /\ online' = [f \in DOMAIN online \cup {fd} |-> IF f = fd THEN u ELSE online[f]]
  /\ UNCHANGED live

Leave(fd) ==
  /\ fd \in DOMAIN online
  /\ live' = live \ {fd}
  /\ online' = [f \in DOMAIN online \ {fd} |-> online[f]]

DirNext ==
  \E fd \in Fd :
    \/ Open(fd)
    \/ \E u \in User : Login(fd, u)
    \/ Leave(fd)

DirSpec == DirInit /\ [][DirNext]_dirVars
=============================================================================
