------------------------------ MODULE MCTables ------------------------------
(***************************************************************************)
(* The server's two tables, each called in every order: AccountRegistry    *)
(* with names and passwords on both sides of every limit of the policy,    *)
(* each a record of a length and its character classes; SessionManager     *)
(* with a few descriptors and names of its own.  They share nothing.       *)
(***************************************************************************)
EXTENDS AccountRegistry

CONSTANTS Fd, Online, EmptyName, LoginOnce

VARIABLES sessions, userToFd

Sessions == INSTANCE SessionManager WITH User <- Online

MCFd == 1..2

Text(size, chars) == [size |-> size, chars |-> chars]

NameChars == {"lower", "upper", "digit", "underscore"}

MCUser ==
  {Text(n, NameChars) : n \in {7, 8, 32, 33}}
  \cup {Text(8, {"lower"}), Text(32, {"underscore"}), Text(7, {"other"}), Text(12, {"lower", "other"})}

Full == {"lower", "upper", "digit", "other"}

MCPassword ==
  {Text(12, Full), Text(13, NameChars), Text(40, Full), Text(11, Full)}
  \cup {Text(12, Full \ {c}) : c \in Full}

MCSize == [s \in MCUser \cup MCPassword |-> s.size]
MCChars == [s \in MCUser \cup MCPassword |-> s.chars]

TablesInit == Sessions!SessionInit /\ AccountInit

TablesNext ==
  \/ Sessions!SessionNext /\ UNCHANGED accountVars
  \/ AccountNext /\ UNCHANGED <<sessions, userToFd>>

TablesSpec == TablesInit /\ [][TablesNext]_<<sessions, userToFd, accountVars>>

\* SessionManager's property of the names and flags of its sessions.
NamedIffAuthenticated == Sessions!NamedIffAuthenticated
=============================================================================
