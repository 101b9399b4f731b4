------------------------ MODULE DescriptorOwnership ------------------------
(***************************************************************************)
(* What the socket classes promise about descriptors, without saying how:  *)
(* an open descriptor is some object's, an object has at most one, and     *)
(* only a move hands one on.  Nobody closes what is not its own.           *)
(***************************************************************************)
EXTENDS Descriptors

CONSTANT Object   \* the objects that can own a descriptor

VARIABLES
  open,   \* the open descriptors
  owns    \* pairs of an object and the descriptor it is answerable for

ownershipVars == <<open, owns>>

OwnsNone(o) == \A fd \in Fd : <<o, fd>> \notin owns

OwnershipInit == open = {} /\ owns = {}

Acquire(o, fd) ==
  /\ OwnsNone(o) /\ fd \notin open
  /\ open' = open \cup {fd}
  /\ owns' = owns \cup {<<o, fd>>}

Transfer(o, p, fd) ==
  /\ <<o, fd>> \in owns /\ OwnsNone(p)
  /\ owns' = (owns \ {<<o, fd>>}) \cup {<<p, fd>>}
  /\ UNCHANGED open

Release(o, fd) ==
  /\ <<o, fd>> \in owns
  /\ open' = open \ {fd}
  /\ owns' = owns \ {<<o, fd>>}

\* The process ends, and the kernel closes everything.
Exit == open' = {} /\ owns' = {}

OwnershipNext ==
  \/ \E fd \in Fd, o \in Object :
       \/ Acquire(o, fd)
       \/ \E p \in Object : Transfer(o, p, fd)
       \/ Release(o, fd)
  \/ Exit

OwnershipSpec == OwnershipInit /\ [][OwnershipNext]_ownershipVars
=============================================================================
