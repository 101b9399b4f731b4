------------------------- MODULE MCSecureMessaging -------------------------
(* A few clients, descriptors and users.  Every user name meets the policy *)
(* of AccountRegistry, one password does and the others are too short.     *)
(* With MCSizes one name is longer than the others, with MCSize none is.   *)
EXTENDS SecureMessaging, TLC

CONSTANTS goodPassword

MCSize == [s \in User \cup Password |->
             IF s \in User THEN 11 ELSE IF s = goodPassword THEN 14 ELSE 6]

MCSizes == [MCSize EXCEPT ![CHOOSE u \in User : TRUE] = 12]

MCChars == [s \in User \cup Password |->
              IF s \in User THEN {"lower", "underscore"}
              ELSE {"lower", "upper", "digit", "other"}]

MCShort == [n \in 1..MaxChats |-> "short"]
MCSecondLong == [n \in 1..MaxChats |-> IF n = 2 THEN "long" ELSE "short"]

MCFd2 == 1..2

InterchangeableClients == Permutations(Client)
Interchangeable == Permutations(Client) \cup Permutations(User)
=============================================================================
