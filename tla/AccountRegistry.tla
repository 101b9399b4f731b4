-------------------------- MODULE AccountRegistry --------------------------
(***************************************************************************)
(* src/Server/AccountRegistry.{h,cpp}: the registered accounts, the policy *)
(* for user names and passwords, and the check of a password.              *)
(*                                                                         *)
(* A name or password is a value with a length and a set of character      *)
(* classes, which is all the policy looks at.  The int of error bits is    *)
(* the set of those bits.  The digest is CryptoPP's SHA-256: a value that  *)
(* is not the password and that two passwords do not share.                *)
(***************************************************************************)
EXTENDS Naturals, Maps

CONSTANTS
  User, Password,   \* strings offered as user names and as passwords
  Size,             \* their lengths
  Chars             \* the classes of the characters they contain

CharClass == {"lower", "upper", "digit", "underscore", "other"}

ASSUME StringAssumption ==
  \A s \in User \cup Password : Size[s] \in Nat /\ Chars[s] \subseteq CharClass

VARIABLES
  accounts,   \* _accounts: username -> digest
  accepted    \* history: the <<name, password>> pairs Register reported no error for

accountVars == <<accounts, accepted>>

-----------------------------------------------------------------------------
(* Error bits, as enum class Error numbers them *)

UsernameAlreadyRegistered         == 1
UsernameUnder8Characters          == 2
UsernameOver32Characters          == 4
UsernameContainsSpecialCharacters == 8
PasswordUnder12Characters         == 16
PasswordMissingLowercaseCharacter == 32
PasswordMissingUppercaseCharacter == 64
PasswordMissingSpecialCharacter   == 128
PasswordMissingNumber             == 256

-----------------------------------------------------------------------------
(* Operations *)

Contains(u) == u \in DOMAIN accounts

\* errors |= bit, under its condition.
When(condition, bit) == IF condition THEN {bit} ELSE {}

\* Mutant of ValidateUsername: a registered name is checked like a new one.
ValidateUsernameAgain(u) ==
  When(Size[u] < 8, UsernameUnder8Characters)
  \cup When(Size[u] > 32, UsernameOver32Characters)
  \cup When("other" \in Chars[u], UsernameContainsSpecialCharacters)

ValidateUsername(u) ==
  IF Contains(u)
  THEN {UsernameAlreadyRegistered}
  ELSE When(Size[u] < 8, UsernameUnder8Characters)
       \cup When(Size[u] > 32, UsernameOver32Characters)
       \cup When("other" \in Chars[u], UsernameContainsSpecialCharacters)

\* Mutant of ValidatePassword: one character too few is let through.
ValidatePasswordOffByOne(p) ==
  When(Size[p] < 11, PasswordUnder12Characters)
  \cup When("lower" \notin Chars[p], PasswordMissingLowercaseCharacter)
  \cup When("upper" \notin Chars[p], PasswordMissingUppercaseCharacter)
  \cup When(Chars[p] \cap {"underscore", "other"} = {}, PasswordMissingSpecialCharacter)
  \cup When("digit" \notin Chars[p], PasswordMissingNumber)

\* An underscore is special in a password and ordinary in a name.
ValidatePassword(p) ==
  When(Size[p] < 12, PasswordUnder12Characters)
  \cup When("lower" \notin Chars[p], PasswordMissingLowercaseCharacter)
  \cup When("upper" \notin Chars[p], PasswordMissingUppercaseCharacter)
  \cup When(Chars[p] \cap {"underscore", "other"} = {}, PasswordMissingSpecialCharacter)
  \cup When("digit" \notin Chars[p], PasswordMissingNumber)

HashPassword(p) == <<"sha256", p>>

RegisterErrors(u, p) == ValidateUsername(u) \cup ValidatePassword(p)

Register(u, p) ==
  IF RegisterErrors(u, p) = {}
  THEN /\ accounts' = Emplace(accounts, u, HashPassword(p))
       /\ accepted' = accepted \cup {<<u, p>>}
  ELSE UNCHANGED accountVars

MatchingPassword(u, p) == Contains(u) /\ accounts[u] = HashPassword(p)

-----------------------------------------------------------------------------
AccountInit ==
  /\ accounts = EmptyMap
  /\ accepted = {}

AccountNext == \E u \in User, p \in Password : Register(u, p)

AccountSpec == AccountInit /\ [][AccountNext]_accountVars

-----------------------------------------------------------------------------
(* Properties *)

\* _accounts maps names to digests.
AccountTypeOK ==
  /\ DOMAIN accounts \subseteq User
  /\ \A u \in DOMAIN accounts : accounts[u] \in {HashPassword(p) : p \in Password}
  /\ accepted \subseteq User \X Password

\* A password opens an account exactly when Register once reported success for
\* that name with that password: a later Register of the name, whatever it
\* reports, neither changes the password nor claims to have.
AcceptedPasswordMatches ==
  \A u \in User, p \in Password : MatchingPassword(u, p) <=> <<u, p>> \in accepted

\* Every account in the table obeys the policy the error names spell out: a
\* name of 8 to 32 letters, digits or underscores, and the digest of a password
\* of at least 12 characters with a lower and an upper case letter, a digit and
\* a special character (AccountRegistry.h:22-31).
StoredAccountsMeetPolicy ==
  \A u \in DOMAIN accounts :
    /\ Size[u] \in 8..32
    /\ Chars[u] \subseteq {"lower", "upper", "digit", "underscore"}
    /\ \E p \in Password :
         /\ accounts[u] = HashPassword(p)
         /\ Size[p] >= 12
         /\ {"lower", "upper", "digit"} \subseteq Chars[p]
         /\ Chars[p] \ {"lower", "upper", "digit"} # {}
=============================================================================
