------------------------ MODULE AccountRegistryProofs ------------------------
(***************************************************************************)
(* AccountRegistry's type invariant, password check and policy, for any    *)
(* sets of names and passwords.                                            *)
(***************************************************************************)
EXTENDS AccountRegistry, TLAPS

\* A Register that reports no error adds one account, for a new name; any other
\* changes nothing.
LEMMA RegisterCases ==
  ASSUME NEW u \in User, NEW p \in Password, Register(u, p)
  PROVE  \/ UNCHANGED accountVars
         \/ /\ u \notin DOMAIN accounts
            /\ RegisterErrors(u, p) = {}
            /\ DOMAIN accounts' = DOMAIN accounts \cup {u}
            /\ \A x \in DOMAIN accounts : accounts'[x] = accounts[x]
            /\ accounts'[u] = HashPassword(p)
            /\ accepted' = accepted \cup {<<u, p>>}
<1>1. CASE RegisterErrors(u, p) = {}
  <2>1. u \notin DOMAIN accounts
    <3> SUFFICES ASSUME Contains(u)
                 PROVE  FALSE
      BY DEF Contains
    <3>1. ValidateUsername(u) = {UsernameAlreadyRegistered}
      BY DEF ValidateUsername
    <3> QED
      BY <1>1, <3>1 DEF RegisterErrors
  <2>2. accounts' = Emplace(accounts, u, HashPassword(p)) /\ accepted' = accepted \cup {<<u, p>>}
    BY <1>1 DEF Register
  <2> QED
    BY <1>1, <2>1, <2>2 DEF Emplace
<1>2. CASE RegisterErrors(u, p) # {}
  BY <1>2 DEF Register
<1> QED
  BY <1>1, <1>2

\* A name and a password that raise no error obey the policy.
LEMMA AcceptedObeyPolicy ==
  ASSUME NEW u \in User, NEW p \in Password, RegisterErrors(u, p) = {}
  PROVE  /\ Size[u] \in 8..32
         /\ Chars[u] \subseteq {"lower", "upper", "digit", "underscore"}
         /\ Size[p] >= 12
         /\ {"lower", "upper", "digit"} \subseteq Chars[p]
         /\ Chars[p] \ {"lower", "upper", "digit"} # {}
<1> USE StringAssumption
<1>1. ValidateUsername(u) = {} /\ ValidatePassword(p) = {}
  BY DEF RegisterErrors
<1>2. ~Contains(u)
  BY <1>1 DEF ValidateUsername
<1>3. ~(Size[u] < 8) /\ ~(Size[u] > 32) /\ "other" \notin Chars[u]
  BY <1>1, <1>2 DEF ValidateUsername, When
<1>4. /\ ~(Size[p] < 12)
      /\ "lower" \in Chars[p] /\ "upper" \in Chars[p] /\ "digit" \in Chars[p]
      /\ Chars[p] \cap {"underscore", "other"} # {}
  BY <1>1 DEF ValidatePassword, When
<1>5. Size[u] \in Nat /\ Size[p] \in Nat /\ Chars[u] \subseteq CharClass
  OBVIOUS
<1>6. Size[u] \in 8..32 /\ Size[p] >= 12
  BY <1>3, <1>4, <1>5
<1>7. Chars[u] \subseteq {"lower", "upper", "digit", "underscore"}
  BY <1>3, <1>5 DEF CharClass
<1>8. Chars[p] \ {"lower", "upper", "digit"} # {}
  BY <1>4
<1> QED
  BY <1>4, <1>6, <1>7, <1>8

-----------------------------------------------------------------------------
\* The registry maps names to digests of passwords.
THEOREM AccountTypeInvariant == AccountSpec => []AccountTypeOK
<1>1. AccountInit => AccountTypeOK
  BY DEF AccountInit, AccountTypeOK, EmptyMap
<1>2. AccountTypeOK /\ [AccountNext]_accountVars => AccountTypeOK'
  <2> SUFFICES ASSUME AccountTypeOK, [AccountNext]_accountVars
               PROVE  AccountTypeOK'
    OBVIOUS
  <2>1. CASE UNCHANGED accountVars
    BY <2>1 DEF AccountTypeOK, accountVars
  <2>2. ASSUME NEW u \in User, NEW p \in Password, Register(u, p)
        PROVE  AccountTypeOK'
    <3>1. CASE ~UNCHANGED accountVars
      <4>1. /\ DOMAIN accounts' = DOMAIN accounts \cup {u}
            /\ \A x \in DOMAIN accounts : accounts'[x] = accounts[x]
            /\ accounts'[u] = HashPassword(p)
            /\ accepted' = accepted \cup {<<u, p>>}
        BY <2>2, <3>1, RegisterCases
      <4>2. DOMAIN accounts' \subseteq User /\ accepted' \subseteq User \X Password
        BY <4>1 DEF AccountTypeOK
      <4>3. \A x \in DOMAIN accounts' : accounts'[x] \in {HashPassword(q) : q \in Password}
        BY <4>1 DEF AccountTypeOK
      <4> QED
        BY <4>2, <4>3 DEF AccountTypeOK
    <3> QED
      BY <2>1, <3>1
  <2> QED
    BY <2>1, <2>2 DEF AccountNext
<1> QED
  BY <1>1, <1>2, PTL DEF AccountSpec

\* A password opens an account exactly when it was accepted for it.
THEOREM AcceptedPasswordAlwaysMatches == AccountSpec => []AcceptedPasswordMatches
<1>1. AccountInit => AcceptedPasswordMatches
  BY DEF AccountInit, AcceptedPasswordMatches, MatchingPassword, Contains, EmptyMap
<1>2. AcceptedPasswordMatches /\ [AccountNext]_accountVars => AcceptedPasswordMatches'
  <2> SUFFICES ASSUME AcceptedPasswordMatches, [AccountNext]_accountVars
               PROVE  AcceptedPasswordMatches'
    OBVIOUS
  <2>1. CASE UNCHANGED accountVars
    BY <2>1 DEF AcceptedPasswordMatches, MatchingPassword, Contains, accountVars
  <2>2. ASSUME NEW u \in User, NEW p \in Password, Register(u, p), ~UNCHANGED accountVars
        PROVE  AcceptedPasswordMatches'
    <3>1. /\ u \notin DOMAIN accounts
          /\ DOMAIN accounts' = DOMAIN accounts \cup {u}
          /\ \A x \in DOMAIN accounts : accounts'[x] = accounts[x]
          /\ accounts'[u] = HashPassword(p)
          /\ accepted' = accepted \cup {<<u, p>>}
      BY <2>2, RegisterCases
    <3> SUFFICES ASSUME NEW v \in User, NEW q \in Password
                 PROVE  v \in DOMAIN accounts' /\ accounts'[v] = HashPassword(q)
                          <=> <<v, q>> \in accepted'
      BY DEF AcceptedPasswordMatches, MatchingPassword, Contains
    <3>2. v \in DOMAIN accounts /\ accounts[v] = HashPassword(q) <=> <<v, q>> \in accepted
      BY DEF AcceptedPasswordMatches, MatchingPassword, Contains
    <3>3. CASE v # u
      BY <3>1, <3>2, <3>3
    <3>4. CASE v = u
      <4>1. <<u, q>> \notin accepted
        BY <3>1, <3>2, <3>4
      <4>2. HashPassword(p) = HashPassword(q) <=> p = q
        BY DEF HashPassword
      <4> QED
        BY <3>1, <3>4, <4>1, <4>2
    <3> QED
      BY <3>3, <3>4
  <2> QED
    BY <2>1, <2>2 DEF AccountNext
<1> QED
  BY <1>1, <1>2, PTL DEF AccountSpec

\* Every account in the table obeys the policy for names and passwords.
THEOREM StoredAccountsAlwaysMeetPolicy == AccountSpec => []StoredAccountsMeetPolicy
<1>1. AccountInit => StoredAccountsMeetPolicy
  BY DEF AccountInit, StoredAccountsMeetPolicy, EmptyMap
<1>2. StoredAccountsMeetPolicy /\ [AccountNext]_accountVars => StoredAccountsMeetPolicy'
  <2> SUFFICES ASSUME StoredAccountsMeetPolicy, [AccountNext]_accountVars
               PROVE  StoredAccountsMeetPolicy'
    OBVIOUS
  <2>1. CASE UNCHANGED accountVars
    BY <2>1 DEF StoredAccountsMeetPolicy, accountVars
  <2>2. ASSUME NEW u \in User, NEW p \in Password, Register(u, p), ~UNCHANGED accountVars
        PROVE  StoredAccountsMeetPolicy'
    <3>1. /\ RegisterErrors(u, p) = {}
          /\ DOMAIN accounts' = DOMAIN accounts \cup {u}
          /\ u \notin DOMAIN accounts
          /\ \A x \in DOMAIN accounts : accounts'[x] = accounts[x]
          /\ accounts'[u] = HashPassword(p)
      BY <2>2, RegisterCases
    <3>2. /\ Size[u] \in 8..32
          /\ Chars[u] \subseteq {"lower", "upper", "digit", "underscore"}
          /\ Size[p] >= 12
          /\ {"lower", "upper", "digit"} \subseteq Chars[p]
          /\ Chars[p] \ {"lower", "upper", "digit"} # {}
      BY <3>1, AcceptedObeyPolicy
    <3> QED
      BY <3>1, <3>2 DEF StoredAccountsMeetPolicy
  <2> QED
    BY <2>1, <2>2 DEF AccountNext
<1> QED
  BY <1>1, <1>2, PTL DEF AccountSpec
=============================================================================
