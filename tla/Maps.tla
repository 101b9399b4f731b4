-------------------------------- MODULE Maps --------------------------------
(***************************************************************************)
(* std::map as the repository uses it: a partial function, changed by      *)
(* emplace and erase.                                                      *)
(***************************************************************************)
EXTENDS Functions

EmptyMap == [k \in {} |-> {}]

\* emplace(k, v): an entry that is already there is kept.
Emplace(f, k, v) ==
  [x \in DOMAIN f \cup {k} |-> IF x \in DOMAIN f THEN f[x] ELSE v]

\* erase(k): no effect without an entry for k.
Erase(f, k) == Restrict(f, DOMAIN f \ {k})
=============================================================================
