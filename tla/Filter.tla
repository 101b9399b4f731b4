-------------------------------- MODULE Filter --------------------------------
(***************************************************************************)
(* The elements of a sequence that belong to a set, in their order: the    *)
(* SelectSeq of the Sequences module for a test that is membership, as a   *)
(* function, so that its properties can be proved.                         *)
(***************************************************************************)
EXTENDS Naturals, Sequences

\* Kept(s, T)[i] is what the first i elements of s leave.
Kept(s, T) ==
  LET kept[i \in 0..Len(s)] ==
        IF i = 0 THEN << >>
        ELSE IF s[i] \in T THEN Append(kept[i - 1], s[i]) ELSE kept[i - 1]
  IN  kept

Filter(s, T) == Kept(s, T)[Len(s)]
=============================================================================
