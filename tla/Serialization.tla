---------------------------- MODULE Serialization ----------------------------
(***************************************************************************)
(* src/Network/Serialization.{h,cpp}: ByteReader and ByteWriter, cursors   *)
(* in a vector of bytes whose length never changes.  Their users chain the *)
(* calls with && and stop at the first that fails; a cursor remembers here *)
(* that one has.                                                           *)
(***************************************************************************)
EXTENDS Integers, Sequences

CONSTANTS
  Base,    \* the values of a byte: 256
  Width    \* the bytes of a uint64_t: 8

ASSUME ByteAssumption == Base \in Nat \ {0, 1} /\ Width \in Nat \ {0}

Byte == 0..(Base - 1)

\* A uint64_t copied to or from bytes with memcpy, least significant byte first:
\* n without its i lowest bytes, and the number its i highest bytes make.
Shifted(n) ==
  LET upTo[i \in 0..Width] == IF i = 0 THEN n ELSE upTo[i - 1] \div Base
  IN  upTo

Joined(s) ==
  LET upTo[i \in 0..Width] ==
        IF i = 0 THEN 0 ELSE upTo[i - 1] * Base + s[Width + 1 - i]
  IN  upTo

AsBytes(n) == [i \in 1..Width |-> Shifted(n)[i - 1] % Base]

AsNumber(s) == Joined(s)[Width]

\* ByteReader(bytes) and ByteWriter(bytes).
Cursor(bytes) == [bytes |-> bytes, start |-> 0, ok |-> TRUE]

\* Mutant of Room: the last byte is never used.
RoomStrict(c, size) == Len(c.bytes) - c.start > size

Room(c, size) == Len(c.bytes) - c.start >= size

Advance(c, size) ==
  IF c.ok /\ Room(c, size)
  THEN [c EXCEPT !.start = @ + size]
  ELSE [c EXCEPT !.ok = FALSE]

\* What Peek and Read copy out when they succeed.
Peeked(r, size) == SubSeq(r.bytes, r.start + 1, r.start + size)

Read(r, size) == Advance(r, size)

\* The bytes with value copied over those from position start on.
Overlaid(bytes, start, value) ==
  [i \in 1..Len(bytes) |->
     IF i > start /\ i <= start + Len(value) THEN value[i - start] ELSE bytes[i]]

Write(w, value) ==
  LET next == Advance(w, Len(value))
  IN  IF next.ok THEN [next EXCEPT !.bytes = Overlaid(@, w.start, value)] ELSE next
=============================================================================
