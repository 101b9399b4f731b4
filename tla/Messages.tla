------------------------------ MODULE Messages ------------------------------
(***************************************************************************)
(* src/Shared/Messages.{h,cpp}: the layout of the messages.  Server and    *)
(* client each have one message buffer.  They serialize every message over *)
(* what the last one left there, the whole buffer is sent, and it replaces *)
(* the receiver's.  So `bytes` is the buffer as it goes back and forth.    *)
(***************************************************************************)
EXTENDS Serialization, SequencesExt

CONSTANTS
  BufferSize,    \* MESSAGE_BUFFER_SIZE
  MaxSize,       \* a longer string or list cannot be allocated: resize throws
  Text,          \* the strings in messages, sequences of bytes
  MaxStrings     \* bound: the strings in a StringList

ASSUME LayoutAssumption ==
  /\ BufferSize \in Nat /\ MaxSize \in Nat /\ MaxStrings \in Nat
  /\ \A s \in Text : s \in Seq(Byte) /\ Len(s) <= MaxSize
  /\ MaxStrings <= MaxSize
  /\ Shifted(MaxSize)[Width] = 0    \* a size is a uint64_t
  /\ 12 \in Byte

VARIABLES
  bytes,     \* the message buffer
  last,      \* the message serialized last
  success    \* whether that succeeded

msgVars == <<bytes, last, success>>

-----------------------------------------------------------------------------
(* The messages *)

TypeId ==
  [Ping |-> 1, Login |-> 2, Register |-> 3, Logout |-> 4, DeleteAccount |-> 5,
   ChangePassword |-> 6, ActiveUsers |-> 7, SendChat |-> 8, ReceiveChat |-> 9,
   Success |-> 10, Failure |-> 11, StringList |-> 12]

Type == DOMAIN TypeId

\* How many strings a message has, if its type says so.
FieldCount ==
  [t \in Type \ {"StringList"} |->
     IF t \in {"Ping", "Logout", "DeleteAccount", "ActiveUsers", "Success"} THEN 0
     ELSE IF t \in {"ChangePassword", "Failure"} THEN 1 ELSE 2]

Message ==
  (UNION {[type : {t}, fields : TupleOf(Text, FieldCount[t])] : t \in DOMAIN FieldCount})
  \cup [type : {"StringList"}, fields : BoundedSeq(Text, MaxStrings)]

-----------------------------------------------------------------------------
(* Serialize *)

\* Mutant of WriteString: the length counts its own field, too.
WriteStringLong(w, s) == Write(Write(w, AsBytes(Len(s) + Width)), s)

WriteString(w, s) == Write(Write(w, AsBytes(Len(s))), s)

\* The writer after each of the strings.
Written(w, strings) ==
  LET upTo[i \in 0..Len(strings)] ==
        IF i = 0 THEN w ELSE WriteString(upTo[i - 1], strings[i])
  IN  upTo

\* The type and, of a list, the number of its strings.
WriteHeader(w, m) ==
  LET typed == Write(w, <<TypeId[m.type]>>)
  IN  IF m.type = "StringList" THEN Write(typed, AsBytes(Len(m.fields))) ELSE typed

Serialize(m, buffer) ==
  Written(WriteHeader(Cursor(buffer), m), m.fields)[Len(m.fields)]

-----------------------------------------------------------------------------
(* Deserialize: a reader with the strings read so far *)

Throw(r) == [r EXCEPT !.ok = FALSE, !.threw = TRUE]

\* Mutant of ReadString: a string longer than the rest of the buffer is cut.
ReadStringCut(r) ==
  LET sized == Read(r, Width)
      n     == AsNumber(Peeked(r, Width))
      rest  == Len(r.bytes) - sized.start
      taken == IF n < rest THEN n ELSE rest
  IN  IF ~sized.ok THEN sized
      ELSE [Read(sized, taken) EXCEPT !.fields = Append(@, Peeked(sized, taken))]

\* Read a length, resize the string to it and read the string.
ReadString(r) ==
  LET n     == AsNumber(Peeked(r, Width))
      sized == Read(r, Width)
      whole == Read(sized, n)
  IN  IF ~sized.ok THEN sized
      ELSE IF n > MaxSize THEN Throw(sized)
      ELSE IF ~whole.ok THEN whole
      ELSE [whole EXCEPT !.fields = Append(@, Peeked(sized, n))]

\* The reader after each of count strings.
ReadStrings(r, count) ==
  LET upTo[i \in 0..count] == IF i = 0 THEN r ELSE ReadString(upTo[i - 1])
  IN  upTo

ReadList(r) ==
  LET n     == AsNumber(Peeked(r, Width))
      sized == Read(r, Width)
  IN  IF ~sized.ok THEN sized
      ELSE IF n > MaxSize THEN Throw(sized)
      ELSE ReadStrings(sized, n)[n]

Reader(buffer) ==
  [bytes |-> buffer, start |-> 0, ok |-> TRUE, fields |-> << >>, threw |-> FALSE]

\* Mutant of HasType: nobody compares the type.
HasTypeUnchecked(t, buffer) == Read(Cursor(buffer), 1).ok

HasType(t, buffer) ==
  Read(Cursor(buffer), 1).ok /\ Peeked(Cursor(buffer), 1) = <<TypeId[t]>>

\* t's Deserialize: the reader in the end, with ok if it returns true.
Deserialize(t, buffer) ==
  LET r == Read(Reader(buffer), 1)
  IN  IF ~HasType(t, buffer) THEN [r EXCEPT !.ok = FALSE]
      ELSE IF t = "StringList" THEN ReadList(r)
      ELSE ReadStrings(r, FieldCount[t])[FieldCount[t]]

-----------------------------------------------------------------------------
NoMessage == [type |-> "none", fields |-> << >>]

MessagesInit ==
  /\ bytes = [i \in 1..BufferSize |-> 0]
  /\ last = NoMessage
  /\ success = FALSE

\* One party serializes m, and sends the buffer if that succeeds.
Send(m) ==
  LET w == Serialize(m, bytes)
  IN  /\ bytes' = w.bytes
      /\ success' = w.ok
      /\ last' = m

MessagesNext == \E m \in Message : Send(m)

MessagesSpec == MessagesInit /\ [][MessagesNext]_msgVars

-----------------------------------------------------------------------------
(* Properties *)

\* What was serialized is read back unchanged whatever the buffer held before
\* (tests/messages.cpp), and no other type takes it for its own.
RoundTrip ==
  success =>
    \A t \in Type :
      LET r == Deserialize(t, bytes)
      IN  /\ ~r.threw
          /\ r.ok <=> t = last.type
          /\ r.ok => r.fields = last.fields

\* A message is refused only if it really does not fit: one byte for the type,
\* the length fields and the strings, up to and including the buffer's last byte.
FitsExactly ==
  last # NoMessage =>
    (success <=>
       1 + Width * (Len(last.fields) + (IF last.type = "StringList" THEN 1 ELSE 0))
         + Len(FlattenSeq(last.fields)) <= BufferSize)

\* A message that did not fit leaves nothing that any Deserialize takes for a
\* message, however far it got and whatever was behind it: a reader runs out of
\* bytes where the writer did.
RefusedIsUnreadable == ~success => \A t \in Type : ~Deserialize(t, bytes).ok

\* Deserialize takes only what Serialize could have written: serializing what it
\* returned changes nothing in the buffer.  Here for every buffer that differs in
\* at most one byte from one of those the parties exchange.
Canonical ==
  \A i \in 1..BufferSize, b \in Byte, t \in Type :
    LET other == [bytes EXCEPT ![i] = b]
        r     == Deserialize(t, other)
    IN  r.ok => Serialize([type |-> t, fields |-> r.fields], other).bytes = other
=============================================================================
