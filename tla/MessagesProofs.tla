---------------------------- MODULE MessagesProofs ----------------------------
(***************************************************************************)
(* What the layouts of the messages guarantee for every size of a byte, of *)
(* a length and of the buffer, and for every set of strings.  What a loop  *)
(* computes is proved by the least counterexample.                         *)
(***************************************************************************)
EXTENDS Messages, WellFoundedInduction, TLAPS

-----------------------------------------------------------------------------
(* Loops *)

\* A set of natural numbers that is not empty has a least element.
LEMMA LeastNumber ==
  ASSUME NEW T, T \subseteq Nat, T # {}
  PROVE  \E x \in T : \A y \in T : x <= y
<1>1. IsWellFoundedOn({ss \in Nat \X Nat : ss[1] < ss[2]}, Nat)
  BY NatLessThanWellFounded DEF OpToRel
<1>2. PICK x \in T : \A y \in T : <<y, x>> \notin {ss \in Nat \X Nat : ss[1] < ss[2]}
  BY <1>1, WFMin
<1>3. \A y \in T : ~(y < x)
  BY <1>2
<1> QED
  BY <1>3

\* What holds of 0 and of each number whose predecessor it holds of, holds of
\* them all, up to n.
LEMMA Induction ==
  ASSUME NEW n \in Nat, NEW T, 0 \in T, \A i \in 1..n : i - 1 \in T => i \in T
  PROVE  0..n \subseteq T
<1> DEFINE W == {i \in 0..n : i \notin T}
<1> SUFFICES ASSUME W # {} PROVE FALSE
  OBVIOUS
<1>0. W \subseteq Nat
  OBVIOUS
<1> HIDE DEF W
<1>1. PICK i \in W : \A j \in W : i <= j
  BY <1>0, LeastNumber
<1> USE DEF W
<1>2. i \in 1..n /\ i - 1 \in 0..n
  BY <1>1
<1>3. i - 1 \notin W
  BY <1>1, <1>2
<1> QED
  BY <1>1, <1>2, <1>3

\* A loop of n turns from b, each turn from a state in X to a state in X.
IsLoop(n, X, b, G) == n \in Nat /\ b \in X /\ G \in [(1..n) \X X -> X]

\* The states it goes through.
Follows(g, n, X, b, G) ==
  /\ g \in [0..n -> X]
  /\ g[0] = b
  /\ \A i \in 1..n : g[i] = G[<<i, g[i - 1]>>]

\* There are such states: the turns can be taken one after the other.
LEMMA Loop ==
  ASSUME NEW n, NEW X, NEW b, NEW G, IsLoop(n, X, b, G)
  PROVE  \E g : Follows(g, n, X, b, G)
<1> USE DEF IsLoop, Follows
<1> DEFINE Solves(g, m) == g[0] = b /\ \A i \in 1..m : g[i] = G[<<i, g[i - 1]>>]
           T == {m \in 0..n : \E g \in [0..m -> X] : Solves(g, m)}
<1>1. 0 \in T
  <2> DEFINE h == [i \in 0..0 |-> b]
  <2>1. h \in [0..0 -> X] /\ Solves(h, 0)
    OBVIOUS
  <2> HIDE DEF h
  <2> QED
    BY <2>1
<1>2. ASSUME NEW m \in 1..n, m - 1 \in T
      PROVE  m \in T
  <2>1. PICK g \in [0..m - 1 -> X] : Solves(g, m - 1)
    BY <1>2
  <2>2. m - 1 \in 0..m - 1 /\ g[m - 1] \in X
    OBVIOUS
  <2> DEFINE next == G[<<m, g[m - 1]>>]
             h == [i \in 0..m |-> IF i = m THEN next ELSE g[i]]
  <2>3. next \in X
    BY <2>2
  <2> HIDE DEF next
  <2>4. h \in [0..m -> X]
    BY <2>3
  <2>5. h[m] = next /\ \A i \in 0..m - 1 : h[i] = g[i]
    OBVIOUS
  <2> HIDE DEF h
  <2>6. h[0] = b
    BY <2>1, <2>5
  <2>7. ASSUME NEW i \in 1..m
        PROVE  h[i] = G[<<i, h[i - 1]>>]
    <3>1. h[i - 1] = g[i - 1]
      BY <2>5
    <3>2. CASE i = m
      BY <2>5, <3>1, <3>2 DEF next
    <3>3. CASE i \in 1..m - 1
      BY <2>1, <2>5, <3>1, <3>3
    <3> QED
      BY <3>2, <3>3
  <2>8. Solves(h, m)
    BY <2>6, <2>7
  <2> HIDE DEF Solves
  <2> QED
    BY <2>4, <2>8
<1> HIDE DEF T
<1>3. n \in T
  <2>1. 0..n \subseteq T
    BY <1>1, <1>2, Induction
  <2> QED
    BY <2>1
<1> USE DEF T
<1> QED
  BY <1>3

\* What takes the loop's turns goes through its states.
LEMMA Turns ==
  ASSUME NEW n, NEW X, NEW b, NEW G, IsLoop(n, X, b, G),
         NEW f, f = [i \in 0..n |-> f[i]], f[0] = b,
         \A i \in 1..n : f[i - 1] \in X => f[i] = G[<<i, f[i - 1]>>]
  PROVE  Follows(f, n, X, b, G)
<1> USE DEF IsLoop
<1> DEFINE T == {i \in 0..n : f[i] \in X}
<1>1. 0 \in T
  OBVIOUS
<1>2. ASSUME NEW i \in 1..n, i - 1 \in T
      PROVE  i \in T
  <2>1. i \in 0..n /\ f[i - 1] \in X
    BY <1>2
  <2>2. f[i] = G[<<i, f[i - 1]>>] /\ <<i, f[i - 1]>> \in (1..n) \X X
    BY <2>1
  <2> QED
    BY <2>1, <2>2
<1> HIDE DEF T
<1>3. 0..n \subseteq T
  BY <1>1, <1>2, Induction
<1>4. \A i \in 0..n : f[i] \in X
  BY <1>3 DEF T
<1>5. \A i \in 1..n : i - 1 \in 0..n
  OBVIOUS
<1> QED
  BY <1>4, <1>5 DEF Follows

-----------------------------------------------------------------------------
(* Numbers and bytes *)

\* Division by the base of the bytes.
LEMMA Division ==
  ASSUME NEW n \in Nat
  PROVE  /\ n \div Base \in Nat /\ n % Base \in Byte
         /\ n = (n \div Base) * Base + (n % Base)
BY ByteAssumption DEF Byte

\* A quotient and a remainder determine each other.
LEMMA DivisionOf ==
  ASSUME NEW q \in Nat, NEW r \in Byte
  PROVE  /\ q * Base + r \in Nat
         /\ (q * Base + r) \div Base = q /\ (q * Base + r) % Base = r
BY ByteAssumption DEF Byte

\* Division keeps the order.
LEMMA Smaller ==
  ASSUME NEW n \in Nat, NEW m \in Nat, n <= m
  PROVE  n \div Base <= m \div Base
BY ByteAssumption

\* Shifted is the loop it is written as: a division by the base each turn.
LEMMA ShiftedLoop ==
  ASSUME NEW n \in Nat
  PROVE  /\ Shifted(n) \in [0..Width -> Nat]
         /\ Shifted(n)[0] = n
         /\ \A i \in 1..Width : Shifted(n)[i] = Shifted(n)[i - 1] \div Base
<1> DEFINE G == [p \in (1..Width) \X Nat |-> p[2] \div Base]
           Solves(g) == g = [i \in 0..Width |-> IF i = 0 THEN n ELSE g[i - 1] \div Base]
           f == Shifted(n)
<1>0. Width \in Nat
  BY ByteAssumption
<1>1. IsLoop(Width, Nat, n, G)
  BY <1>0, Division DEF IsLoop
<1>2. \A i \in 1..Width, x \in Nat : G[<<i, x>>] = x \div Base
  OBVIOUS
<1> HIDE DEF G
<1>3. PICK g : Follows(g, Width, Nat, n, G)
  BY <1>1, Loop
<1>4. Solves(g)
  <2>1. \A i \in 1..Width : g[i - 1] \in Nat
    BY <1>0, <1>3 DEF Follows
  <2>2. \A i \in 1..Width : g[i] = g[i - 1] \div Base
    BY <1>2, <1>3, <2>1 DEF Follows
  <2> QED
    BY <1>0, <1>3, <2>2 DEF Follows
<1>5. Solves(f)
  BY <1>4 DEF Shifted
<1> HIDE DEF f
<1>6. f = [i \in 0..Width |-> f[i]]
  BY <1>5
<1>7. \A i \in 0..Width : f[i] = IF i = 0 THEN n ELSE f[i - 1] \div Base
  BY <1>5
<1>8. f[0] = n /\ \A i \in 1..Width : f[i] = f[i - 1] \div Base
  BY <1>0, <1>7
<1>9. Follows(f, Width, Nat, n, G)
  BY <1>1, <1>2, <1>6, <1>8, Turns
<1> QED
  BY <1>8, <1>9 DEF f, Follows

\* Joined likewise: the highest byte first, each turn another one below it.
LEMMA JoinedLoop ==
  ASSUME NEW s \in [1..Width -> Byte]
  PROVE  /\ Joined(s) \in [0..Width -> Nat]
         /\ Joined(s)[0] = 0
         /\ \A i \in 1..Width : Joined(s)[i] = Joined(s)[i - 1] * Base + s[Width + 1 - i]
<1> DEFINE G == [p \in (1..Width) \X Nat |-> p[2] * Base + s[Width + 1 - p[1]]]
           Solves(g) == g = [i \in 0..Width |->
                               IF i = 0 THEN 0 ELSE g[i - 1] * Base + s[Width + 1 - i]]
           f == Joined(s)
<1>0. Width \in Nat
  BY ByteAssumption
<1>1. IsLoop(Width, Nat, 0, G)
  <2>1. ASSUME NEW i \in 1..Width, NEW x \in Nat
        PROVE  x * Base + s[Width + 1 - i] \in Nat
    <3>1. Width + 1 - i \in 1..Width
      BY <1>0
    <3>2. s[Width + 1 - i] \in Byte
      BY <3>1
    <3> QED
      BY <3>2, DivisionOf
  <2> QED
    BY <1>0, <2>1 DEF IsLoop
<1>2. \A i \in 1..Width, x \in Nat : G[<<i, x>>] = x * Base + s[Width + 1 - i]
  OBVIOUS
<1> HIDE DEF G
<1>3. PICK g : Follows(g, Width, Nat, 0, G)
  BY <1>1, Loop
<1>4. Solves(g)
  <2>1. \A i \in 1..Width : g[i - 1] \in Nat
    BY <1>0, <1>3 DEF Follows
  <2>2. \A i \in 1..Width : g[i] = g[i - 1] * Base + s[Width + 1 - i]
    BY <1>2, <1>3, <2>1 DEF Follows
  <2> QED
    BY <1>0, <1>3, <2>2 DEF Follows
<1>5. Solves(f)
  BY <1>4 DEF Joined
<1> HIDE DEF f
<1>6. f = [i \in 0..Width |-> f[i]]
  BY <1>5
<1>7. \A i \in 0..Width : f[i] = IF i = 0 THEN 0 ELSE f[i - 1] * Base + s[Width + 1 - i]
  BY <1>5
<1>8. f[0] = 0 /\ \A i \in 1..Width : f[i] = f[i - 1] * Base + s[Width + 1 - i]
  BY <1>0, <1>7
<1>9. Follows(f, Width, Nat, 0, G)
  BY <1>1, <1>2, <1>6, <1>8, Turns, ZenonT(60)
<1> QED
  BY <1>8, <1>9 DEF f, Follows

\* A number has Width bytes.
LEMMA BytesType ==
  ASSUME NEW n \in Nat
  PROVE  AsBytes(n) \in [1..Width -> Byte] /\ AsBytes(n) \in Seq(Byte) /\ Len(AsBytes(n)) = Width
<1>1. ASSUME NEW i \in 1..Width
      PROVE  Shifted(n)[i - 1] % Base \in Byte
  <2>1. i - 1 \in 0..Width
    BY ByteAssumption
  <2>2. Shifted(n)[i - 1] \in Nat
    BY <2>1, ShiftedLoop
  <2> QED
    BY <2>2, Division
<1>2. AsBytes(n) \in [1..Width -> Byte]
  BY <1>1 DEF AsBytes
<1> QED
  BY <1>2, ByteAssumption

\* What is copied byte by byte into a uint64_t and out again comes back.
LEMMA NumberReturns ==
  ASSUME NEW n \in Nat, Shifted(n)[Width] = 0
  PROVE  AsNumber(AsBytes(n)) = n
<1> DEFINE s == AsBytes(n)
           f == Shifted(n)
           g == Joined(s)
           T == {i \in 0..Width : g[i] = f[Width - i]}
<1>0. Width \in Nat
  BY ByteAssumption
<1>1. /\ f \in [0..Width -> Nat] /\ f[0] = n /\ f[Width] = 0
      /\ \A i \in 1..Width : f[i] = f[i - 1] \div Base
  BY ShiftedLoop
<1>2. s \in [1..Width -> Byte] /\ \A i \in 1..Width : s[i] = f[i - 1] % Base
  BY BytesType DEF AsBytes
<1> HIDE DEF s, f
<1>3. /\ g \in [0..Width -> Nat] /\ g[0] = 0
      /\ \A i \in 1..Width : g[i] = g[i - 1] * Base + s[Width + 1 - i]
  BY <1>2, JoinedLoop
<1> HIDE DEF g
<1>4. 0 \in T
  BY <1>0, <1>1, <1>3
<1>5. ASSUME NEW i \in 1..Width, i - 1 \in T
      PROVE  i \in T
  <2> DEFINE j == Width - i
  <2>1. j \in 0..Width /\ j + 1 \in 1..Width /\ (j + 1) - 1 = j
        /\ Width + 1 - i = j + 1 /\ Width - (i - 1) = j + 1
    BY <1>0
  <2>2. g[i - 1] = f[j + 1] /\ f[j + 1] = f[j] \div Base /\ s[j + 1] = f[j] % Base
    BY <1>1, <1>2, <1>5, <2>1
  <2>3. g[i] = (f[j] \div Base) * Base + (f[j] % Base)
    BY <1>3, <2>1, <2>2
  <2>4. f[j] \in Nat
    BY <1>1, <2>1
  <2>5. g[i] = f[j]
    BY <2>3, <2>4, Division
  <2> QED
    BY <2>5
<1> HIDE DEF T
<1>6. 0..Width \subseteq T
  BY <1>0, <1>4, <1>5, Induction
<1>7. g[Width] = f[0]
  BY <1>0, <1>6 DEF T
<1> QED
  BY <1>1, <1>7 DEF AsNumber, g, s, f

\* Bytes copied into a uint64_t and out again come back, too.
LEMMA BytesReturn ==
  ASSUME NEW s \in [1..Width -> Byte]
  PROVE  AsNumber(s) \in Nat /\ AsBytes(AsNumber(s)) = s /\ Shifted(AsNumber(s))[Width] = 0
<1> DEFINE n == AsNumber(s)
           f == Shifted(n)
           g == Joined(s)
           T == {i \in 0..Width : f[i] = g[Width - i]}
<1>0. Width \in Nat
  BY ByteAssumption
<1>1. /\ g \in [0..Width -> Nat] /\ g[0] = 0
      /\ \A i \in 1..Width : g[i] = g[i - 1] * Base + s[Width + 1 - i]
  BY JoinedLoop
<1>2. n \in Nat /\ n = g[Width]
  BY <1>0, <1>1 DEF AsNumber
<1> HIDE DEF n, g
<1>3. /\ f \in [0..Width -> Nat] /\ f[0] = n
      /\ \A i \in 1..Width : f[i] = f[i - 1] \div Base
  BY <1>2, ShiftedLoop
<1> HIDE DEF f
<1>4. 0 \in T
  BY <1>0, <1>2, <1>3
<1>5. ASSUME NEW i \in 1..Width, i - 1 \in T
      PROVE  i \in T /\ f[i - 1] % Base = s[i]
  <2> DEFINE j == Width - i
  <2>1. /\ j \in 0..Width /\ j + 1 \in 1..Width /\ (j + 1) - 1 = j
        /\ Width + 1 - (j + 1) = i /\ Width - (i - 1) = j + 1
    BY <1>0
  <2>2. f[i - 1] = g[j + 1] /\ g[j + 1] = g[j] * Base + s[i]
    BY <1>1, <1>5, <2>1
  <2>3. g[j] \in Nat /\ s[i] \in Byte
    BY <1>1, <2>1
  <2>4. f[i - 1] \div Base = g[j] /\ f[i - 1] % Base = s[i]
    BY <2>2, <2>3, DivisionOf
  <2>5. f[i] = g[j]
    BY <1>3, <2>4
  <2> QED
    BY <2>4, <2>5
<1> HIDE DEF T
<1>6. 0..Width \subseteq T
  BY <1>0, <1>4, <1>5, Induction
<1>7. ASSUME NEW i \in 1..Width
      PROVE  AsBytes(n)[i] = s[i]
  <2>1. i - 1 \in T
    BY <1>0, <1>6
  <2>2. f[i - 1] % Base = s[i]
    BY <1>5, <2>1
  <2> QED
    BY <2>2 DEF AsBytes, f
<1>8. AsBytes(n) = s
  BY <1>2, <1>7, BytesType
<1>9. f[Width] = 0
  BY <1>0, <1>1, <1>6 DEF T
<1> QED
  BY <1>2, <1>8, <1>9 DEF n, f

\* What is not more than MaxSize fits in a uint64_t.
LEMMA SizesFit ==
  ASSUME NEW n \in 0..MaxSize
  PROVE  n \in Nat /\ Shifted(n)[Width] = 0
<1> DEFINE f == Shifted(n)
           m == MaxSize
           h == Shifted(m)
           T == {i \in 0..Width : f[i] <= h[i]}
<1>0. Width \in Nat /\ m \in Nat /\ n \in Nat /\ n <= m /\ h[Width] = 0
  BY ByteAssumption, LayoutAssumption
<1>1. /\ f \in [0..Width -> Nat] /\ f[0] = n
      /\ \A i \in 1..Width : f[i] = f[i - 1] \div Base
  BY <1>0, ShiftedLoop
<1>2. /\ h \in [0..Width -> Nat] /\ h[0] = m
      /\ \A i \in 1..Width : h[i] = h[i - 1] \div Base
  BY <1>0, ShiftedLoop
<1> HIDE DEF f, h, m
<1>3. 0 \in T
  BY <1>0, <1>1, <1>2
<1>4. ASSUME NEW i \in 1..Width, i - 1 \in T
      PROVE  i \in T
  <2>1. f[i - 1] \in Nat /\ h[i - 1] \in Nat /\ f[i - 1] <= h[i - 1]
    BY <1>0, <1>1, <1>2, <1>4
  <2>2. f[i - 1] \div Base <= h[i - 1] \div Base
    BY <2>1, Smaller
  <2> QED
    BY <1>1, <1>2, <2>2
<1> HIDE DEF T
<1>5. 0..Width \subseteq T
  BY <1>0, <1>3, <1>4, Induction
<1>6. f[Width] \in Nat /\ f[Width] <= h[Width]
  BY <1>0, <1>1, <1>5 DEF T
<1> QED
  BY <1>0, <1>6 DEF f

-----------------------------------------------------------------------------
(* Readers and writers *)

Buffer == [1..BufferSize -> Byte]

Writer == [bytes : Buffer, start : 0..BufferSize, ok : BOOLEAN]

Fields == Seq(Seq(Byte))

StringReader ==
  [bytes : Buffer, start : 0..BufferSize, ok : BOOLEAN, fields : Fields, threw : BOOLEAN]

\* A buffer is a sequence of BufferSize bytes.
LEMMA BufferLength ==
  ASSUME NEW b \in Buffer
  PROVE  b \in Seq(Byte) /\ Len(b) = BufferSize /\ BufferSize \in Nat
BY LayoutAssumption DEF Buffer

\* Two buffers hold the same up to the n-th byte.
Agree(a, b, n) == \A i \in 1..n : a[i] = b[i]

\* What a write does: all of it or nothing.
LEMMA WriteResult ==
  ASSUME NEW w \in Writer, NEW v \in Seq(Byte)
  PROVE  /\ Write(w, v) \in Writer
         /\ Write(w, v).ok <=> w.ok /\ w.start + Len(v) <= BufferSize
         /\ Write(w, v).ok =>
              /\ Write(w, v).start = w.start + Len(v)
              /\ \A i \in 1..BufferSize :
                   Write(w, v).bytes[i] =
                     IF w.start < i /\ i <= w.start + Len(v) THEN v[i - w.start] ELSE w.bytes[i]
         /\ ~Write(w, v).ok => Write(w, v).start = w.start /\ Write(w, v).bytes = w.bytes
<1> DEFINE size == Len(v)
           fits == w.ok /\ w.start + size <= BufferSize
           next == Advance(w, size)
<1>1. /\ w.bytes \in Buffer /\ w.start \in 0..BufferSize /\ w.ok \in BOOLEAN
      /\ size \in Nat /\ DOMAIN v = 1..size /\ \A i \in 1..size : v[i] \in Byte
  BY DEF Writer
<1>2. Len(w.bytes) = BufferSize /\ BufferSize \in Nat
  BY <1>1, BufferLength
<1> HIDE DEF size
<1>3. CASE ~fits
  <2>1. next = [w EXCEPT !.ok = FALSE]
    BY <1>1, <1>2, <1>3 DEF Advance, Room
  <2>2. next \in Writer /\ ~next.ok /\ next.start = w.start /\ next.bytes = w.bytes
    BY <2>1 DEF Writer
  <2>3. Write(w, v) = next
    BY <2>2 DEF Write, size
  <2> QED
    BY <1>3, <2>2, <2>3 DEF size
<1>4. CASE fits
  <2>1. next = [w EXCEPT !.start = @ + size]
    BY <1>1, <1>2, <1>4 DEF Advance, Room
  <2>2. next.ok /\ next.start = w.start + size /\ next.bytes = w.bytes
    BY <1>4, <2>1 DEF Writer
  <2> DEFINE over == Overlaid(w.bytes, w.start, v)
  <2>3. over \in Buffer
        /\ \A i \in 1..BufferSize :
             over[i] = IF w.start < i /\ i <= w.start + size THEN v[i - w.start] ELSE w.bytes[i]
    <3>1. over = [i \in 1..BufferSize |->
                    IF i > w.start /\ i <= w.start + size THEN v[i - w.start] ELSE w.bytes[i]]
      BY <1>2 DEF Overlaid, size
    <3>2. ASSUME NEW i \in 1..BufferSize
          PROVE  (IF i > w.start /\ i <= w.start + size THEN v[i - w.start] ELSE w.bytes[i]) \in Byte
      <4>1. w.bytes[i] \in Byte
        BY <1>1 DEF Buffer
      <4>2. i > w.start /\ i <= w.start + size => i - w.start \in 1..size
        BY <1>1, <1>2
      <4> QED
        BY <1>1, <4>1, <4>2
    <3> HIDE DEF over
    <3> QED
      BY <1>1, <1>2, <3>1, <3>2 DEF Buffer
  <2> HIDE DEF over
  <2>4. Write(w, v) = [next EXCEPT !.bytes = over]
    BY <2>2 DEF Write, size, over
  <2>5. Write(w, v) = [bytes |-> over, start |-> w.start + size, ok |-> w.ok]
    BY <2>1, <2>4 DEF Writer
  <2>6. w.start + size \in 0..BufferSize
    BY <1>1, <1>2, <1>4
  <2> HIDE DEF next
  <2> QED
    BY <1>1, <1>4, <2>3, <2>5, <2>6 DEF Writer, size
<1> QED
  BY <1>3, <1>4

\* The same without the case distinction: what was written is there, and what
\* was there before the position still is.
LEMMA WriteFacts ==
  ASSUME NEW w \in Writer, NEW v \in Seq(Byte)
  PROVE  /\ Write(w, v) \in Writer
         /\ Write(w, v).ok <=> w.ok /\ w.start + Len(v) <= BufferSize
         /\ Write(w, v).ok =>
              /\ Write(w, v).start = w.start + Len(v)
              /\ \A k \in 1..Len(v) : Write(w, v).bytes[w.start + k] = v[k]
         /\ ~Write(w, v).ok => Write(w, v).start = w.start /\ Write(w, v).bytes = w.bytes
         /\ Agree(Write(w, v).bytes, w.bytes, w.start)
<1> DEFINE x == Write(w, v)
           n == Len(v)
<1>1. w.start \in 0..BufferSize /\ n \in Nat /\ BufferSize \in Nat
  BY LayoutAssumption DEF Writer
<1>2. /\ x \in Writer
      /\ x.ok <=> w.ok /\ w.start + n <= BufferSize
      /\ x.ok => /\ x.start = w.start + n
                 /\ \A i \in 1..BufferSize :
                      x.bytes[i] = IF w.start < i /\ i <= w.start + n THEN v[i - w.start] ELSE w.bytes[i]
      /\ ~x.ok => x.start = w.start /\ x.bytes = w.bytes
  BY WriteResult
<1> HIDE DEF x, n
<1>3. ASSUME x.ok, NEW k \in 1..n
      PROVE  x.bytes[w.start + k] = v[k]
  <2> DEFINE i == w.start + k
  <2>1. i \in 1..BufferSize /\ w.start < i /\ i <= w.start + n /\ i - w.start = k
    BY <1>1, <1>2, <1>3
  <2> HIDE DEF i
  <2>2. x.bytes[i] = v[i - w.start]
    BY <1>2, <1>3, <2>1
  <2> QED
    BY <2>1, <2>2 DEF i
<1>4. ASSUME NEW i \in 1..w.start
      PROVE  x.bytes[i] = w.bytes[i]
  <2>1. i \in 1..BufferSize /\ ~(w.start < i)
    BY <1>1
  <2> QED
    BY <1>2, <2>1
<1> QED
  BY <1>2, <1>3, <1>4 DEF Agree, x, n

\* The same of the two writes of a string.
LEMMA WriteStringFacts ==
  ASSUME NEW w \in Writer, NEW s \in Seq(Byte)
  PROVE  /\ WriteString(w, s) \in Writer
         /\ WriteString(w, s).ok <=> w.ok /\ w.start + Width + Len(s) <= BufferSize
         /\ WriteString(w, s).ok => WriteString(w, s).start = w.start + Width + Len(s)
         /\ w.start <= WriteString(w, s).start
         /\ Agree(WriteString(w, s).bytes, w.bytes, w.start)
<1> DEFINE size == Len(s)
           v == AsBytes(size)
           a == Write(w, v)
           b == Write(a, s)
<1>1. size \in Nat /\ Width \in Nat /\ BufferSize \in Nat /\ w.start \in 0..BufferSize
  BY ByteAssumption, LayoutAssumption DEF Writer
<1>2. v \in Seq(Byte) /\ Len(v) = Width
  BY <1>1, BytesType
<1> HIDE DEF v
<1>3. /\ a \in Writer
      /\ a.ok <=> w.ok /\ w.start + Width <= BufferSize
      /\ a.ok => a.start = w.start + Width
      /\ ~a.ok => a.start = w.start
      /\ Agree(a.bytes, w.bytes, w.start)
  BY <1>2, WriteFacts
<1> HIDE DEF a
<1>4. /\ b \in Writer
      /\ b.ok <=> a.ok /\ a.start + size <= BufferSize
      /\ b.ok => b.start = a.start + size
      /\ ~b.ok => b.start = a.start
      /\ Agree(b.bytes, a.bytes, a.start)
  BY <1>3, WriteFacts
<1> HIDE DEF b
<1>5. w.start <= a.start /\ a.start <= b.start /\ a.start \in 0..BufferSize
  BY <1>1, <1>3, <1>4 DEF Writer
<1>6. b.ok <=> w.ok /\ w.start + Width + size <= BufferSize
  BY <1>1, <1>3, <1>4
<1>7. b.ok => b.start = w.start + Width + size
  BY <1>1, <1>3, <1>4
<1> HIDE DEF size
<1>8. \A i \in 1..w.start : i \in 1..a.start
  BY <1>1, <1>5
<1>9. Agree(b.bytes, w.bytes, w.start)
  BY <1>3, <1>4, <1>8 DEF Agree
<1>10. w.start <= b.start
  BY <1>1, <1>4, <1>5 DEF Writer
<1> QED
  BY <1>4, <1>6, <1>7, <1>9, <1>10 DEF WriteString, a, b, v, size

\* Written likewise: it starts from w, and writes a string each turn.
LEMMA WrittenLoop ==
  ASSUME NEW w \in Writer, NEW f \in Fields
  PROVE  /\ Written(w, f) \in [0..Len(f) -> Writer]
         /\ Written(w, f)[0] = w
         /\ \A i \in 1..Len(f) : Written(w, f)[i] = WriteString(Written(w, f)[i - 1], f[i])
<1> DEFINE n == Len(f)
           G == [p \in (1..n) \X Writer |-> WriteString(p[2], f[p[1]])]
           Solves(g) == g = [i \in 0..n |-> IF i = 0 THEN w ELSE WriteString(g[i - 1], f[i])]
           h == Written(w, f)
<1>0. n \in Nat /\ \A i \in 1..n : f[i] \in Seq(Byte)
  BY DEF Fields
<1> HIDE DEF n
<1>1. IsLoop(n, Writer, w, G)
  <2>1. \A i \in 1..n, x \in Writer : WriteString(x, f[i]) \in Writer
    BY <1>0, WriteStringFacts
  <2> HIDE DEF Writer
  <2> QED
    BY <1>0, <2>1 DEF IsLoop
<1>2. \A i \in 1..n, x \in Writer : G[<<i, x>>] = WriteString(x, f[i])
  OBVIOUS
<1> HIDE DEF G
<1>3. PICK g : Follows(g, n, Writer, w, G)
  BY <1>1, Loop
<1>4. Solves(g)
  <2>1. \A i \in 1..n : g[i - 1] \in Writer
    BY <1>0, <1>3 DEF Follows
  <2>2. \A i \in 1..n : g[i] = WriteString(g[i - 1], f[i])
    BY <1>2, <1>3, <2>1 DEF Follows
  <2> QED
    BY <1>0, <1>3, <2>2 DEF Follows
<1>5. Solves(h)
  BY <1>4 DEF Written, n
<1> HIDE DEF h
<1>6. h = [i \in 0..n |-> h[i]]
  BY <1>5
<1>7. \A i \in 0..n : h[i] = IF i = 0 THEN w ELSE WriteString(h[i - 1], f[i])
  BY <1>5
<1>8. h[0] = w /\ \A i \in 1..n : h[i] = WriteString(h[i - 1], f[i])
  BY <1>0, <1>7
<1>9. Follows(h, n, Writer, w, G)
  BY <1>1, <1>2, <1>6, <1>8, Turns
<1> QED
  BY <1>8, <1>9 DEF h, n, Follows

\* What has been written once stays, and a writer that has failed goes nowhere.
LEMMA WrittenStays ==
  ASSUME NEW w \in Writer, NEW f \in Fields, NEW i \in 0..Len(f), NEW j \in 0..Len(f), i <= j
  PROVE  LET W == Written(w, f)
         IN  /\ W[i].start <= W[j].start
             /\ Agree(W[j].bytes, W[i].bytes, W[i].start)
             /\ W[j].ok => W[i].ok
<1> DEFINE n == Len(f)
           W == Written(w, f)
           Kept(k) == /\ W[i].start <= W[k].start
                      /\ Agree(W[k].bytes, W[i].bytes, W[i].start)
                      /\ W[k].ok => W[i].ok
           T == {k \in 0..n : k < i \/ Kept(k)}
<1>0. n \in Nat /\ \A k \in 1..n : f[k] \in Seq(Byte)
  BY DEF Fields
<1>1. /\ W \in [0..n -> Writer]
      /\ \A k \in 1..n : W[k] = WriteString(W[k - 1], f[k])
  BY WrittenLoop
<1> HIDE DEF n, W
<1>2. i \in 0..n /\ j \in 0..n
  BY DEF n
<1>3. Kept(i)
  <2>1. W[i].start \in Nat
    BY <1>1, <1>2 DEF Writer
  <2> QED
    BY <2>1 DEF Agree
<1>4. 0 \in T
  BY <1>0, <1>2, <1>3
<1>5. ASSUME NEW k \in 1..n, k - 1 \in T
      PROVE  k \in T
  <2>1. CASE k < i
    BY <1>0, <2>1
  <2>2. CASE k = i
    BY <1>0, <1>3, <2>2
  <2>3. CASE k > i
    <3>1. Kept(k - 1) /\ k - 1 \in 0..n
      BY <1>0, <1>2, <1>5, <2>3
    <3>2. W[k - 1] \in Writer /\ W[k] = WriteString(W[k - 1], f[k]) /\ f[k] \in Seq(Byte)
      BY <1>0, <1>1, <3>1
    <3>3. /\ W[k].ok => W[k - 1].ok
          /\ W[k - 1].start <= W[k].start
          /\ Agree(W[k].bytes, W[k - 1].bytes, W[k - 1].start)
          /\ W[k] \in Writer
      BY <3>2, WriteStringFacts
    <3>4. W[i].start \in Nat /\ W[k - 1].start \in Nat /\ W[k].start \in Nat
      BY <1>1, <1>2, <3>2, <3>3 DEF Writer
    <3>5. W[i].start <= W[k].start /\ (W[k].ok => W[i].ok)
      BY <3>1, <3>3, <3>4
    <3>6. \A l \in 1..W[i].start : l \in 1..W[k - 1].start
      BY <3>1, <3>4
    <3>7. Agree(W[k].bytes, W[i].bytes, W[i].start)
      BY <3>1, <3>3, <3>6 DEF Agree
    <3> QED
      BY <1>0, <3>5, <3>7
  <2> QED
    BY <1>0, <1>2, <2>1, <2>2, <2>3
<1> HIDE DEF T
<1>6. j \in T
  <2>1. 0..n \subseteq T
    BY <1>0, <1>4, <1>5, Induction
  <2> QED
    BY <1>2, <2>1
<1>7. Kept(j)
  <2>1. ~(j < i)
    BY <1>0, <1>2
  <2> QED
    BY <1>6, <2>1 DEF T
<1> QED
  BY <1>7 DEF W

\* Peek copies the bytes behind the position.
LEMMA PeekedFacts ==
  ASSUME NEW r, r.bytes \in Buffer, r.start \in 0..BufferSize,
         NEW size \in Nat, r.start + size <= BufferSize
  PROVE  /\ Peeked(r, size) \in [1..size -> Byte]
         /\ Peeked(r, size) \in Seq(Byte) /\ Len(Peeked(r, size)) = size
         /\ \A k \in 1..size : Peeked(r, size)[k] = r.bytes[r.start + k]
<1> DEFINE b == r.bytes
           m == r.start
<1>1. b \in Seq(Byte) /\ Len(b) = BufferSize /\ BufferSize \in Nat /\ m \in Nat
  BY BufferLength
<1> HIDE DEF b, m
<1>2. SubSeq(b, m + 1, m + size) = [k \in 1..size |-> b[m + k]]
  BY <1>1, SMTT(30) DEF b, m
<1>3. \A k \in 1..size : b[m + k] \in Byte
  BY <1>1 DEF b, m
<1> DEFINE p == Peeked(r, size)
<1>4. p = [k \in 1..size |-> b[m + k]]
  BY <1>2 DEF Peeked, b, m
<1> HIDE DEF p
<1>5. p \in [1..size -> Byte] /\ \A k \in 1..size : p[k] = b[m + k]
  BY <1>3, <1>4
<1>6. p \in Seq(Byte) /\ Len(p) = size
  BY <1>5
<1> QED
  BY <1>5, <1>6 DEF p, b, m

\* A read of bytes moves the position, if there are that many.
LEMMA ReadFacts ==
  ASSUME NEW r \in StringReader, NEW size \in Nat
  PROVE  /\ Read(r, size) \in StringReader
         /\ Read(r, size).ok <=> r.ok /\ r.start + size <= BufferSize
         /\ Read(r, size).ok => Read(r, size).start = r.start + size
         /\ Read(r, size).bytes = r.bytes
         /\ Read(r, size).fields = r.fields
         /\ Read(r, size).threw = r.threw
<1> DEFINE fits == r.ok /\ r.start + size <= BufferSize
           x == Read(r, size)
<1>1. r.bytes \in Buffer /\ r.start \in 0..BufferSize /\ r.ok \in BOOLEAN
  BY DEF StringReader
<1>2. Len(r.bytes) = BufferSize /\ BufferSize \in Nat
  BY <1>1, BufferLength
<1>3. CASE ~fits
  <2>1. x = [r EXCEPT !.ok = FALSE]
    BY <1>1, <1>2, <1>3 DEF Read, Advance, Room
  <2> HIDE DEF x
  <2> QED
    BY <1>3, <2>1 DEF StringReader, x
<1>4. CASE fits
  <2>1. x = [r EXCEPT !.start = @ + size]
    BY <1>1, <1>2, <1>4 DEF Read, Advance, Room
  <2>2. r.start + size \in 0..BufferSize
    BY <1>1, <1>2, <1>4
  <2> HIDE DEF x
  <2> QED
    BY <1>4, <2>1, <2>2 DEF StringReader, x
<1> QED
  BY <1>3, <1>4

\* The length in front of a string, and the string.
LengthAt(r) == AsNumber(Peeked(r, Width))

StringAt(r) == Peeked([bytes |-> r.bytes, start |-> r.start + Width], LengthAt(r))

\* Reading a string takes its length and its bytes, or fails.
LEMMA ReadStringFacts ==
  ASSUME NEW r \in StringReader
  PROVE  LET x == ReadString(r)
         IN  /\ x \in StringReader
             /\ x.ok => r.ok /\ r.start + Width <= BufferSize
             /\ r.ok /\ r.start + Width <= BufferSize =>
                  /\ Peeked(r, Width) \in [1..Width -> Byte]
                  /\ LengthAt(r) \in Nat
                  /\ x.ok <=> /\ LengthAt(r) <= MaxSize
                              /\ r.start + Width + LengthAt(r) <= BufferSize
             /\ x.ok => /\ x.bytes = r.bytes
                        /\ x.start = r.start + Width + LengthAt(r)
                        /\ x.threw = r.threw
                        /\ x.fields = Append(r.fields, StringAt(r))
                        /\ StringAt(r) \in Seq(Byte)
                        /\ Len(StringAt(r)) = LengthAt(r)
                        /\ \A k \in 1..LengthAt(r) :
                             StringAt(r)[k] = r.bytes[r.start + Width + k]
<1> DEFINE x == ReadString(r)
           n == LengthAt(r)
           sized == Read(r, Width)
           whole == Read(sized, n)
<1>1. /\ r.bytes \in Buffer /\ r.start \in 0..BufferSize /\ r.ok \in BOOLEAN
      /\ r.fields \in Fields /\ r.threw \in BOOLEAN
      /\ Width \in Nat /\ BufferSize \in Nat /\ MaxSize \in Nat
  BY ByteAssumption, LayoutAssumption DEF StringReader
<1>2. /\ sized \in StringReader
      /\ sized.ok <=> r.ok /\ r.start + Width <= BufferSize
      /\ sized.ok => sized.start = r.start + Width
      /\ sized.bytes = r.bytes /\ sized.fields = r.fields /\ sized.threw = r.threw
  BY <1>1, ReadFacts
<1>3. x = IF ~sized.ok THEN sized
          ELSE IF n > MaxSize THEN Throw(sized)
          ELSE IF ~whole.ok THEN whole
          ELSE [whole EXCEPT !.fields = Append(@, Peeked(sized, n))]
  BY DEF ReadString, LengthAt
<1> HIDE DEF x, sized
<1>4. CASE ~sized.ok
  BY <1>2, <1>3, <1>4 DEF x
<1>5. CASE sized.ok
  <2>1. Peeked(r, Width) \in [1..Width -> Byte]
    BY <1>1, <1>2, <1>5, PeekedFacts
  <2>2. n \in Nat
    BY <2>1, BytesReturn DEF LengthAt
  <2>3. StringAt(r) = Peeked(sized, n)
    BY <1>2, <1>5 DEF StringAt, Peeked
  <2> HIDE DEF n
  <2>4. /\ whole \in StringReader
        /\ whole.ok <=> r.start + Width + n <= BufferSize
        /\ whole.ok => whole.start = r.start + Width + n
        /\ whole.bytes = r.bytes /\ whole.fields = r.fields /\ whole.threw = r.threw
    BY <1>2, <1>5, <2>2, ReadFacts
  <2> HIDE DEF whole
  <2>5. CASE n > MaxSize
    <3>1. x = [sized EXCEPT !.ok = FALSE, !.threw = TRUE]
      BY <1>3, <1>5, <2>5 DEF Throw
    <3>2. x \in StringReader /\ ~x.ok
      BY <1>2, <3>1 DEF StringReader
    <3> QED
      BY <1>1, <1>2, <1>5, <2>1, <2>2, <2>5, <3>2 DEF x, n
  <2>6. CASE ~(n > MaxSize) /\ ~whole.ok
    <3>1. x = whole
      BY <1>3, <1>5, <2>6
    <3> QED
      BY <1>1, <1>2, <1>5, <2>1, <2>2, <2>4, <2>6, <3>1 DEF x, n
  <2>7. CASE ~(n > MaxSize) /\ whole.ok
    <3> DEFINE str == Peeked(sized, n)
    <3>1. x = [whole EXCEPT !.fields = Append(@, str)]
      BY <1>3, <1>5, <2>7
    <3>2. /\ str \in Seq(Byte) /\ Len(str) = n
          /\ \A k \in 1..n : str[k] = r.bytes[r.start + Width + k]
      <4>1. sized.bytes \in Buffer /\ sized.start \in 0..BufferSize
            /\ sized.start + n <= BufferSize
        BY <1>2, <1>5, <2>4, <2>7 DEF StringReader
      <4>2. /\ str \in Seq(Byte) /\ Len(str) = n
            /\ \A k \in 1..n : str[k] = sized.bytes[sized.start + k]
        BY <2>2, <4>1, PeekedFacts
      <4> QED
        BY <1>2, <1>5, <4>2
    <3> HIDE DEF str
    <3>3. Append(whole.fields, str) \in Fields
      BY <1>1, <2>4, <3>2 DEF Fields
    <3>4. /\ x.ok /\ x.bytes = r.bytes /\ x.start = r.start + Width + n /\ x.threw = r.threw
          /\ x.fields = Append(r.fields, str) /\ x \in StringReader
      BY <2>4, <2>7, <3>1, <3>3 DEF StringReader
    <3>5. n <= MaxSize /\ r.start + Width + n <= BufferSize
      BY <1>1, <2>2, <2>4, <2>7
    <3> QED
      BY <1>2, <1>5, <2>1, <2>2, <2>3, <3>2, <3>4, <3>5 DEF x, n, str
  <2> QED
    BY <2>5, <2>6, <2>7
<1> QED
  BY <1>4, <1>5

-----------------------------------------------------------------------------
(* Reading what was written *)

\* Sequences with the same elements are the same.
LEMMA SameSequence ==
  ASSUME NEW S, NEW a \in Seq(S), NEW b \in Seq(S), Len(a) = Len(b),
         \A i \in 1..Len(a) : a[i] = b[i]
  PROVE  a = b
OBVIOUS

\* What WriteString puts behind the writer's position.
LEMMA WriteStringBytes ==
  ASSUME NEW w \in Writer, NEW s \in Seq(Byte), w.ok, w.start + Width <= BufferSize
  PROVE  LET x == WriteString(w, s)
         IN  /\ w.start + Width <= x.start
             /\ \A k \in 1..Width : x.bytes[w.start + k] = AsBytes(Len(s))[k]
             /\ x.ok => \A k \in 1..Len(s) : x.bytes[w.start + Width + k] = s[k]
<1> DEFINE size == Len(s)
           v == AsBytes(size)
           a == Write(w, v)
           b == Write(a, s)
<1>1. size \in Nat /\ Width \in Nat /\ w.start \in Nat
  BY ByteAssumption DEF Writer
<1>2. v \in Seq(Byte) /\ Len(v) = Width
  BY <1>1, BytesType
<1> HIDE DEF v
<1>3. /\ a \in Writer /\ a.ok /\ a.start = w.start + Width
      /\ \A k \in 1..Width : a.bytes[w.start + k] = v[k]
  BY <1>2, WriteFacts
<1> HIDE DEF a
<1>4. /\ b.ok => b.start = a.start + size /\ \A k \in 1..size : b.bytes[a.start + k] = s[k]
      /\ ~b.ok => b.start = a.start
      /\ Agree(b.bytes, a.bytes, a.start)
  BY <1>3, WriteFacts
<1> HIDE DEF b
<1>5. \A k \in 1..Width : w.start + k \in 1..a.start
  BY <1>1, <1>3
<1>6. \A k \in 1..Width : b.bytes[w.start + k] = v[k]
  BY <1>3, <1>4, <1>5 DEF Agree
<1> HIDE DEF size
<1>7. w.start + Width <= b.start
  BY <1>1, <1>3, <1>4
<1> QED
  BY <1>3, <1>4, <1>6, <1>7 DEF WriteString, a, b, v, size

\* The reader is where the writer was and has read strings; or both have failed.
Matches(r, w, b, strings) ==
  /\ r.ok <=> w.ok
  /\ w.ok => r.bytes = b /\ r.start = w.start /\ ~r.threw /\ r.fields = strings

\* Reading follows the writing of a string, if the buffer still holds it.
LEMMA ReadFollowsWrite ==
  ASSUME NEW w \in Writer, NEW s \in Seq(Byte), Len(s) <= MaxSize,
         NEW r \in StringReader, NEW b \in Buffer, NEW strings \in Fields,
         Matches(r, w, b, strings),
         Agree(b, WriteString(w, s).bytes, WriteString(w, s).start)
  PROVE  Matches(ReadString(r), WriteString(w, s), b, Append(strings, s))
<1> DEFINE x == ReadString(r)
           y == WriteString(w, s)
           size == Len(s)
<1>1. /\ size \in Nat /\ Width \in Nat /\ BufferSize \in Nat /\ MaxSize \in Nat
      /\ w.start \in Nat
  BY ByteAssumption, LayoutAssumption DEF Writer
<1>2. y.ok <=> w.ok /\ w.start + Width + size <= BufferSize
  BY WriteStringFacts
<1>3. y.ok => y.start = w.start + Width + size
  BY WriteStringFacts
<1>4. x.ok => r.ok /\ r.start + Width <= BufferSize
  BY ReadStringFacts
<1>5. CASE ~w.ok \/ w.start + Width > BufferSize
  <2>1. ~x.ok
    <3> HIDE DEF x
    <3>1. r \in StringReader /\ r.start \in Nat
      BY DEF StringReader
    <3> QED
      BY <1>1, <1>4, <1>5, <3>1 DEF Matches
  <2>2. ~y.ok
    <3> HIDE DEF y, size
    <3> QED
      BY <1>1, <1>2, <1>5
  <2> QED
    BY <2>1, <2>2 DEF Matches
<1>6. CASE w.ok /\ w.start + Width <= BufferSize
  <2>1. r.ok /\ r.bytes = b /\ r.start = w.start /\ ~r.threw /\ r.fields = strings
    BY <1>6 DEF Matches
  <2>2. /\ w.start + Width <= y.start
        /\ \A k \in 1..Width : y.bytes[w.start + k] = AsBytes(size)[k]
        /\ y.ok => \A k \in 1..size : y.bytes[w.start + Width + k] = s[k]
    BY <1>6, WriteStringBytes
  <2>3. y \in Writer
    BY WriteStringFacts
  <2>4. y.start \in Nat
    BY <2>3 DEF Writer
  <2>5. /\ Peeked(r, Width) \in [1..Width -> Byte]
        /\ \A k \in 1..Width : Peeked(r, Width)[k] = b[w.start + k]
    <3>1. r.bytes \in Buffer /\ r.start \in 0..BufferSize
      BY DEF StringReader
    <3> QED
      BY <1>1, <1>6, <2>1, <3>1, PeekedFacts
  <2> DEFINE p == Peeked(r, Width)
             v == AsBytes(size)
  <2>6. p = v
    <3>1. v \in [1..Width -> Byte]
      BY <1>1, BytesType
    <3> HIDE DEF y, v, size
    <3>2. \A k \in 1..Width : w.start + k \in 1..y.start
      BY <1>1, <2>2, <2>4
    <3>3. \A k \in 1..Width : b[w.start + k] = v[k]
      BY <2>2, <3>2 DEF Agree, y, v
    <3>4. p \in [1..Width -> Byte] /\ \A k \in 1..Width : p[k] = b[w.start + k]
      BY <2>5
    <3> HIDE DEF p
    <3>5. \A k \in 1..Width : p[k] = v[k]
      BY <3>3, <3>4
    <3>6. p = [k \in 1..Width |-> p[k]] /\ v = [k \in 1..Width |-> v[k]]
      BY <3>1, <3>4
    <3> QED
      BY <3>5, <3>6
  <2>7. LengthAt(r) = size
    <3>1. size \in 0..MaxSize
      BY <1>1
    <3>2. Shifted(size)[Width] = 0
      BY <3>1, SizesFit
    <3> QED
      BY <1>1, <2>6, <3>2, NumberReturns DEF LengthAt
  <2>8. x.ok <=> y.ok
    <3>1. x.ok <=> LengthAt(r) <= MaxSize /\ r.start + Width + LengthAt(r) <= BufferSize
      BY <1>6, <2>1, ReadStringFacts
    <3> QED
      BY <1>2, <1>6, <2>1, <2>7, <3>1
  <2>9. CASE ~y.ok
    BY <2>8, <2>9 DEF Matches
  <2>10. CASE y.ok
    <3> DEFINE str == StringAt(r)
    <3>1. /\ x.bytes = r.bytes
          /\ x.start = r.start + Width + LengthAt(r)
          /\ x.threw = r.threw
          /\ x.fields = Append(r.fields, str)
          /\ str \in Seq(Byte)
          /\ Len(str) = LengthAt(r)
          /\ \A k \in 1..LengthAt(r) : str[k] = r.bytes[r.start + Width + k]
      BY <2>8, <2>10, ReadStringFacts
    <3> HIDE DEF str, x
    <3>2. \A k \in 1..size : w.start + Width + k \in 1..y.start
      <4> HIDE DEF y, size
      <4> QED
        BY <1>1, <1>3, <2>10
    <3>3. \A k \in 1..size : b[w.start + Width + k] = s[k]
      <4> HIDE DEF size
      <4> QED
        BY <2>2, <2>10, <3>2 DEF Agree
    <3>4. str = s
      <4>1. Len(str) = Len(s) /\ \A k \in 1..Len(str) : str[k] = s[k]
        BY <2>1, <2>7, <3>1, <3>3
      <4> QED
        BY <3>1, <4>1, SameSequence
    <3>5. x.start = y.start
      BY <1>3, <2>1, <2>7, <2>10, <3>1
    <3> QED
      BY <2>1, <2>8, <2>10, <3>1, <3>4, <3>5 DEF Matches, x
  <2> QED
    BY <2>9, <2>10
<1> QED
  <2>1. w.start + Width > BufferSize \/ w.start + Width <= BufferSize
    BY <1>1
  <2> QED
    BY <1>5, <1>6, <2>1

\* ReadStrings likewise: it starts from r, and reads a string each turn.
LEMMA ReadStringsLoop ==
  ASSUME NEW r \in StringReader, NEW n \in Nat
  PROVE  /\ ReadStrings(r, n) \in [0..n -> StringReader]
         /\ ReadStrings(r, n)[0] = r
         /\ \A i \in 1..n : ReadStrings(r, n)[i] = ReadString(ReadStrings(r, n)[i - 1])
<1> DEFINE X == StringReader
           G == [p \in (1..n) \X X |-> ReadString(p[2])]
           Solves(g) == g = [i \in 0..n |-> IF i = 0 THEN r ELSE ReadString(g[i - 1])]
           h == ReadStrings(r, n)
<1>1. IsLoop(n, X, r, G)
  <2>1. \A x \in X : ReadString(x) \in X
    BY ReadStringFacts
  <2> HIDE DEF X
  <2>2. r \in X
    BY DEF X
  <2> QED
    BY <2>1, <2>2 DEF IsLoop
<1>2. \A i \in 1..n, x \in X : G[<<i, x>>] = ReadString(x)
  OBVIOUS
<1> HIDE DEF G, X
<1>3. PICK g : Follows(g, n, X, r, G)
  BY <1>1, Loop
<1>4. Solves(g)
  <2>1. \A i \in 1..n : g[i - 1] \in X
    BY <1>3 DEF Follows
  <2>2. \A i \in 1..n : g[i] = ReadString(g[i - 1])
    BY <1>2, <1>3, <2>1 DEF Follows
  <2> QED
    BY <1>3, <2>2 DEF Follows
<1>5. Solves(h)
  BY <1>4 DEF ReadStrings
<1> HIDE DEF h
<1>6. h = [i \in 0..n |-> h[i]]
  BY <1>5
<1>7. \A i \in 0..n : h[i] = IF i = 0 THEN r ELSE ReadString(h[i - 1])
  BY <1>5
<1>8. h[0] = r /\ \A i \in 1..n : h[i] = ReadString(h[i - 1])
  BY <1>7
<1>9. Follows(h, n, X, r, G)
  BY <1>1, <1>2, <1>6, <1>8, Turns
<1> QED
  BY <1>8, <1>9 DEF h, X, Follows

\* The strings of a message whose lengths can be read again.
IsStrings(f) == f \in Fields /\ \A i \in 1..Len(f) : Len(f[i]) <= MaxSize

\* Reading follows the writing of all the strings.
LEMMA ReadsFollowWrites ==
  ASSUME NEW w \in Writer, NEW f, IsStrings(f),
         NEW r \in StringReader,
         Matches(r, w, Written(w, f)[Len(f)].bytes, << >>)
  PROVE  Matches(ReadStrings(r, Len(f))[Len(f)], Written(w, f)[Len(f)],
                 Written(w, f)[Len(f)].bytes, f)
<1> DEFINE n == Len(f)
           W == Written(w, f)
           R == ReadStrings(r, n)
           b == W[n].bytes
           T == {i \in 0..n : Matches(R[i], W[i], b, SubSeq(f, 1, i))}
<1>0. f \in Fields /\ n \in Nat /\ \A i \in 1..n : f[i] \in Seq(Byte) /\ Len(f[i]) <= MaxSize
  BY DEF IsStrings, Fields
<1>1. /\ W \in [0..n -> Writer] /\ W[0] = w
      /\ \A i \in 1..n : W[i] = WriteString(W[i - 1], f[i])
  BY <1>0, WrittenLoop
<1>2. /\ R \in [0..n -> StringReader] /\ R[0] = r
      /\ \A i \in 1..n : R[i] = ReadString(R[i - 1])
  BY <1>0, ReadStringsLoop
<1>3. ASSUME NEW i \in 0..n
      PROVE  Agree(b, W[i].bytes, W[i].start)
  BY <1>0, WrittenStays
<1> HIDE DEF R, W
<1>4. b \in Buffer
  BY <1>0, <1>1 DEF Writer
<1> HIDE DEF b
<1>5. 0 \in T
  <2>1. SubSeq(f, 1, 0) = << >>
    BY <1>0 DEF Fields
  <2>2. Matches(R[0], W[0], b, << >>)
    BY <1>1, <1>2 DEF W, b
  <2>3. Matches(R[0], W[0], b, SubSeq(f, 1, 0))
    BY <2>1, <2>2
  <2>4. 0 \in 0..n
    BY <1>0
  <2> QED
    BY <2>3, <2>4
<1>6. ASSUME NEW i \in 1..n, i - 1 \in T
      PROVE  i \in T
  <2>1. i - 1 \in 0..n /\ i \in 0..n
    BY <1>0
  <2> DEFINE first == SubSeq(f, 1, i - 1)
             x == W[i - 1]
             y == R[i - 1]
             s == f[i]
  <2>2. first \in Fields /\ SubSeq(f, 1, i) = Append(first, s)
    <3>1. SubSeq(f, 1, i) = Append(first, s)
      BY <1>0 DEF Fields
    <3> QED
      BY <1>0, <3>1 DEF Fields
  <2>3. x \in Writer /\ y \in StringReader /\ s \in Seq(Byte) /\ Len(s) <= MaxSize
    BY <1>0, <1>1, <1>2, <2>1
  <2>4. Matches(y, x, b, first)
    BY <1>6
  <2>5. W[i] = WriteString(x, s) /\ R[i] = ReadString(y)
    BY <1>1, <1>2
  <2>6. Agree(b, W[i].bytes, W[i].start)
    BY <1>3, <2>1
  <2> HIDE DEF first, x, y, s
  <2>7. Matches(ReadString(y), WriteString(x, s), b, Append(first, s))
    BY <1>4, <2>2, <2>3, <2>4, <2>5, <2>6, ReadFollowsWrite
  <2> QED
    BY <2>1, <2>2, <2>5, <2>7
<1> HIDE DEF T
<1>7. n \in T
  <2>1. 0..n \subseteq T
    BY <1>0, <1>5, <1>6, Induction
  <2> QED
    BY <1>0, <2>1
<1>8. SubSeq(f, 1, n) = f
  BY <1>0 DEF Fields
<1> QED
  BY <1>7, <1>8 DEF T, R, W, b

-----------------------------------------------------------------------------
(* Messages *)

\* The types are bytes from 1 to 12 and all different.
LEMMA TypeIds ==
  /\ \A t \in Type : TypeId[t] \in Byte /\ TypeId[t] # 0
  /\ \A t, u \in Type : TypeId[t] = TypeId[u] => t = u
<1>1. 1..12 \subseteq Byte
  BY LayoutAssumption, ByteAssumption DEF Byte
<1>2. Type = {"Ping", "Login", "Register", "Logout", "DeleteAccount", "ChangePassword",
              "ActiveUsers", "SendChat", "ReceiveChat", "Success", "Failure", "StringList"}
  BY DEF Type, TypeId
<1>3. \A t \in Type : TypeId[t] \in 1..12
  BY <1>2 DEF TypeId
<1>4. \A t, u \in Type : TypeId[t] = TypeId[u] => t = u
  BY <1>2 DEF TypeId
<1> QED
  BY <1>1, <1>3, <1>4

\* A message with as many strings as its type says, none too long to be read.
IsMessage(m) ==
  /\ m.type \in Type
  /\ IsStrings(m.fields)
  /\ IF m.type = "StringList" THEN Len(m.fields) <= MaxSize
     ELSE Len(m.fields) = FieldCount[m.type]

\* All that the parties send is of this kind.
LEMMA MessagesAreLegal == \A m \in Message : IsMessage(m)
<1> SUFFICES ASSUME NEW m \in Message
             PROVE  IsMessage(m)
  OBVIOUS
<1>1. \A n \in Nat : \A f \in [1..n -> Text] : IsStrings(f) /\ Len(f) = n
  <2> SUFFICES ASSUME NEW n \in Nat, NEW f \in [1..n -> Text]
               PROVE  IsStrings(f) /\ Len(f) = n
    OBVIOUS
  <2>1. f \in Seq(Text) /\ Len(f) = n
    OBVIOUS
  <2>2. \A i \in 1..n : f[i] \in Seq(Byte) /\ Len(f[i]) <= MaxSize
    BY LayoutAssumption
  <2>3. f \in Seq(Seq(Byte))
    BY <2>1, <2>2
  <2> QED
    BY <2>1, <2>2, <2>3 DEF IsStrings, Fields
<1>2. \A t \in DOMAIN FieldCount : t \in Type /\ t # "StringList" /\ FieldCount[t] \in Nat
  BY DEF FieldCount
<1>3. "StringList" \in Type
  BY DEF Type, TypeId
<1>4. CASE \E t \in DOMAIN FieldCount : m \in [type : {t}, fields : TupleOf(Text, FieldCount[t])]
  <2>1. PICK t \in DOMAIN FieldCount : m \in [type : {t}, fields : TupleOf(Text, FieldCount[t])]
    BY <1>4
  <2>2. m.type = t /\ m.fields \in [1..FieldCount[t] -> Text]
    BY <2>1 DEF TupleOf
  <2> QED
    BY <1>1, <1>2, <2>2 DEF IsMessage
<1>5. CASE m \in [type : {"StringList"}, fields : BoundedSeq(Text, MaxStrings)]
  <2>1. m.type = "StringList" /\ m.fields \in BoundedSeq(Text, MaxStrings)
    BY <1>5
  <2>2. PICK n \in 0..MaxStrings : m.fields \in [1..n -> Text]
    BY <2>1 DEF BoundedSeq, SeqOf
  <2>3. n \in Nat /\ n <= MaxSize
    BY LayoutAssumption
  <2> QED
    BY <1>1, <1>3, <2>1, <2>2, <2>3 DEF IsMessage
<1> DEFINE Of(t) == [type : {t}, fields : TupleOf(Text, FieldCount[t])]
           Lists == [type : {"StringList"}, fields : BoundedSeq(Text, MaxStrings)]
           Others == UNION {Of(t) : t \in DOMAIN FieldCount}
<1>6. Message = Others \cup Lists
  BY Zenon DEF Message
<1> HIDE DEF Of, Lists, Others
<1>7. m \in Lists \/ \E t \in DOMAIN FieldCount : m \in Of(t)
  <2>1. m \in Lists \/ m \in Others
    BY <1>6
  <2>2. ASSUME NEW S \in {Of(t) : t \in DOMAIN FieldCount}, m \in S
        PROVE  \E t \in DOMAIN FieldCount : m \in Of(t)
    BY <2>2
  <2>3. m \in Others => \E S \in {Of(t) : t \in DOMAIN FieldCount} : m \in S
    BY Zenon DEF Others
  <2> QED
    BY <2>1, <2>2, <2>3
<1> QED
  BY <1>4, <1>5, <1>7 DEF Of, Lists

\* The first byte tells the type.
LEMMA HasTypeFacts ==
  ASSUME NEW b \in Buffer, NEW t \in Type
  PROVE  HasType(t, b) <=> BufferSize >= 1 /\ b[1] = TypeId[t]
<1> DEFINE c == Cursor(b)
           p == Peeked(c, 1)
<1>1. c.bytes = b /\ c.start = 0 /\ c.ok = TRUE /\ Len(b) = BufferSize /\ BufferSize \in Nat
  BY BufferLength DEF Cursor
<1>2. Read(c, 1).ok <=> BufferSize >= 1
  BY <1>1 DEF Read, Advance, Room, Cursor
<1>3. ASSUME BufferSize >= 1
      PROVE  p = <<TypeId[t]>> <=> b[1] = TypeId[t]
  <2>1. c.bytes \in Buffer /\ c.start \in 0..BufferSize /\ c.start + 1 <= BufferSize
    BY <1>1, <1>3
  <2> HIDE DEF c
  <2>2. p \in [1..1 -> Byte] /\ p \in Seq(Byte) /\ Len(p) = 1 /\ \A k \in 1..1 : p[k] = c.bytes[c.start + k]
    BY <2>1, PeekedFacts
  <2>3. p[1] = b[1]
    BY <1>1, <2>2
  <2> HIDE DEF p
  <2>4. p = <<p[1]>>
    BY <2>2
  <2> QED
    BY <2>3, <2>4
<1> QED
  BY <1>2, <1>3 DEF HasType

\* The size of the type and the number of a list's strings.
HeaderSize(m) == IF m.type = "StringList" THEN 1 + Width ELSE 1

\* The header is written whole or fails, and begins with the type.
LEMMA HeaderFacts ==
  ASSUME NEW buffer \in Buffer, NEW m, IsMessage(m)
  PROVE  LET w == WriteHeader(Cursor(buffer), m)
         IN  /\ w \in Writer
             /\ w.ok <=> HeaderSize(m) <= BufferSize
             /\ w.ok => w.start = HeaderSize(m)
             /\ BufferSize >= 1 => w.start >= 1 /\ w.bytes[1] = TypeId[m.type]
             /\ w.ok /\ m.type = "StringList" =>
                  \A k \in 1..Width : w.bytes[1 + k] = AsBytes(Len(m.fields))[k]
<1> DEFINE c == Cursor(buffer)
           v == <<TypeId[m.type]>>
           a == Write(c, v)
           n == Len(m.fields)
           u == AsBytes(n)
           b == Write(a, u)
           w == WriteHeader(c, m)
<1>1. Width \in Nat /\ BufferSize \in Nat /\ n \in Nat
  BY ByteAssumption, LayoutAssumption DEF IsMessage, IsStrings, Fields
<1>2. c \in Writer /\ c.ok /\ c.start = 0
  BY <1>1 DEF Cursor, Writer
<1>3. v \in Seq(Byte) /\ Len(v) = 1 /\ v[1] = TypeId[m.type]
  BY TypeIds DEF IsMessage
<1>4. u \in Seq(Byte) /\ Len(u) = Width
  BY <1>1, BytesType
<1>5. w = IF m.type = "StringList" THEN b ELSE a
  BY DEF WriteHeader
<1> HIDE DEF c, v, u, w, n
<1>6. /\ a \in Writer
      /\ a.ok <=> c.ok /\ c.start + Len(v) <= BufferSize
      /\ a.ok => a.start = c.start + Len(v) /\ \A k \in 1..Len(v) : a.bytes[c.start + k] = v[k]
  BY <1>2, <1>3, WriteFacts
<1> HIDE DEF a
<1>7. /\ a.ok <=> 1 <= BufferSize
      /\ a.ok => a.start = 1 /\ a.bytes[1] = TypeId[m.type]
  <2>1. (a.ok <=> 1 <= BufferSize) /\ (a.ok => a.start = 1)
    BY <1>1, <1>2, <1>3, <1>6
  <2>2. 1 \in 1..Len(v) /\ c.start + 1 = 1
    BY <1>2, <1>3
  <2>3. a.ok => a.bytes[c.start + 1] = v[1]
    BY <1>6, <2>2
  <2> QED
    BY <1>3, <2>1, <2>2, <2>3
<1>8. /\ b \in Writer
      /\ b.ok <=> a.ok /\ a.start + Width <= BufferSize
      /\ b.ok => b.start = a.start + Width /\ \A k \in 1..Width : b.bytes[a.start + k] = u[k]
      /\ ~b.ok => b.start = a.start
      /\ Agree(b.bytes, a.bytes, a.start)
  BY <1>4, <1>6, WriteFacts
<1> HIDE DEF b
<1>9. a.ok => b.start >= 1 /\ b.bytes[1] = TypeId[m.type]
  BY <1>1, <1>7, <1>8 DEF Agree
<1>10. CASE m.type = "StringList"
  <2>1. w = b /\ HeaderSize(m) = 1 + Width
    BY <1>5, <1>10 DEF HeaderSize
  <2>2. b.ok <=> 1 + Width <= BufferSize
    BY <1>1, <1>7, <1>8
  <2>3. b.ok => b.start = 1 + Width /\ \A k \in 1..Width : b.bytes[1 + k] = u[k]
    BY <1>7, <1>8
  <2> QED
    BY <1>7, <1>8, <1>9, <2>1, <2>2, <2>3 DEF w, u, n, c
<1>11. CASE m.type # "StringList"
  <2>1. w = a /\ HeaderSize(m) = 1
    BY <1>5, <1>11 DEF HeaderSize
  <2> QED
    BY <1>6, <1>7, <1>11, <2>1 DEF w, c
<1> QED
  BY <1>10, <1>11

\* Deserialize follows Serialize: the message's own type reads its strings, or
\* fails if they were not all written; no other type reads anything.
LEMMA DeserializeFollowsSerialize ==
  ASSUME NEW buffer \in Buffer, NEW m, IsMessage(m)
  PROVE  LET w == Serialize(m, buffer)
         IN  /\ w \in Writer
             /\ Matches(Deserialize(m.type, w.bytes), w, w.bytes, m.fields)
             /\ \A t \in Type \ {m.type} :
                  ~Deserialize(t, w.bytes).ok /\ ~Deserialize(t, w.bytes).threw
<1> DEFINE h == WriteHeader(Cursor(buffer), m)
           f == m.fields
           n == Len(f)
           w == Serialize(m, buffer)
           b == w.bytes
           r0 == Reader(b)
           r1 == Read(r0, 1)
<1>0. /\ IsStrings(f) /\ f \in Fields /\ n \in Nat /\ m.type \in Type
      /\ Width \in Nat /\ BufferSize \in Nat /\ MaxSize \in Nat
  BY ByteAssumption, LayoutAssumption DEF IsMessage, IsStrings, Fields
<1>1. /\ h \in Writer
      /\ h.ok <=> HeaderSize(m) <= BufferSize
      /\ h.ok => h.start = HeaderSize(m)
      /\ BufferSize >= 1 => h.start >= 1 /\ h.bytes[1] = TypeId[m.type]
      /\ h.ok /\ m.type = "StringList" => \A k \in 1..Width : h.bytes[1 + k] = AsBytes(n)[k]
  BY HeaderFacts
<1>2. w = Written(h, f)[n]
  BY DEF Serialize
<1> HIDE DEF h, f, w
<1>3. w \in Writer /\ (w.ok => h.ok) /\ Agree(b, h.bytes, h.start)
  <2> HIDE DEF n
  <2>1. 0 \in 0..n /\ n \in 0..n /\ 0 <= n
    BY <1>0
  <2>2. Written(h, f)[0] = h /\ Written(h, f) \in [0..n -> Writer]
    BY <1>0, <1>1, WrittenLoop DEF n
  <2>3. LET W == Written(h, f)
        IN  /\ W[0].start <= W[n].start
            /\ Agree(W[n].bytes, W[0].bytes, W[0].start)
            /\ W[n].ok => W[0].ok
    BY <1>0, <1>1, <2>1, WrittenStays DEF n
  <2> QED
    BY <1>2, <2>1, <2>2, <2>3
<1>4. b \in Buffer /\ h.start \in Nat
  BY <1>1, <1>3 DEF Writer
<1> HIDE DEF n, b
<1>5. BufferSize >= 1 => b[1] = TypeId[m.type]
  BY <1>1, <1>3, <1>4 DEF Agree
<1>6. /\ r0 \in StringReader /\ r0.ok /\ r0.start = 0 /\ r0.bytes = b
      /\ r0.fields = << >> /\ ~r0.threw
  BY <1>0, <1>4 DEF Reader, StringReader, Fields
<1> HIDE DEF r0
<1>7. /\ r1 \in StringReader
      /\ r1.ok <=> 1 <= BufferSize
      /\ r1.ok => r1.start = 1
      /\ r1.bytes = b /\ r1.fields = << >> /\ ~r1.threw
  BY <1>0, <1>6, ReadFacts, SMTT(30)
<1> HIDE DEF r1
<1>8. ASSUME NEW t \in Type
      PROVE  Deserialize(t, b) = IF ~HasType(t, b) THEN [r1 EXCEPT !.ok = FALSE]
                                 ELSE IF t = "StringList" THEN ReadList(r1)
                                 ELSE ReadStrings(r1, FieldCount[t])[FieldCount[t]]
  BY DEF Deserialize, r1, r0
<1>9. ASSUME NEW t \in Type, ~HasType(t, b)
      PROVE  ~Deserialize(t, b).ok /\ ~Deserialize(t, b).threw
  <2>1. Deserialize(t, b) = [r1 EXCEPT !.ok = FALSE]
    BY <1>8, <1>9
  <2> QED
    BY <1>7, <2>1 DEF StringReader
<1>10. ASSUME NEW t \in Type \ {m.type}
       PROVE  ~Deserialize(t, b).ok /\ ~Deserialize(t, b).threw
  <2>1. ~HasType(t, b)
    BY <1>0, <1>4, <1>5, HasTypeFacts, TypeIds
  <2> QED
    BY <1>9, <2>1
<1> DEFINE d == Deserialize(m.type, b)
<1>11. Matches(d, w, b, f)
  <2>1. CASE BufferSize < 1
    <3>1. ~w.ok
      BY <1>0, <1>1, <1>3, <2>1 DEF HeaderSize
    <3>2. ~HasType(m.type, b)
      BY <1>0, <1>4, <2>1, HasTypeFacts
    <3>3. ~d.ok
      BY <1>0, <1>9, <3>2
    <3> QED
      BY <3>1, <3>3 DEF Matches
  <2>2. CASE BufferSize >= 1 /\ m.type # "StringList"
    <3>1. HasType(m.type, b)
      BY <1>0, <1>4, <1>5, <2>2, HasTypeFacts
    <3>2. d = ReadStrings(r1, n)[n]
      BY <1>0, <1>8, <2>2, <3>1 DEF IsMessage, n, f
    <3>3. Matches(r1, h, b, << >>)
      BY <1>0, <1>1, <1>7, <2>2 DEF Matches, HeaderSize
    <3> QED
      BY <1>0, <1>1, <1>2, <1>7, <3>2, <3>3, ReadsFollowWrites DEF b, n
  <2>3. CASE BufferSize >= 1 /\ m.type = "StringList"
    <3> DEFINE r2 == Read(r1, Width)
               k == AsNumber(Peeked(r1, Width))
    <3>1. HasType(m.type, b)
      BY <1>0, <1>4, <1>5, <2>3, HasTypeFacts
    <3>2. d = IF ~r2.ok THEN r2 ELSE IF k > MaxSize THEN Throw(r2) ELSE ReadStrings(r2, k)[k]
      BY <1>0, <1>8, <2>3, <3>1 DEF ReadList
    <3>0. /\ r2 \in StringReader
          /\ r2.ok <=> r1.ok /\ r1.start + Width <= BufferSize
          /\ r2.ok => r2.start = r1.start + Width
          /\ r2.bytes = r1.bytes /\ r2.fields = r1.fields /\ r2.threw = r1.threw
      BY <1>0, <1>7, ReadFacts
    <3> HIDE DEF r2
    <3>3. /\ r2 \in StringReader
          /\ r2.ok <=> 1 + Width <= BufferSize
          /\ r2.ok => r2.start = 1 + Width
          /\ r2.bytes = b /\ r2.fields = << >> /\ ~r2.threw
      BY <1>0, <1>7, <2>3, <3>0
    <3>4. r2.ok <=> h.ok
      BY <1>1, <2>3, <3>3 DEF HeaderSize
    <3>5. CASE ~h.ok
      BY <1>3, <3>2, <3>4, <3>5 DEF Matches
    <3>6. CASE h.ok
      <4>1. h.start = 1 + Width
        BY <1>1, <2>3, <3>6 DEF HeaderSize
      <4>2. \A i \in 1..Width : b[1 + i] = AsBytes(n)[i]
        <5>1. \A i \in 1..Width : 1 + i \in 1..h.start
          BY <1>0, <4>1
        <5> QED
          BY <1>1, <1>3, <2>3, <3>6, <5>1 DEF Agree
      <4> DEFINE p == Peeked(r1, Width)
                 v == AsBytes(n)
      <4>3. p \in [1..Width -> Byte] /\ \A i \in 1..Width : p[i] = b[1 + i]
        <5>1. r1.bytes \in Buffer /\ r1.start = 1 /\ r1.start \in 0..BufferSize
              /\ r1.start + Width <= BufferSize
          BY <1>0, <1>4, <1>7, <2>3, <3>3, <3>4, <3>6
        <5> QED
          BY <1>0, <1>7, <5>1, PeekedFacts
      <4>4. v \in [1..Width -> Byte]
        BY <1>0, BytesType
      <4> HIDE DEF p, v
      <4>5. p = v
        <5>1. \A i \in 1..Width : p[i] = v[i]
          BY <4>2, <4>3 DEF v
        <5>2. p = [i \in 1..Width |-> p[i]] /\ v = [i \in 1..Width |-> v[i]]
          BY <4>3, <4>4
        <5> QED
          BY <5>1, <5>2
      <4>6. n \in 0..MaxSize
        BY <1>0, <2>3 DEF IsMessage, n, f
      <4>7. k = n
        BY <1>0, <4>5, <4>6, SizesFit, NumberReturns DEF p, v
      <4>8. d = ReadStrings(r2, n)[n]
        BY <1>0, <3>2, <3>4, <3>6, <4>6, <4>7
      <4>9. Matches(r2, h, b, << >>)
        BY <3>3, <3>4, <3>6, <4>1 DEF Matches
      <4> QED
        BY <1>0, <1>1, <1>2, <3>3, <4>8, <4>9, ReadsFollowWrites DEF b, n
    <3> QED
      BY <3>5, <3>6
  <2> QED
    BY <1>0, <2>1, <2>2, <2>3
<1> QED
  BY <1>3, <1>10, <1>11 DEF b, f, w

-----------------------------------------------------------------------------
(* How much room a message takes *)

\* FlattenSeq puts the strings one behind the other: size[i] is the length of the
\* first i of them.
LEMMA FlattenedSize ==
  ASSUME NEW f \in Fields
  PROVE  \E size \in [0..Len(f) -> Nat] :
           /\ size[0] = 0
           /\ \A i \in 1..Len(f) : size[i] = size[i - 1] + Len(f[i])
           /\ size[Len(f)] = Len(FlattenSeq(f))
<1> DEFINE n == Len(f)
           X == Seq(Byte)
           G == [p \in (1..n) \X X |-> p[2] \o f[p[1]]]
           none == << >>
           Solves(g) == g = [i \in 1..n |-> IF i = 1 THEN f[i] ELSE g[i - 1] \o f[i]]
           h == CHOOSE g : Solves(g)
<1>0. n \in Nat /\ (\A i \in 1..n : f[i] \in X) /\ none \in X
  BY DEF Fields
<1>1. CASE n = 0
  <2>1. FlattenSeq(f) = f
    BY <1>1 DEF FlattenSeq
  <2> DEFINE size == [i \in 0..0 |-> 0]
  <2>2. size \in [0..n -> Nat] /\ size[0] = 0 /\ size[n] = Len(FlattenSeq(f))
    BY <1>1, <2>1
  <2>3. \A i \in 1..n : FALSE
    BY <1>1
  <2> HIDE DEF size
  <2> QED
    BY <2>2, <2>3
<1>2. CASE n # 0
  <2>1. IsLoop(n, X, none, G)
    BY <1>0 DEF IsLoop
  <2>2. \A i \in 1..n, x \in X : G[<<i, x>>] = x \o f[i]
    OBVIOUS
  <2>3. \A x \in X : none \o x = x
    OBVIOUS
  <2> HIDE DEF G, X, none
  <2>4. PICK g : Follows(g, n, X, none, G)
    BY <2>1, Loop
  <2>5. \A i \in 0..n : g[i] \in X
    BY <2>4 DEF Follows
  <2>6. \A i \in 1..n : g[i] = g[i - 1] \o f[i]
    <3>1. \A i \in 1..n : g[i - 1] \in X
      BY <1>0, <2>5
    <3> QED
      BY <2>2, <2>4, <3>1 DEF Follows
  <2>7. g[1] = f[1]
    <3>1. 1 \in 1..n /\ g[0] = none /\ f[1] \in X
      BY <1>0, <1>2, <2>4 DEF Follows
    <3>2. PICK i \in 1..n : i = 1
      BY <3>1
    <3>3. g[i] = g[i - 1] \o f[i]
      BY <2>6
    <3>4. i - 1 = 0
      BY <3>2
    <3>5. g[1] = none \o f[1]
      BY <3>1, <3>2, <3>3, <3>4
    <3> QED
      BY <2>3, <3>1, <3>5
  <2> DEFINE g1 == [i \in 1..n |-> g[i]]
  <2>8. Solves(g1)
    <3>1. \A i \in 1..n : g[i] = IF i = 1 THEN f[i] ELSE g1[i - 1] \o f[i]
      <4>1. \A i \in 1..n : i # 1 => g1[i - 1] = g[i - 1]
        BY <1>0
      <4> HIDE DEF g1
      <4> QED
        BY <1>0, <2>6, <2>7, <4>1
    <3> QED
      BY <3>1
  <2>9. Solves(h)
    <3> HIDE DEF Solves, g1
    <3> QED
      BY <2>8
  <2>10. FlattenSeq(f) = h[n]
    BY <1>2 DEF FlattenSeq
  <2> HIDE DEF h, n
  <2>11. \A i \in 1..n : h[i] = IF i = 1 THEN f[i] ELSE h[i - 1] \o f[i]
    BY <2>9
  <2> DEFINE T == {i \in 0..n : i # 0 => h[i] = g[i]}
  <2>12. 0 \in T
    BY <1>0
  <2>13. ASSUME NEW i \in 1..n, i - 1 \in T
         PROVE  i \in T
    <3>1. CASE i = 1
      BY <1>0, <2>7, <2>11, <3>1
    <3>2. CASE i # 1
      <4>1. i \in 0..n /\ i - 1 # 0
        BY <1>0, <3>2
      <4>2. h[i - 1] = g[i - 1]
        BY <2>13, <4>1
      <4>3. h[i] = g[i]
        BY <2>6, <2>11, <3>2, <4>2
      <4> QED
        BY <4>1, <4>3
    <3> QED
      BY <3>1, <3>2
  <2> HIDE DEF T
  <2>14. h[n] = g[n]
    <3>1. n \in T
      BY <1>0, <2>12, <2>13, Induction
    <3> QED
      BY <1>2, <3>1 DEF T
  <2> DEFINE size == [i \in 0..n |-> Len(g[i])]
  <2>15. size \in [0..n -> Nat]
    BY <2>5 DEF X
  <2>16. size[0] = 0
    BY <1>0, <2>4 DEF Follows, none
  <2>17. ASSUME NEW i \in 1..n
         PROVE  size[i] = size[i - 1] + Len(f[i])
    <3>1. i \in 0..n /\ i - 1 \in 0..n
      BY <1>0
    <3>2. g[i - 1] \in Seq(Byte) /\ f[i] \in Seq(Byte)
      BY <1>0, <2>5, <3>1 DEF X
    <3>3. Len(g[i - 1] \o f[i]) = Len(g[i - 1]) + Len(f[i])
      BY <3>2
    <3> QED
      BY <2>6, <3>1, <3>3
  <2>18. size[n] = Len(FlattenSeq(f))
    BY <1>0, <2>10, <2>14
  <2> HIDE DEF size
  <2> QED
    BY <2>15, <2>16, <2>17, <2>18 DEF n
<1> QED
  BY <1>1, <1>2

\* A message fits if its header, a length for each string and the strings do.
LEMMA SerializeFits ==
  ASSUME NEW buffer \in Buffer, NEW m, IsMessage(m)
  PROVE  Serialize(m, buffer).ok <=>
           HeaderSize(m) + Width * Len(m.fields) + Len(FlattenSeq(m.fields)) <= BufferSize
<1> DEFINE h == WriteHeader(Cursor(buffer), m)
           f == m.fields
           n == Len(f)
           W == Written(h, f)
           need == HeaderSize(m)
<1>0. /\ f \in Fields /\ n \in Nat /\ \A i \in 1..n : f[i] \in Seq(Byte)
      /\ Width \in Nat /\ BufferSize \in Nat
  BY ByteAssumption, LayoutAssumption DEF IsMessage, IsStrings, Fields
<1>1. h \in Writer /\ (h.ok <=> need <= BufferSize) /\ (h.ok => h.start = need) /\ need \in Nat
  <2>1. h \in Writer /\ (h.ok <=> need <= BufferSize) /\ (h.ok => h.start = need)
    BY HeaderFacts
  <2>2. need \in Nat
    BY <1>0 DEF HeaderSize
  <2> QED
    BY <2>1, <2>2
<1>2. PICK size \in [0..n -> Nat] :
        /\ size[0] = 0
        /\ \A i \in 1..n : size[i] = size[i - 1] + Len(f[i])
        /\ size[n] = Len(FlattenSeq(f))
  BY <1>0, FlattenedSize
<1>3. Serialize(m, buffer) = W[n]
  BY DEF Serialize
<1> HIDE DEF h, f, need
<1>4. /\ W \in [0..n -> Writer] /\ W[0] = h
      /\ \A i \in 1..n : W[i] = WriteString(W[i - 1], f[i])
  BY <1>0, <1>1, WrittenLoop
<1> HIDE DEF n, W
<1> DEFINE room(i) == need + Width * i + size[i]
           T == {i \in 0..n : /\ W[i].ok <=> room(i) <= BufferSize
                              /\ W[i].ok => W[i].start = room(i)}
<1>5. 0 \in T
  <2>1. room(0) = need
    BY <1>0, <1>1, <1>2
  <2> HIDE DEF room
  <2> QED
    BY <1>0, <1>1, <1>4, <2>1
<1>6. ASSUME NEW i \in 1..n, i - 1 \in T
      PROVE  i \in T
  <2> DEFINE w == W[i - 1]
             x == W[i]
             len == Len(f[i])
             before == room(i - 1)
             after == room(i)
  <2>1. i \in 0..n /\ i - 1 \in 0..n
    BY <1>0
  <2>2. w \in Writer /\ f[i] \in Seq(Byte) /\ len \in Nat
    BY <1>0, <1>4, <2>1
  <2>3. /\ x.ok <=> w.ok /\ w.start + Width + len <= BufferSize
        /\ x.ok => x.start = w.start + Width + len
    BY <1>4, <2>2, WriteStringFacts
  <2>4. size[i] = size[i - 1] + len /\ size[i - 1] \in Nat
    BY <1>2, <2>1
  <2>5. Width * i = Width * (i - 1) + Width /\ Width * (i - 1) \in Nat
    BY <1>0
  <2>6. before \in Nat /\ after = before + Width + len
    <3> DEFINE p == Width * (i - 1)
               q == Width * i
    <3>1. before = need + p + size[i - 1] /\ after = need + q + size[i]
      OBVIOUS
    <3>2. q = p + Width /\ p \in Nat
      BY <2>5
    <3> DEFINE a == size[i - 1]
               c == size[i]
    <3>3. c = a + len /\ a \in Nat /\ len \in Nat /\ need \in Nat /\ Width \in Nat
      BY <1>0, <1>1, <2>2, <2>4
    <3>4. before = need + p + a /\ after = need + q + c
      BY <3>1
    <3> HIDE DEF p, q, a, c, before, after, len
    <3> QED
      BY <3>2, <3>3, <3>4
  <2>7. (w.ok <=> before <= BufferSize) /\ (w.ok => w.start = before)
    BY <1>6
  <2> HIDE DEF w, x, len, before, after
  <2>8. (x.ok <=> after <= BufferSize) /\ (x.ok => x.start = after)
    BY <1>0, <2>2, <2>3, <2>6, <2>7
  <2> QED
    BY <2>1, <2>8 DEF x, after
<1> HIDE DEF T
<1>7. n \in T
  <2>1. 0..n \subseteq T
    BY <1>0, <1>5, <1>6, Induction
  <2> QED
    BY <1>0, <2>1
<1>8. W[n].ok <=> room(n) <= BufferSize
  BY <1>7 DEF T
<1> QED
  BY <1>2, <1>3, <1>8 DEF need, n, f

-----------------------------------------------------------------------------
(* Writing what was read *)

\* Writing what is there already changes nothing.
LEMMA WriteSame ==
  ASSUME NEW w \in Writer, NEW v \in Seq(Byte), w.ok, w.start + Len(v) <= BufferSize,
         \A k \in 1..Len(v) : v[k] = w.bytes[w.start + k]
  PROVE  /\ Write(w, v) \in Writer /\ Write(w, v).ok
         /\ Write(w, v).start = w.start + Len(v)
         /\ Write(w, v).bytes = w.bytes
<1> DEFINE x == Write(w, v)
           n == Len(v)
           b == w.bytes
<1>1. n \in Nat /\ w.start \in Nat /\ BufferSize \in Nat /\ b \in Buffer
  BY LayoutAssumption DEF Writer
<1>2. /\ x \in Writer /\ x.ok /\ x.start = w.start + n
      /\ \A i \in 1..BufferSize :
           x.bytes[i] = IF w.start < i /\ i <= w.start + n THEN v[i - w.start] ELSE w.bytes[i]
  BY WriteResult
<1> HIDE DEF x, n
<1>3. ASSUME NEW i \in 1..BufferSize
      PROVE  x.bytes[i] = b[i]
  <2>1. CASE w.start < i /\ i <= w.start + n
    <3> DEFINE k == i - w.start
    <3>1. k \in 1..n /\ w.start + k = i
      BY <1>1, <2>1
    <3>2. v[k] = w.bytes[w.start + k]
      BY <3>1 DEF n
    <3> QED
      BY <1>2, <2>1, <3>1, <3>2
  <2>2. CASE ~(w.start < i /\ i <= w.start + n)
    BY <1>2, <2>2
  <2> QED
    BY <2>1, <2>2
<1>4. x.bytes \in Buffer
  BY <1>2 DEF Writer
<1>5. x.bytes = b
  <2> DEFINE a == x.bytes
  <2>1. a = [i \in 1..BufferSize |-> a[i]] /\ b = [i \in 1..BufferSize |-> b[i]]
    BY <1>1, <1>4 DEF Buffer
  <2>2. \A i \in 1..BufferSize : a[i] = b[i]
    BY <1>3
  <2> HIDE DEF a, b
  <2> QED
    BY <2>1, <2>2 DEF a, b
<1> QED
  BY <1>2, <1>5 DEF x, n

\* Writing follows the reading of a string.
LEMMA WriteFollowsRead ==
  ASSUME NEW w \in Writer, NEW r \in StringReader, ReadString(r).ok,
         w.ok, w.bytes = r.bytes, w.start = r.start
  PROVE  /\ WriteString(w, StringAt(r)) \in Writer
         /\ WriteString(w, StringAt(r)).ok
         /\ WriteString(w, StringAt(r)).bytes = r.bytes
         /\ WriteString(w, StringAt(r)).start = ReadString(r).start
<1> DEFINE n == LengthAt(r)
           s == StringAt(r)
           p == Peeked(r, Width)
           a == Write(w, p)
           c == Write(a, s)
<1>1. /\ Width \in Nat /\ BufferSize \in Nat /\ w.start \in Nat
      /\ r.bytes \in Buffer /\ r.start \in 0..BufferSize
  BY ByteAssumption, LayoutAssumption DEF Writer, StringReader
<1>2. /\ r.ok /\ r.start + Width <= BufferSize /\ p \in [1..Width -> Byte] /\ n \in Nat
      /\ r.start + Width + n <= BufferSize
      /\ ReadString(r).start = r.start + Width + n
      /\ s \in Seq(Byte) /\ Len(s) = n
      /\ \A k \in 1..n : s[k] = r.bytes[r.start + Width + k]
  BY ReadStringFacts
<1>3. /\ p \in Seq(Byte) /\ Len(p) = Width
      /\ \A k \in 1..Width : p[k] = r.bytes[r.start + k]
  BY <1>1, <1>2, PeekedFacts
<1>4. AsBytes(n) = p
  BY <1>2, BytesReturn DEF LengthAt
<1>5. WriteString(w, s) = c
  BY <1>2, <1>4 DEF WriteString
<1> HIDE DEF p, n, s
<1>6. a \in Writer /\ a.ok /\ a.start = w.start + Width /\ a.bytes = w.bytes
  <2>1. /\ w.start + Len(p) <= BufferSize
        /\ \A k \in 1..Len(p) : p[k] = w.bytes[w.start + k]
    BY <1>2, <1>3
  <2> HIDE DEF a
  <2> QED
    BY <1>3, <2>1, WriteSame DEF a
<1> HIDE DEF a
<1>7. c \in Writer /\ c.ok /\ c.start = a.start + n /\ c.bytes = a.bytes
  <2>1. /\ a.start + Len(s) <= BufferSize
        /\ \A k \in 1..Len(s) : s[k] = a.bytes[a.start + k]
    BY <1>1, <1>2, <1>6
  <2> HIDE DEF c
  <2> QED
    BY <1>2, <1>6, <2>1, WriteSame DEF c
<1> HIDE DEF c
<1> QED
  BY <1>2, <1>5, <1>6, <1>7 DEF s

\* What the reader has when it has read n strings.
LEMMA StringsRead ==
  ASSUME NEW r \in StringReader, r.fields = << >>, NEW n \in Nat, ReadStrings(r, n)[n].ok
  PROVE  LET R == ReadStrings(r, n)
         IN  /\ \A i \in 0..n : R[i].ok /\ R[i].bytes = r.bytes
             /\ R[n].fields \in Fields /\ Len(R[n].fields) = n
             /\ \A i \in 1..n : R[n].fields[i] = StringAt(R[i - 1])
<1> DEFINE R == ReadStrings(r, n)
<1>1. /\ R \in [0..n -> StringReader] /\ R[0] = r
      /\ \A i \in 1..n : R[i] = ReadString(R[i - 1])
  BY ReadStringsLoop
<1>2. R[n].ok
  OBVIOUS
<1> HIDE DEF R
<1>3. \A i \in 0..n : R[i].ok
  <2> DEFINE T == {k \in 0..n : R[n - k].ok}
  <2>1. 0 \in T
    BY <1>2
  <2>2. ASSUME NEW k \in 1..n, k - 1 \in T
        PROVE  k \in T
    <3> DEFINE j == n - k
    <3>1. j \in 0..n /\ j + 1 \in 1..n /\ (j + 1) - 1 = j /\ n - (k - 1) = j + 1
      OBVIOUS
    <3>2. R[j + 1].ok /\ R[j + 1] = ReadString(R[j]) /\ R[j] \in StringReader
      BY <1>1, <2>2, <3>1
    <3>3. R[j].ok
      BY <3>2, ReadStringFacts
    <3> QED
      BY <3>3
  <2> HIDE DEF T
  <2>3. 0..n \subseteq T
    BY <2>1, <2>2, Induction
  <2>4. ASSUME NEW i \in 0..n
        PROVE  R[i].ok
    <3>1. n - i \in 0..n /\ n - (n - i) = i
      OBVIOUS
    <3>2. n - i \in T
      BY <2>3, <3>1
    <3>3. R[n - (n - i)].ok
      BY <3>2 DEF T
    <3> QED
      BY <3>1, <3>3
  <2> QED
    BY <2>4
<1> DEFINE Has(i) == /\ R[i].bytes = r.bytes
                     /\ Len(R[i].fields) = i
                     /\ \A k \in 1..i : R[i].fields[k] = StringAt(R[k - 1])
           T == {i \in 0..n : Has(i)}
<1>4. 0 \in T
  BY <1>1
<1>5. ASSUME NEW i \in 1..n, i - 1 \in T
      PROVE  i \in T
  <2> DEFINE x == R[i - 1]
             y == R[i]
             s == StringAt(x)
  <2>1. i - 1 \in 0..n /\ i \in 0..n
    OBVIOUS
  <2>2. x \in StringReader /\ y = ReadString(x) /\ y.ok
    BY <1>1, <1>3, <2>1
  <2>3. y.bytes = x.bytes /\ y.fields = Append(x.fields, s) /\ s \in Seq(Byte)
    BY <2>2, ReadStringFacts
  <2>4. x.fields \in Fields
    BY <2>2 DEF StringReader
  <2>5. /\ x.bytes = r.bytes /\ Len(x.fields) = i - 1
        /\ \A k \in 1..i - 1 : x.fields[k] = StringAt(R[k - 1])
    BY <1>5
  <2> DEFINE f == x.fields
             g == y.fields
  <2>6. f \in Seq(Seq(Byte)) /\ g = Append(f, s) /\ Len(f) = i - 1
    BY <2>3, <2>4, <2>5 DEF Fields
  <2> HIDE DEF s, f, g
  <2>7. Len(g) = i /\ g[i] = s /\ \A k \in 1..i - 1 : g[k] = f[k]
    BY <2>3, <2>6
  <2>8. \A k \in 1..i : g[k] = StringAt(R[k - 1])
    BY <2>5, <2>7 DEF f, s
  <2>9. Has(i)
    BY <2>3, <2>5, <2>7, <2>8 DEF g
  <2> HIDE DEF Has
  <2> QED
    BY <2>1, <2>9
<1> HIDE DEF T
<1>6. 0..n \subseteq T
  BY <1>4, <1>5, Induction
<1>7. \A i \in 0..n : Has(i)
  BY <1>6 DEF T
<1>8. n \in 0..n
  OBVIOUS
<1>9. R[n].fields \in Fields
  BY <1>1, <1>8 DEF StringReader
<1> QED
  BY <1>3, <1>7, <1>8, <1>9 DEF R

\* Writing the strings that were read leaves the buffer as it was.
LEMMA WritesFollowReads ==
  ASSUME NEW r \in StringReader, r.fields = << >>, NEW n \in Nat, ReadStrings(r, n)[n].ok,
         NEW w \in Writer, w.ok, w.bytes = r.bytes, w.start = r.start
  PROVE  LET f == ReadStrings(r, n)[n].fields
         IN  f \in Fields /\ Len(f) = n /\ Written(w, f)[n].bytes = r.bytes
<1> DEFINE R == ReadStrings(r, n)
           f == R[n].fields
           W == Written(w, f)
           Same(i) == W[i].ok /\ W[i].bytes = r.bytes /\ W[i].start = R[i].start
           T == {i \in 0..n : Same(i)}
<1>1. /\ R \in [0..n -> StringReader] /\ R[0] = r
      /\ \A i \in 1..n : R[i] = ReadString(R[i - 1])
  BY ReadStringsLoop
<1>2. /\ \A i \in 0..n : R[i].ok /\ R[i].bytes = r.bytes
      /\ f \in Fields /\ Len(f) = n
      /\ \A i \in 1..n : f[i] = StringAt(R[i - 1])
  BY StringsRead
<1> HIDE DEF R, f
<1>3. /\ W \in [0..n -> Writer] /\ W[0] = w
      /\ \A i \in 1..n : W[i] = WriteString(W[i - 1], f[i])
  BY <1>2, WrittenLoop
<1> HIDE DEF W
<1>4. 0 \in T
  BY <1>1, <1>3
<1>5. ASSUME NEW i \in 1..n, i - 1 \in T
      PROVE  i \in T
  <2> DEFINE x == W[i - 1]
             y == R[i - 1]
  <2>1. i - 1 \in 0..n /\ i \in 0..n
    OBVIOUS
  <2>2. x \in Writer /\ y \in StringReader /\ R[i] = ReadString(y) /\ R[i].ok
        /\ W[i] = WriteString(x, StringAt(y)) /\ y.bytes = r.bytes
    BY <1>1, <1>2, <1>3, <2>1
  <2>3. x.ok /\ x.bytes = y.bytes /\ x.start = y.start
    BY <1>5, <2>2
  <2> HIDE DEF x, y
  <2>4. /\ WriteString(x, StringAt(y)).ok
        /\ WriteString(x, StringAt(y)).bytes = y.bytes
        /\ WriteString(x, StringAt(y)).start = ReadString(y).start
    BY <2>2, <2>3, WriteFollowsRead
  <2>5. Same(i)
    BY <2>2, <2>4
  <2> HIDE DEF Same
  <2> QED
    BY <2>1, <2>5
<1> HIDE DEF T
<1>6. n \in T
  <2>1. 0..n \subseteq T
    BY <1>4, <1>5, Induction
  <2> QED
    BY <2>1
<1> QED
  BY <1>2, <1>6 DEF T, R, f, W

\* Serialize follows Deserialize.
LEMMA SerializeFollowsDeserialize ==
  ASSUME NEW b \in Buffer, NEW t \in Type, Deserialize(t, b).ok
  PROVE  Serialize([type |-> t, fields |-> Deserialize(t, b).fields], b).bytes = b
<1> DEFINE d == Deserialize(t, b)
           f == d.fields
           m == [type |-> t, fields |-> f]
           r0 == Reader(b)
           r1 == Read(r0, 1)
           r2 == Read(r1, Width)
           p == Peeked(r1, Width)
           k == AsNumber(p)
           c == Cursor(b)
           v == <<TypeId[t]>>
           h == Write(c, v)
           g == Write(h, p)
<1>0. Width \in Nat /\ BufferSize \in Nat
  BY ByteAssumption, LayoutAssumption
<1>1. d = IF ~HasType(t, b) THEN [r1 EXCEPT !.ok = FALSE]
          ELSE IF t = "StringList" THEN ReadList(r1)
          ELSE ReadStrings(r1, FieldCount[t])[FieldCount[t]]
  BY DEF Deserialize
<1>2. /\ r0 \in StringReader /\ r0.ok /\ r0.start = 0 /\ r0.bytes = b /\ r0.fields = << >>
  BY <1>0 DEF Reader, StringReader, Fields
<1> HIDE DEF r0
<1>3. /\ r1 \in StringReader
      /\ r1.ok <=> r0.ok /\ r0.start + 1 <= BufferSize
      /\ r1.ok => r1.start = r0.start + 1
      /\ r1.bytes = b /\ r1.fields = << >>
  BY <1>2, ReadFacts
<1> HIDE DEF r1
<1>4. HasType(t, b)
  <2> SUFFICES ASSUME ~HasType(t, b)
               PROVE  ~d.ok
    OBVIOUS
  <2>1. d = [r1 EXCEPT !.ok = FALSE]
    BY <1>1
  <2> HIDE DEF d
  <2> QED
    BY <1>3, <2>1 DEF StringReader
<1>5. BufferSize >= 1 /\ b[1] = TypeId[t]
  BY <1>4, HasTypeFacts
<1>6. r1.ok /\ r1.start = 1
  BY <1>0, <1>2, <1>3, <1>5
<1>7. /\ h \in Writer /\ h.ok /\ h.start = 1 /\ h.bytes = b
  <2>1. c \in Writer /\ c.ok /\ c.start = 0 /\ c.bytes = b
    BY <1>0 DEF Cursor, Writer
  <2>2. v \in Seq(Byte) /\ Len(v) = 1 /\ v[1] = b[1]
    BY <1>5, TypeIds
  <2> HIDE DEF c, v
  <2>3. c.start + Len(v) <= BufferSize /\ \A i \in 1..Len(v) : v[i] = c.bytes[c.start + i]
    <3>1. \A i \in 1..Len(v) : i = 1 /\ c.start + i = 1
      BY <2>1, <2>2
    <3> QED
      BY <1>0, <1>5, <2>1, <2>2, <3>1
  <2>4. /\ Write(c, v) \in Writer /\ Write(c, v).ok
        /\ Write(c, v).start = c.start + Len(v)
        /\ Write(c, v).bytes = c.bytes
    BY <2>1, <2>2, <2>3, WriteSame
  <2> QED
    BY <2>1, <2>2, <2>4
<1>8. WriteHeader(c, m) = IF t = "StringList" THEN Write(h, AsBytes(Len(f))) ELSE h
  BY DEF WriteHeader
<1>9. Serialize(m, b) = Written(WriteHeader(c, m), f)[Len(f)]
  BY DEF Serialize
<1> HIDE DEF h, c
<1>10. CASE t # "StringList"
  <2> DEFINE n == FieldCount[t]
  <2>1. n \in Nat /\ d = ReadStrings(r1, n)[n]
    BY <1>1, <1>4, <1>10 DEF FieldCount
  <2>2. WriteHeader(c, m) = h
    BY <1>8, <1>10
  <2>3. d.ok
    OBVIOUS
  <2> HIDE DEF n, d
  <2>4. Len(f) = n /\ Written(h, f)[n].bytes = r1.bytes
    BY <1>3, <1>6, <1>7, <2>1, <2>3, WritesFollowReads
  <2> QED
    BY <1>3, <1>9, <2>2, <2>4 DEF d
<1>11. CASE t = "StringList"
  <2>1. d = IF ~r2.ok THEN r2 ELSE IF k > MaxSize THEN Throw(r2) ELSE ReadStrings(r2, k)[k]
    BY <1>1, <1>4, <1>11 DEF ReadList
  <2>2. /\ r2 \in StringReader
        /\ r2.ok <=> r1.ok /\ r1.start + Width <= BufferSize
        /\ r2.ok => r2.start = r1.start + Width
        /\ r2.bytes = r1.bytes /\ r2.fields = r1.fields
    BY <1>0, <1>3, ReadFacts
  <2>3. d.ok
    OBVIOUS
  <2> HIDE DEF r2, d
  <2>4. r2.ok
    BY <2>1, <2>3
  <2>5. ~(k > MaxSize)
    <3> SUFFICES ASSUME k > MaxSize
                 PROVE  ~d.ok
      BY <2>3
    <3>1. d = [r2 EXCEPT !.ok = FALSE, !.threw = TRUE]
      BY <2>1, <2>4 DEF Throw
    <3> QED
      BY <2>2, <3>1 DEF StringReader
  <2>6. d = ReadStrings(r2, k)[k]
    BY <2>1, <2>4, <2>5
  <2>7. /\ p \in [1..Width -> Byte] /\ p \in Seq(Byte) /\ Len(p) = Width
        /\ \A i \in 1..Width : p[i] = r1.bytes[r1.start + i]
    <3>1. r1.bytes \in Buffer /\ r1.start \in 0..BufferSize /\ r1.start + Width <= BufferSize
      BY <1>0, <1>3, <2>2, <2>4 DEF StringReader
    <3> QED
      BY <1>0, <3>1, PeekedFacts
  <2>8. k \in Nat /\ AsBytes(k) = p
    BY <2>7, BytesReturn
  <2>9. g \in Writer /\ g.ok /\ g.start = 1 + Width /\ g.bytes = b
    <3>1. /\ h.start + Len(p) <= BufferSize
          /\ \A i \in 1..Len(p) : p[i] = h.bytes[h.start + i]
      BY <1>3, <1>6, <1>7, <2>2, <2>4, <2>7
    <3> HIDE DEF g, p
    <3>2. /\ Write(h, p) \in Writer /\ Write(h, p).ok
          /\ Write(h, p).start = h.start + Len(p)
          /\ Write(h, p).bytes = h.bytes
      BY <1>7, <2>7, <3>1, WriteSame
    <3> QED
      BY <1>7, <2>7, <3>2 DEF g
  <2> HIDE DEF g, p, k
  <2>10. Len(f) = k /\ Written(g, f)[k].bytes = r2.bytes
    BY <1>3, <1>6, <2>2, <2>3, <2>4, <2>6, <2>8, <2>9, WritesFollowReads
  <2>11. WriteHeader(c, m) = g
    BY <1>8, <1>11, <2>8, <2>10 DEF g
  <2> QED
    BY <1>3, <1>9, <2>2, <2>10, <2>11 DEF d
<1> QED
  BY <1>10, <1>11

-----------------------------------------------------------------------------
(* The message buffer *)

\* What the buffer holds: nothing yet, or what Serialize has made of the last
\* message and of what was there before.
BufferInv ==
  /\ bytes \in Buffer
  /\ \/ last = NoMessage /\ ~success /\ \A i \in 1..BufferSize : bytes[i] = 0
     \/ /\ IsMessage(last)
        /\ \E buffer \in Buffer :
             LET w == Serialize(last, buffer) IN bytes = w.bytes /\ success = w.ok

\* So it is at the start ...
LEMMA BufferInitially == MessagesInit => BufferInv
<1> SUFFICES ASSUME MessagesInit
             PROVE  BufferInv
  OBVIOUS
<1>1. 0 \in Byte /\ BufferSize \in Nat
  BY ByteAssumption, LayoutAssumption DEF Byte
<1>2. bytes \in Buffer /\ \A i \in 1..BufferSize : bytes[i] = 0
  BY <1>1 DEF MessagesInit, Buffer
<1> QED
  BY <1>2 DEF MessagesInit, BufferInv

\* ... and after anything is serialized into it.
LEMMA SendKeepsBuffer ==
  ASSUME BufferInv, NEW m, IsMessage(m), Send(m)
  PROVE  BufferInv'
<1> DEFINE w == Serialize(m, bytes)
<1>1. bytes \in Buffer
  BY DEF BufferInv
<1>2. w \in Writer
  BY <1>1, DeserializeFollowsSerialize
<1>3. bytes' = w.bytes /\ success' = w.ok /\ last' = m
  BY DEF Send
<1>4. w.bytes \in Buffer
  BY <1>2 DEF Writer
<1> HIDE DEF w
<1>5. \E buffer \in Buffer : bytes' = Serialize(m, buffer).bytes
                             /\ success' = Serialize(m, buffer).ok
  BY <1>1, <1>3 DEF w
<1> QED
  BY <1>3, <1>4, <1>5 DEF BufferInv

\* The buffer keeps its size and holds what was serialized into it last.
THEOREM BufferInvariant == MessagesSpec => []BufferInv
<1>1. BufferInv /\ [MessagesNext]_msgVars => BufferInv'
  <2> SUFFICES ASSUME BufferInv, [MessagesNext]_msgVars
               PROVE  BufferInv'
    OBVIOUS
  <2>1. ASSUME NEW m \in Message, Send(m)
        PROVE  BufferInv'
    BY <2>1, MessagesAreLegal, SendKeepsBuffer
  <2>2. CASE UNCHANGED msgVars
    BY <2>2 DEF msgVars, BufferInv
  <2> QED
    BY <2>1, <2>2 DEF MessagesNext
<1> QED
  BY <1>1, BufferInitially, PTL DEF MessagesSpec

\* Without a message in the buffer nothing can be read.
LEMMA UntypedIsUnreadable ==
  ASSUME NEW b \in Buffer, NEW t \in Type, ~HasType(t, b)
  PROVE  ~Deserialize(t, b).ok
<1> DEFINE r0 == Reader(b)
           r1 == Read(r0, 1)
           d == Deserialize(t, b)
<1>1. d = [r1 EXCEPT !.ok = FALSE]
  BY DEF Deserialize
<1>2. r0 \in StringReader
  BY LayoutAssumption DEF Reader, StringReader, Fields
<1> HIDE DEF r0, d
<1>3. r1 \in StringReader
  BY <1>2, ReadFacts
<1> HIDE DEF r1
<1>4. ~d.ok
  BY <1>1, <1>3 DEF StringReader
<1> QED
  BY <1>4 DEF d

\* What such a buffer holds can be read, by its own type only.
LEMMA BufferReads == BufferInv => RoundTrip
<1> SUFFICES ASSUME BufferInv, success, NEW t \in Type
             PROVE  LET r == Deserialize(t, bytes)
                    IN  /\ ~r.threw
                        /\ r.ok <=> t = last.type
                        /\ r.ok => r.fields = last.fields
  BY DEF RoundTrip
<1>1. IsMessage(last)
  BY DEF BufferInv
<1>2. PICK buffer \in Buffer :
        bytes = Serialize(last, buffer).bytes /\ success = Serialize(last, buffer).ok
  BY DEF BufferInv
<1> DEFINE w == Serialize(last, buffer)
<1>3. /\ Matches(Deserialize(last.type, w.bytes), w, w.bytes, last.fields)
      /\ \A u \in Type \ {last.type} :
           ~Deserialize(u, w.bytes).ok /\ ~Deserialize(u, w.bytes).threw
  BY <1>1, DeserializeFollowsSerialize
<1>4. w.ok /\ bytes = w.bytes
  BY <1>2
<1> HIDE DEF w
<1>5. CASE t = last.type
  BY <1>3, <1>4, <1>5 DEF Matches
<1>6. CASE t # last.type
  BY <1>3, <1>4, <1>6
<1> QED
  BY <1>5, <1>6

\* What was serialized is read back, by its own type only, whatever the buffer
\* held before.
THEOREM RoundTripHolds == MessagesSpec => []RoundTrip
BY BufferInvariant, BufferReads, PTL

\* A message is refused exactly if it does not fit.
THEOREM FitsExactlyHolds == MessagesSpec => []FitsExactly
<1>1. BufferInv => FitsExactly
  <2> SUFFICES ASSUME BufferInv, last # NoMessage
               PROVE  success <=>
                        1 + Width * (Len(last.fields) + (IF last.type = "StringList" THEN 1 ELSE 0))
                          + Len(FlattenSeq(last.fields)) <= BufferSize
    BY DEF FitsExactly
  <2>1. IsMessage(last)
    BY DEF BufferInv
  <2>2. PICK buffer \in Buffer : success = Serialize(last, buffer).ok
    BY DEF BufferInv
  <2> DEFINE n == Len(last.fields)
             size == Len(FlattenSeq(last.fields))
             counts == IF last.type = "StringList" THEN 1 ELSE 0
  <2>3. success <=> HeaderSize(last) + Width * n + size <= BufferSize
    BY <2>1, <2>2, SerializeFits
  <2>4. n \in Nat /\ Width \in Nat
    BY <2>1, ByteAssumption DEF IsMessage, IsStrings, Fields
  <2> HIDE DEF n, size
  <2>5. HeaderSize(last) + Width * n = 1 + Width * (n + counts)
    BY <2>4 DEF HeaderSize
  <2> QED
    BY <2>3, <2>5 DEF n, size
<1> QED
  BY <1>1, BufferInvariant, PTL

\* What was refused leaves nothing that can be read.
THEOREM RefusedIsAlwaysUnreadable == MessagesSpec => []RefusedIsUnreadable
<1>1. BufferInv => RefusedIsUnreadable
  <2> SUFFICES ASSUME BufferInv, ~success, NEW t \in Type
               PROVE  ~Deserialize(t, bytes).ok
    BY DEF RefusedIsUnreadable
  <2>1. bytes \in Buffer /\ BufferSize \in Nat
    BY LayoutAssumption DEF BufferInv
  <2>2. CASE \A i \in 1..BufferSize : bytes[i] = 0
    <3>1. ~HasType(t, bytes)
      <4>1. BufferSize >= 1 => bytes[1] = 0
        BY <2>1, <2>2
      <4> QED
        BY <2>1, <4>1, HasTypeFacts, TypeIds
    <3> QED
      BY <2>1, <3>1, UntypedIsUnreadable
  <2>3. CASE /\ IsMessage(last)
             /\ \E buffer \in Buffer :
                  LET w == Serialize(last, buffer) IN bytes = w.bytes /\ success = w.ok
    <3>1. PICK buffer \in Buffer :
            bytes = Serialize(last, buffer).bytes /\ success = Serialize(last, buffer).ok
      BY <2>3
    <3> DEFINE w == Serialize(last, buffer)
    <3>2. /\ Matches(Deserialize(last.type, w.bytes), w, w.bytes, last.fields)
          /\ \A u \in Type \ {last.type} : ~Deserialize(u, w.bytes).ok
      BY <2>3, DeserializeFollowsSerialize
    <3>3. ~w.ok /\ bytes = w.bytes
      BY <3>1
    <3> HIDE DEF w
    <3>4. CASE t = last.type
      BY <3>2, <3>3, <3>4 DEF Matches
    <3>5. CASE t # last.type
      BY <3>2, <3>3, <3>5
    <3> QED
      BY <3>4, <3>5
  <2> QED
    BY <2>2, <2>3 DEF BufferInv
<1> QED
  BY <1>1, BufferInvariant, PTL

\* What is read could have been written: serializing it changes nothing.
THEOREM AlwaysCanonical == MessagesSpec => []Canonical
<1>1. BufferInv => Canonical
  <2> SUFFICES ASSUME BufferInv, NEW i \in 1..BufferSize, NEW x \in Byte, NEW t \in Type,
                      Deserialize(t, [bytes EXCEPT ![i] = x]).ok
               PROVE  LET other == [bytes EXCEPT ![i] = x]
                          r     == Deserialize(t, other)
                      IN  Serialize([type |-> t, fields |-> r.fields], other).bytes = other
    BY DEF Canonical
  <2> DEFINE other == [bytes EXCEPT ![i] = x]
  <2>1. other \in Buffer
    BY DEF BufferInv, Buffer
  <2>2. Deserialize(t, other).ok
    OBVIOUS
  <2> HIDE DEF other
  <2>3. Serialize([type |-> t, fields |-> Deserialize(t, other).fields], other).bytes = other
    BY <2>1, <2>2, SerializeFollowsDeserialize
  <2> QED
    BY <2>3 DEF other
<1> QED
  BY <1>1, BufferInvariant, PTL
=============================================================================
