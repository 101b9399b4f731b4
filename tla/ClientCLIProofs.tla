--------------------------- MODULE ClientCLIProofs ---------------------------
(***************************************************************************)
(* From a typed line to the bytes the server reads and back, for every     *)
(* line, every keyword and every size of the buffer: splitting a line at   *)
(* its spaces and joining the words again loses nothing, and what is       *)
(* joined is what is serialized.                                           *)
(***************************************************************************)
EXTENDS ClientCLI, MessagesProofs

-----------------------------------------------------------------------------
(* Words *)

\* A sequence of words is all but its last one, and that one.
LEMMA FrontAndLast ==
  ASSUME NEW u \in Fields
  PROVE  /\ u # << >> => /\ Front(u) \in Fields /\ Last(u) \in Seq(Byte)
                         /\ u = Append(Front(u), Last(u))
         /\ \A w \in Seq(Byte) : /\ Append(u, w) \in Fields \ {<< >>}
                                 /\ Front(Append(u, w)) = u /\ Last(Append(u, w)) = w
<1>1. ASSUME u # << >>
      PROVE  /\ Front(u) \in Fields /\ Last(u) \in Seq(Byte)
             /\ u = Append(Front(u), Last(u))
  BY <1>1 DEF Front, Last, Fields
<1>2. ASSUME NEW w \in Seq(Byte)
      PROVE  /\ Append(u, w) \in Fields \ {<< >>}
             /\ Front(Append(u, w)) = u /\ Last(Append(u, w)) = w
  BY DEF Front, Last, Fields
<1> QED
  BY <1>1, <1>2

\* Split is the loop it is written as: a word ends, or grows by a byte.
LEMMA SplitLoop ==
  ASSUME NEW line \in Seq(Byte)
  PROVE  /\ Split(line) \in [0..Len(line) -> Fields \ {<< >>}]
         /\ Split(line)[0] = <<<< >>>>
         /\ \A i \in 1..Len(line) :
              LET u == Split(line)[i - 1]
              IN  Split(line)[i] = IF line[i] = Space THEN Append(u, << >>)
                                   ELSE Append(Front(u), Append(Last(u), line[i]))
<1> DEFINE n == Len(line)
           X == Fields \ {<< >>}
           b == <<<< >>>>
           Next(i, u) == IF line[i] = Space THEN Append(u, << >>)
                         ELSE Append(Front(u), Append(Last(u), line[i]))
           G == [p \in (1..n) \X X |-> Next(p[1], p[2])]
           Solves(g) == g = [i \in 0..n |-> IF i = 0 THEN b ELSE Next(i, g[i - 1])]
           f == Split(line)
<1>0. n \in Nat /\ (\A i \in 1..n : line[i] \in Byte) /\ b \in X
  BY DEF Fields
<1>1. IsLoop(n, X, b, G)
  <2>1. ASSUME NEW i \in 1..n, NEW u \in X
        PROVE  Next(i, u) \in X
    <3>1. << >> \in Seq(Byte) /\ u \in Fields /\ u # << >> /\ line[i] \in Byte
      BY <1>0
    <3>2. Front(u) \in Fields /\ Append(Last(u), line[i]) \in Seq(Byte)
      BY <3>1, FrontAndLast
    <3> QED
      BY <3>1, <3>2, FrontAndLast
  <2> HIDE DEF X, b, Next
  <2> QED
    BY <1>0, <2>1 DEF IsLoop
<1>2. \A i \in 1..n, x \in X : G[<<i, x>>] = Next(i, x)
  OBVIOUS
<1> HIDE DEF G, X, b, Next
<1>3. PICK g : Follows(g, n, X, b, G)
  BY <1>1, Loop
<1>4. Solves(g)
  <2>1. \A i \in 1..n : g[i - 1] \in X
    BY <1>0, <1>3 DEF Follows
  <2>2. \A i \in 1..n : g[i] = Next(i, g[i - 1])
    BY <1>2, <1>3, <2>1 DEF Follows
  <2> QED
    BY <1>0, <1>3, <2>2 DEF Follows
<1>5. Solves(f)
  <2> USE DEF Next, b
  <2> QED
    BY <1>4 DEF Split
<1> HIDE DEF f
<1>6. f = [i \in 0..n |-> f[i]]
  BY <1>5
<1>7. \A i \in 0..n : f[i] = IF i = 0 THEN b ELSE Next(i, f[i - 1])
  BY <1>5
<1>8. f[0] = b /\ \A i \in 1..n : f[i] = Next(i, f[i - 1])
  BY <1>0, <1>7
<1>9. Follows(f, n, X, b, G)
  BY <1>1, <1>2, <1>6, <1>8, Turns
<1> QED
  BY <1>8, <1>9 DEF f, Follows, Next, b, X

\* Spaced likewise: a space and the next word, but no space before the first.
LEMMA SpacedLoop ==
  ASSUME NEW words \in Fields
  PROVE  /\ Spaced(words) \in [0..Len(words) -> Seq(Byte)]
         /\ Spaced(words)[0] = << >>
         /\ \A i \in 1..Len(words) :
              Spaced(words)[i] = IF i = 1 THEN words[1]
                                 ELSE Append(Spaced(words)[i - 1], Space) \o words[i]
<1> DEFINE n == Len(words)
           X == Seq(Byte)
           b == << >>
           Next(i, u) == IF i = 1 THEN words[1] ELSE Append(u, Space) \o words[i]
           G == [p \in (1..n) \X X |-> Next(p[1], p[2])]
           Solves(g) == g = [i \in 0..n |-> IF i = 0 THEN b ELSE Next(i, g[i - 1])]
           f == Spaced(words)
<1>0. n \in Nat /\ (\A i \in 1..n : words[i] \in X) /\ b \in X /\ Space \in Byte
  BY LineAssumption DEF Fields
<1>1. IsLoop(n, X, b, G)
  <2>1. ASSUME NEW i \in 1..n, NEW u \in X
        PROVE  Next(i, u) \in X
    BY <1>0
  <2> HIDE DEF X, b, Next
  <2> QED
    BY <1>0, <2>1 DEF IsLoop
<1>2. \A i \in 1..n, x \in X : G[<<i, x>>] = Next(i, x)
  OBVIOUS
<1> HIDE DEF G, X, b, Next
<1>3. PICK g : Follows(g, n, X, b, G)
  BY <1>1, Loop
<1>4. Solves(g)
  <2>1. \A i \in 1..n : g[i - 1] \in X
    BY <1>0, <1>3 DEF Follows
  <2>2. \A i \in 1..n : g[i] = Next(i, g[i - 1])
    BY <1>2, <1>3, <2>1 DEF Follows
  <2> QED
    BY <1>0, <1>3, <2>2 DEF Follows
<1>5. Solves(f)
  <2> USE DEF Next, b
  <2> QED
    BY <1>4 DEF Spaced
<1> HIDE DEF f
<1>6. f = [i \in 0..n |-> f[i]]
  BY <1>5
<1>7. \A i \in 0..n : f[i] = IF i = 0 THEN b ELSE Next(i, f[i - 1])
  BY <1>5
<1>8. f[0] = b /\ \A i \in 1..n : f[i] = Next(i, f[i - 1])
  BY <1>0, <1>7
<1>9. Follows(f, n, X, b, G)
  BY <1>1, <1>2, <1>6, <1>8, Turns
<1> QED
  BY <1>8, <1>9 DEF f, Follows, Next, b, X

\* Another word: a space, if it is not the first, and the word.
LEMMA JoinAppend ==
  ASSUME NEW u \in Fields, NEW w \in Seq(Byte)
  PROVE  /\ JoinWithSpace(u) \in Seq(Byte)
         /\ JoinWithSpace(Append(u, w)) =
              IF u = << >> THEN w ELSE Append(JoinWithSpace(u), Space) \o w
<1> DEFINE n == Len(u)
           v == Append(u, w)
           f == Spaced(u)
           g == Spaced(v)
           T == {i \in 0..n : g[i] = f[i]}
<1>0. /\ n \in Nat /\ v \in Fields /\ Len(v) = n + 1 /\ v[n + 1] = w
      /\ \A i \in 1..n : v[i] = u[i]
  BY DEF Fields
<1> HIDE DEF v
<1>1. /\ f \in [0..n -> Seq(Byte)] /\ f[0] = << >>
      /\ \A i \in 1..n : f[i] = IF i = 1 THEN u[1] ELSE Append(f[i - 1], Space) \o u[i]
  BY SpacedLoop
<1>2. /\ g[0] = << >>
      /\ \A i \in 1..n + 1 : g[i] = IF i = 1 THEN v[1] ELSE Append(g[i - 1], Space) \o v[i]
  BY <1>0, SpacedLoop
<1> HIDE DEF f, g
<1>3. 0 \in T
  BY <1>0, <1>1, <1>2
<1>4. ASSUME NEW i \in 1..n, i - 1 \in T
      PROVE  i \in T
  <2>1. i \in 1..n + 1 /\ v[i] = u[i] /\ g[i - 1] = f[i - 1]
    BY <1>0, <1>4
  <2>2. CASE i = 1
    BY <1>0, <1>1, <1>2, <2>1, <2>2
  <2>3. CASE i # 1
    BY <1>1, <1>2, <2>1, <2>3
  <2> QED
    BY <2>2, <2>3
<1> HIDE DEF T
<1>5. n \in T
  <2>1. 0..n \subseteq T
    BY <1>0, <1>3, <1>4, Induction
  <2> QED
    BY <1>0, <2>1
<1>6. g[n] = f[n]
  BY <1>5 DEF T
<1>7. JoinWithSpace(u) = f[n] /\ JoinWithSpace(v) = g[n + 1]
  BY <1>0 DEF JoinWithSpace, f, g
<1>8. f[n] \in Seq(Byte)
  BY <1>0, <1>1
<1>9. g[n + 1] = IF n = 0 THEN w ELSE Append(f[n], Space) \o w
  <2>1. PICK i \in 1..n + 1 : i = n + 1
    BY <1>0
  <2>2. g[i] = IF i = 1 THEN v[1] ELSE Append(g[i - 1], Space) \o v[i]
    BY <1>2
  <2>3. i - 1 = n /\ v[i] = w /\ (i = 1 <=> n = 0)
    BY <1>0, <2>1
  <2> QED
    BY <1>6, <2>1, <2>2, <2>3
<1>10. n = 0 <=> u = << >>
  BY DEF Fields
<1> QED
  BY <1>7, <1>8, <1>9, <1>10 DEF v

\* Words put one behind the other.
LEMMA WordsConcat ==
  ASSUME NEW s \in Seq(Byte), NEW t \in Seq(Byte), NEW c \in Byte, NEW u \in Seq(Byte)
  PROVE  Append(s \o t, c) \o u = s \o (Append(t, c) \o u)
<1>1. s \o t \in Seq(Byte) /\ Append(t, c) \in Seq(Byte)
  OBVIOUS
<1>2. Append(s \o t, c) = (s \o t) \o <<c>> /\ Append(t, c) = t \o <<c>>
  BY <1>1
<1>3. Append(s \o t, c) = s \o Append(t, c)
  <2> DEFINE v == <<c>>
  <2>1. v \in Seq(Byte)
    OBVIOUS
  <2> HIDE DEF v
  <2>2. (s \o t) \o v = s \o (t \o v)
    BY <2>1
  <2> QED
    BY <1>2, <2>2 DEF v
<1> DEFINE v == Append(t, c)
<1> HIDE DEF v
<1>4. (s \o v) \o u = s \o (v \o u)
  BY <1>1 DEF v
<1> QED
  BY <1>3, <1>4 DEF v

\* A list of words with another list behind it, and one more word.
LEMMA ListsConcat ==
  ASSUME NEW s \in Fields, NEW t \in Fields, NEW w \in Seq(Byte)
  PROVE  s \o t \in Fields /\ Append(s \o t, w) = s \o Append(t, w)
<1> DEFINE S == Seq(Byte)
<1>1. s \in Seq(S) /\ t \in Seq(S) /\ w \in S
  BY DEF Fields
<1> HIDE DEF S
<1>2. s \o t \in Seq(S)
  BY <1>1
<1>3. Append(s \o t, w) = (s \o t) \o <<w>>
  BY <1>1, <1>2
<1>4. Append(t, w) = t \o <<w>>
  BY <1>1
<1>5. Append(s \o t, w) = s \o Append(t, w)
  <2> DEFINE v == <<w>>
  <2>1. v \in Seq(S)
    BY <1>1
  <2> HIDE DEF v
  <2>2. (s \o t) \o v = s \o (t \o v)
    BY <1>1, <2>1
  <2> QED
    BY <1>3, <1>4, <2>2 DEF v
<1> QED
  BY <1>2, <1>5 DEF Fields, S

\* What a sequence begins with.
LEMMA BeginFacts ==
  ASSUME NEW S, NEW s \in Seq(S)
  PROVE  /\ SubSeq(s, 1, 0) = << >> /\ SubSeq(s, 1, Len(s)) = s
         /\ \A i \in 0..Len(s) : SubSeq(s, 1, i) \in Seq(S) /\ Len(SubSeq(s, 1, i)) = i
         /\ \A i \in 1..Len(s) : SubSeq(s, 1, i) = Append(SubSeq(s, 1, i - 1), s[i]) /\ s[i] \in S
<1>1. SubSeq(s, 1, 0) = << >> /\ SubSeq(s, 1, Len(s)) = s
  OBVIOUS
<1>2. \A i \in 0..Len(s) : SubSeq(s, 1, i) \in Seq(S) /\ Len(SubSeq(s, 1, i)) = i
  OBVIOUS
<1>3. \A i \in 1..Len(s) : SubSeq(s, 1, i) = Append(SubSeq(s, 1, i - 1), s[i]) /\ s[i] \in S
  OBVIOUS
<1> QED
  BY <1>1, <1>2, <1>3

\* Two lists of words joined one behind the other.
LEMMA JoinConcat ==
  ASSUME NEW u \in Fields \ {<< >>}, NEW v \in Fields \ {<< >>}
  PROVE  JoinWithSpace(u \o v) = Append(JoinWithSpace(u), Space) \o JoinWithSpace(v)
<1> DEFINE n == Len(v)
           h(i) == SubSeq(v, 1, i)
           start == Append(JoinWithSpace(u), Space)
           T == {i \in 0..n : i # 0 => JoinWithSpace(u \o h(i)) = start \o JoinWithSpace(h(i))}
<1>0. n \in Nat \ {0} /\ \A i \in 1..n : v[i] \in Seq(Byte)
  BY DEF Fields
<1>1. start \in Seq(Byte)
  <2>1. << >> \in Seq(Byte) /\ Space \in Byte
    BY LineAssumption
  <2>2. JoinWithSpace(u) \in Seq(Byte)
    BY <2>1, JoinAppend
  <2> QED
    BY <2>1, <2>2
<1>2. /\ h(0) = << >> /\ h(n) = v
      /\ \A i \in 0..n : h(i) \in Fields
      /\ \A i \in 1..n : h(i) = Append(h(i - 1), v[i]) /\ (h(i - 1) = << >> <=> i = 1)
  <2>1. v \in Seq(Seq(Byte))
    BY DEF Fields
  <2>2. /\ h(0) = << >> /\ h(n) = v
        /\ \A i \in 0..n : h(i) \in Fields /\ Len(h(i)) = i
        /\ \A i \in 1..n : h(i) = Append(h(i - 1), v[i])
    BY <2>1, BeginFacts DEF Fields
  <2> HIDE DEF h
  <2>3. \A i \in 1..n : i - 1 \in 0..n
    BY <1>0
  <2>4. \A i \in 1..n : h(i - 1) = << >> <=> i = 1
    BY <2>2, <2>3 DEF Fields
  <2> QED
    BY <2>2, <2>4
<1> HIDE DEF h, start
<1>3. 0 \in T
  BY <1>0
<1>4. ASSUME NEW i \in 1..n, i - 1 \in T
      PROVE  i \in T
  <2> DEFINE x == h(i - 1)
  <2>1. x \in Fields /\ i - 1 \in 0..n /\ v[i] \in Seq(Byte) /\ h(i) = Append(x, v[i])
    BY <1>0, <1>2
  <2>2. JoinWithSpace(x) \in Seq(Byte)
    BY <2>1, JoinAppend
  <2>3. u \o h(i) = Append(u \o x, v[i]) /\ u \o x \in Fields /\ u \o x # << >>
    <3> HIDE DEF x
    <3>1. u \o x # << >>
      BY <2>1 DEF Fields
    <3>2. u \o x \in Fields /\ Append(u \o x, v[i]) = u \o Append(x, v[i])
      BY <2>1, ListsConcat, Zenon
    <3> QED
      BY <2>1, <3>1, <3>2
  <2>4. JoinWithSpace(u \o h(i)) = Append(JoinWithSpace(u \o x), Space) \o v[i]
    BY <2>1, <2>3, JoinAppend
  <2>5. CASE i = 1
    <3>1. x = << >>
      BY <1>2, <2>5
    <3>2. u \o x = u
      BY <3>1 DEF Fields
    <3>3. JoinWithSpace(h(i)) = v[i]
      BY <2>1, <3>1, JoinAppend
    <3>4. JoinWithSpace(u \o h(i)) = start \o v[i]
      BY <2>4, <3>2 DEF start
    <3> QED
      BY <3>3, <3>4
  <2>6. CASE i # 1
    <3>1. x # << >> /\ i - 1 # 0
      BY <1>2, <2>6
    <3>2. JoinWithSpace(h(i)) = Append(JoinWithSpace(x), Space) \o v[i]
      BY <2>1, <3>1, JoinAppend
    <3>3. JoinWithSpace(u \o x) = start \o JoinWithSpace(x)
      BY <1>4, <3>1
    <3> DEFINE y == JoinWithSpace(x)
               z == v[i]
    <3>4. y \in Seq(Byte) /\ z \in Seq(Byte) /\ Space \in Byte
      BY <2>1, <2>2, LineAssumption
    <3>5. JoinWithSpace(u \o h(i)) = Append(start \o y, Space) \o z
          /\ JoinWithSpace(h(i)) = Append(y, Space) \o z
      BY <2>4, <3>2, <3>3
    <3> HIDE DEF y, z
    <3>6. Append(start \o y, Space) \o z = start \o (Append(y, Space) \o z)
      BY <1>1, <3>4, WordsConcat, Zenon
    <3>7. JoinWithSpace(u \o h(i)) = start \o JoinWithSpace(h(i))
      BY <3>5, <3>6
    <3> QED
      BY <3>7
  <2> QED
    BY <2>5, <2>6
<1> HIDE DEF T
<1>5. n \in T
  <2>1. 0..n \subseteq T
    BY <1>0, <1>3, <1>4, Induction
  <2> QED
    BY <1>0, <2>1
<1> QED
  BY <1>0, <1>2, <1>5 DEF T, start

\* The words of a line, joined again, are the line.
LEMMA JoinWords ==
  ASSUME NEW line \in Seq(Byte)
  PROVE  Words(line) \in Fields \ {<< >>} /\ JoinWithSpace(Words(line)) = line
<1> DEFINE n == Len(line)
           f == Split(line)
           h(i) == SubSeq(line, 1, i)
           T == {i \in 0..n : JoinWithSpace(f[i]) = h(i)}
<1>0. n \in Nat /\ << >> \in Seq(Byte) /\ << >> \in Fields
  BY DEF Fields
<1>1. /\ f \in [0..n -> Fields \ {<< >>}] /\ f[0] = <<<< >>>>
      /\ \A i \in 1..n : f[i] = IF line[i] = Space THEN Append(f[i - 1], << >>)
                                ELSE Append(Front(f[i - 1]), Append(Last(f[i - 1]), line[i]))
  BY SplitLoop
<1>2. /\ h(0) = << >> /\ h(n) = line
      /\ \A i \in 0..n : h(i) \in Seq(Byte)
      /\ \A i \in 1..n : h(i) = Append(h(i - 1), line[i]) /\ line[i] \in Byte
  BY BeginFacts
<1> HIDE DEF f, h
<1>3. 0 \in T
  <2>1. f[0] = Append(<< >>, << >>)
    BY <1>1
  <2>2. JoinWithSpace(f[0]) = << >>
    BY <1>0, <2>1, JoinAppend
  <2> QED
    BY <1>0, <1>2, <2>2
<1>4. ASSUME NEW i \in 1..n, i - 1 \in T
      PROVE  i \in T
  <2> DEFINE u == f[i - 1]
             p == Front(u)
             w == Last(u)
             c == line[i]
  <2>0. i \in 0..n /\ i - 1 \in 0..n
    BY <1>0
  <2>1. u \in Fields /\ u # << >> /\ c \in Byte /\ i \in 0..n /\ i - 1 \in 0..n
    BY <1>1, <1>2, <2>0
  <2>2. JoinWithSpace(u) = h(i - 1) /\ h(i - 1) \in Seq(Byte) /\ h(i) = Append(h(i - 1), c)
    BY <1>2, <1>4, <2>1
  <2>3. f[i] = IF c = Space THEN Append(u, << >>) ELSE Append(p, Append(w, c))
    BY <1>1
  <2>4. CASE c = Space
    <3>1. JoinWithSpace(Append(u, << >>)) = Append(JoinWithSpace(u), Space) \o << >>
      BY <1>0, <2>1, JoinAppend
    <3>2. Append(h(i - 1), Space) \o << >> = Append(h(i - 1), Space)
      BY <2>1, <2>2, <2>4
    <3> QED
      BY <2>1, <2>2, <2>3, <2>4, <3>1, <3>2
  <2>5. CASE c # Space
    <3>1. p \in Fields /\ w \in Seq(Byte) /\ u = Append(p, w)
      BY <2>1, FrontAndLast
    <3>2. Append(w, c) \in Seq(Byte) /\ Space \in Byte
      BY <2>1, <3>1, LineAssumption
    <3> DEFINE j == JoinWithSpace(p)
    <3> HIDE DEF u, p, w, c
    <3>3. j \in Seq(Byte)
      BY <3>1, JoinAppend
    <3>4. JoinWithSpace(u) = IF p = << >> THEN w ELSE Append(j, Space) \o w
      BY <3>1, JoinAppend
    <3>5. JoinWithSpace(Append(p, Append(w, c)))
            = IF p = << >> THEN Append(w, c) ELSE Append(j, Space) \o Append(w, c)
      BY <3>1, <3>2, JoinAppend
    <3> HIDE DEF j
    <3>6. Append(j, Space) \o Append(w, c) = Append(Append(j, Space) \o w, c)
      BY <2>1, <3>1, <3>2, <3>3, SMTT(30)
    <3>7. JoinWithSpace(f[i]) = Append(JoinWithSpace(u), c)
      BY <2>3, <2>5, <3>4, <3>5, <3>6
    <3> QED
      BY <2>1, <2>2, <3>7 DEF c
  <2> QED
    BY <2>4, <2>5
<1> HIDE DEF T
<1>5. n \in T
  <2>1. 0..n \subseteq T
    BY <1>0, <1>3, <1>4, Induction
  <2> QED
    BY <1>0, <2>1
<1>6. Words(line) = f[n] /\ f[n] \in Fields \ {<< >>}
  BY <1>0, <1>1 DEF Words, f
<1> QED
  BY <1>2, <1>5, <1>6 DEF T

-----------------------------------------------------------------------------
(* Commands *)

\* What std::getline returns: a string.
Line == {s \in Seq(Byte) : Len(s) <= MaxSize}

\* The arguments, joined again, are the line, or the line but for a space at its
\* end, which ends no word.
LEMMA ArgumentsJoin ==
  ASSUME NEW line \in Seq(Byte)
  PROVE  LET args == ParseCommandArguments(line)
         IN  /\ args \in Fields
             /\ JoinWithSpace(args) \in Seq(Byte)
             /\ args # << >> => line \in {JoinWithSpace(args), Append(JoinWithSpace(args), Space)}
<1> DEFINE words == Words(line)
           front == Front(words)
           args == ParseCommandArguments(line)
           j == JoinWithSpace(front)
<1>0. args = IF Last(words) = << >> THEN front ELSE words
  BY DEF ParseCommandArguments
<1>1. words \in Fields /\ words # << >> /\ JoinWithSpace(words) = line
  BY JoinWords
<1> HIDE DEF words, args
<1>2. front \in Fields /\ Last(words) \in Seq(Byte) /\ words = Append(front, Last(words))
  BY <1>1, FrontAndLast
<1> HIDE DEF front
<1>3. j \in Seq(Byte) /\ Space \in Byte
  BY <1>2, JoinAppend, LineAssumption
<1>4. line = IF front = << >> THEN Last(words) ELSE Append(j, Space) \o Last(words)
  BY <1>1, <1>2, JoinAppend
<1> HIDE DEF j
<1>5. CASE Last(words) = << >>
  <2>1. args = front
    BY <1>0, <1>5
  <2>2. front # << >> => line = Append(j, Space)
    BY <1>3, <1>4, <1>5
  <2> QED
    BY <1>2, <1>3, <2>1, <2>2 DEF args, j
<1>6. CASE Last(words) # << >>
  BY <1>0, <1>1, <1>6 DEF args
<1> QED
  BY <1>5, <1>6

\* The requests a command makes, and the words that stand for them.
Sends ==
  {<<"ping", "Ping">>, <<"login", "Login">>, <<"register", "Register">>, <<"chat", "SendChat">>}

\* The word a request begins with is its command's.
LEMMA WordOfRequest == \A p \in Sends : WordOf(p[2]) = Keyword[p[1]] /\ Keyword[p[1]] \in Byte
<1>1. DOMAIN Keyword = {"ping", "login", "register", "chat", "check", "quit"}
      /\ \A k \in DOMAIN Keyword : Keyword[k] \in Byte
  BY LineAssumption
<1>2. ASSUME NEW p \in Sends
      PROVE  WordOf(p[2]) = Keyword[p[1]] /\ Keyword[p[1]] \in Byte
  <2> DEFINE k == CHOOSE k \in DOMAIN Keyword : <<k, p[2]>> \in Sends
  <2>1. p[1] \in DOMAIN Keyword /\ p = <<p[1], p[2]>>
    BY <1>1 DEF Sends
  <2>2. \A x \in DOMAIN Keyword : <<x, p[2]>> \in Sends => x = p[1]
    BY DEF Sends
  <2>3. k = p[1]
    BY <2>1, <2>2
  <2> HIDE DEF k
  <2>4. WordOf(p[2]) = Keyword[k]
    BY DEF WordOf, Sends, k
  <2> QED
    BY <1>1, <2>1, <2>3, <2>4
<1> QED
  BY <1>2

\* Two and three words.
LEMMA JoinFew ==
  ASSUME NEW x \in Seq(Byte), NEW y \in Seq(Byte), NEW z \in Seq(Byte)
  PROVE  /\ JoinWithSpace(<<x>>) = x
         /\ JoinWithSpace(<<x, y>>) = Append(x, Space) \o y
         /\ JoinWithSpace(<<x, y, z>>) = Append(Append(x, Space) \o y, Space) \o z
<1> DEFINE none == << >>
           one == <<x>>
           two == <<x, y>>
           three == <<x, y, z>>
<1>1. /\ none \in Fields /\ one \in Fields /\ two \in Fields
      /\ none = << >> /\ one # << >> /\ two # << >>
      /\ one = Append(none, x) /\ two = Append(one, y) /\ three = Append(two, z)
  BY DEF Fields
<1> HIDE DEF none, one, two, three
<1>2. JoinWithSpace(one) = x
  BY <1>1, JoinAppend
<1>3. JoinWithSpace(two) = Append(x, Space) \o y
  BY <1>1, <1>2, JoinAppend, ZenonT(60)
<1>4. JoinWithSpace(three) = Append(Append(x, Space) \o y, Space) \o z
  BY <1>1, <1>3, JoinAppend
<1> QED
  BY <1>2, <1>3, <1>4 DEF one, two, three

\* Whether a message is the line's: its word and its strings are the line, but for
\* one space at the end.
Says(line, m) ==
  LET said == JoinWithSpace(<<<<WordOf(m.type)>>>> \o m.fields)
  IN  line \in {said, Append(said, Space)}

\* How long two words are.
LEMMA TwoLengths ==
  ASSUME NEW s \in Seq(Byte), NEW t \in Seq(Byte)
  PROVE  s \o t \in Seq(Byte) /\ Len(s \o t) = Len(s) + Len(t)
OBVIOUS

\* How long three words and the spaces between them are.
LEMMA ThreeLengths ==
  ASSUME NEW x \in Seq(Byte), NEW y \in Seq(Byte), NEW z \in Seq(Byte)
  PROVE  /\ Append(Append(x, Space) \o y, Space) \o z \in Seq(Byte)
         /\ Len(Append(Append(x, Space) \o y, Space) \o z) = Len(x) + Len(y) + Len(z) + 2
<1> DEFINE a == Append(x, Space)
           b == a \o y
           c == Append(b, Space)
           d == c \o z
<1>0. Space \in Byte
  BY LineAssumption
<1>1. a \in Seq(Byte) /\ Len(a) = Len(x) + 1
  BY <1>0
<1> HIDE DEF a
<1>2. b \in Seq(Byte) /\ Len(b) = Len(a) + Len(y)
  BY <1>1, TwoLengths, Zenon
<1> HIDE DEF b
<1>3. c \in Seq(Byte) /\ Len(c) = Len(b) + 1
  BY <1>0, <1>2
<1> HIDE DEF c
<1>4. d \in Seq(Byte) /\ Len(d) = Len(c) + Len(z)
  BY <1>3, TwoLengths, Zenon
<1> HIDE DEF d
<1>5. Len(x) \in Nat /\ Len(y) \in Nat /\ Len(z) \in Nat
  OBVIOUS
<1>6. Len(d) = Len(x) + Len(y) + Len(z) + 2
  BY <1>1, <1>2, <1>3, <1>4, <1>5
<1> QED
  BY <1>4, <1>6 DEF a, b, c, d

\* A request of two strings has them from a line.
LEMMA TwoStrings ==
  ASSUME NEW line \in Line, NEW x \in Seq(Byte), NEW y \in Seq(Byte), NEW z \in Seq(Byte),
         NEW said, said = JoinWithSpace(<<x, y, z>>), line \in {said, Append(said, Space)}
  PROVE  <<y, z>> \in Fields /\ Len(y) <= MaxSize /\ Len(z) <= MaxSize
<1>1. said = Append(Append(x, Space) \o y, Space) \o z
  BY JoinFew, ZenonT(60)
<1>2. Space \in Byte /\ MaxSize \in Nat
  BY LineAssumption, LayoutAssumption
<1>3. said \in Seq(Byte) /\ Len(said) = Len(x) + Len(y) + Len(z) + 2
  <2>1. /\ Append(Append(x, Space) \o y, Space) \o z \in Seq(Byte)
        /\ Len(Append(Append(x, Space) \o y, Space) \o z) = Len(x) + Len(y) + Len(z) + 2
    BY ThreeLengths, Zenon
  <2> QED
    BY <1>1, <2>1, Zenon
<1>4. Len(said) <= Len(line) /\ Len(line) <= MaxSize /\ Len(line) \in Nat
  BY <1>2, <1>3 DEF Line
<1>5. Len(x) \in Nat /\ Len(y) \in Nat /\ Len(z) \in Nat
  OBVIOUS
<1>6. <<y, z>> \in Fields
  BY DEF Fields
<1> QED
  BY <1>2, <1>3, <1>4, <1>5, <1>6

\* A sequence and one behind it.
LEMMA Behind ==
  ASSUME NEW S, NEW s \in Seq(S), NEW t \in Seq(S), NEW r \in Seq(S),
         Len(r) = Len(s) + Len(t),
         \A i \in 1..Len(s) : r[i] = s[i],
         \A i \in 1..Len(t) : r[Len(s) + i] = t[i]
  PROVE  s \o t = r
BY SMTT(30)

\* A sequence is its first two elements and the rest.
LEMMA SplitAfterTwo ==
  ASSUME NEW s \in Fields, Len(s) >= 3
  PROVE  LET rest == SubSeq(s, 3, Len(s))
         IN  rest \in Fields /\ rest # << >> /\ s = <<s[1], s[2]>> \o rest
<1> DEFINE S == Seq(Byte)
           rest == SubSeq(s, 3, Len(s))
           two == <<s[1], s[2]>>
<1>1. s \in Seq(S)
  BY DEF Fields
<1> HIDE DEF S
<1>2. /\ rest \in Seq(S) /\ Len(rest) = Len(s) - 2 /\ Len(s) \in Nat
      /\ \A i \in 1..Len(rest) : rest[i] = s[i + 2]
  BY <1>1
<1>3. two \in Seq(S) /\ Len(two) = 2 /\ two[1] = s[1] /\ two[2] = s[2]
  BY <1>1
<1> HIDE DEF rest, two
<1>4. rest # << >>
  BY <1>2
<1>5. Len(s) = Len(two) + Len(rest) /\ \A i \in 1..Len(two) : s[i] = two[i]
  BY <1>2, <1>3
<1>6. \A i \in 1..Len(rest) : s[Len(two) + i] = rest[i]
  BY <1>2, <1>3
<1>7. two \o rest = s
  BY <1>1, <1>2, <1>3, <1>5, <1>6, Behind
<1> QED
  BY <1>2, <1>4, <1>7 DEF rest, two, S, Fields

\* Three words, and one before two.
LEMMA ThreeWords ==
  ASSUME NEW x \in Seq(Byte), NEW y \in Seq(Byte), NEW z \in Seq(Byte)
  PROVE  <<x>> \o <<y, z>> = <<x, y, z>>
<1> DEFINE S == Seq(Byte)
           one == <<x>>
           two == <<y, z>>
           three == <<x, y, z>>
<1>1. x \in S /\ y \in S /\ z \in S
  OBVIOUS
<1> HIDE DEF S
<1>2. /\ one \in Seq(S) /\ two \in Seq(S) /\ three \in Seq(S)
      /\ Len(one) = 1 /\ Len(two) = 2 /\ Len(three) = 3
      /\ one[1] = x /\ two[1] = y /\ two[2] = z
      /\ three[1] = x /\ three[2] = y /\ three[3] = z
  BY <1>1
<1> HIDE DEF one, two, three
<1>3. one \o two = three
  <2>1. \A i \in 1..Len(one) : three[i] = one[i]
    BY <1>2
  <2>2. \A i \in 1..Len(two) : three[Len(one) + i] = two[i]
    <3>1. \A i \in 1..2 : i = 1 \/ i = 2
      OBVIOUS
    <3> QED
      BY <1>2, <3>1
  <2>3. Len(three) = Len(one) + Len(two)
    BY <1>2
  <2> QED
    BY <1>2, <2>1, <2>2, <2>3, Behind
<1> QED
  BY <1>3 DEF one, two, three, S

\* A command that is a request is a message, and says what its line says.
LEMMA CommandFacts ==
  ASSUME NEW line \in Line
  PROVE  LET m == BuildCommand(line)
         IN  \/ m \in {CheckInbox, Quit, ParseFailure}
             \/ IsMessage(m) /\ m.type \in Type \ {"ReceiveChat"} /\ Says(line, m)
<1> DEFINE m == BuildCommand(line)
           args == ParseCommandArguments(line)
           Is(k) == args # << >> /\ args[1] = <<Keyword[k]>>
           n == Len(args)
           rest == SubSeq(args, 3, n)
           said == JoinWithSpace(args)
<1>0. /\ args \in Fields /\ n \in Nat
      /\ said \in Seq(Byte)
      /\ args # << >> => line \in {said, Append(said, Space)}
      /\ \A i \in 1..n : args[i] \in Seq(Byte)
      /\ args # << >> => n >= 1
  <2>1. line \in Seq(Byte)
    BY DEF Line
  <2>2. /\ args \in Fields
        /\ said \in Seq(Byte)
        /\ args # << >> => line \in {said, Append(said, Space)}
    BY <2>1, ArgumentsJoin
  <2> HIDE DEF args
  <2> QED
    BY <2>2 DEF Fields
<1>1. m = IF Is("ping") /\ n = 1 THEN RequestOf("Ping", << >>)
          ELSE IF Is("login") /\ n = 3 THEN RequestOf("Login", <<args[2], args[3]>>)
          ELSE IF Is("register") /\ n = 3 THEN RequestOf("Register", <<args[2], args[3]>>)
          ELSE IF Is("chat") /\ n >= 3
          THEN RequestOf("SendChat", <<args[2], JoinWithSpace(rest)>>)
          ELSE IF Is("check") THEN CheckInbox
          ELSE IF Is("quit") THEN Quit ELSE ParseFailure
  BY DEF BuildCommand
<1> HIDE DEF args, m
<1> DEFINE Good == IsMessage(m) /\ m.type \in Type \ {"ReceiveChat"} /\ Says(line, m)
<1>2. ASSUME Is("ping"), n = 1
      PROVE  Good
  <2>1. m.type = "Ping" /\ m.fields = << >>
    BY <1>1, <1>2 DEF RequestOf
  <2>2. WordOf("Ping") = Keyword["ping"]
    <3>1. <<"ping", "Ping">> \in Sends
      BY DEF Sends
    <3>2. PICK p \in Sends : p = <<"ping", "Ping">>
      BY <3>1
    <3> QED
      BY <3>2, WordOfRequest
  <2>3. args = <<args[1]>>
    BY <1>0, <1>2 DEF Fields
  <2>4. <<<<WordOf(m.type)>>>> \o m.fields = args
    BY <1>2, <2>1, <2>2, <2>3
  <2>5. Says(line, m)
    BY <1>0, <1>2, <2>4 DEF Says
  <2>6. IsMessage(m) /\ m.type \in Type \ {"ReceiveChat"}
    BY <2>1 DEF IsMessage, IsStrings, Fields, FieldCount, Type, TypeId
  <2> QED
    BY <2>5, <2>6
<1>3. ASSUME NEW p \in {<<"login", "Login">>, <<"register", "Register">>},
             Is(p[1]), n = 3, m = RequestOf(p[2], <<args[2], args[3]>>)
      PROVE  Good
  <2> DEFINE x == args[1]
             y == args[2]
             z == args[3]
  <2>1. m.type = p[2] /\ m.fields = <<y, z>> /\ p \in Sends /\ p[2] \in {"Login", "Register"}
    BY <1>3 DEF RequestOf, Sends
  <2>2. x = <<WordOf(m.type)>>
    BY <1>3, <2>1, WordOfRequest
  <2>3. args = <<x, y, z>> /\ x \in Seq(Byte) /\ y \in Seq(Byte) /\ z \in Seq(Byte)
    <3>1. x \in Seq(Byte) /\ y \in Seq(Byte) /\ z \in Seq(Byte)
      <4>1. 1 \in 1..n /\ 2 \in 1..n /\ 3 \in 1..n
        BY <1>3
      <4> HIDE DEF n
      <4> QED
        BY <1>0, <4>1
    <3>2. args = <<x, y, z>>
      <4>1. <<x, y, z>> \in Fields /\ Len(<<x, y, z>>) = 3
        BY <3>1 DEF Fields
      <4>2. \A i \in 1..3 : i = 1 \/ i = 2 \/ i = 3
        OBVIOUS
      <4>3. \A i \in 1..3 : args[i] = <<x, y, z>>[i]
        BY <4>2
      <4> QED
        BY <1>0, <1>3, <4>1, <4>3, SameSequence DEF Fields
    <3> QED
      BY <3>1, <3>2
  <2> HIDE DEF x, y, z
  <2>4. <<x>> \o <<y, z>> = <<x, y, z>>
    BY <2>3, ThreeWords, Zenon
  <2>5. Says(line, m)
    BY <1>0, <1>3, <2>1, <2>2, <2>3, <2>4 DEF Says
  <2>6. <<y, z>> \in Fields /\ Len(y) <= MaxSize /\ Len(z) <= MaxSize
    BY <1>0, <1>3, <2>3, TwoStrings
  <2>7. IsMessage(m) /\ m.type \in Type \ {"ReceiveChat"}
    <3>1. \A i \in 1..2 : Len(<<y, z>>[i]) <= MaxSize
      BY <2>6
    <3> QED
      BY <2>1, <2>6, <3>1 DEF IsMessage, IsStrings, FieldCount, Type, TypeId
  <2> QED
    BY <2>5, <2>7
<1>4. ASSUME Is("chat"), n >= 3, m = RequestOf("SendChat", <<args[2], JoinWithSpace(rest)>>)
      PROVE  Good
  <2> DEFINE x == args[1]
             y == args[2]
             z == JoinWithSpace(rest)
  <2>1. m.type = "SendChat" /\ m.fields = <<y, z>>
    BY <1>4 DEF RequestOf
  <2>2. x = <<WordOf(m.type)>>
    <3>1. PICK p \in Sends : p = <<"chat", "SendChat">>
      BY DEF Sends
    <3> QED
      BY <1>4, <2>1, <3>1, WordOfRequest
  <2>3. x \in Seq(Byte) /\ y \in Seq(Byte)
    <3>1. 1 \in 1..n /\ 2 \in 1..n
      BY <1>0, <1>4
    <3> HIDE DEF n
    <3> QED
      BY <1>0, <3>1
  <2>4. /\ rest \in Fields /\ rest # << >>
        /\ <<x, y>> \in Fields /\ <<x, y>> # << >>
        /\ args = <<x, y>> \o rest
    <3>1. rest \in Fields /\ rest # << >> /\ args = <<x, y>> \o rest
      BY <1>0, <1>4, SplitAfterTwo, Zenon
    <3>2. <<x, y>> \in Fields /\ <<x, y>> # << >>
      BY <2>3 DEF Fields
    <3> QED
      BY <3>1, <3>2
  <2> HIDE DEF x, y, rest
  <2>5. z \in Seq(Byte)
    <3>1. << >> \in Seq(Byte)
      OBVIOUS
    <3> QED
      BY <2>4, <3>1, JoinAppend
  <2>6. said = Append(JoinWithSpace(<<x, y>>), Space) \o z
    BY <2>4, JoinConcat
  <2> HIDE DEF z
  <2>7. said = JoinWithSpace(<<x, y, z>>)
    <3>1. JoinWithSpace(<<x, y>>) = Append(x, Space) \o y
      BY <2>3, <2>5, JoinFew, Zenon
    <3>2. JoinWithSpace(<<x, y, z>>) = Append(Append(x, Space) \o y, Space) \o z
      BY <2>3, <2>5, JoinFew, ZenonT(60)
    <3> QED
      BY <2>6, <3>1, <3>2, Zenon
  <2>8. <<x>> \o <<y, z>> = <<x, y, z>>
    BY <2>3, <2>5, ThreeWords, Zenon
  <2>9. Says(line, m)
    BY <1>0, <1>4, <2>1, <2>2, <2>7, <2>8 DEF Says
  <2>10. <<y, z>> \in Fields /\ Len(y) <= MaxSize /\ Len(z) <= MaxSize
    BY <1>0, <1>4, <2>3, <2>5, <2>7, TwoStrings
  <2>11. IsMessage(m) /\ m.type \in Type \ {"ReceiveChat"}
    <3>1. \A i \in 1..2 : Len(<<y, z>>[i]) <= MaxSize
      BY <2>10
    <3> QED
      BY <2>1, <2>10, <3>1 DEF IsMessage, IsStrings, FieldCount, Type, TypeId
  <2> QED
    BY <2>9, <2>11
<1> HIDE DEF Good
<1>5. \/ Good
      \/ m \in {CheckInbox, Quit, ParseFailure}
  <2> HIDE DEF rest, n
  <2>1. <<"login", "Login">>[1] = "login" /\ <<"login", "Login">>[2] = "Login"
        /\ <<"register", "Register">>[1] = "register" /\ <<"register", "Register">>[2] = "Register"
    OBVIOUS
  <2>2. CASE Is("ping") /\ n = 1
    BY <1>2, <2>2 DEF Good
  <2>3. CASE ~(Is("ping") /\ n = 1) /\ Is("login") /\ n = 3
    BY <1>1, <1>3, <2>1, <2>3
  <2>4. CASE /\ ~(Is("ping") /\ n = 1) /\ ~(Is("login") /\ n = 3)
             /\ Is("register") /\ n = 3
    BY <1>1, <1>3, <2>1, <2>4
  <2>5. CASE ~(Is("ping") /\ n = 1) /\ ~(Is("login") /\ n = 3) /\ ~(Is("register") /\ n = 3)
    <3>1. CASE Is("chat") /\ n >= 3
      BY <1>1, <1>4, <2>5, <3>1 DEF Good
    <3>2. CASE ~(Is("chat") /\ n >= 3)
      BY <1>1, <2>5, <3>2
    <3> QED
      BY <3>1, <3>2
  <2> QED
    BY <2>2, <2>3, <2>4, <2>5
<1> QED
  BY <1>5 DEF Good, m

-----------------------------------------------------------------------------
(* The loop *)

\* A sequence is one of the values its elements have.
LEMMA ElementsDecide ==
  ASSUME NEW S, NEW T, NEW s \in Seq(S), \A i \in 1..Len(s) : s[i] \in T
  PROVE  s \in Seq(T)
<1>1. Len(s) \in Nat /\ s = [i \in 1..Len(s) |-> s[i]]
  OBVIOUS
<1>2. [i \in 1..Len(s) |-> s[i]] \in Seq(T)
  BY <1>1
<1> QED
  BY <1>1, <1>2

\* What is taken from a sequence, and what it leaves.
LEMMA HeadAndTail ==
  ASSUME NEW S, NEW s \in Seq(S), s # << >>
  PROVE  Tail(s) \in Seq(S) /\ Head(s) \in S /\ Tail(s) # s
<1> DEFINE m == Len(Tail(s))
           n == Len(s)
<1>1. m = n - 1 /\ n \in Nat
  OBVIOUS
<1> HIDE DEF m, n
<1>2. m # n
  BY <1>1
<1>3. Tail(s) # s
  BY <1>2, Zenon DEF m, n
<1> QED
  BY <1>3

\* No line, no command.
LEMMA EmptyLine == BuildCommand(<< >>) = ParseFailure
<1> DEFINE none == << >>
           words == Words(none)
<1>1. none \in Seq(Byte) /\ Len(none) = 0
  OBVIOUS
<1>2. Split(none)[0] = <<<< >>>>
  BY <1>1, SplitLoop
<1>3. words = <<<< >>>>
  BY <1>1, <1>2 DEF Words
<1> HIDE DEF words
<1>4. Last(words) = << >> /\ Front(words) = << >>
  BY <1>3 DEF Last, Front
<1>5. ParseCommandArguments(none) = << >>
  BY <1>4 DEF ParseCommandArguments, words
<1> QED
  BY <1>5 DEF BuildCommand

\* While the client waits for a response, its buffer holds the request the last
\* line has typed; past the end of an input that ends with a newline that line
\* is empty.
CLIInv ==
  /\ BufferInv
  /\ typed \in Seq(Line) /\ input \in Line
  /\ run = "waiting" /\ last.type # "ReceiveChat" =>
       success /\ last.type \in Type /\ Says(input, last)
  /\ terminated /\ stream = "ended" => input = << >>

\* What std::getline does to the line and to the rest of the input.
LEMMA GetLineFacts ==
  ASSUME CLIInv, GetLine, UNCHANGED terminated
  PROVE  /\ typed' \in Seq(Line) /\ input' \in Line
         /\ terminated' /\ stream' = "ended" => input' = << >>
         /\ terminated => input' = << >> \/ typed' # typed
<1> USE DEF CLIInv, GetLine, lineVars
<1>1. CASE stream = "ended"
  BY <1>1
<1>2. CASE stream # "ended" /\ typed = << >>
  <2>1. << >> \in Line
    BY LayoutAssumption DEF Line
  <2> QED
    BY <1>2, <2>1
<1>3. CASE stream # "ended" /\ typed # << >>
  <2>1. typed' = Tail(typed) /\ input' = Head(typed)
        /\ stream' = IF Tail(typed) = << >> /\ ~terminated THEN "ended" ELSE "good"
    BY <1>3
  <2>2. Tail(typed) \in Seq(Line) /\ Head(typed) \in Line /\ Tail(typed) # typed
    <3>1. typed \in Seq(Line) /\ typed # << >>
      BY <1>3
    <3> QED
      BY <3>1, HeadAndTail, Zenon
  <2> QED
    BY <2>1, <2>2
<1> QED
  BY <1>1, <1>2, <1>3

\* One turn: a request is serialized, or the buffer stays as it is.
LEMMA TurnFacts ==
  ASSUME CLIInv, Turn
  PROVE  LET m == BuildCommand(input')
         IN  \/ /\ m \in {CheckInbox, Quit, ParseFailure}
                /\ run' # "waiting" /\ UNCHANGED msgVars
             \/ /\ IsMessage(m) /\ m.type \in Type \ {"ReceiveChat"} /\ Says(input', m)
                /\ Send(m) /\ run' = AfterSend(success')
<1> DEFINE m == BuildCommand(input')
<1>1. run = "loop" /\ UNCHANGED terminated /\ GetLine
  BY DEF Turn
<1>2. input' \in Line
  BY <1>1, GetLineFacts
<1>3. \/ m \in {CheckInbox, Quit, ParseFailure}
      \/ IsMessage(m) /\ m.type \in Type \ {"ReceiveChat"} /\ Says(input', m)
  BY <1>2, CommandFacts
<1> HIDE DEF m
<1>4. CASE m = Quit
  BY <1>1, <1>4 DEF Turn, m
<1>5. CASE m = CheckInbox
  BY <1>1, <1>5 DEF Turn, m, Quit, CheckInbox, RequestOf
<1>6. CASE m = ParseFailure
  BY <1>1, <1>6 DEF Turn, m, Quit, CheckInbox, ParseFailure, RequestOf
<1>7. CASE m \notin {CheckInbox, Quit, ParseFailure}
  BY <1>3, <1>7 DEF Turn, m
<1> QED
  BY <1>4, <1>5, <1>6, <1>7 DEF m

\* Between a line and the answer to it the buffer holds the request typed.
THEOREM CommandLineInvariant == CLISpec => []CLIInv
<1>1. CLIInit => CLIInv
  <2> SUFFICES ASSUME CLIInit
               PROVE  CLIInv
    OBVIOUS
  <2>1. BufferInv
    BY BufferInitially DEF CLIInit
  <2>2. typed \in Seq(Line)
    <3>1. typed \in Seq(Seq(Byte)) /\ \A i \in DOMAIN typed : Len(typed[i]) <= MaxSize
      BY LineAssumption DEF CLIInit
    <3>2. \A i \in 1..Len(typed) : typed[i] \in Line
      BY <3>1 DEF Line
    <3>3. typed \in Seq(Seq(Byte))
      BY <3>1
    <3> QED
      BY <3>3, <3>2, ElementsDecide, Zenon
  <2>3. << >> \in Line
    BY LayoutAssumption DEF Line
  <2> QED
    BY <2>1, <2>2, <2>3 DEF CLIInit, CLIInv
<1>2. CLIInv /\ [CLINext]_cliVars => CLIInv'
  <2> SUFFICES ASSUME CLIInv, [CLINext]_cliVars
               PROVE  CLIInv'
    OBVIOUS
  <2>1. CASE Connects
    BY <2>1 DEF Connects, CLIInv, BufferInv, msgVars, lineVars
  <2>2. CASE Turn
    <3> DEFINE m == BuildCommand(input')
    <3>1. GetLine /\ UNCHANGED terminated
      BY <2>2 DEF Turn
    <3>2. typed' \in Seq(Line) /\ input' \in Line
          /\ (terminated' /\ stream' = "ended" => input' = << >>)
      BY <3>1, GetLineFacts
    <3>3. \/ run' # "waiting" /\ UNCHANGED msgVars
          \/ /\ IsMessage(m) /\ m.type \in Type /\ Says(input', m)
             /\ Send(m) /\ run' = AfterSend(success')
      BY <2>2, TurnFacts
    <3> HIDE DEF m
    <3>4. CASE run' # "waiting" /\ UNCHANGED msgVars
      BY <3>2, <3>4 DEF CLIInv, BufferInv, msgVars
    <3>5. CASE /\ IsMessage(m) /\ m.type \in Type /\ Says(input', m)
               /\ Send(m) /\ run' = AfterSend(success')
      <4>1. BufferInv'
        BY <3>5, SendKeepsBuffer DEF CLIInv
      <4>2. last' = m
        BY <3>5 DEF Send
      <4>3. run' = "waiting" => success'
        BY <3>5 DEF AfterSend
      <4>4. run' = "waiting" /\ last'.type # "ReceiveChat" =>
              success' /\ last'.type \in Type /\ Says(input', last')
        BY <3>5, <4>2, <4>3
      <4> QED
        BY <3>2, <4>1, <4>4 DEF CLIInv, Says
    <3> QED
      BY <3>3, <3>4, <3>5
  <2>3. CASE ChatComes
    <3>1. PICK chat \in Chats : Send(chat)
      BY <2>3 DEF ChatComes
    <3>2. IsMessage(chat) /\ chat.type = "ReceiveChat"
      BY LineAssumption, MessagesAreLegal
    <3>3. BufferInv' /\ last'.type = "ReceiveChat"
      BY <3>1, <3>2, SendKeepsBuffer DEF CLIInv, Send
    <3> QED
      BY <2>3, <3>3 DEF ChatComes, CLIInv, lineVars
  <2>4. CASE ResponseComes
    <3>1. PICK response \in Responses : Send(response)
      BY <2>4 DEF ResponseComes
    <3>2. IsMessage(response)
      BY LineAssumption, MessagesAreLegal
    <3>3. BufferInv'
      BY <3>1, <3>2, SendKeepsBuffer DEF CLIInv
    <3> QED
      BY <2>4, <3>3 DEF ResponseComes, CLIInv, lineVars
  <2>5. CASE ServerIsGone
    BY <2>5 DEF ServerIsGone, CLIInv, BufferInv, msgVars, lineVars
  <2>6. CASE UNCHANGED cliVars
    BY <2>6 DEF cliVars, CLIInv, BufferInv, msgVars, lineVars, Says
  <2> QED
    BY <2>1, <2>2, <2>3, <2>4, <2>5, <2>6 DEF CLINext, Outcome
<1> QED
  BY <1>1, <1>2, PTL DEF CLISpec

\* What the server reads is what was typed, but for one space at the end.
THEOREM TypedAlwaysReceived == CLISpec => []TypedIsReceived
<1>1. CLIInv => TypedIsReceived
  <2> SUFFICES ASSUME CLIInv, run = "waiting", last.type # "ReceiveChat"
               PROVE  LET r    == Deserialize(last.type, bytes)
                          line == JoinWithSpace(<<<<WordOf(last.type)>>>> \o r.fields)
                      IN  r.ok /\ input \in {line, Append(line, Space)}
    BY DEF TypedIsReceived
  <2> DEFINE r == Deserialize(last.type, bytes)
  <2>1. success /\ last.type \in Type /\ Says(input, last)
    BY DEF CLIInv
  <2>2. r.ok /\ r.fields = last.fields
    BY <2>1, BufferReads DEF CLIInv, RoundTrip
  <2> HIDE DEF r
  <2> QED
    BY <2>1, <2>2 DEF Says, r
<1> QED
  BY <1>1, CommandLineInvariant, PTL

\* No request is sent that was not typed, if the input ends with a newline.
THEOREM RequestsAlwaysTyped == CLISpec => RequestsAreTyped
<1>1. CLIInv /\ [CLINext]_cliVars =>
        [run = "loop" /\ run' = "waiting" /\ terminated => typed' # typed]_cliVars
  <2> SUFFICES ASSUME CLIInv, CLINext, run = "loop", run' = "waiting", terminated
               PROVE  typed' # typed
    OBVIOUS
  <2>1. Turn
    BY DEF CLINext, Outcome, Connects, ChatComes, ResponseComes, ServerIsGone
  <2>2. GetLine /\ UNCHANGED terminated
    BY <2>1 DEF Turn
  <2>3. input' = << >> \/ typed' # typed
    BY <2>2, GetLineFacts
  <2>4. CASE input' = << >>
    <3>1. BuildCommand(input') = ParseFailure
      BY <2>4, EmptyLine
    <3>2. ParseFailure.type \notin Type
      BY DEF ParseFailure, RequestOf, Type, TypeId
    <3> QED
      BY <2>1, <3>1, <3>2, TurnFacts
  <2> QED
    BY <2>3, <2>4
<1> QED
  BY <1>1, CommandLineInvariant, PTL DEF CLISpec, RequestsAreTyped
=============================================================================
