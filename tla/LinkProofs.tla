------------------------------ MODULE LinkProofs ------------------------------
(***************************************************************************)
(* Theorems about Link, for any buffer that holds a greeting and any       *)
(* number of messages, crashes and lost connections.                       *)
(***************************************************************************)
EXTENDS Link, SequenceTheorems, WellFoundedInduction, TLAPS

USE LinkAssumption, BufferAssumption

\* Induction over 0..n: what holds of 0, and of i when of i - 1, holds of all.
LEMMA UpTo ==
  ASSUME NEW n \in Nat, NEW S, 0 \in S, \A i \in 1..n : i - 1 \in S => i \in S
  PROVE  0..n \subseteq S
<1> DEFINE left == {i \in 0..n : i \notin S}
<1>1. SUFFICES ASSUME left # {} PROVE FALSE
  OBVIOUS
<1>2. left \in SUBSET Nat
  OBVIOUS
<1>3. PICK i \in left : \A j \in left : ~(<<j, i>> \in OpToRel(<, Nat))
  BY <1>1, <1>2, NatLessThanWellFounded, WFMin
<1>4. i \in 1..n /\ i - 1 \in 0..n /\ i - 1 < i
  OBVIOUS
<1>5. <<i - 1, i>> \in OpToRel(<, Nat)
  BY <1>4 DEF OpToRel
<1>6. i - 1 \in S
  BY <1>3, <1>4, <1>5
<1> QED
  BY <1>4, <1>6

-----------------------------------------------------------------------------
(* The messages that end in a sequence of pieces                           *)

Pieced == [msg: Nat, k: Nat]

\* What Ends adds up, piece by piece.
Adds(s, n, f) ==
  /\ f \in [0..n -> Seq(Nat)] /\ f[0] = << >>
  /\ \A i \in 1..n : f[i] = IF s[i].k = Size(s[i].msg) THEN Append(f[i - 1], s[i].msg)
                            ELSE f[i - 1]

LEMMA EndsAdds ==
  ASSUME NEW s \in Seq(Pieced)
  PROVE  \E f : Adds(s, Len(s), f) /\ Ends(s) = f[Len(s)]
<1> DEFINE Value(f, i) == IF i = 0 THEN << >>
                          ELSE IF s[i].k = Size(s[i].msg) THEN Append(f[i - 1], s[i].msg)
                          ELSE f[i - 1]
           n == Len(s)
           S == {m \in 0..n : \E f : Adds(s, m, f)}
<1>1. n \in Nat /\ \A i \in 1..n : s[i].msg \in Nat
  <2>1. n \in Nat /\ \A i \in 1..n : s[i] \in Pieced
    OBVIOUS
  <2> QED
    BY <2>1 DEF Pieced
<1>2. 0 \in S
  <2>1. Adds(s, 0, [i \in 0..0 |-> << >>])
    BY DEF Adds
  <2> QED
    BY <1>1, <2>1
<1>3. ASSUME NEW m \in 1..n, m - 1 \in S
      PROVE  m \in S
  <2>1. PICK f : Adds(s, m - 1, f)
    BY <1>3
  <2> DEFINE g == [i \in 0..m |-> IF i = m THEN Value(f, m) ELSE f[i]]
  <2>2. m - 1 \in Nat /\ m # 0 /\ f[m - 1] \in Seq(Nat) /\ s[m].msg \in Nat
    BY <1>1, <1>3, <2>1 DEF Adds
  <2>3. Value(f, m) \in Seq(Nat)
    BY <2>2
  <2> HIDE DEF Value
  <2>4. g \in [0..m -> Seq(Nat)]
    BY <2>1, <2>2, <2>3 DEF Adds
  <2>5. g[0] = << >>
    BY <1>3, <2>1, <2>2 DEF Adds
  <2>6. ASSUME NEW i \in 1..m
        PROVE  g[i] = IF s[i].k = Size(s[i].msg) THEN Append(g[i - 1], s[i].msg) ELSE g[i - 1]
    <3>1. g[i - 1] = f[i - 1]
      BY <1>3
    <3>2. CASE i = m
      BY <2>2, <3>1, <3>2 DEF Value
    <3>3. CASE i # m
      <4>1. i \in 1..(m - 1) /\ g[i] = f[i]
        BY <2>2, <3>3
      <4>2. f[i] = IF s[i].k = Size(s[i].msg) THEN Append(f[i - 1], s[i].msg) ELSE f[i - 1]
        BY <2>1, <4>1 DEF Adds
      <4> QED
        BY <3>1, <4>1, <4>2, Zenon
    <3> QED
      BY <3>2, <3>3
  <2>7. Adds(s, m, g)
    BY <2>4, <2>5, <2>6 DEF Adds
  <2> QED
    BY <2>7
<1>4. PICK f : Adds(s, n, f)
  <2>1. n \in S
    <3>1. 0..n \subseteq S
      BY <1>1, <1>2, <1>3, UpTo
    <3> QED
      BY <1>1, <3>1
  <2> QED
    BY <2>1
<1>5. f = [i \in 0..n |-> Value(f, i)]
  <2>1. ASSUME NEW i \in 0..n
        PROVE  f[i] = Value(f, i)
    <3>1. CASE i = 0
      BY <1>4, <3>1 DEF Adds
    <3>2. CASE i \in 1..n
      BY <1>4, <3>2 DEF Adds
    <3> QED
      BY <1>1, <3>1, <3>2
  <2> QED
    BY <1>4, <2>1 DEF Adds
<1> DEFINE h == CHOOSE r : r = [i \in 0..n |-> Value(r, i)]
<1>6. h = [i \in 0..n |-> Value(h, i)]
  BY <1>5
<1>7. Ends(s) = h[n]
  BY DEF Ends
<1> HIDE DEF h
<1> DEFINE T == {i \in 0..n : h[i] = f[i]}
<1>8. 0..n \subseteq T
  <2>1. 0 \in T
    BY <1>1, <1>5, <1>6
  <2>2. ASSUME NEW i \in 1..n, i - 1 \in T
        PROVE  i \in T
    <3>1. i \in 0..n
      BY <1>1
    <3>2. \A j \in 0..n : h[j] = Value(h, j)
      BY <1>6, Zenon
    <3>3. \A j \in 0..n : f[j] = Value(f, j)
      BY <1>5, Zenon
    <3>4. h[i] = Value(h, i) /\ f[i] = Value(f, i)
      BY <3>1, <3>2, <3>3, Zenon
    <3> QED
      BY <2>2, <3>1, <3>4
  <2> HIDE DEF T
  <2> QED
    BY <1>1, <2>1, <2>2, UpTo
<1>9. h[n] = f[n]
  BY <1>1, <1>8
<1> QED
  BY <1>4, <1>7, <1>9

\* Writing puts a piece at the end of a stream.
LEMMA WritingKeeps ==
  ASSUME NEW S, NEW g \in Seq(S), NEW w \in Seq(S), NEW p \in S
  PROVE  g \o w \in Seq(S) /\ Append(w, p) \in Seq(S) /\ g \o Append(w, p) = Append(g \o w, p)
  OBVIOUS

\* What ends in two sequences laid end to end.
LEMMA EndsConcat ==
  ASSUME NEW a \in Seq(Pieced), NEW b \in Seq(Pieced)
  PROVE  Ends(a \o b) = Ends(a) \o Ends(b)
<1> DEFINE m == Len(a)
           n == Len(b)
           s == a \o b
<1>1. /\ m \in Nat /\ n \in Nat /\ s \in Seq(Pieced) /\ Len(s) = m + n
      /\ \A i \in 1..(m + n) : s[i] = IF i <= m THEN a[i] ELSE b[i - m]
  BY ConcatProperties
<1>2. /\ \A i \in 1..m : s[i] = a[i]
      /\ \A j \in 1..n : s[m + j] = b[j] /\ b[j].msg \in Nat
  <2>1. \A i \in 1..m : s[i] = a[i]
    BY <1>1
  <2>2. ASSUME NEW j \in 1..n
        PROVE  s[m + j] = b[j] /\ b[j] \in Pieced
    <3>1. m + j \in 1..(m + n) /\ ~(m + j <= m) /\ (m + j) - m = j
      BY <1>1
    <3> QED
      BY <1>1, <3>1
  <2> QED
    BY <2>1, <2>2 DEF Pieced
<1>3. PICK f : Adds(s, m + n, f) /\ Ends(s) = f[m + n]
  BY <1>1, EndsAdds
<1>4. PICK g : Adds(a, m, g) /\ Ends(a) = g[m]
  BY EndsAdds
<1>5. PICK h : Adds(b, n, h) /\ Ends(b) = h[n]
  BY EndsAdds
<1> HIDE DEF s, m, n
<1>6. f[m] = g[m]
  <2> DEFINE S == {i \in 0..m : f[i] = g[i]}
  <2>1. 0 \in S
    BY <1>1, <1>3, <1>4 DEF Adds
  <2>2. ASSUME NEW i \in 1..m, i - 1 \in S
        PROVE  i \in S
    <3>1. i \in 1..(m + n) /\ i \in 0..m /\ s[i] = a[i] /\ f[i - 1] = g[i - 1]
      BY <1>1, <1>2, <2>2
    <3>2. f[i] = IF s[i].k = Size(s[i].msg) THEN Append(f[i - 1], s[i].msg) ELSE f[i - 1]
      BY <1>3, <3>1 DEF Adds
    <3>3. g[i] = IF a[i].k = Size(a[i].msg) THEN Append(g[i - 1], a[i].msg) ELSE g[i - 1]
      BY <1>4 DEF Adds
    <3> QED
      BY <3>1, <3>2, <3>3
  <2>3. 0..m \subseteq S
    <3> HIDE DEF S
    <3> QED
      BY <1>1, <2>1, <2>2, UpTo
  <2> QED
    BY <1>1, <2>3
<1>7. f[m + n] = g[m] \o h[n]
  <2> DEFINE S == {j \in 0..n : f[m + j] = g[m] \o h[j]}
  <2>0. g[m] \in Seq(Nat) /\ \A j \in 0..n : h[j] \in Seq(Nat)
    BY <1>1, <1>4, <1>5 DEF Adds
  <2>1. 0 \in S
    <3>1. h[0] = << >> /\ g[m] \o << >> = g[m] /\ m + 0 = m
      BY <1>1, <1>5, <2>0, ConcatEmptySeq DEF Adds
    <3>2. f[m + 0] = g[m] \o h[0]
      BY <1>6, <3>1, Zenon
    <3>3. 0 \in 0..n
      BY <1>1
    <3> QED
      BY <3>2, <3>3, Zenon
  <2>2. ASSUME NEW j \in 1..n, j - 1 \in S
        PROVE  j \in S
    <3>1. /\ m + j \in 1..(m + n) /\ (m + j) - 1 = m + (j - 1) /\ j \in 0..n /\ j - 1 \in 0..n
          /\ s[m + j] = b[j] /\ b[j].msg \in Nat
      BY <1>1, <1>2
    <3>2. f[m + (j - 1)] = g[m] \o h[j - 1]
      BY <2>2
    <3>3. f[m + j] = IF b[j].k = Size(b[j].msg) THEN Append(f[m + (j - 1)], b[j].msg)
                     ELSE f[m + (j - 1)]
      BY <1>3, <3>1 DEF Adds
    <3>4. h[j] = IF b[j].k = Size(b[j].msg) THEN Append(h[j - 1], b[j].msg) ELSE h[j - 1]
      BY <1>5 DEF Adds
    <3>5. h[j - 1] \in Seq(Nat)
      BY <2>0, <3>1
    <3>6. Append(g[m] \o h[j - 1], b[j].msg) = g[m] \o Append(h[j - 1], b[j].msg)
      <4>1. \A x \in Seq(Nat), y \in Seq(Nat), e \in Nat : x \o Append(y, e) = Append(x \o y, e)
        OBVIOUS
      <4> QED
        BY <2>0, <3>1, <3>5, <4>1, Zenon
    <3>7. f[m + j] = g[m] \o h[j]
      BY <3>2, <3>3, <3>4, <3>6
    <3> QED
      BY <3>1, <3>7
  <2>3. 0..n \subseteq S
    <3> HIDE DEF S
    <3> QED
      BY <1>1, <2>1, <2>2, UpTo
  <2>4. n \in 0..n
    BY <1>1
  <2> QED
    BY <2>3, <2>4
<1> QED
  BY <1>3, <1>4, <1>5, <1>6, <1>7 DEF s

LEMMA SizeIsSmall == \A m \in Nat : Size(m) \in 1..2 /\ Size(0) = 1
<1>1. \A m \in Nat : m % 2 \in 0..1 /\ 0 % 2 = 0
  OBVIOUS
<1> QED
  BY <1>1 DEF Size

\* Nothing ends in the first pieces of a message, the message ends in all.
LEMMA EndsOfPieces ==
  ASSUME NEW m \in Nat, NEW s \in Seq(Pieced), \A i \in 1..Len(s) : s[i] = [msg |-> m, k |-> i - 1]
  PROVE  /\ Len(s) <= Size(m) => Ends(s) = << >>
         /\ Len(s) = Size(m) + 1 => Ends(s) = <<m>>
<1> DEFINE n == Len(s)
<1>1. n \in Nat /\ Size(m) \in Nat /\ \A i \in 1..n : s[i].k = i - 1 /\ s[i].msg = m
  <2>1. n \in Nat
    OBVIOUS
  <2>2. Size(m) \in Nat
    BY SizeIsSmall
  <2>3. ASSUME NEW i \in 1..n
        PROVE  s[i].k = i - 1 /\ s[i].msg = m
    <3>1. s[i] = [msg |-> m, k |-> i - 1]
      OBVIOUS
    <3> QED
      BY <3>1
  <2> QED
    BY <2>1, <2>2, <2>3
<1>2. PICK f : Adds(s, n, f) /\ Ends(s) = f[n]
  BY EndsAdds
<1>3. \A i \in 1..n : f[i] = IF i - 1 = Size(m) THEN Append(f[i - 1], m) ELSE f[i - 1]
  BY <1>1, <1>2 DEF Adds
<1> HIDE DEF n
<1> DEFINE S == {i \in 0..n : i <= Size(m) => f[i] = << >>}
<1>4. 0..n \subseteq S
  <2>1. 0 \in S
    BY <1>1, <1>2 DEF Adds
  <2>2. ASSUME NEW i \in 1..n, i - 1 \in S
        PROVE  i \in S
    BY <1>1, <1>3, <2>2
  <2> HIDE DEF S
  <2> QED
    BY <1>1, <2>1, <2>2, UpTo
<1>5. n <= Size(m) => f[n] = << >>
  BY <1>1, <1>4
<1>6. ASSUME n = Size(m) + 1
      PROVE  f[n] = <<m>>
  <2>1. n \in 1..n /\ n - 1 = Size(m) /\ n - 1 \in 0..n
    BY <1>1, <1>6
  <2>2. f[n - 1] = << >>
    BY <1>1, <1>4, <2>1
  <2>3. f[n] = Append(f[n - 1], m)
    BY <1>3, <2>1
  <2>4. Append(<< >>, m) = <<m>>
    OBVIOUS
  <2> QED
    BY <2>2, <2>3, <2>4
<1> QED
  BY <1>2, <1>5, <1>6 DEF n

LEMMA NothingEnds == Ends(<< >>) = << >>
<1>1. PICK f : Adds(<< >>, Len(<< >>), f) /\ Ends(<< >>) = f[Len(<< >>)]
  <2>1. << >> \in Seq(Pieced)
    OBVIOUS
  <2> QED
    BY <2>1, EndsAdds
<1>2. Len(<< >>) = 0
  OBVIOUS
<1> QED
  BY <1>1, <1>2 DEF Adds

-----------------------------------------------------------------------------
(* Streams of pieces                                                       *)

\* Reading moves the first piece on the wire to the end of what was read.
LEMMA ReadingKeeps ==
  ASSUME NEW S, NEW g \in Seq(S), NEW w \in Seq(S), w # << >>
  PROVE  /\ Append(g, Head(w)) \in Seq(S) /\ Tail(w) \in Seq(S) /\ Head(w) \in S
         /\ Append(g, Head(w)) \o Tail(w) = g \o w
         /\ (g \o w)[Len(g) + 1] = Head(w) /\ Len(g) + 1 <= Len(g \o w)
<1>1. /\ Head(w) \in S /\ Tail(w) \in Seq(S) /\ Append(g, Head(w)) \in Seq(S)
      /\ Len(g) \in Nat /\ Len(w) \in Nat /\ Len(w) > 0
  OBVIOUS
<1>2. w = <<Head(w)>> \o Tail(w) /\ Append(g, Head(w)) = g \o <<Head(w)>> /\ <<Head(w)>> \in Seq(S)
  OBVIOUS
<1>3. (g \o <<Head(w)>>) \o Tail(w) = g \o (<<Head(w)>> \o Tail(w))
  BY <1>1, <1>2, ConcatAssociative
<1>4. (g \o w)[Len(g) + 1] = Head(w) /\ Len(g \o w) = Len(g) + Len(w)
  BY <1>1
<1> QED
  BY <1>1, <1>2, <1>3, <1>4

-----------------------------------------------------------------------------
(* The inductive invariant                                                 *)

LEMMA SizeOfMessage == \A m \in Messages : Size(m) \in 1..2 /\ Size(0) = 1 /\ 0 \in Messages
BY SizeIsSmall DEF Messages

\* What the steps need of the state's types.
LEMMA Types ==
  ASSUME TypeOK
  PROVE  /\ got \o wire \in Seq(Piece) /\ Len(got \o wire) = Len(got) + Len(wire)
         /\ Len(got) \in Nat /\ Len(wire) \in Nat /\ Len(todo) \in Nat
         /\ (todo # << >> => Head(todo) \in Messages /\ Tail(todo) \in Seq(Messages)
                             /\ Len(Tail(todo)) = Len(todo) - 1 /\ Len(todo) >= 1)
         /\ \A i \in 1..Len(got) : got[i] \in Piece /\ (got \o wire)[i] = got[i]
         /\ \A i \in 1..Len(wire) : wire[i] \in Piece /\ (got \o wire)[Len(got) + i] = wire[i]
BY DEF TypeOK

\* A framed stream stays framed when the next piece is put at its end.
LEMMA FramedGrows ==
  ASSUME NEW s \in Seq(Piece), Framed(s), NEW p \in Piece,
         IF s = << >> \/ s[Len(s)].k = Size(s[Len(s)].msg) THEN p.k = 0
         ELSE p = [msg |-> s[Len(s)].msg, k |-> s[Len(s)].k + 1]
  PROVE  Framed(Append(s, p))
<1> DEFINE r == Append(s, p)
           n == Len(s)
<1>1. /\ n \in Nat /\ r \in Seq(Piece) /\ Len(r) = n + 1 /\ r[n + 1] = p
      /\ \A i \in 1..n : r[i] = s[i] /\ (s = << >> => n = 0)
  OBVIOUS
<1>2. s # << >> => n \in 1..n
  OBVIOUS
<1> HIDE DEF r, n
<1>3. r[1].k = 0
  <2>1. CASE s = << >>
    <3>1. n = 0
      BY <2>1 DEF n
    <3> QED
      BY <1>1, <2>1, <3>1
  <2>2. CASE s # << >>
    <3>1. 1 \in 1..n
      BY <1>1, <1>2, <2>2
    <3> QED
      BY <1>1, <2>2, <3>1 DEF Framed
  <2> QED
    BY <2>1, <2>2
<1>4. ASSUME NEW i \in 1..n
      PROVE  IF r[i].k = Size(r[i].msg) THEN r[i + 1].k = 0
             ELSE r[i + 1] = [msg |-> r[i].msg, k |-> r[i].k + 1]
  <2>1. CASE i = n
    <3>1. s # << >>
      BY <1>1, <2>1 DEF n
    <3> QED
      BY <1>1, <2>1, <3>1 DEF n
  <2>2. CASE i # n
    <3>1. i \in 1..(n - 1) /\ i + 1 \in 1..n
      BY <1>1, <2>2
    <3> QED
      BY <1>1, <3>1 DEF Framed, n
  <2> QED
    BY <2>1, <2>2
<1> QED
  BY <1>1, <1>3, <1>4 DEF Framed, r

\* The rest of a framed stream, after the last piece of a message, is framed.
LEMMA FramedRest ==
  ASSUME NEW g \in Seq(Piece), NEW w \in Seq(Piece), Framed(g \o w), g # << >>,
         g[Len(g)].k = Size(g[Len(g)].msg)
  PROVE  Framed(w)
<1> DEFINE n == Len(g)
           m == Len(w)
           s == g \o w
<1>1. /\ n \in Nat /\ m \in Nat /\ n >= 1 /\ Len(s) = n + m
      /\ \A i \in 1..n : s[i] = g[i]
      /\ (w # << >> => m >= 1)
  OBVIOUS
<1>2. \A i \in 1..m : s[n + i] = w[i]
  OBVIOUS
<1> HIDE DEF n, m, s
<1>3. ASSUME w # << >>
      PROVE  w[1].k = 0
  <2>1. n \in 1..(Len(s) - 1) /\ n \in 1..n /\ 1 \in 1..m
    BY <1>1, <1>3
  <2>2. s[n].k = Size(s[n].msg)
    BY <1>1 DEF n
  <2>3. s[n + 1].k = 0
    BY <2>1, <2>2 DEF Framed, s
  <2> QED
    BY <1>2, <2>1, <2>3
<1>4. ASSUME NEW i \in 1..(m - 1)
      PROVE  IF w[i].k = Size(w[i].msg) THEN w[i + 1].k = 0
             ELSE w[i + 1] = [msg |-> w[i].msg, k |-> w[i].k + 1]
  <2>1. n + i \in 1..(Len(s) - 1) /\ i \in 1..m /\ i + 1 \in 1..m /\ n + i + 1 = n + (i + 1)
    BY <1>1
  <2>2. s[n + i] = w[i] /\ s[n + i + 1] = w[i + 1]
    BY <1>2, <2>1
  <2> QED
    BY <2>1, <2>2 DEF Framed, s
<1> QED
  BY <1>3, <1>4 DEF Framed, m

\* Writing the next piece keeps the invariant.
LEMMA WriteStep ==
  ASSUME LinkInv, WritePiece
  PROVE  LinkInv'
<1> DEFINE s    == got \o wire
           m    == Head(todo)
           p    == [msg |-> m, k |-> piece]
           last == piece = Size(m)
<1>0. /\ TypeOK /\ Framed(s) /\ WriterInPlace /\ GreetingFits /\ ReaderInPlace /\ FreshConnection
  BY DEF LinkInv
<1>1. /\ todo # << >> /\ wire' = Append(wire, p)
      /\ todo' = IF last THEN Tail(todo) ELSE todo
      /\ piece' = IF last THEN 0 ELSE piece + 1
      /\ greeting' = (greeting /\ todo' # << >>)
      /\ UNCHANGED <<app, current, latest, sends, faults, link, client>>
  BY DEF WritePiece
<1>2. /\ app = "up" /\ link = "listed" /\ piece <= Size(m) /\ piece \in Nat /\ m \in Messages
      /\ Size(m) \in 1..2 /\ Size(0) = 1 /\ Tail(todo) \in Seq(Messages)
      /\ Len(Tail(todo)) = Len(todo) - 1 /\ Len(todo) \in Nat /\ Len(todo) >= 1
  BY <1>0, <1>1, SizeOfMessage DEF WriterInPlace, TypeOK
<1>3. p \in Piece /\ s \in Seq(Piece) /\ got \o wire' = Append(s, p) /\ wire' \in Seq(Piece)
  <2>1. p \in Piece
    BY <1>2 DEF Piece
  <2> HIDE DEF p
  <2>2. got \in Seq(Piece) /\ wire \in Seq(Piece)
    BY <1>0 DEF TypeOK
  <2>3. s \in Seq(Piece) /\ Append(wire, p) \in Seq(Piece) /\ got \o Append(wire, p) = Append(s, p)
    BY <2>1, <2>2
  <2> QED
    BY <1>1, <2>3
<1>4. Framed(got \o wire')
  <2>1. CASE piece = 0
    <3>1. s = << >> \/ s[Len(s)].k = Size(s[Len(s)].msg)
      BY <1>0, <1>2, <2>1 DEF WriterInPlace, Ended
    <3>2. p.k = 0
      BY <2>1
    <3> HIDE DEF s, p
    <3> QED
      BY <1>0, <1>3, <3>1, <3>2, FramedGrows
  <2>2. CASE piece # 0
    <3>1. s # << >> /\ s[Len(s)] = [msg |-> m, k |-> piece - 1]
      BY <1>0, <2>2 DEF WriterInPlace
    <3>2. s[Len(s)].k # Size(s[Len(s)].msg) /\ p = [msg |-> s[Len(s)].msg, k |-> s[Len(s)].k + 1]
      BY <1>2, <3>1
    <3> HIDE DEF s, p
    <3> QED
      BY <1>0, <1>3, <3>1, <3>2, FramedGrows
  <2> QED
    BY <2>1, <2>2
<1>5. got \o wire' # << >> /\ (got \o wire')[Len(got \o wire')] = p
  <2> HIDE DEF s, p
  <2> QED
    BY <1>3
<1>6. TypeOK'
  BY <1>0, <1>1, <1>3 DEF TypeOK, client
<1>7. WriterInPlace'
  <2>1. CASE last
    <3>1. piece' = 0 /\ todo' = Tail(todo) /\ p.k = Size(p.msg) /\ 0 \in Nat
      BY <1>1, <2>1
    <3>2. Ended(got \o wire')
      BY <1>5, <3>1 DEF Ended
    <3>3. todo' # << >> => Size(Head(todo')) \in 1..2
      BY <1>6, SizeOfMessage DEF TypeOK
    <3> QED
      BY <1>1, <1>2, <3>2, <3>3 DEF WriterInPlace, client
  <2>2. CASE ~last
    <3>1. piece' = piece + 1 /\ todo' = todo /\ piece' # 0 /\ piece + 1 <= Size(m) /\ piece' - 1 = piece
      BY <1>1, <1>2, <2>2
    <3> QED
      BY <1>1, <1>2, <1>5, <3>1 DEF WriterInPlace, client
  <2> QED
    BY <2>1, <2>2
<1>8. GreetingFits'
  <2>1. Len(wire') = Len(wire) + 1 /\ Len(wire) \in Nat
    BY <1>1
  <2>2. CASE last
    <3>1. Len(todo') = Len(todo) - 1 /\ piece' = 0 /\ (todo' = << >> => Len(todo') = 0)
      BY <1>1, <1>2, <2>2
    <3>2. todo' # << >> => Len(todo') >= 1
      OBVIOUS
    <3>3. ~greeting' => Len(todo') <= 1
      <4>1. CASE greeting
        <5>1. ~greeting' => todo' = << >>
          BY <1>1, <4>1
        <5>2. todo' = << >> => Len(todo') <= 1
          OBVIOUS
        <5> QED
          BY <5>1
      <4>2. CASE ~greeting
        BY <1>0, <3>1 DEF GreetingFits
      <4> QED
        BY <4>1, <4>2
    <3>4. ASSUME greeting'
          PROVE  Len(todo') = 1 /\ Len(wire') <= 2 + piece'
      <4>1. greeting /\ Len(todo) = 2 /\ m = 0 /\ Len(wire) <= piece
        <5>1. greeting /\ todo' # << >>
          BY <1>1, <3>4
        <5>2. Len(todo) # 1
          BY <3>1, <5>1
        <5> QED
          BY <1>0, <5>1, <5>2 DEF GreetingFits
      <4>2. Len(wire) <= 1
        BY <1>2, <4>1
      <4> QED
        BY <2>1, <3>1, <4>1, <4>2
    <3> QED
      BY <3>3, <3>4 DEF GreetingFits
  <2>3. CASE ~last
    <3>1. todo' = todo /\ piece' = piece + 1 /\ greeting' = greeting
      BY <1>0, <1>1, <2>3 DEF TypeOK
    <3>2. ~greeting' => Len(todo') <= 1
      BY <1>0, <3>1 DEF GreetingFits
    <3>3. greeting' => \/ Len(todo') = 2 /\ Head(todo') = 0 /\ Len(wire') <= piece'
                       \/ Len(todo') = 1 /\ Len(wire') <= 2 + piece'
      BY <1>0, <1>2, <2>1, <3>1 DEF GreetingFits
    <3> QED
      BY <3>2, <3>3 DEF GreetingFits
  <2> QED
    BY <2>2, <2>3
<1>9. ReaderInPlace' /\ FreshConnection'
  BY <1>0, <1>1, <1>2 DEF ReaderInPlace, FreshConnection, client
<1> QED
  BY <1>1, <1>4, <1>6, <1>7, <1>8, <1>9 DEF LinkInv, client

\* Reading the next piece keeps the invariant.
LEMMA ReadStep ==
  ASSUME LinkInv, ReadPiece
  PROVE  LinkInv'
<1> DEFINE s == got \o wire
           n == Len(got)
<1>0. /\ TypeOK /\ Framed(s) /\ WriterInPlace /\ GreetingFits /\ ReaderInPlace /\ FreshConnection
  BY DEF LinkInv
<1>1. /\ pc = "read" /\ wire # << >> /\ got' = Append(got, Head(wire)) /\ wire' = Tail(wire)
      /\ pc' \in IF n = 0 THEN {"read"}
                 ELSE {IF n >= w THEN "handle" ELSE "read" : w \in Wanted}
      /\ UNCHANGED <<backoff, handled, link, sender>>
  BY DEF ReadPiece
<1>2. /\ got' \in Seq(Piece) /\ wire' \in Seq(Piece) /\ Head(wire) \in Piece
      /\ got' \o wire' = s /\ s[n + 1] = Head(wire) /\ n + 1 <= Len(s) /\ s \in Seq(Piece)
  BY <1>0, <1>1 DEF TypeOK
<1>3. /\ n \in Nat /\ Len(got') = n + 1 /\ got'[n + 1] = Head(wire) /\ Len(s) \in Nat
      /\ \A i \in 1..n : got'[i] = got[i] /\ s[i] = got[i] /\ got[i] \in Piece
      /\ Len(wire') = Len(wire) - 1 /\ Len(wire) \in Nat /\ got' # << >>
      /\ (got = << >> <=> n = 0)
  BY <1>0, <1>1, Types
<1> HIDE DEF n
<1>4. ASSUME pc' \in {"read", "handle"}, ReaderInPlace'
      PROVE  LinkInv'
  <2>1. TypeOK'
    BY <1>0, <1>1 DEF TypeOK, sender
  <2>2. Framed(got' \o wire') /\ WriterInPlace'
    BY <1>0, <1>1, <1>2 DEF WriterInPlace, sender
  <2>3. GreetingFits'
    BY <1>0, <1>1 DEF GreetingFits, TypeOK, sender
  <2>4. FreshConnection'
    BY <1>0, <1>1 DEF FreshConnection
  <2> QED
    BY <1>4, <2>1, <2>2, <2>3, <2>4 DEF LinkInv
<1>5. CASE n = 0
  <2>1. Head(wire).k = 0
    <3>1. s # << >> /\ s[1] = Head(wire)
      BY <1>2, <1>5
    <3> QED
      BY <1>0, <3>1 DEF Framed
  <2>2. pc' = "read" /\ got'[1] = Head(wire) /\ Len(got') = 1
    BY <1>1, <1>3, <1>5
  <2>3. Head(wire) = [msg |-> Head(wire).msg, k |-> 0] /\ Size(Head(wire).msg) \in 1..2
    BY <1>2, <2>1, SizeOfMessage DEF Piece
  <2>4. \A i \in 1..1 : got'[i] = [msg |-> got'[1].msg, k |-> i - 1]
    <3>1. \A i \in 1..1 : i = 1
      OBVIOUS
    <3> QED
      BY <2>2, <2>3
  <2>5. ReaderInPlace'
    BY <2>2, <2>3, <2>4 DEF ReaderInPlace
  <2> QED
    BY <1>4, <2>2, <2>5
<1>6. CASE n # 0
  <2> DEFINE m == got[1].msg
  <2>1. /\ got[1] = [msg |-> m, k |-> 0] /\ got[n] = [msg |-> m, k |-> n - 1] /\ n <= Size(m)
        /\ m \in Messages /\ Size(m) \in 1..2
    <3>1. 1 \in 1..n /\ n \in 1..n /\ got[1] \in Piece
      BY <1>3, <1>6
    <3>2. m \in Messages
      BY <3>1 DEF Piece
    <3>3. n <= Size(m)
      BY <1>0, <1>1, <1>6 DEF ReaderInPlace, n
    <3>4. got[1] = [msg |-> m, k |-> 1 - 1] /\ got[n] = [msg |-> m, k |-> n - 1]
      BY <1>0, <3>1 DEF ReaderInPlace, n
    <3> QED
      BY <3>2, <3>3, <3>4, SizeOfMessage
  <2>2. Head(wire) = [msg |-> m, k |-> n]
    <3>1. n \in 1..(Len(s) - 1) /\ s[n] = [msg |-> m, k |-> n - 1] /\ s[n].k # Size(s[n].msg)
      BY <1>2, <1>3, <1>6, <2>1
    <3>2. s[n + 1] = [msg |-> s[n].msg, k |-> s[n].k + 1]
      BY <1>0, <3>1 DEF Framed
    <3>3. s[n].msg = m /\ s[n].k + 1 = n
      BY <3>1
    <3> QED
      BY <1>2, <3>2, <3>3
  <2>3. pc' = (IF n >= Size(m) THEN "handle" ELSE "read")
    <3>1. Wanted = {Size(m)}
      BY <2>1 DEF Wanted
    <3> QED
      BY <1>1, <1>6, <3>1
  <2>4. got'[1] = got[1]
    BY <1>3, <1>6
  <2>5. \A i \in 1..Len(got') : got'[i] = [msg |-> m, k |-> i - 1]
    <3> SUFFICES ASSUME NEW i \in 1..(n + 1)
                 PROVE  got'[i] = [msg |-> m, k |-> i - 1]
      BY <1>3
    <3>1. CASE i = n + 1
      BY <1>3, <2>2, <3>1
    <3>2. CASE i \in 1..n
      BY <1>0, <1>3, <3>2 DEF ReaderInPlace, n
    <3> QED
      BY <1>3, <3>1, <3>2
  <2>6. ReaderInPlace'
    BY <1>3, <2>1, <2>3, <2>5 DEF ReaderInPlace
  <2> QED
    BY <1>4, <2>3, <2>6
<1> QED
  BY <1>5, <1>6

\* Handling a message keeps the invariant: what is left begins with a length word.
LEMMA HandleStep ==
  ASSUME LinkInv, HandleMessage
  PROVE  LinkInv'
<1> DEFINE s == got \o wire
           n == Len(got)
           m == Len(wire)
<1>0. /\ TypeOK /\ Framed(s) /\ WriterInPlace /\ GreetingFits /\ ReaderInPlace /\ FreshConnection
  BY DEF LinkInv
<1>1. pc = "handle" /\ got' = << >> /\ pc' = "read" /\ UNCHANGED <<backoff, link, wire, sender>>
  BY DEF HandleMessage
<1>2. /\ s \in Seq(Piece) /\ n \in Nat /\ m \in Nat /\ Len(s) = n + m /\ n \in 1..n
      /\ got \in Seq(Piece) /\ wire \in Seq(Piece) /\ got # << >>
      /\ \A i \in 1..n : s[i] = got[i]
      /\ \A i \in 1..m : s[n + i] = wire[i]
  BY <1>0, <1>1, Types DEF ReaderInPlace
<1>3. got[n].k = Size(got[n].msg)
  <2>1. got[n] = [msg |-> got[1].msg, k |-> n - 1]
    BY <1>0, <1>2 DEF ReaderInPlace
  <2>2. n = Size(got[1].msg) + 1 /\ Size(got[1].msg) \in 1..2
    <3>1. 1 \in 1..n /\ got[1] \in Piece
      BY <1>2
    <3> QED
      BY <1>0, <1>1, <3>1, SizeOfMessage DEF ReaderInPlace, Piece
  <2> QED
    BY <2>1, <2>2
<1>4. Framed(wire)
  BY <1>0, <1>2, <1>3, FramedRest
<1>5. got' \o wire' = wire /\ got' \in Seq(Piece)
  BY <1>1
<1>6. s # << >> /\ (wire = << >> => s[Len(s)] = got[n]) /\ (wire # << >> => s[Len(s)] = wire[m])
  <2>1. wire = << >> => m = 0
    OBVIOUS
  <2>2. wire # << >> => m \in 1..m
    OBVIOUS
  <2> HIDE DEF s, n, m
  <2> QED
    BY <1>2, <2>1, <2>2
<1>7. WriterInPlace'
  <2>1. link = "listed" /\ piece = 0 => Ended(wire)
    BY <1>0 DEF WriterInPlace, Ended
  <2>2. piece # 0 => wire # << >> /\ wire[m] = [msg |-> Head(todo), k |-> piece - 1]
    <3> SUFFICES ASSUME piece # 0
                 PROVE  wire # << >> /\ wire[m] = [msg |-> Head(todo), k |-> piece - 1]
      OBVIOUS
    <3>1. s[Len(s)] = [msg |-> Head(todo), k |-> piece - 1]
      BY <1>0 DEF WriterInPlace
    <3>2. todo # << >> /\ piece <= Size(Head(todo)) /\ Size(Head(todo)) \in 1..2 /\ piece \in Nat
      BY <1>0, SizeOfMessage DEF WriterInPlace, TypeOK
    <3>3. s[Len(s)].k # Size(s[Len(s)].msg)
      BY <3>1, <3>2
    <3>4. wire # << >>
      BY <1>3, <1>6, <3>3
    <3> QED
      BY <3>1, <3>4
  <2> QED
    BY <1>0, <1>1, <2>1, <2>2 DEF WriterInPlace, sender
<1>8. ReaderInPlace' /\ FreshConnection' /\ GreetingFits' /\ TypeOK'
  BY <1>0, <1>1 DEF ReaderInPlace, FreshConnection, GreetingFits, TypeOK, sender
<1> QED
  BY <1>4, <1>5, <1>7, <1>8 DEF LinkInv

\* No write of a greeting meets a full buffer.
LEMMA FullBuffer ==
  ASSUME TypeOK, WriterInPlace, GreetingFits, todo # << >>, Len(wire) = Buffer
  PROVE  ~greeting
<1>1. /\ piece <= Size(Head(todo)) /\ Size(Head(todo)) \in 1..2 /\ piece \in Nat
      /\ Len(wire) \in Nat
  BY SizeOfMessage DEF WriterInPlace, TypeOK
<1>2. Len(wire) > 2 + piece
  BY <1>1
<1> QED
  BY <1>1 DEF GreetingFits

\* Every step keeps the inductive invariant.
LEMMA LinkStep ==
  ASSUME LinkInv, [Next]_vars
  PROVE  LinkInv'
<1> USE DEF sender, client
<1>0. /\ TypeOK /\ Framed(got \o wire) /\ WriterInPlace /\ GreetingFits /\ ReaderInPlace
      /\ FreshConnection
  BY DEF LinkInv
<1>1. Messages \subseteq Nat /\ 0 \in Messages /\ << >> \in Seq(Messages)
  BY DEF Messages
<1>2. CASE AppStarts
  <2>1. todo = << >>
    BY <1>0, <1>2 DEF AppStarts, WriterInPlace
  <2> QED
    BY <1>1, <1>2 DEF AppStarts, LinkInv, TypeOK, WriterInPlace, GreetingFits, ReaderInPlace,
       FreshConnection
<1>3. CASE AppCrashes \/ AppDropsClient
  <2>1. /\ todo' = << >> /\ piece' = 0 /\ greeting' = FALSE /\ app' \in {"up", "down"}
        /\ link' # "listed" /\ link' # "backlog" /\ link' \in {"none", "closed"}
        /\ (link' = "none" <=> link = "none")
        /\ UNCHANGED <<current, latest, sends, wire, client>>
    BY <1>0, <1>3 DEF AppCrashes, AppDropsClient, HungUp, TypeOK
  <2>2. Len(todo') = 0
    BY <2>1
  <2>3. TypeOK'
    BY <1>0, <1>1, <2>1 DEF TypeOK
  <2>4. WriterInPlace' /\ GreetingFits'
    BY <2>1 DEF WriterInPlace, GreetingFits
  <2>5. ReaderInPlace' /\ FreshConnection'
    BY <1>0, <2>1 DEF ReaderInPlace, FreshConnection
  <2> QED
    BY <2>1, <2>3, <2>4, <2>5 DEF LinkInv
<1>4. CASE Broadcast
  <2>1. PICK isMap \in BOOLEAN :
          /\ latest' = IF isMap THEN sends + 1 ELSE latest
          /\ current' = IF isMap /\ sends + 1 \notin Empties THEN sends + 1 ELSE current
          /\ todo' = IF link = "listed" THEN << IF isMap THEN sends + 1 ELSE 0 >> ELSE << >>
    BY <1>4 DEF Broadcast, Caches
  <2> DEFINE m == IF isMap THEN sends + 1 ELSE 0
  <2>2. /\ app = "up" /\ todo = << >> /\ sends' = sends + 1 /\ sends < MaxSends
        /\ UNCHANGED <<app, piece, greeting, faults, link, wire, client>>
    BY <1>4 DEF Broadcast
  <2>3. sends' \in Messages /\ current' \in Messages /\ latest' \in Messages /\ m \in Messages
    BY <1>0, <2>1, <2>2 DEF TypeOK, Messages
  <2>4. ~greeting /\ piece = 0
    <3>1. Len(todo) = 0
      BY <2>2
    <3> QED
      BY <1>0, <3>1 DEF GreetingFits, WriterInPlace
  <2> HIDE DEF m
  <2>5. /\ todo' \in Seq(Messages) /\ Len(todo') <= 1
        /\ todo' # << >> => link = "listed" /\ Head(todo') = m
    BY <2>1, <2>3 DEF m
  <2>6. WriterInPlace'
    <3>1. 0 <= Size(m)
      BY <2>3, SizeOfMessage
    <3> QED
      BY <1>0, <2>2, <2>5, <3>1 DEF WriterInPlace
  <2>7. TypeOK' /\ GreetingFits' /\ ReaderInPlace' /\ FreshConnection'
    BY <1>0, <2>2, <2>3, <2>5 DEF TypeOK, GreetingFits, ReaderInPlace, FreshConnection
  <2> QED
    BY <2>2, <2>6, <2>7 DEF LinkInv
<1>5. CASE Accept
  <2>1. /\ app = "up" /\ link = "backlog" /\ todo = << >> /\ link' = "listed" /\ greeting' = TRUE
        /\ todo' = IF current = 0 THEN <<0>> ELSE <<0, current>>
        /\ UNCHANGED <<app, current, latest, piece, sends, faults, wire, client>>
    BY <1>5 DEF Accept
  <2>2. wire = << >> /\ got = << >> /\ piece = 0
    BY <1>0, <2>1 DEF FreshConnection, WriterInPlace
  <2>3. /\ todo' \in Seq(Messages) /\ Head(todo') = 0 /\ Len(todo') \in {1, 2} /\ Len(wire) = 0
        /\ got \o wire = << >> /\ 0 <= Size(0)
    BY <1>0, <2>1, <2>2, SizeOfMessage DEF TypeOK
  <2>4. WriterInPlace'
    BY <2>1, <2>2, <2>3 DEF WriterInPlace, Ended
  <2>5. GreetingFits'
    BY <2>1, <2>2 DEF GreetingFits
  <2>6. TypeOK' /\ ReaderInPlace' /\ FreshConnection'
    BY <1>0, <2>1, <2>3 DEF TypeOK, ReaderInPlace, FreshConnection
  <2> QED
    BY <2>1, <2>4, <2>5, <2>6 DEF LinkInv
<1>6. CASE WritePiece
  BY <1>6, WriteStep
<1>7. CASE WriteFails
  <2>1. /\ todo # << >> /\ Len(wire) = Buffer /\ todo' = Tail(todo) /\ piece' = 0
        /\ greeting' = (greeting /\ todo' # << >>)
        /\ link' = IF greeting THEN link ELSE "closed"
        /\ UNCHANGED <<app, current, latest, sends, faults, wire, client>>
    BY <1>7 DEF WriteFails
  <2>2. ~greeting
    BY <1>0, <2>1, FullBuffer
  <2>3. todo' = << >> /\ Len(todo') = 0
    <3>1. Len(todo) = 1
      BY <1>0, <2>1, <2>2, Types DEF GreetingFits
    <3> QED
      BY <1>0, <2>1, <3>1 DEF TypeOK
  <2>4. link' = "closed" /\ greeting' = FALSE /\ link = "listed"
    BY <1>0, <2>1, <2>2 DEF WriterInPlace
  <2>5. TypeOK' /\ WriterInPlace' /\ GreetingFits'
    BY <1>0, <2>1, <2>4 DEF TypeOK, WriterInPlace, GreetingFits
  <2>6. ReaderInPlace' /\ FreshConnection'
    BY <1>0, <2>1 DEF ReaderInPlace, FreshConnection
  <2> QED
    BY <2>1, <2>5, <2>6 DEF LinkInv
<1>8. CASE Connect \/ Wake
  <2>1. /\ link = "none" /\ link' \in {"none", "backlog"} /\ pc' \in {"connect", "sleep", "read"}
        /\ (pc' \in {"connect", "sleep"} <=> link' = "none")
        /\ UNCHANGED <<got, handled, wire, sender>>
    BY <1>0, <1>8 DEF Connect, Wake, FreshConnection
  <2>2. got = << >> /\ wire = << >> /\ todo = << >>
    BY <1>0, <2>1 DEF FreshConnection, WriterInPlace
  <2>3. TypeOK' /\ WriterInPlace' /\ GreetingFits'
    BY <1>0, <2>1 DEF TypeOK, WriterInPlace, GreetingFits
  <2>4. ReaderInPlace' /\ FreshConnection'
    BY <1>0, <2>1 DEF ReaderInPlace, FreshConnection
  <2> QED
    BY <2>1, <2>3, <2>4 DEF LinkInv
<1>9. CASE ReadPiece
  BY <1>9, ReadStep
<1>10. CASE HandleMessage
  BY <1>10, HandleStep
<1>11. CASE LoseConnection
  <2>1. /\ wire = << >> /\ link = "closed" /\ link' = "none" /\ pc' = "sleep" /\ got' = << >>
        /\ UNCHANGED <<handled, wire, sender>>
    BY <1>11 DEF LoseConnection
  <2>2. todo = << >> /\ piece = 0 /\ << >> \in Seq(Piece) /\ got' \o wire' = << >> /\ Len(<< >>) = 0
    BY <1>0, <2>1 DEF WriterInPlace
  <2>3. TypeOK' /\ WriterInPlace' /\ GreetingFits'
    BY <1>0, <2>1 DEF TypeOK, WriterInPlace, GreetingFits
  <2>4. ReaderInPlace' /\ FreshConnection' /\ Framed(got' \o wire')
    BY <2>1 DEF ReaderInPlace, FreshConnection, Framed
  <2> QED
    BY <2>3, <2>4 DEF LinkInv
<1>12. CASE UNCHANGED vars
  BY <1>12 DEF vars, LinkInv, TypeOK, WriterInPlace, GreetingFits, ReaderInPlace, FreshConnection
<1> QED
  BY <1>2, <1>3, <1>4, <1>5, <1>6, <1>7, <1>8, <1>9, <1>10, <1>11, <1>12 DEF Next, Writing,
     RunLoop

\* Whatever is cut, fails or is read in pieces: the app writes and the driver
\* reads whole messages, in place (GLA_Socket.h:39-74, GLA_IPCServer.h:113-130).
THEOREM LinkInvariant == Spec => []LinkInv
<1>1. Init => LinkInv
  <2> SUFFICES ASSUME Init PROVE LinkInv
    OBVIOUS
  <2>1. /\ << >> \in Seq(Messages) /\ << >> \in Seq(Piece) /\ got \o wire = << >> /\ Len(<< >>) = 0
        /\ 0 \in Messages
    BY DEF Init, Messages
  <2>2. TypeOK
    BY <2>1 DEF Init, TypeOK
  <2>3. Framed(got \o wire) /\ WriterInPlace /\ GreetingFits /\ ReaderInPlace /\ FreshConnection
    BY DEF Init, Framed, WriterInPlace, GreetingFits, ReaderInPlace, FreshConnection
  <2> QED
    BY <2>2, <2>3 DEF LinkInv
<1>2. LinkInv /\ [Next]_vars => LinkInv'
  BY LinkStep
<1> QED
  BY <1>1, <1>2, PTL DEF Spec

\* The driver handles whole messages only, however many connections are lost and
\* writes fail (GLA_Socket.h:39-74).
THEOREM HandlesWholeMessages == Spec => []WholeMessages
<1>1. LinkInv => WholeMessages
  <2> SUFFICES ASSUME LinkInv, pc = "handle"
               PROVE  got = Pieces(got[1].msg)
    BY DEF WholeMessages
  <2> DEFINE m == got[1].msg
  <2>1. got \in Seq(Piece) /\ Len(got) = Size(m) + 1 /\ \A i \in 1..Len(got) : got[i] = [msg |-> m, k |-> i - 1]
    BY DEF LinkInv, TypeOK, ReaderInPlace
  <2>2. got = [i \in 1..(Size(m) + 1) |-> got[i]]
    BY <2>1
  <2> HIDE DEF m
  <2> QED
    BY <2>1, <2>2 DEF Pieces, m
<1> QED
  BY <1>1, LinkInvariant, PTL

-----------------------------------------------------------------------------
(* Link implements Channel, step by step                                   *)

LEMMA EndsIsSeq ==
  ASSUME NEW s \in Seq(Piece)
  PROVE  s \in Seq(Pieced) /\ Ends(s) \in Seq(Nat)
<1>1. Piece \subseteq Pieced
  BY DEF Piece, Pieced, Messages
<1>2. s \in Seq(Pieced)
  BY <1>1
<1>3. PICK f : Adds(s, Len(s), f) /\ Ends(s) = f[Len(s)]
  BY <1>2, EndsAdds
<1>4. Len(s) \in 0..Len(s)
  OBVIOUS
<1> QED
  BY <1>2, <1>3 DEF Adds

\* What the next piece adds.
LEMMA EndsNext ==
  ASSUME NEW s \in Seq(Piece), NEW p \in Piece
  PROVE  Ends(Append(s, p)) = IF p.k = Size(p.msg) THEN Append(Ends(s), p.msg) ELSE Ends(s)
<1>1. <<p>> \in Seq(Piece) /\ Append(s, p) = s \o <<p>> /\ p.msg \in Nat /\ Len(<<p>>) = 1
  BY DEF Piece, Messages
<1>2. PICK f : Adds(<<p>>, 1, f) /\ Ends(<<p>>) = f[1]
  BY <1>1, EndsAdds, EndsIsSeq
<1>3. f[1] = IF p.k = Size(p.msg) THEN Append(<< >>, p.msg) ELSE << >>
  BY <1>2 DEF Adds
<1>4. Ends(s \o <<p>>) = Ends(s) \o Ends(<<p>>) /\ Ends(s) \in Seq(Nat)
  BY <1>1, EndsConcat, EndsIsSeq
<1>5. Ends(s) \o Append(<< >>, p.msg) = Append(Ends(s), p.msg) /\ Ends(s) \o << >> = Ends(s)
  OBVIOUS
<1> QED
  BY <1>1, <1>2, <1>3, <1>4, <1>5

\* What is sent and not handled, in order.
Underway == Arriving \o todo

LEMMA UnderwayTypes ==
  ASSUME LinkInv
  PROVE  /\ Arriving \in Seq(Nat) /\ todo \in Seq(Nat) /\ Underway \in Seq(Nat)
         /\ Arriving \o << >> = Arriving
         /\ Arriving \in C!Prefixes(Underway)
<1>1. Arriving \in Seq(Nat)
  BY Types, EndsIsSeq DEF LinkInv, Arriving
<1>2. todo \in Seq(Nat)
  <2>1. Messages \subseteq Nat
    BY DEF Messages
  <2> QED
    BY <2>1, SeqMonotonic DEF LinkInv, TypeOK
<1>3. Underway \in Seq(Nat) /\ Arriving \o << >> = Arriving
  BY <1>1, <1>2 DEF Underway
<1>4. /\ Arriving = SubSeq(Underway, 1, Len(Arriving))
      /\ Len(Arriving) \in 0..Len(Underway)
  BY <1>1 DEF Underway
<1>5. Arriving \in C!Prefixes(Underway)
  BY <1>4 DEF C!Prefixes
<1> QED
  BY <1>1, <1>2, <1>3, <1>5

\* A connection that is cut keeps a prefix of what was underway.
LEMMA CutKeeps ==
  ASSUME LinkInv, todo' = << >>, UNCHANGED <<got, wire>>
  PROVE  Underway' \in C!Prefixes(Underway)
<1>1. Underway' = Arriving \o << >>
  BY DEF Underway, Arriving
<1> QED
  BY <1>1, UnderwayTypes

\* Every step is a step of the channel, or none.
LEMMA ChannelStep ==
  ASSUME LinkInv, [Next]_vars
  PROVE  [C!Next]_(C!channel)
<1> USE DEF sender, client
<1>0. /\ TypeOK /\ WriterInPlace /\ GreetingFits /\ ReaderInPlace /\ FreshConnection
      /\ got \in Seq(Piece) /\ wire \in Seq(Piece)
      /\ Arriving \in Seq(Nat) /\ todo \in Seq(Nat) /\ Arriving \o << >> = Arriving
  BY UnderwayTypes DEF LinkInv, TypeOK
<1>1. ASSUME UNCHANGED <<app, current, link>>, Underway' = Underway
      PROVE  UNCHANGED C!channel
  BY <1>1 DEF C!channel, Underway
<1>2. CASE AppStarts
  <2>1. C!Start
    BY <1>2 DEF AppStarts, C!Start, Arriving
  <2> QED
    BY <2>1 DEF C!Next
<1>3. CASE AppCrashes
  <2>1. Underway' \in C!Prefixes(Underway)
    BY <1>3, CutKeeps DEF AppCrashes
  <2>2. C!Crash
    BY <1>3, <2>1 DEF AppCrashes, HungUp, Underway, C!Crash, C!Cut
  <2> QED
    BY <2>2 DEF C!Next
<1>4. CASE AppDropsClient
  <2>1. Underway' \in C!Prefixes(Underway)
    BY <1>4, CutKeeps DEF AppDropsClient
  <2>2. C!Drop
    BY <1>4, <2>1 DEF AppDropsClient, Underway, C!Drop, C!Cut
  <2> QED
    BY <2>2 DEF C!Next
<1>5. CASE Broadcast
  <2>1. PICK isMap \in BOOLEAN :
          /\ current' = IF isMap /\ sends + 1 \notin Empties THEN sends + 1 ELSE current
          /\ todo' = IF link = "listed" THEN << IF isMap THEN sends + 1 ELSE 0 >> ELSE << >>
    BY <1>5 DEF Broadcast, Caches
  <2> DEFINE m == IF isMap THEN sends + 1 ELSE 0
  <2>2. /\ app = "up" /\ todo = << >> /\ sends < MaxSends
        /\ UNCHANGED <<app, link, wire, client>>
    BY <1>5 DEF Broadcast
  <2>3. Arriving' = Arriving
    BY <2>2 DEF Arriving
  <2>4. Underway = Arriving /\ Arriving \o <<m>> = Append(Arriving, m)
    BY <2>2 DEF Underway
  <2>5. Underway' = IF link = "listed" THEN Append(Underway, m) ELSE Underway
    BY <2>1, <2>3, <2>4 DEF Underway
  <2>6. CASE isMap
    <3>1. sends + 1 \in 1..MaxSends
      BY <1>0, <2>2 DEF TypeOK, Messages
    <3>2. C!BroadcastMap(sends + 1)
      BY <2>1, <2>2, <2>5, <2>6, <3>1 DEF C!BroadcastMap, C!Send, Underway
    <3> QED
      BY <3>1, <3>2 DEF C!Next
  <2>7. CASE ~isMap
    <3>1. C!BroadcastOther
      BY <2>1, <2>2, <2>5, <2>7 DEF C!BroadcastOther, C!Send, Underway
    <3> QED
      BY <3>1 DEF C!Next
  <2> QED
    BY <2>6, <2>7
<1>6. CASE Accept
  <2>1. /\ app = "up" /\ link = "backlog" /\ link' = "listed"
        /\ todo' = IF current = 0 THEN <<0>> ELSE <<0, current>>
        /\ UNCHANGED <<app, current, wire, client>>
    BY <1>6 DEF Accept
  <2>2. Arriving' = << >>
    <3>1. got \o wire = << >> /\ got' \o wire' = got \o wire
      BY <1>0, <2>1 DEF FreshConnection
    <3> QED
      BY <3>1, NothingEnds DEF Arriving
  <2>3. Underway' = todo'
    BY <2>2 DEF Underway
  <2>4. todo' = <<0>> \o IF current = 0 THEN << >> ELSE <<current>>
    <3>1. current \in Nat
      BY <1>0 DEF TypeOK, Messages
    <3>2. <<0>> \o << >> = <<0>>
      OBVIOUS
    <3>3. <<0>> \o <<current>> = <<0, current>>
      <4> DEFINE s == <<0>> \o <<current>>
                 t == <<0, current>>
      <4>1. s \in Seq(Nat) /\ Len(s) = 2 /\ s[1] = 0 /\ s[2] = current
        BY <3>1
      <4>2. t \in Seq(Nat) /\ Len(t) = 2 /\ t[1] = 0 /\ t[2] = current
        BY <3>1
      <4> HIDE DEF s, t
      <4>3. s = t
        BY <4>1, <4>2
      <4> QED
        BY <4>3 DEF s, t
    <3> QED
      BY <2>1, <3>2, <3>3
  <2>5. C!Accept
    BY <2>1, <2>3, <2>4 DEF C!Accept, Underway
  <2> QED
    BY <2>5 DEF C!Next
<1>7. CASE WritePiece
  <2> DEFINE m == Head(todo)
             p == [msg |-> m, k |-> piece]
  <2>1. /\ todo # << >> /\ wire' = Append(wire, p)
        /\ todo' = IF piece = Size(m) THEN Tail(todo) ELSE todo
        /\ UNCHANGED <<app, current, link, client>>
    BY <1>7 DEF WritePiece
  <2>2. p \in Piece
    BY <1>0, <2>1 DEF TypeOK, Piece
  <2>3. Arriving' = IF piece = Size(m) THEN Append(Arriving, m) ELSE Arriving
    <3>1. got \o wire \in Seq(Piece) /\ got' \o wire' = Append(got \o wire, p)
      <4> HIDE DEF p
      <4> QED
        BY <1>0, <2>1
    <3>2. Ends(Append(got \o wire, p))
            = IF p.k = Size(p.msg) THEN Append(Ends(got \o wire), p.msg) ELSE Ends(got \o wire)
      <4> HIDE DEF p
      <4> QED
        BY <2>2, <3>1, EndsNext
    <3>3. p.k = piece /\ p.msg = m
      OBVIOUS
    <3> QED
      BY <3>1, <3>2 DEF Arriving
  <2>4. Append(Arriving, m) \o Tail(todo) = Arriving \o todo
    <3>1. m \in Nat /\ Tail(todo) \in Seq(Nat) /\ todo = <<m>> \o Tail(todo)
          /\ Append(Arriving, m) = Arriving \o <<m>> /\ <<m>> \in Seq(Nat)
      BY <1>0, <2>1
    <3>2. (Arriving \o <<m>>) \o Tail(todo) = Arriving \o (<<m>> \o Tail(todo))
      BY <3>1
    <3> QED
      BY <3>1, <3>2
  <2>5. Underway' = Underway
    BY <2>1, <2>3 DEF Underway
  <2> QED
    BY <1>1, <2>1, <2>5
<1>8. CASE WriteFails
  <2>1. /\ todo # << >> /\ Len(wire) = Buffer /\ todo' = Tail(todo)
        /\ link' = IF greeting THEN link ELSE "closed"
        /\ UNCHANGED <<app, current, wire, client>>
    BY <1>8 DEF WriteFails
  <2>2. ~greeting
    BY <1>0, <2>1, FullBuffer
  <2>3. todo' = << >>
    <3>1. Len(todo) = 1
      BY <1>0, <2>1, <2>2, Types DEF GreetingFits
    <3> QED
      BY <1>0, <2>1, <3>1
  <2>4. Underway' \in C!Prefixes(Underway)
    BY <2>1, <2>3, CutKeeps
  <2>5. C!Drop
    BY <1>0, <2>1, <2>2, <2>4 DEF WriterInPlace, Underway, C!Drop, C!Cut
  <2> QED
    BY <2>5 DEF C!Next
<1>9. CASE Connect
  <2>1. Underway' = Underway /\ UNCHANGED <<app, current>> /\ link = "none"
    BY <1>0, <1>9 DEF Connect, Underway, Arriving, FreshConnection
  <2>2. CASE link' = "backlog" /\ app = "up"
    <3>1. C!Connect
      BY <2>1, <2>2 DEF C!Connect, Underway
    <3> QED
      BY <3>1 DEF C!Next
  <2>3. CASE UNCHANGED link
    BY <1>1, <2>1, <2>3
  <2> QED
    BY <1>9, <2>2, <2>3 DEF Connect
<1>10. CASE Wake
  BY <1>1, <1>10 DEF Wake, Underway, Arriving
<1>11. CASE ReadPiece
  <2>1. wire # << >> /\ got' = Append(got, Head(wire)) /\ wire' = Tail(wire)
        /\ UNCHANGED <<link, sender>>
    BY <1>11 DEF ReadPiece
  <2>2. got' \o wire' = got \o wire
    BY <2>1
  <2>3. Underway' = Underway
    BY <2>1, <2>2 DEF Underway, Arriving
  <2> QED
    BY <1>1, <2>1, <2>3
<1>12. CASE HandleMessage
  <2>1. pc = "handle" /\ got' = << >> /\ UNCHANGED <<link, wire, sender>>
    BY <1>12 DEF HandleMessage
  <2> DEFINE m == got[1].msg
             rest == Ends(wire) \o todo
  <2>2. Ends(got) = <<m>> /\ m \in Nat
    <3>1. Len(got) = Size(m) + 1 /\ \A i \in 1..Len(got) : got[i] = [msg |-> m, k |-> i - 1]
      BY <1>0, <2>1 DEF ReaderInPlace
    <3>2. m \in Nat
      <4>1. Len(got) \in Nat /\ Len(got) >= 1
        BY <1>0, <2>1 DEF ReaderInPlace
      <4>2. got[1] \in Piece
        BY <1>0, <4>1
      <4> QED
        BY <4>2 DEF Piece, Messages
    <3> HIDE DEF m
    <3> QED
      BY <1>0, <3>1, <3>2, EndsOfPieces, EndsIsSeq
  <2>3. Ends(wire) \in Seq(Nat) /\ rest \in Seq(Nat)
    BY <1>0, EndsIsSeq
  <2>4. Arriving = <<m>> \o Ends(wire)
    BY <1>0, <2>2, EndsConcat, EndsIsSeq DEF Arriving
  <2>5. Underway = <<m>> \o rest
    BY <2>4 DEF Underway
  <2>6. Underway # << >> /\ Tail(Underway) = rest
    <3> HIDE DEF rest, m
    <3> QED
      BY <2>3, <2>5
  <2>7. Underway' = rest
    <3>1. got' \o wire' = wire
      BY <2>1
    <3> QED
      BY <2>1 DEF Underway, Arriving
  <2>8. C!Deliver
    BY <2>1, <2>6, <2>7 DEF C!Deliver, Underway
  <2> QED
    BY <2>8 DEF C!Next
<1>13. CASE LoseConnection
  <2>1. /\ wire = << >> /\ link = "closed" /\ link' = "none" /\ got' = << >> /\ pc = "read"
        /\ UNCHANGED <<handled, wire, sender>>
    BY <1>13 DEF LoseConnection
  <2>2. todo = << >> /\ got \o wire = got /\ got' \o wire' = << >>
    BY <1>0, <2>1 DEF WriterInPlace
  <2>3. Ends(<< >>) = << >>
    BY NothingEnds
  <2>4. Ends(got) = << >>
    <3>1. CASE got = << >>
      BY <2>3, <3>1
    <3>2. CASE got # << >>
      <4> DEFINE m == got[1].msg
      <4>1. Len(got) <= Size(m) /\ \A i \in 1..Len(got) : got[i] = [msg |-> m, k |-> i - 1]
        BY <1>0, <2>1, <3>2 DEF ReaderInPlace
      <4>2. m \in Nat
        <5>1. got[1] \in Piece
          BY <1>0, <3>2
        <5> QED
          BY <5>1 DEF Piece, Messages
      <4> HIDE DEF m
      <4> QED
        BY <1>0, <4>1, <4>2, EndsOfPieces, EndsIsSeq
    <3> QED
      BY <3>1, <3>2
  <2>5. Underway = << >> /\ Underway' = << >>
    BY <2>1, <2>2, <2>3, <2>4 DEF Underway, Arriving
  <2>6. C!Lose
    BY <2>1, <2>5 DEF C!Lose, Underway
  <2> QED
    BY <2>6 DEF C!Next
<1>14. CASE UNCHANGED vars
  BY <1>1, <1>14 DEF vars, Underway, Arriving
<1> QED
  BY <1>2, <1>3, <1>4, <1>5, <1>6, <1>7, <1>8, <1>9, <1>10, <1>11, <1>12, <1>13, <1>14 DEF Next,
     Writing, RunLoop

\* Pieces, failing writes, crashes and pauses do no more than the channel allows:
\* messages arrive in order, only the last of a connection are lost, and a
\* newcomer is greeted with the map (the safety part of IsChannel).
THEOREM ImplementsChannel == Spec => C!Init /\ [][C!Next]_(C!channel)
<1>1. Init => C!Init
  <2> SUFFICES ASSUME Init PROVE C!Init
    OBVIOUS
  <2>1. got \o wire = << >>
    BY DEF Init
  <2> QED
    BY NothingEnds DEF Init, C!Init, Arriving
<1>2. LinkInv /\ [Next]_vars => [C!Next]_(C!channel)
  BY ChannelStep
<1> QED
  BY <1>1, <1>2, LinkInvariant, PTL DEF Spec
=============================================================================
