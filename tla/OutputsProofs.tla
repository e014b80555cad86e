--------------------------- MODULE OutputsProofs ---------------------------
(***************************************************************************)
(* Theorems about Outputs: what a snapshot or an executable loads and      *)
(* starts with, and why a file is refused.                                 *)
(***************************************************************************)
EXTENDS Outputs, SequenceTheorems, FiniteSetTheorems, WellFoundedInduction, TLAPS

-----------------------------------------------------------------------------
(* Least elements and multiples.                                           *)

\* A set of naturals that is not empty has a least one.
LEMMA LeastIs ==
  ASSUME NEW T \in SUBSET Nat, T # {}
  PROVE  \E m \in T : \A i \in T : m <= i
<1> DEFINE R == OpToRel(<, Nat)
<1>1. PICK m \in T : \A i \in T : ~(<<i, m>> \in R)
  <2>1. IsWellFoundedOn(R, Nat)
    BY NatLessThanWellFounded, Zenon
  <2> HIDE DEF R
  <2> QED BY <2>1, WFMin
<1>2. \A i \in T : ~(i < m)
  BY <1>1 DEF OpToRel
<1> QED BY <1>2

\* Multiples of a size, in a row.
LEMMA Multiples ==
  ASSUME NEW size \in Nat, NEW m \in Nat, NEW j \in 1..m
  PROVE  /\ m * size \in Nat /\ (j - 1) * size \in Nat
         /\ (m - 1) * size + size = m * size /\ (j - 1) * size + size = j * size
         /\ j # m => j * size <= (m - 1) * size
<1>1. j * size \in Nat /\ m * size \in Nat /\ (m - 1) * size \in Nat /\ (j - 1) * size \in Nat
  OBVIOUS
<1>2. (m - 1) * size + size = m * size /\ (j - 1) * size + size = j * size
  OBVIOUS
<1>3. ASSUME j # m PROVE j * size <= (m - 1) * size
  <2>1. PICK d \in Nat : m - 1 = j + d
    BY <1>3
  <2>2. (m - 1) * size = j * size + d * size /\ d * size \in Nat
    BY <2>1
  <2> QED BY <1>1, <2>2
<1> QED BY <1>1, <1>2, <1>3

\* A multiple of a size below m sizes is one of the first m.
LEMMA MultipleIs ==
  ASSUME NEW size \in Nat \ {0}, NEW m \in Nat, NEW x \in Nat, x < m * size, x % size = 0
  PROVE  \E j \in 1..m : x = (j - 1) * size
<1>1. PICK q \in Int : x = q * size
  <2>1. x = size * (x \div size) + (x % size) /\ x \div size \in Int
    OBVIOUS
  <2> QED BY <2>1
<1>2. q >= 0
  <2>1. CASE q < 0
    <3>1. PICK e \in Nat : q = -1 - e
      BY <2>1
    <3>2. q * size = 0 - size - e * size /\ e * size \in Nat
      BY <3>1
    <3> QED BY <1>1, <3>2
  <2> QED BY <2>1
<1>3. q < m
  <2>1. CASE q >= m
    <3>1. PICK e \in Nat : q = m + e
      BY <1>1, <2>1
    <3>2. q * size = m * size + e * size /\ e * size \in Nat /\ m * size \in Nat
      BY <3>1
    <3> QED BY <1>1, <3>2
  <2> QED BY <1>1, <2>1
<1>4. q + 1 \in 1..m /\ q = (q + 1) - 1
  BY <1>1, <1>2, <1>3
<1> QED BY <1>1, <1>4

\* A multiple leaves no remainder.
LEMMA MultipleOf ==
  ASSUME NEW size \in Nat \ {0}, NEW q \in Nat
  PROVE  (q * size) % size = 0
<1>1. \A i \in Int : (size * i) % size = 0
  OBVIOUS
<1>2. q * size = size * q
  OBVIOUS
<1> QED BY <1>1, <1>2

-----------------------------------------------------------------------------
(* Sequences of sequences.                                                 *)

Rec(seqs, g, m) == g = [i \in 1..m |-> IF i = 1 THEN seqs[i] ELSE g[i - 1] \o seqs[i]]

\* The recursion inside FlattenSeq has a function that satisfies it.
LEMMA RecExists ==
  ASSUME NEW seqs, NEW m \in Nat
  PROVE  \E g : Rec(seqs, g, m)
<1> DEFINE T == {i \in Nat : ~\E g : Rec(seqs, g, i)}
<1>1. CASE T = {}
  BY <1>1
<1>2. CASE T # {}
  <2>1. PICK i \in T : \A j \in T : i <= j
    <3> HIDE DEF T
    <3>1. T \in SUBSET Nat
      BY DEF T
    <3> QED BY <1>2, <3>1, LeastIs
  <2>2. CASE i = 0
    <3> DEFINE g == [x \in {} |-> 0]
    <3>1. Rec(seqs, g, 0)
      BY DEF Rec
    <3> QED BY <2>2, <3>1
  <2>3. CASE i # 0
    <3>1. i - 1 \in Nat /\ i - 1 \notin T
      BY <2>1, <2>3
    <3>2. PICK g : Rec(seqs, g, i - 1)
      BY <3>1
    <3> DEFINE h == [x \in 1..i |-> IF x = 1 THEN seqs[x] ELSE g[x - 1] \o seqs[x]]
    <3>3. \A x \in 1..i - 1 : h[x] = g[x]
      <4> TAKE x \in 1..i - 1
      <4>1. x \in 1..i
        BY <2>1
      <4>2. g[x] = IF x = 1 THEN seqs[x] ELSE g[x - 1] \o seqs[x]
        BY <3>2, Zenon DEF Rec
      <4>3. h[x] = IF x = 1 THEN seqs[x] ELSE g[x - 1] \o seqs[x]
        BY <4>1
      <4> QED BY <4>2, <4>3
    <3>4. \A x \in 1..i : h[x] = IF x = 1 THEN seqs[x] ELSE h[x - 1] \o seqs[x]
      <4> TAKE x \in 1..i
      <4>1. x # 1 => x - 1 \in 1..i - 1
        BY <2>1
      <4>2. x # 1 => h[x - 1] = g[x - 1]
        BY <3>3, <4>1
      <4> QED BY <4>2
    <3>5. Rec(seqs, h, i)
      BY <3>4 DEF Rec
    <3> QED BY <2>1, <3>5
  <2> QED BY <2>2, <2>3
<1> QED BY <1>1, <1>2

\* FlattenSeq is the last value of that function.
LEMMA FlattenRec ==
  ASSUME NEW seqs, Len(seqs) \in Nat, Len(seqs) # 0
  PROVE  \E g : Rec(seqs, g, Len(seqs)) /\ FlattenSeq(seqs) = g[Len(seqs)]
<1>1. \E g : Rec(seqs, g, Len(seqs))
  BY RecExists
<1> QED BY <1>1, Zenon DEF FlattenSeq, Rec

\* Sequences of one length, one after another.
LEMMA FlattenIs ==
  ASSUME NEW S, NEW seqs \in Seq(Seq(S)), Len(seqs) # 0, NEW size \in Nat, \A j \in 1..Len(seqs) : Len(seqs[j]) = size
  PROVE  /\ FlattenSeq(seqs) \in Seq(S) /\ Len(FlattenSeq(seqs)) = Len(seqs) * size
         /\ \A j \in 1..Len(seqs) : \A x \in 1..size : FlattenSeq(seqs)[(j - 1) * size + x] = seqs[j][x]
<1> DEFINE m == Len(seqs)
           Good(s, i) == /\ s \in Seq(S) /\ Len(s) = i * size
                         /\ \A j \in 1..i : \A x \in 1..size : s[(j - 1) * size + x] = seqs[j][x]
<1>1. m \in Nat /\ m >= 1 /\ \A j \in 1..m : seqs[j] \in Seq(S)
  BY LenProperties
<1>2. PICK g : Rec(seqs, g, m) /\ FlattenSeq(seqs) = g[m]
  BY <1>1, FlattenRec
<1> DEFINE T == {i \in 1..m : ~Good(g[i], i)}
<1> HIDE DEF m
<1>3. T = {}
  <2>1. SUFFICES ASSUME T # {} PROVE FALSE
    OBVIOUS
  <2>2. PICK i \in T : \A j \in T : i <= j
    <3>1. T \in SUBSET Nat
      BY <1>1
    <3> HIDE DEF T
    <3> QED BY <2>1, <3>1, LeastIs
  <2>3. i \in 1..m /\ i \in Nat
    BY <1>1
  <2>4. g[i] = IF i = 1 THEN seqs[i] ELSE g[i - 1] \o seqs[i]
    BY <1>2, <2>3 DEF Rec
  <2>5. CASE i = 1
    <3>1. g[1] \in Seq(S) /\ Len(g[1]) = size /\ 1 * size = size /\ (1 - 1) * size = 0
      BY <1>1, <2>3, <2>4, <2>5 DEF m
    <3>2. \A j \in 1..1 : \A x \in 1..size : g[1][(j - 1) * size + x] = seqs[j][x]
      <4> TAKE j \in 1..1
      <4> TAKE x \in 1..size
      <4>1. j = 1 /\ (j - 1) * size + x = x
        BY <3>1
      <4> QED BY <2>4, <2>5, <4>1
    <3> QED BY <2>2, <2>5, <3>1, <3>2
  <2>6. CASE i # 1
    <3>1. i - 1 \in 1..m /\ Good(g[i - 1], i - 1)
      <4>1. i - 1 \in 1..m /\ i - 1 \notin T
        BY <1>1, <2>2, <2>3, <2>6
      <4> QED BY <4>1
    <3> DEFINE s == g[i - 1]
               t == seqs[i]
    <3>2. s \in Seq(S) /\ t \in Seq(S) /\ Len(s) = (i - 1) * size /\ Len(t) = size /\ g[i] = s \o t
      BY <1>1, <2>3, <2>4, <2>6, <3>1 DEF m
    <3>3. (i - 1) * size + size = i * size /\ (i - 1) * size \in Nat /\ i * size \in Nat
      BY <2>3, Multiples
    <3>4. \A j \in 1..i - 1 : \A x \in 1..size : s[(j - 1) * size + x] = seqs[j][x]
      BY <3>1
    <3> HIDE DEF s, t
    <3>10. PICK a \in Nat, b \in Nat : a = (i - 1) * size /\ b = i * size /\ b = a + size
      BY <3>3
    <3>11. s \in Seq(S) /\ t \in Seq(S) /\ Len(s) = a /\ Len(t) = size /\ g[i] = s \o t
      BY <3>2, <3>10
    <3>12. b = a + size
      BY <3>10
    <3>5. g[i] \in Seq(S) /\ Len(g[i]) = b /\
          \A y \in 1..b : g[i][y] = IF y <= a THEN s[y] ELSE t[y - a]
      <4>1. s \o t \in Seq(S) /\ Len(s \o t) = Len(s) + Len(t)
            /\ \A y \in 1..Len(s) + Len(t) : (s \o t)[y] = IF y <= Len(s) THEN s[y] ELSE t[y - Len(s)]
        BY <3>11, ConcatProperties
      <4> HIDE DEF s, t
      <4>2. Len(s) + Len(t) = b
        BY <3>11, <3>12
      <4> QED BY <3>11, <4>1, <4>2
    <3>6. \A j \in 1..i : \A x \in 1..size : g[i][(j - 1) * size + x] = seqs[j][x]
      <4> TAKE j \in 1..i
      <4> TAKE x \in 1..size
      <4>1. PICK c \in Nat, d \in Nat : c = (j - 1) * size /\ d = j * size /\ d = c + size
        BY <2>3, Multiples
      <4>5. PICK y \in Nat : y = c + x
        OBVIOUS
      <4>2. CASE j = i
        <5>4. c = a
          BY <3>10, <4>1, <4>2
        <5>1. y \in 1..b /\ ~(y <= a) /\ y - a = x
          BY <3>12, <4>5, <5>4
        <5>2. g[i][y] = t[x]
          BY <3>5, <5>1
        <5> QED BY <4>1, <4>2, <4>5, <5>2 DEF t
      <4>3. CASE j # i
        <5>1. j * size <= (i - 1) * size /\ j \in 1..i - 1
          BY <2>3, <4>3, Multiples
        <5>4. d <= a /\ d = c + size
          BY <3>10, <4>1, <5>1
        <5>2. y \in 1..b /\ y <= a
          BY <3>12, <4>5, <5>4
        <5>3. g[i][y] = s[y]
          BY <3>5, <5>2
        <5> QED BY <3>4, <4>1, <4>5, <5>1, <5>3
      <4> QED BY <4>2, <4>3
    <3> QED BY <2>2, <3>5, <3>6, <3>10
  <2> QED BY <2>5, <2>6
<1>4. m \in 1..m
  BY <1>1
<1>5. Good(g[m], m)
  BY <1>3, <1>4
<1> QED BY <1>2, <1>5 DEF m

-----------------------------------------------------------------------------
(* Pieces, and the cells of the memory they fill.                          *)

PieceSet ==
  {it \in [bank : Bank, start : Nat, bytes : Seq(0..255)] :
     it.start >= 3 * Page /\ it.start + Len(it.bytes) <= 4 * Page /\ Len(it.bytes) # 0}
Offset == 0..(Page - 1)
On(it, b, p) == it.bank = b /\ 3 * Page + p >= it.start /\ 3 * Page + p < it.start + Len(it.bytes)
Puts(it, b, p, v) == On(it, b, p) /\ v = it.bytes[(3 * Page + p) - it.start + 1]
PutBy(s, b, p, v) == \E j \in 1..Len(s) : Puts(s[j], b, p, v)
Has(s, b, p) == \E j \in 1..Len(s) : On(s[j], b, p)
Apart(s) ==
  \A b \in Bank, p \in Offset : \A i, j \in 1..Len(s) : On(s[i], b, p) /\ On(s[j], b, p) => i = j

\* Two sequences of pieces in one.
LEMMA ConcatPieces ==
  ASSUME NEW s \in Seq(PieceSet), NEW t \in Seq(PieceSet)
  PROVE  /\ s \o t \in Seq(PieceSet)
         /\ \A b, p, v : PutBy(s \o t, b, p, v) <=> PutBy(s, b, p, v) \/ PutBy(t, b, p, v)
         /\ Apart(s) /\ Apart(t) /\ (\A b \in Bank, p \in Offset : ~(Has(s, b, p) /\ Has(t, b, p)))
              => Apart(s \o t)
<1> DEFINE u == s \o t
<1>1. /\ u \in Seq(PieceSet) /\ Len(u) = Len(s) + Len(t) /\ Len(s) \in Nat /\ Len(t) \in Nat
      /\ \A i \in 1..Len(s) + Len(t) : u[i] = IF i <= Len(s) THEN s[i] ELSE t[i - Len(s)]
  BY ConcatProperties, LenProperties
<1> HIDE DEF u
<1>2. \A i \in 1..Len(s) : i \in 1..Len(u) /\ u[i] = s[i]
  BY <1>1
<1>3. \A i \in 1..Len(t) : Len(s) + i \in 1..Len(u) /\ u[Len(s) + i] = t[i]
  <2> TAKE i \in 1..Len(t)
  <2> DEFINE y == Len(s) + i
  <2>1. y \in 1..Len(s) + Len(t) /\ ~(y <= Len(s)) /\ y - Len(s) = i
    BY <1>1
  <2> HIDE DEF y
  <2>2. u[y] = t[i] /\ y \in 1..Len(u)
    BY <1>1, <2>1
  <2> QED BY <2>2 DEF y
<1>4. \A i \in 1..Len(u) : \/ i \in 1..Len(s) /\ u[i] = s[i]
                           \/ i - Len(s) \in 1..Len(t) /\ u[i] = t[i - Len(s)]
  BY <1>1
<1>5. ASSUME NEW b, NEW p, NEW v
      PROVE  PutBy(u, b, p, v) <=> PutBy(s, b, p, v) \/ PutBy(t, b, p, v)
  <2>1. PutBy(u, b, p, v) => PutBy(s, b, p, v) \/ PutBy(t, b, p, v)
    BY <1>4, Zenon DEF PutBy
  <2>2. PutBy(s, b, p, v) => PutBy(u, b, p, v)
    BY <1>2, Zenon DEF PutBy
  <2>3. PutBy(t, b, p, v) => PutBy(u, b, p, v)
    BY <1>3, Zenon DEF PutBy
  <2> QED BY <2>1, <2>2, <2>3
<1>6. ASSUME Apart(s), Apart(t), \A b \in Bank, p \in Offset : ~(Has(s, b, p) /\ Has(t, b, p))
      PROVE  Apart(u)
  <2> SUFFICES ASSUME NEW b \in Bank, NEW p \in Offset, NEW i \in 1..Len(u), NEW j \in 1..Len(u),
                      On(u[i], b, p), On(u[j], b, p)
               PROVE  i = j
    BY DEF Apart
  <2>1. CASE i \in 1..Len(s) /\ u[i] = s[i] /\ j \in 1..Len(s) /\ u[j] = s[j]
    BY <1>6, <2>1, Zenon DEF Apart
  <2>2. CASE i - Len(s) \in 1..Len(t) /\ u[i] = t[i - Len(s)] /\ j - Len(s) \in 1..Len(t) /\ u[j] = t[j - Len(s)]
    <3>1. i - Len(s) = j - Len(s)
      BY <1>6, <2>2, Zenon DEF Apart
    <3> QED BY <1>1, <3>1
  <2>3. ~(Has(s, b, p) /\ Has(t, b, p))
    BY <1>6
  <2> QED BY <1>4, <2>1, <2>2, <2>3, Zenon DEF Has
<1> QED BY <1>1, <1>5, <1>6, Zenon DEF u

\* What a piece is on is what it puts something on.
LEMMA HasIs ==
  ASSUME NEW s, NEW b, NEW p
  PROVE  Has(s, b, p) <=> \E v : PutBy(s, b, p, v)
BY DEF Has, PutBy, Puts

\* Max and Min of two integers.
LEMMA Pair2 ==
  ASSUME NEW a \in Int, NEW b \in Int
  PROVE  /\ Max({a, b}) = IF a >= b THEN a ELSE b
         /\ Min({a, b}) = IF a <= b THEN a ELSE b
<1> DEFINE hi == IF a >= b THEN a ELSE b
           lo == IF a <= b THEN a ELSE b
<1>1. hi \in {a, b} /\ \A y \in {a, b} : hi >= y
  OBVIOUS
<1>2. \A x \in {a, b} : (\A y \in {a, b} : x >= y) => x = hi
  OBVIOUS
<1>3. lo \in {a, b} /\ \A y \in {a, b} : lo <= y
  OBVIOUS
<1>4. \A x \in {a, b} : (\A y \in {a, b} : x <= y) => x = lo
  OBVIOUS
<1>5. Max({a, b}) \in {a, b} /\ \A y \in {a, b} : Max({a, b}) >= y
  <2> HIDE DEF hi
  <2> QED BY <1>1, Zenon DEF Max
<1>6. Min({a, b}) \in {a, b} /\ \A y \in {a, b} : Min({a, b}) <= y
  <2> HIDE DEF lo
  <2> QED BY <1>3, Zenon DEF Min
<1> HIDE DEF hi, lo
<1>7. Max({a, b}) = hi
  BY <1>2, <1>5, Zenon
<1>8. Min({a, b}) = lo
  BY <1>4, <1>6, Zenon
<1> QED BY <1>7, <1>8 DEF hi, lo

\* What a file has in a window becomes one piece.
InWindow(w, start, data, b, p, v) ==
  b = w.bank /\ start <= w.lo + p /\ w.lo + p < start + Len(data) /\ v = data[(w.lo + p) - start + 1]

\* Cut is one piece, which puts into its bank just what the window has of the file.
LEMMA CutIs ==
  ASSUME NEW w \in [bank : Bank, lo : Nat, hi : Nat], w.hi = w.lo + Page, NEW start \in Nat, NEW data \in Seq(0..255),
         start + Len(data) > w.lo, start < w.hi, Len(data) # 0
  PROVE  /\ Cut(w, start, data) \in PieceSet
         /\ \A b, v : \A p \in Offset :
              Puts(Cut(w, start, data), b, p, v) <=> InWindow(w, start, data, b, p, v)
<1> DEFINE from == IF start >= w.lo THEN start ELSE w.lo
           to == IF start + Len(data) <= w.hi THEN start + Len(data) ELSE w.hi
           bytes == [j \in 1..to - from |-> data[from - start + j]]
           it == Cut(w, start, data)
<1>1. w.lo \in Nat /\ w.hi \in Nat /\ w.bank \in Bank /\ Len(data) \in Nat /\ Page \in Nat
  BY SnapshotAssumption, LenProperties
<1>2. Max({start, w.lo}) = from /\ Min({start + Len(data), w.hi}) = to
  <2>1. start \in Int /\ w.lo \in Int /\ start + Len(data) \in Int /\ w.hi \in Int
    BY <1>1
  <2> QED BY <2>1, Pair2, Zenon
<1>3. it = [bank |-> w.bank, start |-> from + 3 * Page - w.lo, bytes |-> bytes]
  BY <1>2, Zenon DEF Cut
<1>4. from \in Nat /\ to \in Nat /\ from < to /\ from >= start /\ to <= start + Len(data) /\ from >= w.lo /\ to <= w.lo + Page
  <2>1. Page > 0
    BY SnapshotAssumption
  <2> QED BY <1>1, <2>1
<1>5. \A j \in 1..to - from : from - start + j \in 1..Len(data)
  BY <1>1, <1>4
<1>6. bytes \in Seq(0..255) /\ Len(bytes) = to - from
  <2>1. \A j \in 1..to - from : data[from - start + j] \in 0..255
    <3>1. \A j \in 1..Len(data) : data[j] \in 0..255
      <4>1. data \in [1..Len(data) -> 0..255]
        BY LenProperties, Zenon
      <4> QED BY <4>1
    <3> HIDE DEF from, to
    <3> QED BY <1>5, <3>1
  <2>2. to - from \in Nat
    BY <1>4
  <2> DEFINE size == to - from
             g == [j \in 1..size |-> data[from - start + j]]
  <2>3. size \in Nat /\ \A j \in 1..size : data[from - start + j] \in 0..255
    BY <2>1, <2>2
  <2> HIDE DEF size, from, to
  <2>4. g \in [1..size -> 0..255]
    BY <2>3
  <2>5. g \in Seq(0..255)
    BY <2>3, <2>4
  <2>6. Len(g) = size
    BY <2>3, <2>4, <2>5
  <2> QED BY <2>5, <2>6 DEF size
<1>7. it.bank = w.bank /\ it.start = from + 3 * Page - w.lo /\ it.bytes = bytes
  BY <1>3
<1>8. it \in PieceSet
  <2>1. from + 3 * Page - w.lo \in Nat /\ from + 3 * Page - w.lo >= 3 * Page
        /\ from + 3 * Page - w.lo + (to - from) <= 4 * Page /\ to - from # 0
    BY <1>1, <1>4, SMTT(30)
  <2> HIDE DEF from, to, bytes, it
  <2> QED BY <1>1, <1>3, <1>6, <1>7, <2>1 DEF PieceSet
<1>9. ASSUME NEW b, NEW v, NEW p \in Offset
      PROVE  Puts(it, b, p, v) <=>
               /\ b = w.bank /\ start <= w.lo + p /\ w.lo + p < start + Len(data)
               /\ v = data[(w.lo + p) - start + 1]
  <2>1. p \in Int /\ 0 <= p /\ p < Page
    BY <1>1, <1>9 DEF Offset
  <2>2. On(it, b, p) <=> b = w.bank /\ w.lo + p >= from /\ w.lo + p < to
    <3> HIDE DEF bytes, it, from, to
    <3> QED BY <1>1, <1>4, <1>6, <1>7, <2>1, SMTT(30) DEF On
  <2>3. w.lo + p >= from /\ w.lo + p < to <=> start <= w.lo + p /\ w.lo + p < start + Len(data)
    BY <1>1, <2>1
  <2>4. ASSUME w.lo + p >= from, w.lo + p < to
        PROVE  it.bytes[(3 * Page + p) - it.start + 1] = data[(w.lo + p) - start + 1]
    <3>1. (3 * Page + p) - it.start + 1 = (w.lo + p) - from + 1
      <4> HIDE DEF it, from
      <4> QED BY <1>1, <1>4, <1>7, <2>1
    <3>2. (w.lo + p) - from + 1 \in 1..to - from /\ from - start + ((w.lo + p) - from + 1) = (w.lo + p) - start + 1
      <4> HIDE DEF from, to
      <4> QED BY <1>1, <1>4, <2>1, <2>4
    <3>3. bytes[(w.lo + p) - from + 1] = data[from - start + ((w.lo + p) - from + 1)]
      <4> HIDE DEF from, to
      <4> QED BY <3>2
    <3> HIDE DEF it, bytes, from, to
    <3> QED BY <1>7, <3>1, <3>2, <3>3
  <2> HIDE DEF it, from, to
  <2> QED BY <2>2, <2>3, <2>4 DEF Puts
<1> HIDE DEF it
<1> QED BY <1>8, <1>9, Zenon DEF it, InWindow

\* A single piece.
LEMMA One ==
  ASSUME NEW it \in PieceSet
  PROVE  /\ <<it>> \in Seq(PieceSet) /\ Apart(<<it>>)
         /\ \A b, p, v : PutBy(<<it>>, b, p, v) <=> Puts(it, b, p, v)
<1>1. Len(<<it>>) = 1 /\ <<it>>[1] = it /\ <<it>> \in Seq(PieceSet)
  OBVIOUS
<1>2. \A j \in 1..1 : j = 1
  OBVIOUS
<1>3. 1 \in 1..1
  OBVIOUS
<1> DEFINE s == <<it>>
<1> HIDE DEF s
<1>4. Len(s) = 1 /\ s[1] = it /\ s \in Seq(PieceSet)
  BY <1>1 DEF s
<1>5. Apart(s)
  BY <1>2, <1>4, Zenon DEF Apart
<1>6. \A b, p, v : PutBy(s, b, p, v) <=> Puts(it, b, p, v)
  BY <1>2, <1>3, <1>4, Zenon DEF PutBy
<1> QED BY <1>4, <1>5, <1>6 DEF s

\* No piece at all.
LEMMA NoPiece ==
  /\ <<>> \in Seq(PieceSet) /\ Apart(<<>>) /\ \A b, p, v : ~PutBy(<<>>, b, p, v)
BY DEF Apart, PutBy

\* The same when the window may have nothing of the file.
LEMMA PieceInIs ==
  ASSUME NEW w \in [bank : Bank, lo : Nat, hi : Nat], w.hi = w.lo + Page, NEW start \in Nat, NEW data \in Seq(0..255),
         Len(data) # 0
  PROVE  /\ PieceIn(w, start, data) \in Seq(PieceSet) /\ Apart(PieceIn(w, start, data))
         /\ \A b, v : \A p \in Offset : PutBy(PieceIn(w, start, data), b, p, v) <=> InWindow(w, start, data, b, p, v)
<1>1. CASE start + Len(data) > w.lo /\ start < w.hi
  <2>1. PieceIn(w, start, data) = <<Cut(w, start, data)>>
    BY <1>1, Zenon DEF PieceIn
  <2>2. Cut(w, start, data) \in PieceSet
    BY <1>1, CutIs
  <2>3. \A b, v : \A p \in Offset : Puts(Cut(w, start, data), b, p, v) <=> InWindow(w, start, data, b, p, v)
    BY <1>1, CutIs
  <2> QED BY <2>1, <2>2, <2>3, One, Zenon
<1>2. CASE ~(start + Len(data) > w.lo /\ start < w.hi)
  <2>1. PieceIn(w, start, data) = <<>>
    BY <1>2, Zenon DEF PieceIn
  <2>2. \A b, v : \A p \in Offset : ~InWindow(w, start, data, b, p, v)
    <3>1. Len(data) \in Nat /\ Page \in Nat /\ w.lo \in Nat
      BY SnapshotAssumption, LenProperties
    <3> QED BY <1>2, <3>1 DEF InWindow, Offset
  <2> QED BY <2>1, <2>2, NoPiece, Zenon
<1> QED BY <1>1, <1>2

-----------------------------------------------------------------------------
(* A file in cells, and as the pieces it becomes.                          *)

BankOf(name) == IF BankNamed[name] = Plain THEN 0 ELSE BankNamed[name]
Gives(load, data, name, b, p, v) ==
  \E i \in 1..Len(data) : Resolve(BankOf(name), load + i - 1) = <<b, p>> /\ v = data[i]

\* Which bank and place an address stands for.
LEMMA ResolveIs ==
  ASSUME NEW bank, NEW a \in Int, Page <= a, a < 4 * Page
  PROVE  /\ Resolve(bank, a) = IF a < 2 * Page THEN <<5, a - Page>>
                               ELSE IF a < 3 * Page THEN <<2, a - 2 * Page>> ELSE <<bank, a - 3 * Page>>
<1>1. Page \in Nat \ {0}
  BY SnapshotAssumption
<1>2. a % Page = IF a < 2 * Page THEN a - Page ELSE IF a < 3 * Page THEN a - 2 * Page ELSE a - 3 * Page
  <2>1. CASE a < 2 * Page
    BY <1>1, <2>1
  <2>2. CASE ~(a < 2 * Page) /\ a < 3 * Page
    BY <1>1, <2>2
  <2>3. CASE ~(a < 2 * Page) /\ ~(a < 3 * Page)
    BY <1>1, <2>3
  <2> QED BY <2>1, <2>2, <2>3
<1> QED BY <1>2 DEF Resolve

\* The three windows.
LEMMA WindowsAre ==
  /\ Windows[1].bank = 5 /\ Windows[1].lo = Page
  /\ Windows[2].bank = 2 /\ Windows[2].lo = 2 * Page
  /\ Windows[3].bank = 0 /\ Windows[3].lo = 3 * Page
  /\ \A h \in 1..3 : Windows[h] \in [bank : Bank, lo : Nat, hi : Nat] /\ Windows[h].hi = Windows[h].lo + Page
<1>1. /\ Windows[1] = [bank |-> 5, lo |-> Page, hi |-> 2 * Page]
      /\ Windows[2] = [bank |-> 2, lo |-> 2 * Page, hi |-> 3 * Page]
      /\ Windows[3] = [bank |-> 0, lo |-> 3 * Page, hi |-> 4 * Page]
  BY DEF Windows
<1>2. Page \in Nat
  BY SnapshotAssumption
<1>3. ASSUME NEW h \in 1..3
      PROVE  Windows[h] \in [bank : Bank, lo : Nat, hi : Nat] /\ Windows[h].hi = Windows[h].lo + Page
  <2>1. CASE h = 1
    BY <1>1, <1>2, <2>1 DEF Bank
  <2>2. CASE h = 2
    BY <1>1, <1>2, <2>2 DEF Bank
  <2>3. CASE h = 3
    BY <1>1, <1>2, <2>3 DEF Bank
  <2> QED BY <2>1, <2>2, <2>3
<1> QED BY <1>1, <1>3

\* A plain file gives to a cell what one of the three windows has for it.
LEMMA PlainGives ==
  ASSUME NEW load \in Nat, NEW data \in Seq(0..255), NEW name, BankNamed[name] = Plain,
         load >= Page, load + Len(data) <= 4 * Page,
         NEW b, NEW p \in Offset, NEW v
  PROVE  Gives(load, data, name, b, p, v) <=> \E h \in 1..3 : InWindow(Windows[h], load, data, b, p, v)
<1>1. Page \in Nat /\ Len(data) \in Nat /\ p \in Nat /\ p < Page /\ BankOf(name) = 0
  BY SnapshotAssumption, LenProperties DEF Offset, BankOf
<1>2. ASSUME NEW i \in 1..Len(data), Resolve(0, load + i - 1) = <<b, p>>, v = data[i]
      PROVE  \E h \in 1..3 : InWindow(Windows[h], load, data, b, p, v)
  <2> DEFINE a == load + i - 1
  <2>1. a \in Int /\ Page <= a /\ a < 4 * Page /\ load <= a /\ a < load + Len(data) /\ a - load + 1 = i
    BY <1>1
  <2> HIDE DEF a
  <2>2. <<b, p>> = IF a < 2 * Page THEN <<5, a - Page>>
                   ELSE IF a < 3 * Page THEN <<2, a - 2 * Page>> ELSE <<0, a - 3 * Page>>
    BY <1>2, <2>1, ResolveIs DEF a
  <2>3. CASE a < 2 * Page
    <3>1. b = 5 /\ Page + p = a
      BY <1>1, <2>1, <2>2, <2>3
    <3>2. InWindow(Windows[1], load, data, b, p, v)
      <4> HIDE DEF InWindow
      <4> QED BY <1>2, <2>1, <3>1, WindowsAre DEF InWindow
    <3> QED BY <3>2
  <2>4. CASE ~(a < 2 * Page) /\ a < 3 * Page
    <3>1. b = 2 /\ 2 * Page + p = a
      BY <1>1, <2>1, <2>2, <2>4
    <3>2. InWindow(Windows[2], load, data, b, p, v)
      BY <1>2, <2>1, <3>1, WindowsAre DEF InWindow
    <3> QED BY <3>2
  <2>5. CASE ~(a < 2 * Page) /\ ~(a < 3 * Page)
    <3>1. b = 0 /\ 3 * Page + p = a
      BY <1>1, <2>1, <2>2, <2>5
    <3>2. InWindow(Windows[3], load, data, b, p, v)
      BY <1>2, <2>1, <3>1, WindowsAre DEF InWindow
    <3> QED BY <3>2
  <2> QED BY <2>3, <2>4, <2>5
<1>3. ASSUME NEW h \in 1..3, InWindow(Windows[h], load, data, b, p, v)
      PROVE  \E i \in 1..Len(data) : Resolve(0, load + i - 1) = <<b, p>> /\ v = data[i]
  <2> DEFINE a == Windows[h].lo + p
             i == a - load + 1
  <2>1. Windows[h].lo = h * Page /\ Windows[h].bank = IF h = 1 THEN 5 ELSE IF h = 2 THEN 2 ELSE 0
    <3>1. 1 * Page = Page
      BY <1>1
    <3>2. h = 1 \/ h = 2 \/ h = 3
      OBVIOUS
    <3> QED BY <3>1, <3>2, WindowsAre
  <2>2. b = Windows[h].bank /\ load <= a /\ a < load + Len(data) /\ v = data[i]
    BY <1>3, Zenon DEF InWindow
  <2>3. a \in Int /\ h * Page <= a /\ a < h * Page + Page /\ a = h * Page + p
    BY <1>1, <2>1
  <2> HIDE DEF a
  <2>4. i \in 1..Len(data) /\ load + i - 1 = a
    BY <1>1, <2>2, <2>3
  <2>5. Resolve(0, a) = <<b, p>>
    <3>1. CASE h = 1
      BY <1>1, <2>1, <2>2, <2>3, <3>1, ResolveIs
    <3>2. CASE h = 2
      BY <1>1, <2>1, <2>2, <2>3, <3>2, ResolveIs
    <3>3. CASE h = 3
      BY <1>1, <2>1, <2>2, <2>3, <3>3, ResolveIs
    <3> QED BY <3>1, <3>2, <3>3
  <2> HIDE DEF i
  <2> QED BY <2>2, <2>4, <2>5
<1> QED BY <1>1, <1>2, <1>3, Zenon DEF Gives

\* The pieces of a plain file put into the memory what the file gives, and share no cell.
LEMMA PlainPieces ==
  ASSUME NEW load \in Nat, NEW data \in Seq(0..255), NEW name, BankNamed[name] = Plain, Len(data) # 0,
         load >= Page, load + Len(data) <= 4 * Page
  PROVE  /\ Pieces(load, data) \in Seq(PieceSet) /\ Apart(Pieces(load, data))
         /\ \A b, v : \A p \in Offset :
              PutBy(Pieces(load, data), b, p, v) <=> Gives(load, data, name, b, p, v)
<1> DEFINE s(h) == PieceIn(Windows[h], load, data)
<1>1. ASSUME NEW h \in 1..3
      PROVE  /\ s(h) \in Seq(PieceSet) /\ Apart(s(h))
             /\ \A b, v : \A p \in Offset : PutBy(s(h), b, p, v) <=> InWindow(Windows[h], load, data, b, p, v)
  BY WindowsAre, PieceInIs
<1>2. ASSUME NEW j \in 1..3, NEW h \in 1..3, j # h, NEW b, NEW p \in Offset
      PROVE  ~(Has(s(j), b, p) /\ Has(s(h), b, p))
  <2>1. \A i \in 1..3 : Has(s(i), b, p) => b = Windows[i].bank
    BY <1>1, HasIs DEF InWindow
  <2> HIDE DEF s
  <2>2. \A i \in 1..3 : Windows[i].bank = IF i = 1 THEN 5 ELSE IF i = 2 THEN 2 ELSE 0
    BY WindowsAre, SMTT(30)
  <2>3. Windows[j].bank # Windows[h].bank
    BY <1>2, <2>2
  <2> QED BY <2>1, <2>3, Zenon
<1>3. Pieces(load, data) = (s(1) \o s(2)) \o s(3)
  BY Zenon DEF Pieces
<1> HIDE DEF s
<1>4. /\ s(1) \o s(2) \in Seq(PieceSet) /\ Apart(s(1) \o s(2))
      /\ \A b, p, v : PutBy(s(1) \o s(2), b, p, v) <=> PutBy(s(1), b, p, v) \/ PutBy(s(2), b, p, v)
  <2>1. \A b \in Bank, p \in Offset : ~(Has(s(1), b, p) /\ Has(s(2), b, p))
    BY <1>2
  <2>2. s(1) \in Seq(PieceSet) /\ Apart(s(1)) /\ s(2) \in Seq(PieceSet) /\ Apart(s(2))
    BY <1>1
  <2> QED BY <2>1, <2>2, ConcatPieces
<1>5. \A b \in Bank, p \in Offset : ~(Has(s(1) \o s(2), b, p) /\ Has(s(3), b, p))
  <2> TAKE b \in Bank, p \in Offset
  <2>1. Has(s(1) \o s(2), b, p) => Has(s(1), b, p) \/ Has(s(2), b, p)
    BY <1>4, HasIs
  <2> QED BY <1>2, <2>1
<1>6. /\ Pieces(load, data) \in Seq(PieceSet) /\ Apart(Pieces(load, data))
      /\ \A b, p, v : PutBy(Pieces(load, data), b, p, v) <=> PutBy(s(1) \o s(2), b, p, v) \/ PutBy(s(3), b, p, v)
  <2>1. s(3) \in Seq(PieceSet) /\ Apart(s(3))
    BY <1>1
  <2> DEFINE t == s(1) \o s(2)
  <2>2. t \in Seq(PieceSet) /\ Apart(t) /\ \A b \in Bank, p \in Offset : ~(Has(t, b, p) /\ Has(s(3), b, p))
    BY <1>4, <1>5
  <2> HIDE DEF t
  <2>3. /\ t \o s(3) \in Seq(PieceSet) /\ Apart(t \o s(3))
        /\ \A b, p, v : PutBy(t \o s(3), b, p, v) <=> PutBy(t, b, p, v) \/ PutBy(s(3), b, p, v)
    BY <2>1, <2>2, ConcatPieces
  <2> QED BY <1>3, <2>3, Zenon DEF t
<1>7. ASSUME NEW b, NEW v, NEW p \in Offset
      PROVE  PutBy(Pieces(load, data), b, p, v) <=> Gives(load, data, name, b, p, v)
  <2>1. PutBy(Pieces(load, data), b, p, v) <=> \E h \in 1..3 : PutBy(s(h), b, p, v)
    <3>1. \A h \in 1..3 : h = 1 \/ h = 2 \/ h = 3
      OBVIOUS
    <3>2. 1 \in 1..3 /\ 2 \in 1..3 /\ 3 \in 1..3
      OBVIOUS
    <3> QED BY <1>4, <1>6, <3>1, <3>2, Zenon
  <2>2. \A h \in 1..3 : PutBy(s(h), b, p, v) <=> InWindow(Windows[h], load, data, b, p, v)
    BY <1>1
  <2> QED BY <2>1, <2>2, PlainGives
<1> QED BY <1>6, <1>7

\* A file for a bank is one piece, wherever its addresses are.
BankPiece(bank, load, data) == [bank |-> bank, start |-> BankStart(bank, load, Len(data)), bytes |-> data]
LEMMA BankGives ==
  ASSUME NEW load \in Nat, NEW data \in Seq(0..255), NEW name, BankNamed[name] \in Bank, Len(data) # 0,
         BankStart(BankNamed[name], load, Len(data)) # Invalid
  PROVE  /\ BankPiece(BankNamed[name], load, data) \in PieceSet
         /\ load >= Page /\ load + Len(data) <= 4 * Page
         /\ \A b, v : \A p \in Offset :
              Puts(BankPiece(BankNamed[name], load, data), b, p, v) <=> Gives(load, data, name, b, p, v)
<1> DEFINE bank == BankNamed[name]
           base == IF bank = 2 THEN 2 * Page ELSE IF bank = 5 THEN Page ELSE 3 * Page
           start == BankStart(bank, load, Len(data))
           it == BankPiece(bank, load, data)
<1>1. Page \in Nat /\ Page > 0 /\ Len(data) \in Nat /\ BankOf(name) = bank /\ bank \in 0..7
  BY SnapshotAssumption, LenProperties DEF BankOf, Plain, Bank
<1>2. start = IF load >= base /\ load + Len(data) <= base + Page THEN load + 3 * Page - base
              ELSE IF load >= 3 * Page /\ load + Len(data) <= 4 * Page THEN load ELSE Invalid
  BY DEF BankStart
<1>3. it.bank = bank /\ it.start = start /\ it.bytes = data
  BY DEF BankPiece
<1> DEFINE shift == IF load >= base /\ load + Len(data) <= base + Page THEN 3 * Page - base ELSE 0
<1>4. /\ start = load + shift /\ start >= 3 * Page /\ start + Len(data) <= 4 * Page
      /\ load >= Page /\ load + Len(data) <= 4 * Page
      /\ shift \in Int
  <2>1. base \in {Page, 2 * Page, 3 * Page} /\ base \in Int
    BY <1>1
  <2> HIDE DEF base, bank, start
  <2>2. start # Invalid
    BY DEF start, bank
  <2>3. CASE load >= base /\ load + Len(data) <= base + Page
    BY <1>1, <1>2, <2>1, <2>3
  <2>4. CASE ~(load >= base /\ load + Len(data) <= base + Page)
    <3>1. load >= 3 * Page /\ load + Len(data) <= 4 * Page /\ start = load
      BY <1>2, <2>2, <2>4, Zenon
    <3>2. shift = 0
      BY <2>4
    <3> HIDE DEF shift
    <3> QED BY <1>1, <3>1, <3>2
  <2> QED BY <2>3, <2>4
<1>5. \A a \in Int : load <= a /\ a < load + Len(data) => Resolve(bank, a) = <<bank, a + shift - 3 * Page>>
  <2> TAKE a \in Int
  <2> HAVE load <= a /\ a < load + Len(data)
  <2>1. Resolve(bank, a) = IF a < 2 * Page THEN <<5, a - Page>>
                           ELSE IF a < 3 * Page THEN <<2, a - 2 * Page>> ELSE <<bank, a - 3 * Page>>
    <3>1. Page <= a /\ a < 4 * Page
      <4> HIDE DEF shift, start, bank
      <4> QED BY <1>1, <1>4
    <3> QED BY <3>1, ResolveIs
  <2>2. CASE load >= base /\ load + Len(data) <= base + Page
    <3>1. CASE bank = 2
      BY <1>1, <2>1, <2>2, <3>1
    <3>2. CASE bank = 5
      BY <1>1, <2>1, <2>2, <3>2
    <3>3. CASE bank # 2 /\ bank # 5
      BY <1>1, <2>1, <2>2, <3>3
    <3> QED BY <3>1, <3>2, <3>3
  <2>3. CASE ~(load >= base /\ load + Len(data) <= base + Page)
    <3>1. shift = 0
      BY <2>3
    <3> HIDE DEF shift, base, bank, start
    <3>2. a >= 3 * Page /\ a + shift - 3 * Page = a - 3 * Page
      BY <1>1, <1>4, <3>1
    <3> QED BY <1>1, <2>1, <3>2
  <2> QED BY <2>2, <2>3
<1>6. it \in PieceSet
  <2>1. start \in Nat /\ bank \in Bank
    BY <1>1, <1>4 DEF Bank
  <2> HIDE DEF bank, start, shift
  <2> QED BY <1>4, <2>1 DEF PieceSet, BankPiece, start
<1>7. ASSUME NEW b, NEW v, NEW p \in Offset
      PROVE  Puts(it, b, p, v) <=> Gives(load, data, name, b, p, v)
  <2>1. p \in Nat /\ p < Page
    BY <1>1 DEF Offset
  <2> HIDE DEF it, bank, start, shift
  <2>2. ASSUME Puts(it, b, p, v) PROVE Gives(load, data, name, b, p, v)
    <3> DEFINE i == 3 * Page + p - start + 1
    <3>1. i \in 1..Len(data) /\ v = data[i] /\ b = bank
      BY <1>1, <1>3, <1>4, <2>1, <2>2 DEF Puts, On
    <3>2. load + i - 1 \in Int /\ load <= load + i - 1 /\ load + i - 1 < load + Len(data)
          /\ load + i - 1 + shift - 3 * Page = p
      BY <1>1, <1>4, <2>1, <3>1
    <3> HIDE DEF i
    <3>3. Resolve(bank, load + i - 1) = <<b, p>>
      BY <1>5, <3>1, <3>2
    <3> QED BY <1>1, <3>1, <3>3 DEF Gives
  <2>3. ASSUME Gives(load, data, name, b, p, v) PROVE Puts(it, b, p, v)
    <3>1. PICK i \in 1..Len(data) : Resolve(bank, load + i - 1) = <<b, p>> /\ v = data[i]
      BY <1>1, <2>3 DEF Gives
    <3>2. load + i - 1 \in Int /\ load <= load + i - 1 /\ load + i - 1 < load + Len(data)
      BY <1>1
    <3>3. <<b, p>> = <<bank, load + i - 1 + shift - 3 * Page>>
      BY <1>5, <3>1, <3>2
    <3>4. b = bank /\ p = load + i - 1 + shift - 3 * Page
      BY <3>3
    <3> QED BY <1>1, <1>3, <1>4, <2>1, <3>1, <3>4 DEF Puts, On
  <2> QED BY <2>2, <2>3
<1> QED BY <1>4, <1>6, <1>7

-----------------------------------------------------------------------------
(* A writer that has some of the files of an output.                       *)

FileGives(l, f, b, p, v) == Gives(l[f.ref].load, l[f.ref].data, f.name, b, p, v)
InMemory(l, f) ==
  \/ Len(l[f.ref].data) = 0
  \/ l[f.ref].load >= Page /\ l[f.ref].load + Len(l[f.ref].data) <= 4 * Page
LinkedFiles(l) == \A f \in DOMAIN l : l[f].load \in Nat /\ l[f].data \in Seq(0..255)
WriterInv(w, l, files, m) ==
  /\ w.pieces \in Seq(PieceSet) /\ Apart(w.pieces)
  /\ \A i \in 1..m : InMemory(l, files[i])
  /\ \A b, v : \A p \in Offset : PutBy(w.pieces, b, p, v) <=> \E i \in 1..m : FileGives(l, files[i], b, p, v)

\* Where the processor finds a bank that is always there.
Base(b) == IF b = 5 THEN Page ELSE IF b = 2 THEN 2 * Page ELSE 3 * Page
LEMMA AddressIs ==
  ASSUME NEW it \in PieceSet, it.bank \in {0, 2, 5}
  PROVE  /\ AddressOf(it) \in Int
         /\ \A p \in Offset : On(it, it.bank, p) =>
              AddressOf(it) <= Base(it.bank) + p /\ Base(it.bank) + p < AddressOf(it) + Len(it.bytes)
         /\ \A a \in Int : AddressOf(it) <= a /\ a < AddressOf(it) + Len(it.bytes) =>
              /\ a - Base(it.bank) \in Offset /\ On(it, it.bank, a - Base(it.bank))
              /\ Resolve(0, a) = <<it.bank, a - Base(it.bank)>>
<1>1. /\ it.start \in Nat /\ Len(it.bytes) \in Nat /\ it.start >= 3 * Page /\ it.start + Len(it.bytes) <= 4 * Page
      /\ Page \in Nat /\ Page > 0
  BY SnapshotAssumption, LenProperties DEF PieceSet
<1>2. AddressOf(it) = it.start - (3 * Page - Base(it.bank))
  <2>1. CASE it.bank = 0
    BY <1>1, <2>1 DEF AddressOf, Base
  <2>2. CASE it.bank = 2
    BY <1>1, <2>2 DEF AddressOf, Base
  <2>3. CASE it.bank = 5
    BY <1>1, <2>3 DEF AddressOf, Base
  <2> QED BY <2>1, <2>2, <2>3
<1>3. Base(it.bank) \in Nat /\ Base(it.bank) >= Page
  BY <1>1 DEF Base
<1>4. ASSUME NEW p \in Offset, On(it, it.bank, p)
      PROVE  AddressOf(it) <= Base(it.bank) + p /\ Base(it.bank) + p < AddressOf(it) + Len(it.bytes)
  BY <1>1, <1>2, <1>3, <1>4 DEF On, Offset
<1>5. ASSUME NEW a \in Int, AddressOf(it) <= a, a < AddressOf(it) + Len(it.bytes)
      PROVE  /\ a - Base(it.bank) \in Offset /\ On(it, it.bank, a - Base(it.bank))
             /\ Resolve(0, a) = <<it.bank, a - Base(it.bank)>>
  <2>1. a - Base(it.bank) \in Offset /\ On(it, it.bank, a - Base(it.bank))
    BY <1>1, <1>2, <1>3, <1>5, SMTT(30) DEF On, Offset
  <2>2. Base(it.bank) <= a /\ a < Base(it.bank) + Page
    BY <1>1, <1>3, <2>1 DEF Offset
  <2>6. Page <= a /\ a < 4 * Page
    BY <1>1, <1>3, <2>2 DEF Base
  <2>7. Resolve(0, a) = IF a < 2 * Page THEN <<5, a - Page>>
                        ELSE IF a < 3 * Page THEN <<2, a - 2 * Page>> ELSE <<0, a - 3 * Page>>
    BY <2>6, ResolveIs
  <2>3. CASE it.bank = 0
    <3>1. ~(a < 2 * Page) /\ ~(a < 3 * Page) /\ Base(it.bank) = 3 * Page
      BY <1>1, <2>2, <2>3 DEF Base
    <3> QED BY <2>1, <2>3, <2>7, <3>1, Zenon
  <2>4. CASE it.bank = 2
    <3>1. ~(a < 2 * Page) /\ a < 3 * Page /\ Base(it.bank) = 2 * Page
      BY <1>1, <2>2, <2>4 DEF Base
    <3> QED BY <2>1, <2>4, <2>7, <3>1, Zenon
  <2>5. CASE it.bank = 5
    <3>1. a < 2 * Page /\ Base(it.bank) = Page
      BY <1>1, <2>2, <2>5 DEF Base
    <3> QED BY <2>1, <2>5, <2>7, <3>1, Zenon
  <2> QED BY <2>1, <2>3, <2>4, <2>5
<1>6. AddressOf(it) \in Int
  BY <1>1, <1>2, <1>3
<1> QED BY <1>4, <1>5, <1>6

\* What a file without bank gives is in banks 0, 2 and 5.
LEMMA GivesAt ==
  ASSUME NEW load \in Nat, NEW data \in Seq(0..255), NEW name, BankNamed[name] = Plain,
         load >= Page, load + Len(data) <= 4 * Page,
         NEW b, NEW p \in Offset, NEW v, Gives(load, data, name, b, p, v)
  PROVE  b \in {0, 2, 5} /\ load <= Base(b) + p /\ Base(b) + p < load + Len(data)
<1>1. PICK h \in 1..3 : InWindow(Windows[h], load, data, b, p, v)
  BY PlainGives
<1>2. b = Windows[h].bank /\ load <= Windows[h].lo + p /\ Windows[h].lo + p < load + Len(data)
  BY <1>1, Zenon DEF InWindow
<1>3. CASE h = 1
  BY <1>2, <1>3, WindowsAre DEF Base
<1>4. CASE h = 2
  BY <1>2, <1>4, WindowsAre DEF Base
<1>5. CASE h = 3
  BY <1>2, <1>5, WindowsAre DEF Base
<1> QED BY <1>3, <1>4, <1>5

NewPieces(name, load, data) ==
  IF data = <<>> THEN <<>>
  ELSE IF BankNamed[name] = Plain THEN Pieces(load, data)
  ELSE <<BankPiece(BankNamed[name], load, data)>>

\* A file that is not refused.
LEMMA NewPiecesAre ==
  ASSUME NEW w, w.pieces \in Seq(PieceSet), NEW name, NEW load \in Nat, NEW data \in Seq(0..255),
         BankNamed[name] \in Bank \cup {Plain, Invalid}, CodeError(w, name, load, data) = "none"
  PROVE  LET new == NewPieces(name, load, data) IN
         /\ new \in Seq(PieceSet) /\ Apart(new)
         /\ \A b, v : \A p \in Offset : PutBy(new, b, p, v) <=> Gives(load, data, name, b, p, v)
         /\ (Len(data) = 0 \/ (load >= Page /\ load + Len(data) <= 4 * Page))
         /\ \A b \in Bank, p \in Offset : ~(Has(w.pieces, b, p) /\ Has(new, b, p))
<1> DEFINE new == NewPieces(name, load, data)
<1>1. Len(data) \in Nat /\ Page \in Nat /\ BankNamed[name] # Invalid
  BY LenProperties, SnapshotAssumption DEF CodeError
<1>2. CASE data = <<>>
  <2>1. new = <<>> /\ Len(data) = 0
    BY <1>2 DEF NewPieces
  <2>2. \A b, v, p : ~Gives(load, data, name, b, p, v)
    BY <2>1 DEF Gives
  <2>3. \A b, p : ~Has(<<>>, b, p)
    BY HasIs, NoPiece
  <2> HIDE DEF new
  <2>4. /\ new \in Seq(PieceSet) /\ Apart(new)
        /\ \A b, v : \A p \in Offset : PutBy(new, b, p, v) <=> Gives(load, data, name, b, p, v)
        /\ \A b \in Bank, p \in Offset : ~(Has(w.pieces, b, p) /\ Has(new, b, p))
    BY <2>1, <2>2, <2>3, NoPiece, Zenon
  <2> QED BY <2>1, <2>4 DEF new
<1>3. CASE data # <<>>
  <2>1. Len(data) # 0
    BY <1>3, EmptySeq
  <2>2. CASE BankNamed[name] = Plain
    <3>1. load >= Page /\ load + Len(data) <= 4 * Page /\ ~OverlapsPlain(w, load, Len(data))
      BY <1>1, <2>1, <2>2 DEF CodeError, Plain, Invalid
    <3>2. new = Pieces(load, data)
      BY <1>3, <2>2 DEF NewPieces
    <3>3. /\ new \in Seq(PieceSet) /\ Apart(new)
          /\ \A b, v : \A p \in Offset : PutBy(new, b, p, v) <=> Gives(load, data, name, b, p, v)
      BY <2>1, <2>2, <3>1, <3>2, PlainPieces
    <3>4. ASSUME NEW b \in Bank, NEW p \in Offset, Has(w.pieces, b, p), Has(new, b, p) PROVE FALSE
      <4> HIDE DEF new
      <4>1. PICK v : Gives(load, data, name, b, p, v)
        BY <3>3, <3>4, HasIs
      <4>2. b \in {0, 2, 5} /\ load <= Base(b) + p /\ Base(b) + p < load + Len(data)
        BY <2>2, <3>1, <4>1, GivesAt
      <4>3. PICK j \in 1..Len(w.pieces) : On(w.pieces[j], b, p)
        BY <3>4 DEF Has
      <4> DEFINE it == w.pieces[j]
      <4>4. it \in PieceSet /\ it.bank = b
        BY <4>3 DEF On
      <4>5. AddressOf(it) \in Int /\ AddressOf(it) <= Base(b) + p /\ Base(b) + p < AddressOf(it) + Len(it.bytes)
        <5> HIDE DEF it
        <5>1. On(it, b, p)
          BY <4>3 DEF it
        <5> QED BY <4>2, <4>4, <5>1, AddressIs
      <4>6. it.bank \in {0, 2, 5} /\ load + Len(data) >= AddressOf(it) /\ load <= AddressOf(it) + Len(it.bytes) - 1
        <5>1. Base(b) + p \in Int /\ Len(it.bytes) \in Nat
          BY <1>1, <4>4, LenProperties DEF Base, Offset, PieceSet
        <5> HIDE DEF it
        <5> QED BY <1>1, <4>2, <4>4, <4>5, <5>1
      <4> QED BY <3>1, <4>6, Zenon DEF OverlapsPlain
    <3> HIDE DEF new
    <3> QED BY <3>1, <3>3, <3>4, Zenon DEF new
  <2>3. CASE BankNamed[name] # Plain
    <3> DEFINE bank == BankNamed[name]
               it == BankPiece(bank, load, data)
    <3>1. bank \in Bank
      BY <1>1, <2>3
    <3>2. BankStart(bank, load, Len(data)) # Invalid /\ ~OverlapsBank(w, bank, BankStart(bank, load, Len(data)), Len(data))
      BY <1>1, <2>1, <2>3 DEF CodeError
    <3>3. /\ it \in PieceSet /\ load >= Page /\ load + Len(data) <= 4 * Page
          /\ \A b, v : \A p \in Offset : Puts(it, b, p, v) <=> Gives(load, data, name, b, p, v)
      BY <2>1, <3>1, <3>2, BankGives
    <3>4. new = <<it>>
      BY <1>3, <2>3 DEF NewPieces
    <3>5. it.bank = bank /\ it.start = BankStart(bank, load, Len(data)) /\ it.bytes = data
      BY DEF BankPiece
    <3> HIDE DEF it
    <3>6. /\ new \in Seq(PieceSet) /\ Apart(new)
          /\ \A b, p, v : PutBy(new, b, p, v) <=> Puts(it, b, p, v)
      BY <3>3, <3>4, One
    <3>7. ASSUME NEW b \in Bank, NEW p \in Offset, Has(w.pieces, b, p), Has(new, b, p) PROVE FALSE
      <4>1. On(it, b, p)
        BY <3>6, <3>7, HasIs DEF Puts
      <4>2. PICK j \in 1..Len(w.pieces) : On(w.pieces[j], b, p)
        BY <3>7 DEF Has
      <4>3. w.pieces[j] \in PieceSet /\ w.pieces[j].start \in Int /\ Len(w.pieces[j].bytes) \in Nat
        BY <4>2, LenProperties DEF PieceSet
      <4>4. it.start \in Int
        BY <3>3 DEF PieceSet
      <4>5. /\ it.bank = b /\ w.pieces[j].bank = b
            /\ 3 * Page + p >= it.start /\ 3 * Page + p < it.start + Len(data)
            /\ 3 * Page + p >= w.pieces[j].start /\ 3 * Page + p < w.pieces[j].start + Len(w.pieces[j].bytes)
        BY <3>5, <4>1, <4>2 DEF On
      <4>6. 3 * Page + p \in Int
        BY <1>1 DEF Offset
      <4>7. w.pieces[j].bank = bank /\ it.start + Len(data) - 1 >= w.pieces[j].start
            /\ it.start <= w.pieces[j].start + Len(w.pieces[j].bytes) - 1
        BY <1>1, <3>5, <4>3, <4>4, <4>5, <4>6, SMTT(30)
      <4> QED BY <3>2, <3>5, <4>7 DEF OverlapsBank
    <3> HIDE DEF new
    <3> QED BY <3>3, <3>6, <3>7, Zenon DEF new
  <2> QED BY <2>2, <2>3
<1> QED BY <1>2, <1>3

\* addCodeFile keeps the writer in order.
LEMMA AddKeeps ==
  ASSUME NEW w, NEW l, NEW files, NEW m \in Nat, WriterInv(w, l, files, m), LinkedFiles(l),
         w \in [regs : {w.regs}, format : {w.format}, machine : {w.machine}, pieces : Seq(PieceSet)],
         files[m + 1].ref \in DOMAIN l, BankNamed[files[m + 1].name] \in Bank \cup {Plain, Invalid},
         CodeError(w, files[m + 1].name, l[files[m + 1].ref].load, l[files[m + 1].ref].data) = "none"
  PROVE  LET new == AddCode(w, files[m + 1].name, l[files[m + 1].ref].load, l[files[m + 1].ref].data) IN
         /\ WriterInv(new, l, files, m + 1)
         /\ new \in [regs : {w.regs}, format : {w.format, 2}, machine : {w.machine}, pieces : Seq(PieceSet)]
<1> DEFINE file == files[m + 1]
           load == l[file.ref].load
           data == l[file.ref].data
           u == AddCode(w, file.name, load, data)
           new == NewPieces(file.name, load, data)
<1>1. load \in Nat /\ data \in Seq(0..255)
  BY DEF LinkedFiles
<1>2. /\ w.pieces \in Seq(PieceSet) /\ Apart(w.pieces)
      /\ \A i \in 1..m : InMemory(l, files[i])
      /\ \A b, v : \A p \in Offset : PutBy(w.pieces, b, p, v) <=> \E i \in 1..m : FileGives(l, files[i], b, p, v)
  BY DEF WriterInv
<1>3. /\ new \in Seq(PieceSet) /\ Apart(new)
      /\ \A b, v : \A p \in Offset : PutBy(new, b, p, v) <=> Gives(load, data, file.name, b, p, v)
      /\ (Len(data) = 0 \/ (load >= Page /\ load + Len(data) <= 4 * Page))
      /\ \A b \in Bank, p \in Offset : ~(Has(w.pieces, b, p) /\ Has(new, b, p))
  BY <1>1, <1>2, NewPiecesAre
<1>4. /\ u.pieces = w.pieces \o new /\ u.regs = w.regs /\ u.machine = w.machine
      /\ u.format \in {w.format, 2}
      /\ u = [w EXCEPT !.format = u.format, !.pieces = u.pieces]
  BY DEF AddCode, NewPieces, BankPiece
<1> HIDE DEF u, new
<1>5. /\ w.pieces \o new \in Seq(PieceSet) /\ Apart(w.pieces \o new)
      /\ \A b, p, v : PutBy(w.pieces \o new, b, p, v) <=> PutBy(w.pieces, b, p, v) \/ PutBy(new, b, p, v)
  BY <1>2, <1>3, ConcatPieces
<1>6. \A i \in 1..m + 1 : i \in 1..m \/ i = m + 1
  OBVIOUS
<1>7. InMemory(l, file)
  BY <1>3 DEF InMemory
<1>8. \A b, v : \A p \in Offset : PutBy(u.pieces, b, p, v) <=> \E i \in 1..m + 1 : FileGives(l, files[i], b, p, v)
  <2>1. \A i \in 1..m : i \in 1..m + 1
    OBVIOUS
  <2>2. m + 1 \in 1..m + 1
    OBVIOUS
  <2> TAKE b, v
  <2> TAKE p \in Offset
  <2>3. PutBy(u.pieces, b, p, v) <=> (\E i \in 1..m : FileGives(l, files[i], b, p, v)) \/ FileGives(l, file, b, p, v)
    <3>1. PutBy(u.pieces, b, p, v) <=> PutBy(w.pieces, b, p, v) \/ PutBy(new, b, p, v)
      BY <1>4, <1>5
    <3>2. PutBy(w.pieces, b, p, v) <=> \E i \in 1..m : FileGives(l, files[i], b, p, v)
      BY <1>2
    <3>3. PutBy(new, b, p, v) <=> FileGives(l, file, b, p, v)
      BY <1>3, Zenon DEF FileGives
    <3> QED BY <3>1, <3>2, <3>3
  <2> QED BY <1>6, <2>1, <2>2, <2>3, Zenon
<1>9. WriterInv(u, l, files, m + 1)
  BY <1>2, <1>4, <1>5, <1>6, <1>7, <1>8, Zenon DEF WriterInv
<1>10. u \in [regs : {w.regs}, format : {w.format, 2}, machine : {w.machine}, pieces : Seq(PieceSet)]
  BY <1>4, <1>5
<1> QED BY <1>9, <1>10 DEF u

\* Max of one integer.
LEMMA MaxOne ==
  ASSUME NEW x \in Int
  PROVE  Max({x}) = x
<1>1. \E y \in {x} : \A z \in {x} : y >= z
  OBVIOUS
<1>2. Max({x}) \in {x}
  BY <1>1, Zenon DEF Max
<1> QED BY <1>2

\* buildMemory: each cell is what the files give it.
Given(w, l, files, m, b, p) ==
  /\ (\A i \in 1..m : \A v : ~FileGives(l, files[i], b, p, v)) => Memory(w)[b][p] = 0
  /\ \A i \in 1..m : \A v : FileGives(l, files[i], b, p, v) => Memory(w)[b][p] = v
  /\ Memory(w)[b][p] \in 0..255
  /\ (\A j \in 1..Len(w.pieces) : w.pieces[j].bank # b) => Memory(w)[b][p] = 0
LEMMA MemoryIs ==
  ASSUME NEW w, NEW l, NEW files, NEW m \in Nat, WriterInv(w, l, files, m), NEW b \in Bank, NEW p \in Offset
  PROVE  Given(w, l, files, m, b, p)
<1> USE DEF Given
<1> DEFINE on == {j \in 1..Len(w.pieces) : On(w.pieces[j], b, p)}
           byte(j) == w.pieces[j].bytes[(3 * Page + p) - w.pieces[j].start + 1]
<1>1. /\ w.pieces \in Seq(PieceSet) /\ Apart(w.pieces) /\ Page \in Nat /\ p \in Nat
      /\ \A v : PutBy(w.pieces, b, p, v) <=> \E i \in 1..m : FileGives(l, files[i], b, p, v)
  BY SnapshotAssumption DEF WriterInv, Offset
<1>3. \A i, j \in on : i = j
  BY <1>1, Zenon DEF Apart
<1>7. on # {} => Max(on) \in on
  <2>1. ASSUME on # {} PROVE Max(on) \in on
    <3>1. PICK x \in on : x \in Int
      BY <2>1
    <3>2. on = {x}
      BY <1>3, <3>1
    <3> HIDE DEF on
    <3>3. Max({x}) = x
      BY <3>1, MaxOne
    <3> QED BY <3>1, <3>2, <3>3
  <2> QED BY <2>1
<1>2. Memory(w)[b][p] = IF on = {} THEN 0 ELSE byte(Max(on))
  <2> DEFINE meets(bb, o) == {j \in 1..Len(w.pieces) : w.pieces[j].bank = bb /\ 3 * Page + o >= w.pieces[j].start
                                                        /\ 3 * Page + o < w.pieces[j].start + Len(w.pieces[j].bytes)}
             value(bb, o) == IF meets(bb, o) = {} THEN 0
                             ELSE w.pieces[Max(meets(bb, o))].bytes[3 * Page + o - w.pieces[Max(meets(bb, o))].start + 1]
  <2>1. Memory(w) = [bb \in Bank |-> [o \in 0..(Page - 1) |-> value(bb, o)]]
    BY Zenon DEF Memory
  <2>2. meets(b, p) = on
    BY Zenon DEF On
  <2> HIDE DEF meets, on
  <2>3. value(b, p) = IF on = {} THEN 0 ELSE w.pieces[Max(on)].bytes[3 * Page + p - w.pieces[Max(on)].start + 1]
    BY <2>2, Zenon
  <2>4. Memory(w)[b][p] = value(b, p)
    <3> HIDE DEF value
    <3>1. p \in 0..(Page - 1)
      BY DEF Offset
    <3>2. Memory(w)[b] = [o \in 0..(Page - 1) |-> value(b, o)]
      BY <2>1, Zenon
    <3> QED BY <3>1, <3>2, Zenon
  <2>5. CASE on = {}
    BY <2>3, <2>4, <2>5, Zenon
  <2>6. CASE on # {}
    <3>1. Max(on) \in on
      BY <1>7, <2>6
    <3> DEFINE x == Max(on)
    <3> HIDE DEF x
    <3>2. x \in 1..Len(w.pieces)
      BY <3>1 DEF x, on
    <3>3. w.pieces[x].start \in Int
      BY <1>1, <3>2 DEF PieceSet
    <3>4. 3 * Page + p - w.pieces[x].start + 1 = (3 * Page + p) - w.pieces[x].start + 1
      BY <1>1, <3>3
    <3> QED BY <2>3, <2>4, <2>6, <3>4, Zenon DEF x
  <2> QED BY <2>5, <2>6
<1>4. \A j \in on : PutBy(w.pieces, b, p, byte(j))
  BY Zenon DEF PutBy, Puts
<1>5. \A v : PutBy(w.pieces, b, p, v) => \E j \in on : v = byte(j)
  BY Zenon DEF PutBy, Puts
<1>6. \A j \in on : byte(j) \in 0..255
  <2> SUFFICES ASSUME NEW j \in on PROVE byte(j) \in 0..255
    OBVIOUS
  <2> DEFINE it == w.pieces[j]
  <2>1. it \in PieceSet /\ On(it, b, p)
    BY <1>1
  <2> HIDE DEF it
  <2>2. it.start \in Nat /\ it.bytes \in Seq(0..255) /\ Len(it.bytes) \in Nat
    BY <2>1, LenProperties DEF PieceSet
  <2>3. (3 * Page + p) - it.start + 1 \in 1..Len(it.bytes)
    BY <1>1, <2>1, <2>2 DEF On
  <2>4. it.bytes[(3 * Page + p) - it.start + 1] \in 0..255
    BY <2>2, <2>3, ElementOfSeq
  <2> QED BY <2>4 DEF it
<1>8. (\A j \in 1..Len(w.pieces) : w.pieces[j].bank # b) => on = {}
  BY DEF On
<1> HIDE DEF on, byte
<1>9. on = {} => \A v : ~PutBy(w.pieces, b, p, v)
  BY <1>5
<1>10. CASE on = {}
  BY <1>1, <1>2, <1>9, <1>10
<1>11. CASE on # {}
  <2>1. Memory(w)[b][p] = byte(Max(on)) /\ Max(on) \in on
    BY <1>2, <1>7, <1>11
  <2>2. \A v : PutBy(w.pieces, b, p, v) => v = byte(Max(on))
    BY <1>3, <1>5, <2>1
  <2>3. PutBy(w.pieces, b, p, byte(Max(on)))
    BY <1>4, <2>1
  <2> QED BY <1>1, <1>6, <1>8, <1>11, <2>1, <2>2, <2>3
<1> QED BY <1>10, <1>11

-----------------------------------------------------------------------------
(* Why a file or a machine is refused.                                     *)

\* The addresses of a file are an interval.
LEMMA AddressesAre ==
  ASSUME NEW f, project.linked[f.ref].load \in Nat, project.linked[f.ref].data \in Seq(0..255)
  PROVE  \A a : a \in Addresses(f) <=>
           a \in Int /\ project.linked[f.ref].load <= a /\ a < project.linked[f.ref].load + Len(project.linked[f.ref].data)
<1> DEFINE load == project.linked[f.ref].load
           size == Len(project.linked[f.ref].data)
<1>1. load \in Nat /\ size \in Nat
  BY LenProperties
<1>2. Addresses(f) = {load + i : i \in 0..(size - 1)}
  BY Zenon DEF Addresses, Bytes
<1> HIDE DEF load, size
<1>3. \A a : (\E i \in 0..(size - 1) : a = load + i) <=> a \in Int /\ load <= a /\ a < load + size
  <2> TAKE a
  <2>1. ASSUME a \in Int, load <= a, a < load + size PROVE \E i \in 0..(size - 1) : a = load + i
    <3>1. a - load \in 0..(size - 1) /\ a = load + (a - load)
      BY <1>1, <2>1
    <3> QED BY <3>1
  <2>2. ASSUME NEW i \in 0..(size - 1), a = load + i PROVE a \in Int /\ load <= a /\ a < load + size
    BY <1>1, <2>2
  <2> QED BY <2>1, <2>2
<1> QED BY <1>2, <1>3 DEF load, size

\* A cell a file gives something to is the cell of one of its addresses.
LEMMA GivesAddress ==
  ASSUME NEW f, LinkedFiles(project.linked), f.ref \in DOMAIN project.linked, NEW b, NEW p, NEW v,
         FileGives(project.linked, f, b, p, v)
  PROVE  \E a \in Addresses(f) : Cell(f, a) = <<b, p>>
<1> DEFINE load == project.linked[f.ref].load
           data == project.linked[f.ref].data
<1>1. load \in Nat /\ data \in Seq(0..255) /\ Len(data) \in Nat
  BY LenProperties DEF LinkedFiles
<1>2. PICK i \in 1..Len(data) : Resolve(BankOf(f.name), load + i - 1) = <<b, p>>
  BY Zenon DEF FileGives, Gives
<1>3. load + i - 1 \in Addresses(f)
  <2>1. load + i - 1 \in Int /\ load <= load + i - 1 /\ load + i - 1 < load + Len(data)
    BY <1>1
  <2> QED BY <1>1, <2>1, AddressesAre
<1> QED BY <1>2, <1>3, Zenon DEF Cell, BankOf

\* What a piece is on is the cell of a file.
SomeFile(files, m, b, p) == \E i \in 1..m : \E a \in Addresses(files[i]) : Cell(files[i], a) = <<b, p>>
LEMMA OnAddress ==
  ASSUME NEW w, NEW files, NEW m \in Nat, WriterInv(w, project.linked, files, m), LinkedFiles(project.linked),
         \A i \in 1..m : files[i].ref \in DOMAIN project.linked,
         NEW b, NEW p \in Offset, Has(w.pieces, b, p)
  PROVE  SomeFile(files, m, b, p)
<1>1. PICK v : PutBy(w.pieces, b, p, v)
  BY HasIs
<1>2. PICK i \in 1..m : FileGives(project.linked, files[i], b, p, v)
  BY <1>1 DEF WriterInv
<1>3. \E a \in Addresses(files[i]) : Cell(files[i], a) = <<b, p>>
  BY <1>2, GivesAddress
<1> QED BY <1>3, Zenon DEF SomeFile

\* A file refused for an overlap meets one that is there.
LEMMA OverlapReason ==
  ASSUME NEW w, NEW files, NEW m \in Nat, WriterInv(w, project.linked, files, m), LinkedFiles(project.linked),
         \A i \in 1..m : files[i].ref \in DOMAIN project.linked,
         NEW f, f.ref \in DOMAIN project.linked, BankNamed[f.name] \in Bank \cup {Plain, Invalid},
         CodeError(w, f.name, project.linked[f.ref].load, project.linked[f.ref].data) = "overlap"
  PROVE  \E i \in 1..m : Meet(f, files[i])
<1> DEFINE load == project.linked[f.ref].load
           data == project.linked[f.ref].data
           size == Len(data)
           bank == BankNamed[f.name]
<1>1. load \in Nat /\ data \in Seq(0..255) /\ size \in Nat /\ Page \in Nat /\ Page > 0
  BY LenProperties, SnapshotAssumption DEF LinkedFiles
<1>2. w.pieces \in Seq(PieceSet)
  BY DEF WriterInv
<1>3. size # 0 /\ bank # Invalid
  BY DEF CodeError
<1>4. CASE bank = Plain
  <2>1. load >= Page /\ load + size <= 4 * Page /\ OverlapsPlain(w, load, size)
    BY <1>1, <1>4 DEF CodeError
  <2>2. PICK j \in 1..Len(w.pieces) :
          /\ w.pieces[j].bank \in {0, 2, 5}
          /\ load + size >= AddressOf(w.pieces[j]) /\ load <= AddressOf(w.pieces[j]) + Len(w.pieces[j].bytes) - 1
    BY <2>1, Zenon DEF OverlapsPlain
  <2> DEFINE it == w.pieces[j]
             at == AddressOf(it)
             a == IF load <= at THEN at ELSE load
             b == it.bank
             p == a - Base(it.bank)
  <2>3. it \in PieceSet /\ Len(it.bytes) \in Nat /\ Len(it.bytes) # 0
    BY <1>2, LenProperties DEF PieceSet
  <2>4. at \in Int
    BY <2>2, <2>3, AddressIs
  <2>5. a \in Int /\ at <= a /\ a < at + Len(it.bytes)
    <3> HIDE DEF it, at, load, size
    <3>1. load + size >= at /\ load <= at + Len(it.bytes) - 1
      BY <2>2 DEF it, at
    <3> QED BY <1>1, <2>3, <2>4, <3>1
  <2>6. p \in Offset /\ On(it, b, p) /\ Resolve(0, a) = <<b, p>>
    <3> HIDE DEF it, a, load, size
    <3>1. it.bank \in {0, 2, 5}
      BY <2>2 DEF it
    <3> QED BY <2>3, <2>5, <3>1, AddressIs
  <2>7. PICK i \in 1..m : \E c \in Addresses(files[i]) : Cell(files[i], c) = <<b, p>>
    <3> HIDE DEF p, b
    <3>1. Has(w.pieces, b, p) /\ p \in Offset
      BY <2>2, <2>6 DEF Has
    <3>2. SomeFile(files, m, b, p)
      BY <3>1, OnAddress
    <3> QED BY <3>2, Zenon DEF SomeFile
  <2>8. CASE a < load + size
    <3>1. a \in Addresses(f)
      <4>1. load <= a
        BY <1>1, <2>4
      <4> HIDE DEF a
      <4> QED BY <1>1, <2>5, <2>8, <4>1, AddressesAre
    <3>2. Cell(f, a) = <<b, p>>
      BY <1>4, <2>6, Zenon DEF Cell
    <3> HIDE DEF a, b, p
    <3> QED BY <2>7, <3>1, <3>2, Zenon DEF Meet
  <2>9. CASE ~(a < load + size)
    <3>1. a = load + size
      <4> HIDE DEF it, at, load, size
      <4>1. load + size >= at
        BY <2>2 DEF it, at
      <4> QED BY <1>1, <1>3, <2>4, <2>9, <4>1
    <3> HIDE DEF a, b, p
    <3>2. RightBefore(f, files[i])
      BY <1>4, <2>6, <2>7, <3>1, Zenon DEF RightBefore, Bytes
    <3> QED BY <3>2, Zenon DEF Meet
  <2> QED BY <2>8, <2>9
<1>5. CASE bank # Plain
  <2>1. BankStart(bank, load, size) # Invalid /\ OverlapsBank(w, bank, BankStart(bank, load, size), size) /\ bank \in Bank
    BY <1>3, <1>5 DEF CodeError
  <2> DEFINE new == BankPiece(bank, load, data)
             start == BankStart(bank, load, size)
  <2>2. /\ new \in PieceSet
        /\ \A b, v : \A p \in Offset : Puts(new, b, p, v) <=> Gives(load, data, f.name, b, p, v)
    BY <1>1, <1>3, <2>1, BankGives
  <2>3. new.bank = bank /\ new.start = start /\ new.bytes = data
    BY DEF BankPiece
  <2> HIDE DEF new, start
  <2>4. start \in Nat /\ start >= 3 * Page /\ start + size <= 4 * Page
    BY <2>2, <2>3 DEF PieceSet
  <2>5. PICK j \in 1..Len(w.pieces) :
          /\ w.pieces[j].bank = bank
          /\ start + size - 1 >= w.pieces[j].start /\ start <= w.pieces[j].start + Len(w.pieces[j].bytes) - 1
    BY <2>1, Zenon DEF OverlapsBank, start
  <2> DEFINE it == w.pieces[j]
  <2>6. /\ it.start \in Nat /\ Len(it.bytes) \in Nat /\ Len(it.bytes) # 0
        /\ it.start >= 3 * Page /\ it.start + Len(it.bytes) <= 4 * Page
    <3>1. it \in PieceSet
      BY <1>2, <2>5
    <3> HIDE DEF it
    <3> QED BY <3>1, LenProperties DEF PieceSet
  <2>7. it.bank = bank /\ start + size - 1 >= it.start /\ start <= it.start + Len(it.bytes) - 1
    BY <2>5
  <2> DEFINE q == IF start >= it.start THEN start ELSE it.start
             p == q - 3 * Page
  <2> HIDE DEF it, load, data, size, bank
  <2>8. p \in Offset /\ 3 * Page + p = q /\ q >= start /\ q < start + size /\ q >= it.start /\ q < it.start + Len(it.bytes)
    <3>1. q \in Int /\ q >= start /\ q < start + size /\ q >= it.start /\ q < it.start + Len(it.bytes)
      BY <1>1, <1>3, <2>4, <2>6, <2>7
    <3>2. q >= 3 * Page /\ q < 4 * Page
      <4> HIDE DEF q
      <4> QED BY <1>1, <2>4, <3>1
    <3> HIDE DEF q
    <3> QED BY <1>1, <3>1, <3>2 DEF Offset
  <2> HIDE DEF p, q
  <2>9. On(it, bank, p) /\ On(new, bank, p)
    BY <2>3, <2>7, <2>8 DEF On, size
  <2>10. PICK i \in 1..m : \E c \in Addresses(files[i]) : Cell(files[i], c) = <<bank, p>>
    <3>1. Has(w.pieces, bank, p)
      BY <2>5, <2>9 DEF it, Has
    <3>2. SomeFile(files, m, bank, p)
      BY <2>8, <3>1, OnAddress
    <3> QED BY <3>2, Zenon DEF SomeFile
  <2>11. \E c \in Addresses(f) : Cell(f, c) = <<bank, p>>
    <3>1. PICK v : Gives(load, data, f.name, bank, p, v)
      BY <2>2, <2>8, <2>9 DEF Puts
    <3> QED BY <3>1, GivesAddress DEF FileGives, load, data
  <2> QED BY <2>10, <2>11, Zenon DEF Meet
<1> QED BY <1>4, <1>5

\* A file refused for its bounds does not fit.
LEMMA BoundsReason ==
  ASSUME NEW w, LinkedFiles(project.linked),
         NEW f, f.ref \in DOMAIN project.linked, BankNamed[f.name] \in Bank \cup {Plain, Invalid},
         CodeError(w, f.name, project.linked[f.ref].load, project.linked[f.ref].data) = "bounds"
  PROVE  ~Fits(f)
<1> DEFINE load == project.linked[f.ref].load
           data == project.linked[f.ref].data
           size == Len(data)
           bank == BankNamed[f.name]
<1>1. load \in Nat /\ data \in Seq(0..255) /\ size \in Nat /\ Page \in Nat /\ Page > 0
  BY LenProperties, SnapshotAssumption DEF LinkedFiles
<1>2. size # 0 /\ bank # Invalid
  BY DEF CodeError
<1>3. load \in Addresses(f) /\ load + size - 1 \in Addresses(f)
  <2>1. load \in Int /\ load <= load /\ load < load + size
        /\ load + size - 1 \in Int /\ load <= load + size - 1 /\ load + size - 1 < load + size
    BY <1>1, <1>2
  <2> HIDE DEF load, data
  <2>2. \A a : a \in Addresses(f) <=> a \in Int /\ load <= a /\ a < load + size
    BY <1>1, AddressesAre DEF load, data
  <2> QED BY <2>1, <2>2
<1>4. CASE bank = Plain
  <2>1. load < Page \/ load + size > 4 * Page
    BY <1>1, <1>2, <1>4 DEF CodeError
  <2>2. ~(Addresses(f) \subseteq Page..(4 * Page - 1))
    <3> HIDE DEF load, size
    <3>1. ASSUME Addresses(f) \subseteq Page..(4 * Page - 1) PROVE FALSE
      <4>1. load \in Page..(4 * Page - 1) /\ load + size - 1 \in Page..(4 * Page - 1)
        BY <1>3, <3>1
      <4> QED BY <1>1, <2>1, <4>1
    <3> QED BY <3>1
  <2> QED BY <1>4, <2>2 DEF Fits
<1>5. CASE bank # Plain
  <2>1. BankStart(bank, load, size) = Invalid
    BY <1>2, <1>5 DEF CodeError
  <2>2. bank \in Bank
    BY <1>2, <1>5
  <2> DEFINE base == IF bank = 2 THEN 2 * Page ELSE IF bank = 5 THEN Page ELSE 3 * Page
  <2> HIDE DEF load, size, bank
  <2>3. base \in Nat
    BY <1>1
  <2>4. /\ ~(load >= base /\ load + size <= base + Page)
        /\ ~(load >= 3 * Page /\ load + size <= 4 * Page)
    <3>1. Invalid < 0
      BY DEF Invalid
    <3>2. BankStart(bank, load, size) = IF load >= base /\ load + size <= base + Page THEN load + 3 * Page - base
                                        ELSE IF load >= 3 * Page /\ load + size <= 4 * Page THEN load ELSE Invalid
      BY DEF BankStart
    <3>3. base <= 3 * Page
      BY <1>1
    <3> HIDE DEF base
    <3> QED BY <1>1, <2>1, <2>3, <3>1, <3>2, <3>3
  <2>5. ~(Addresses(f) \subseteq (3 * Page)..(4 * Page - 1))
    <3>1. ASSUME Addresses(f) \subseteq (3 * Page)..(4 * Page - 1) PROVE FALSE
      <4>1. load \in (3 * Page)..(4 * Page - 1) /\ load + size - 1 \in (3 * Page)..(4 * Page - 1)
        BY <1>3, <3>1
      <4> HIDE DEF base
      <4> QED BY <1>1, <2>4, <4>1
    <3> QED BY <3>1
  <2>6. ~(Addresses(f) \subseteq Fixed(bank))
    <3>1. ASSUME Addresses(f) \subseteq Fixed(bank) PROVE FALSE
      <4>1. load \in Fixed(bank) /\ load + size - 1 \in Fixed(bank)
        BY <1>3, <3>1
      <4>2. bank = 2 \/ bank = 5
        BY <4>1 DEF Fixed
      <4>3. CASE bank = 2
        BY <1>1, <2>4, <4>1, <4>3 DEF Fixed
      <4>4. CASE bank = 5
        BY <1>1, <2>4, <4>1, <4>4 DEF Fixed
      <4> QED BY <4>2, <4>3, <4>4
    <3> QED BY <3>1
  <2> QED BY <1>5, <2>5, <2>6 DEF Fits, bank
<1> QED BY <1>4, <1>5

\* Pieces for other banks come from files that name them.
LEMMA ForeignReason ==
  ASSUME NEW w, NEW l, NEW files, NEW m \in Nat, WriterInv(w, l, files, m), LinkedFiles(l),
         \A i \in 1..m : files[i].ref \in DOMAIN l, Foreign(w)
  PROVE  \E i \in 1..m : BankNamed[files[i].name] \notin {Plain, 0, 2, 5}
<1>1. PICK j \in 1..Len(w.pieces) : w.pieces[j].bank \notin {0, 2, 5}
  BY DEF Foreign
<1> DEFINE it == w.pieces[j]
           p == it.start - 3 * Page
           b == it.bank
<1>2. /\ it.start \in Nat /\ Len(it.bytes) \in Nat /\ Len(it.bytes) # 0 /\ Page \in Nat
      /\ it.start >= 3 * Page /\ it.start + Len(it.bytes) <= 4 * Page
  BY SnapshotAssumption, LenProperties, SMTT(30) DEF PieceSet, WriterInv
<1>3. p \in Offset /\ On(it, b, p)
  <2> HIDE DEF it
  <2> QED BY <1>2 DEF Offset, On
<1> HIDE DEF p
<1>4. PICK v : PutBy(w.pieces, b, p, v)
  BY <1>3, Zenon DEF PutBy, Puts
<1>5. PICK i \in 1..m : FileGives(l, files[i], b, p, v)
  BY <1>3, <1>4 DEF WriterInv
<1> DEFINE load == l[files[i].ref].load
           data == l[files[i].ref].data
<1>6. load \in Nat /\ data \in Seq(0..255) /\ Len(data) \in Nat
  BY LenProperties DEF LinkedFiles
<1>7. PICK x \in 1..Len(data) : Resolve(BankOf(files[i].name), load + x - 1) = <<b, p>>
  BY <1>5, Zenon DEF FileGives, Gives
<1>8. InMemory(l, files[i])
  BY DEF WriterInv
<1>9. load >= Page /\ load + Len(data) <= 4 * Page
  <2>1. Len(data) # 0
    BY <1>6
  <2> QED BY <1>8, <2>1 DEF InMemory
<1>10. b \in {5, 2, BankOf(files[i].name)}
  <2> HIDE DEF b, load, data
  <2>1. load + x - 1 \in Int /\ Page <= load + x - 1 /\ load + x - 1 < 4 * Page
    BY <1>2, <1>6, <1>9, SMTT(30)
  <2> DEFINE a == load + x - 1
  <2> HIDE DEF a
  <2>2. Resolve(BankOf(files[i].name), a) = <<b, p>> /\ a \in Int /\ Page <= a /\ a < 4 * Page
    BY <1>7, <2>1 DEF a
  <2> QED BY <2>2, ResolveIs
<1> QED BY <1>1, <1>10 DEF BankOf

-----------------------------------------------------------------------------
(* The header of a snapshot, byte by byte.                                 *)

Fit(x) ==
  IF x = "1ffd" THEN Words ELSE IF x \in ByteSized THEN 0..255
  ELSE IF x = "ei" THEN {0, 1} ELSE IF x = "border" THEN 0..7 ELSE IF x = "im" THEN 0..2 ELSE Words
RegsFit(r) == \A x \in Register : r[x] \in Fit(x)

\* Every register has a value of its width.
LEMMA RegsAre ==
  ASSUME NEW r, RegsFit(r)
  PROVE  /\ r["a"] \in 0..255 /\ r["f"] \in 0..255 /\ r["a'"] \in 0..255
         /\ r["f'"] \in 0..255 /\ r["i"] \in 0..255 /\ r["r"] \in 0..255
         /\ r["7ffd"] \in 0..255 /\ r["fffd"] \in 0..255
         /\ r["bc"] \in Words /\ r["hl"] \in Words /\ r["de"] \in Words
         /\ r["bc'"] \in Words /\ r["hl'"] \in Words /\ r["de'"] \in Words
         /\ r["pc"] \in Words /\ r["sp"] \in Words /\ r["iy"] \in Words
         /\ r["ix"] \in Words /\ r["1ffd"] \in Words
         /\ r["border"] \in 0..7 /\ r["im"] \in 0..2 /\ r["ei"] \in {0, 1}
<1>1. r["a"] \in 0..255
  <2>1. "a" \in Register
    BY Zenon DEF Register
  <2>2. Fit("a") = 0..255
    BY DEF Fit, ByteSized
  <2> QED BY <2>1, <2>2, Zenon DEF RegsFit
<1>2. r["f"] \in 0..255
  <2>1. "f" \in Register
    BY Zenon DEF Register
  <2>2. Fit("f") = 0..255
    BY DEF Fit, ByteSized
  <2> QED BY <2>1, <2>2, Zenon DEF RegsFit
<1>3. r["a'"] \in 0..255
  <2>1. "a'" \in Register
    BY Zenon DEF Register
  <2>2. Fit("a'") = 0..255
    BY DEF Fit, ByteSized
  <2> QED BY <2>1, <2>2, Zenon DEF RegsFit
<1>4. r["f'"] \in 0..255
  <2>1. "f'" \in Register
    BY Zenon DEF Register
  <2>2. Fit("f'") = 0..255
    BY DEF Fit, ByteSized
  <2> QED BY <2>1, <2>2, Zenon DEF RegsFit
<1>5. r["i"] \in 0..255
  <2>1. "i" \in Register
    BY Zenon DEF Register
  <2>2. Fit("i") = 0..255
    BY DEF Fit, ByteSized
  <2> QED BY <2>1, <2>2, Zenon DEF RegsFit
<1>6. r["r"] \in 0..255
  <2>1. "r" \in Register
    BY Zenon DEF Register
  <2>2. Fit("r") = 0..255
    BY DEF Fit, ByteSized
  <2> QED BY <2>1, <2>2, Zenon DEF RegsFit
<1>7. r["7ffd"] \in 0..255
  <2>1. "7ffd" \in Register
    BY Zenon DEF Register
  <2>2. Fit("7ffd") = 0..255
    BY DEF Fit, ByteSized
  <2> QED BY <2>1, <2>2, Zenon DEF RegsFit
<1>8. r["fffd"] \in 0..255
  <2>1. "fffd" \in Register
    BY Zenon DEF Register
  <2>2. Fit("fffd") = 0..255
    BY DEF Fit, ByteSized
  <2> QED BY <2>1, <2>2, Zenon DEF RegsFit
<1>9. r["bc"] \in Words
  <2>1. "bc" \in Register
    BY Zenon DEF Register
  <2>2. Fit("bc") = Words
    BY DEF Fit, ByteSized
  <2> QED BY <2>1, <2>2, Zenon DEF RegsFit
<1>10. r["hl"] \in Words
  <2>1. "hl" \in Register
    BY Zenon DEF Register
  <2>2. Fit("hl") = Words
    BY DEF Fit, ByteSized
  <2> QED BY <2>1, <2>2, Zenon DEF RegsFit
<1>11. r["de"] \in Words
  <2>1. "de" \in Register
    BY Zenon DEF Register
  <2>2. Fit("de") = Words
    BY DEF Fit, ByteSized
  <2> QED BY <2>1, <2>2, Zenon DEF RegsFit
<1>12. r["bc'"] \in Words
  <2>1. "bc'" \in Register
    BY Zenon DEF Register
  <2>2. Fit("bc'") = Words
    BY DEF Fit, ByteSized
  <2> QED BY <2>1, <2>2, Zenon DEF RegsFit
<1>13. r["hl'"] \in Words
  <2>1. "hl'" \in Register
    BY Zenon DEF Register
  <2>2. Fit("hl'") = Words
    BY DEF Fit, ByteSized
  <2> QED BY <2>1, <2>2, Zenon DEF RegsFit
<1>14. r["de'"] \in Words
  <2>1. "de'" \in Register
    BY Zenon DEF Register
  <2>2. Fit("de'") = Words
    BY DEF Fit, ByteSized
  <2> QED BY <2>1, <2>2, Zenon DEF RegsFit
<1>15. r["pc"] \in Words
  <2>1. "pc" \in Register
    BY Zenon DEF Register
  <2>2. Fit("pc") = Words
    BY DEF Fit, ByteSized
  <2> QED BY <2>1, <2>2, Zenon DEF RegsFit
<1>16. r["sp"] \in Words
  <2>1. "sp" \in Register
    BY Zenon DEF Register
  <2>2. Fit("sp") = Words
    BY DEF Fit, ByteSized
  <2> QED BY <2>1, <2>2, Zenon DEF RegsFit
<1>17. r["iy"] \in Words
  <2>1. "iy" \in Register
    BY Zenon DEF Register
  <2>2. Fit("iy") = Words
    BY DEF Fit, ByteSized
  <2> QED BY <2>1, <2>2, Zenon DEF RegsFit
<1>18. r["ix"] \in Words
  <2>1. "ix" \in Register
    BY Zenon DEF Register
  <2>2. Fit("ix") = Words
    BY DEF Fit, ByteSized
  <2> QED BY <2>1, <2>2, Zenon DEF RegsFit
<1>19. r["1ffd"] \in Words
  <2>1. "1ffd" \in Register
    BY Zenon DEF Register
  <2>2. Fit("1ffd") = Words
    BY DEF Fit, ByteSized
  <2> QED BY <2>1, <2>2, Zenon DEF RegsFit
<1>20. r["border"] \in 0..7
  <2>1. "border" \in Register
    BY Zenon DEF Register
  <2>2. Fit("border") = 0..7
    BY DEF Fit, ByteSized
  <2> QED BY <2>1, <2>2, Zenon DEF RegsFit
<1>21. r["im"] \in 0..2
  <2>1. "im" \in Register
    BY Zenon DEF Register
  <2>2. Fit("im") = 0..2
    BY DEF Fit, ByteSized
  <2> QED BY <2>1, <2>2, Zenon DEF RegsFit
<1>22. r["ei"] \in {0, 1}
  <2>1. "ei" \in Register
    BY Zenon DEF Register
  <2>2. Fit("ei") = {0, 1}
    BY DEF Fit, ByteSized
  <2> QED BY <2>1, <2>2, Zenon DEF RegsFit
<1> QED BY <1>1, <1>2, <1>3, <1>4, <1>5, <1>6, <1>7, <1>8, <1>9, <1>10, <1>11, <1>12, <1>13, <1>14, <1>15, <1>16, <1>17, <1>18, <1>19, <1>20, <1>21, <1>22, Zenon

Agrees(s, m, f) == s \in Seq(Int) /\ Len(s) = m /\ \A i \in 1..m : s[i] = f[i]
LEMMA AgreesConcat ==
  ASSUME NEW s, NEW m \in Nat, NEW f, Agrees(s, m, f), NEW t \in Seq(Int), NEW e \in Nat, Len(t) = e,
         \A i \in 1..e : t[i] = f[m + i]
  PROVE  Agrees(s \o t, m + e, f)
<1> DEFINE u == s \o t
<1>1. s \in Seq(Int) /\ Len(s) = m /\ \A i \in 1..m : s[i] = f[i]
  BY DEF Agrees
<1>2. u \in Seq(Int) /\ Len(u) = m + e /\ \A i \in 1..m + e : u[i] = IF i <= m THEN s[i] ELSE t[i - m]
  <2>1. s \in Seq(Int) /\ t \in Seq(Int)
    BY <1>1
  <2>2. u \in Seq(Int) /\ Len(u) = Len(s) + Len(t)
        /\ \A i \in 1..Len(s) + Len(t) : u[i] = IF i <= Len(s) THEN s[i] ELSE t[i - Len(s)]
    BY <2>1, ConcatProperties, Zenon
  <2> QED BY <1>1, <2>2
<1> HIDE DEF u
<1>3. \A i \in 1..m + e : u[i] = f[i]
  <2> TAKE i \in 1..m + e
  <2>1. CASE i <= m
    BY <1>1, <1>2, <2>1
  <2>2. CASE ~(i <= m)
    <3>1. i - m \in 1..e /\ m + (i - m) = i
      BY <2>2
    <3>2. t[i - m] = f[m + (i - m)]
      BY <3>1
    <3> QED BY <1>2, <2>2, <3>1, <3>2
  <2> QED BY <2>1, <2>2
<1> QED BY <1>2, <1>3 DEF Agrees, u

\* One byte more.
LEMMA AgreesByte ==
  ASSUME NEW s, NEW m \in Nat, NEW f, Agrees(s, m, f), NEW x \in Int, f[m + 1] = x % 256
  PROVE  Agrees(s \o Byte(x), m + 1, f)
<1> DEFINE t == <<x % 256>>
<1>1. t \in Seq(Int) /\ Len(t) = 1 /\ t[1] = x % 256
  OBVIOUS
<1> HIDE DEF t
<1>2. \A i \in 1..1 : t[i] = f[m + i]
  BY <1>1
<1>3. Agrees(s \o t, m + 1, f)
  BY <1>1, <1>2, AgreesConcat
<1> QED BY <1>3 DEF Byte, t

\* One word more, low byte first.
LEMMA AgreesWord ==
  ASSUME NEW s, NEW m \in Nat, NEW f, Agrees(s, m, f), NEW x \in Int, f[m + 1] = x % 256, f[m + 2] = (x \div 256) % 256
  PROVE  Agrees(s \o Word(x), m + 2, f)
<1> DEFINE t == <<x % 256, (x \div 256) % 256>>
<1>1. t \in Seq(Int) /\ Len(t) = 2 /\ t[1] = x % 256 /\ t[2] = (x \div 256) % 256
  OBVIOUS
<1> HIDE DEF t
<1>2. \A i \in 1..2 : t[i] = f[m + i]
  <2> TAKE i \in 1..2
  <2>1. CASE i = 1
    BY <1>1, <2>1
  <2>2. CASE i = 2
    BY <1>1, <2>2
  <2> QED BY <2>1, <2>2
<1>3. Agrees(s \o t, m + 2, f)
  BY <1>1, <1>2, AgreesConcat
<1> QED BY <1>3 DEF Word, t

\* Nothing written yet.
LEMMA AgreesNone ==
  ASSUME NEW f
  PROVE  /\ \A x \in Int : f[1] = x % 256 => Agrees(Byte(x), 1, f)
         /\ \A x \in Int : f[1] = x % 256 /\ f[2] = (x \div 256) % 256 => Agrees(Word(x), 2, f)
<1>1. ASSUME NEW x \in Int, f[1] = x % 256 PROVE Agrees(Byte(x), 1, f)
  <2> DEFINE t == <<x % 256>>
  <2>1. t \in Seq(Int) /\ Len(t) = 1 /\ t[1] = x % 256
    OBVIOUS
  <2> HIDE DEF t
  <2>2. \A i \in 1..1 : t[i] = f[i]
    BY <1>1, <2>1
  <2> QED BY <2>1, <2>2 DEF Agrees, Byte, t
<1>2. ASSUME NEW x \in Int, f[1] = x % 256, f[2] = (x \div 256) % 256 PROVE Agrees(Word(x), 2, f)
  <2> DEFINE t == <<x % 256, (x \div 256) % 256>>
  <2>1. t \in Seq(Int) /\ Len(t) = 2 /\ t[1] = x % 256 /\ t[2] = (x \div 256) % 256
    OBVIOUS
  <2> HIDE DEF t
  <2>2. \A i \in 1..2 : t[i] = f[i]
    <3> TAKE i \in 1..2
    <3>1. i = 1 \/ i = 2
      OBVIOUS
    <3> QED BY <1>2, <2>1, <3>1
  <2> QED BY <2>1, <2>2 DEF Agrees, Word, t
<1> QED BY <1>1, <1>2

\* The first thirty bytes, and those that follow in formats 2 and 3.
Mixed(r) == 2 * (r["border"] % 8) + ((r["r"] \div 128) % 2)
ModeByte(r) == 64 + (IF r["im"] <= 2 THEN r["im"] ELSE 0)
PcNow(r, format) == IF format = 1 THEN r["pc"] ELSE 0
Head30(r, format) ==
  <<r["a"] % 256, r["f"] % 256, Low(r["bc"]), High(r["bc"]), Low(r["hl"]), High(r["hl"]),
    Low(PcNow(r, format)), High(PcNow(r, format)), Low(r["sp"]), High(r["sp"]), r["i"] % 256, r["r"] % 256,
    Mixed(r) % 256, Low(r["de"]), High(r["de"]), Low(r["bc'"]), High(r["bc'"]), Low(r["de'"]), High(r["de'"]),
    Low(r["hl'"]), High(r["hl'"]), r["a'"] % 256, r["f'"] % 256, Low(r["iy"]), High(r["iy"]), Low(r["ix"]), High(r["ix"]),
    r["ei"] % 256, 0 % 256, ModeByte(r) % 256>>
HeadBytes(r, format) ==
  Byte(r["a"]) \o Byte(r["f"]) \o Word(r["bc"]) \o Word(r["hl"])
  \o Word(PcNow(r, format)) \o Word(r["sp"]) \o Byte(r["i"]) \o Byte(r["r"])
  \o Byte(Mixed(r))
  \o Word(r["de"]) \o Word(r["bc'"]) \o Word(r["de'"]) \o Word(r["hl'"])
  \o Byte(r["a'"]) \o Byte(r["f'"]) \o Word(r["iy"]) \o Word(r["ix"])
  \o Byte(r["ei"]) \o Byte(0) \o Byte(ModeByte(r))

\* The first thirty bytes of the header are those of Head30.
LEMMA HeadIs ==
  ASSUME NEW r, RegsFit(r), NEW format
  PROVE  Agrees(HeadBytes(r, format), 30, Head30(r, format))
<1> DEFINE f == Head30(r, format)
<1>1. Mixed(r) \in Int /\ ModeByte(r) \in Int /\ PcNow(r, format) \in Int
  <2>1. r["border"] \in 0..7 /\ r["r"] \in 0..255 /\ r["im"] \in 0..2 /\ r["pc"] \in Words
    BY RegsAre DEF Words
  <2> QED BY <2>1 DEF Mixed, ModeByte, PcNow, Words
<1>2. f[1] = r["a"] % 256
  BY DEF Head30, Low, High
<1>3. f[2] = r["f"] % 256
  BY DEF Head30, Low, High
<1>4. f[3] = r["bc"] % 256 /\ f[4] = (r["bc"] \div 256) % 256
  BY DEF Head30, Low, High
<1>5. f[5] = r["hl"] % 256 /\ f[6] = (r["hl"] \div 256) % 256
  BY DEF Head30, Low, High
<1>6. f[7] = PcNow(r, format) % 256 /\ f[8] = (PcNow(r, format) \div 256) % 256
  BY DEF Head30, Low, High
<1>7. f[9] = r["sp"] % 256 /\ f[10] = (r["sp"] \div 256) % 256
  BY DEF Head30, Low, High
<1>8. f[11] = r["i"] % 256
  BY DEF Head30, Low, High
<1>9. f[12] = r["r"] % 256
  BY DEF Head30, Low, High
<1>10. f[13] = Mixed(r) % 256
  BY DEF Head30, Low, High
<1>11. f[14] = r["de"] % 256 /\ f[15] = (r["de"] \div 256) % 256
  BY DEF Head30, Low, High
<1>12. f[16] = r["bc'"] % 256 /\ f[17] = (r["bc'"] \div 256) % 256
  BY DEF Head30, Low, High
<1>13. f[18] = r["de'"] % 256 /\ f[19] = (r["de'"] \div 256) % 256
  BY DEF Head30, Low, High
<1>14. f[20] = r["hl'"] % 256 /\ f[21] = (r["hl'"] \div 256) % 256
  BY DEF Head30, Low, High
<1>15. f[22] = r["a'"] % 256
  BY DEF Head30, Low, High
<1>16. f[23] = r["f'"] % 256
  BY DEF Head30, Low, High
<1>17. f[24] = r["iy"] % 256 /\ f[25] = (r["iy"] \div 256) % 256
  BY DEF Head30, Low, High
<1>18. f[26] = r["ix"] % 256 /\ f[27] = (r["ix"] \div 256) % 256
  BY DEF Head30, Low, High
<1>19. f[28] = r["ei"] % 256
  BY DEF Head30, Low, High
<1>20. f[29] = 0 % 256
  BY DEF Head30, Low, High
<1>21. f[30] = ModeByte(r) % 256
  BY DEF Head30, Low, High
<1> HIDE DEF f
<1> DEFINE s1 == Byte(r["a"])
<1>22. Agrees(s1, 1, f)
  <2>1. r["a"] \in Int
    BY RegsAre DEF Words
  <2> QED BY <1>2, <2>1, AgreesNone
<1> HIDE DEF s1
<1> DEFINE s2 == s1 \o Byte(r["f"])
<1>23. Agrees(s2, 2, f)
  <2>1. r["f"] \in Int
    BY RegsAre DEF Words
  <2> DEFINE x == r["f"]
  <2>2. 1 \in Nat /\ 1 + 1 = 2 /\ f[1 + 1] = x % 256
    BY <1>3
  <2> HIDE DEF x
  <2>3. Agrees(s1 \o Byte(x), 1 + 1, f)
    BY <1>22, <2>1, <2>2, AgreesByte DEF x
  <2> QED BY <2>2, <2>3 DEF x
<1> HIDE DEF s2
<1> DEFINE s3 == s2 \o Word(r["bc"])
<1>24. Agrees(s3, 4, f)
  <2>1. r["bc"] \in Int
    BY RegsAre DEF Words
  <2> DEFINE x == r["bc"]
  <2>2. 2 \in Nat /\ 2 + 2 = 4 /\ f[2 + 1] = x % 256 /\ f[2 + 2] = (x \div 256) % 256
    BY <1>4
  <2> HIDE DEF x
  <2>3. Agrees(s2 \o Word(x), 2 + 2, f)
    BY <1>23, <2>1, <2>2, AgreesWord DEF x
  <2> QED BY <2>2, <2>3 DEF x
<1> HIDE DEF s3
<1> DEFINE s4 == s3 \o Word(r["hl"])
<1>25. Agrees(s4, 6, f)
  <2>1. r["hl"] \in Int
    BY RegsAre DEF Words
  <2> DEFINE x == r["hl"]
  <2>2. 4 \in Nat /\ 4 + 2 = 6 /\ f[4 + 1] = x % 256 /\ f[4 + 2] = (x \div 256) % 256
    BY <1>5
  <2> HIDE DEF x
  <2>3. Agrees(s3 \o Word(x), 4 + 2, f)
    BY <1>24, <2>1, <2>2, AgreesWord DEF x
  <2> QED BY <2>2, <2>3 DEF x
<1> HIDE DEF s4
<1> DEFINE s5 == s4 \o Word(PcNow(r, format))
<1>26. Agrees(s5, 8, f)
  <2>1. PcNow(r, format) \in Int
    BY <1>1
  <2> DEFINE x == PcNow(r, format)
  <2>2. 6 \in Nat /\ 6 + 2 = 8 /\ f[6 + 1] = x % 256 /\ f[6 + 2] = (x \div 256) % 256
    BY <1>6
  <2> HIDE DEF x
  <2>3. Agrees(s4 \o Word(x), 6 + 2, f)
    BY <1>25, <2>1, <2>2, AgreesWord DEF x
  <2> QED BY <2>2, <2>3 DEF x
<1> HIDE DEF s5
<1> DEFINE s6 == s5 \o Word(r["sp"])
<1>27. Agrees(s6, 10, f)
  <2>1. r["sp"] \in Int
    BY RegsAre DEF Words
  <2> DEFINE x == r["sp"]
  <2>2. 8 \in Nat /\ 8 + 2 = 10 /\ f[8 + 1] = x % 256 /\ f[8 + 2] = (x \div 256) % 256
    BY <1>7
  <2> HIDE DEF x
  <2>3. Agrees(s5 \o Word(x), 8 + 2, f)
    BY <1>26, <2>1, <2>2, AgreesWord DEF x
  <2> QED BY <2>2, <2>3 DEF x
<1> HIDE DEF s6
<1> DEFINE s7 == s6 \o Byte(r["i"])
<1>28. Agrees(s7, 11, f)
  <2>1. r["i"] \in Int
    BY RegsAre DEF Words
  <2> DEFINE x == r["i"]
  <2>2. 10 \in Nat /\ 10 + 1 = 11 /\ f[10 + 1] = x % 256
    BY <1>8
  <2> HIDE DEF x
  <2>3. Agrees(s6 \o Byte(x), 10 + 1, f)
    BY <1>27, <2>1, <2>2, AgreesByte DEF x
  <2> QED BY <2>2, <2>3 DEF x
<1> HIDE DEF s7
<1> DEFINE s8 == s7 \o Byte(r["r"])
<1>29. Agrees(s8, 12, f)
  <2>1. r["r"] \in Int
    BY RegsAre DEF Words
  <2> DEFINE x == r["r"]
  <2>2. 11 \in Nat /\ 11 + 1 = 12 /\ f[11 + 1] = x % 256
    BY <1>9
  <2> HIDE DEF x
  <2>3. Agrees(s7 \o Byte(x), 11 + 1, f)
    BY <1>28, <2>1, <2>2, AgreesByte DEF x
  <2> QED BY <2>2, <2>3 DEF x
<1> HIDE DEF s8
<1> DEFINE s9 == s8 \o Byte(Mixed(r))
<1>30. Agrees(s9, 13, f)
  <2>1. Mixed(r) \in Int
    BY <1>1
  <2> DEFINE x == Mixed(r)
  <2>2. 12 \in Nat /\ 12 + 1 = 13 /\ f[12 + 1] = x % 256
    BY <1>10
  <2> HIDE DEF x
  <2>3. Agrees(s8 \o Byte(x), 12 + 1, f)
    BY <1>29, <2>1, <2>2, AgreesByte DEF x
  <2> QED BY <2>2, <2>3 DEF x
<1> HIDE DEF s9
<1> DEFINE s10 == s9 \o Word(r["de"])
<1>31. Agrees(s10, 15, f)
  <2>1. r["de"] \in Int
    BY RegsAre DEF Words
  <2> DEFINE x == r["de"]
  <2>2. 13 \in Nat /\ 13 + 2 = 15 /\ f[13 + 1] = x % 256 /\ f[13 + 2] = (x \div 256) % 256
    BY <1>11
  <2> HIDE DEF x
  <2>3. Agrees(s9 \o Word(x), 13 + 2, f)
    BY <1>30, <2>1, <2>2, AgreesWord DEF x
  <2> QED BY <2>2, <2>3 DEF x
<1> HIDE DEF s10
<1> DEFINE s11 == s10 \o Word(r["bc'"])
<1>32. Agrees(s11, 17, f)
  <2>1. r["bc'"] \in Int
    BY RegsAre DEF Words
  <2> DEFINE x == r["bc'"]
  <2>2. 15 \in Nat /\ 15 + 2 = 17 /\ f[15 + 1] = x % 256 /\ f[15 + 2] = (x \div 256) % 256
    BY <1>12
  <2> HIDE DEF x
  <2>3. Agrees(s10 \o Word(x), 15 + 2, f)
    BY <1>31, <2>1, <2>2, AgreesWord DEF x
  <2> QED BY <2>2, <2>3 DEF x
<1> HIDE DEF s11
<1> DEFINE s12 == s11 \o Word(r["de'"])
<1>33. Agrees(s12, 19, f)
  <2>1. r["de'"] \in Int
    BY RegsAre DEF Words
  <2> DEFINE x == r["de'"]
  <2>2. 17 \in Nat /\ 17 + 2 = 19 /\ f[17 + 1] = x % 256 /\ f[17 + 2] = (x \div 256) % 256
    BY <1>13
  <2> HIDE DEF x
  <2>3. Agrees(s11 \o Word(x), 17 + 2, f)
    BY <1>32, <2>1, <2>2, AgreesWord DEF x
  <2> QED BY <2>2, <2>3 DEF x
<1> HIDE DEF s12
<1> DEFINE s13 == s12 \o Word(r["hl'"])
<1>34. Agrees(s13, 21, f)
  <2>1. r["hl'"] \in Int
    BY RegsAre DEF Words
  <2> DEFINE x == r["hl'"]
  <2>2. 19 \in Nat /\ 19 + 2 = 21 /\ f[19 + 1] = x % 256 /\ f[19 + 2] = (x \div 256) % 256
    BY <1>14
  <2> HIDE DEF x
  <2>3. Agrees(s12 \o Word(x), 19 + 2, f)
    BY <1>33, <2>1, <2>2, AgreesWord DEF x
  <2> QED BY <2>2, <2>3 DEF x
<1> HIDE DEF s13
<1> DEFINE s14 == s13 \o Byte(r["a'"])
<1>35. Agrees(s14, 22, f)
  <2>1. r["a'"] \in Int
    BY RegsAre DEF Words
  <2> DEFINE x == r["a'"]
  <2>2. 21 \in Nat /\ 21 + 1 = 22 /\ f[21 + 1] = x % 256
    BY <1>15
  <2> HIDE DEF x
  <2>3. Agrees(s13 \o Byte(x), 21 + 1, f)
    BY <1>34, <2>1, <2>2, AgreesByte DEF x
  <2> QED BY <2>2, <2>3 DEF x
<1> HIDE DEF s14
<1> DEFINE s15 == s14 \o Byte(r["f'"])
<1>36. Agrees(s15, 23, f)
  <2>1. r["f'"] \in Int
    BY RegsAre DEF Words
  <2> DEFINE x == r["f'"]
  <2>2. 22 \in Nat /\ 22 + 1 = 23 /\ f[22 + 1] = x % 256
    BY <1>16
  <2> HIDE DEF x
  <2>3. Agrees(s14 \o Byte(x), 22 + 1, f)
    BY <1>35, <2>1, <2>2, AgreesByte DEF x
  <2> QED BY <2>2, <2>3 DEF x
<1> HIDE DEF s15
<1> DEFINE s16 == s15 \o Word(r["iy"])
<1>37. Agrees(s16, 25, f)
  <2>1. r["iy"] \in Int
    BY RegsAre DEF Words
  <2> DEFINE x == r["iy"]
  <2>2. 23 \in Nat /\ 23 + 2 = 25 /\ f[23 + 1] = x % 256 /\ f[23 + 2] = (x \div 256) % 256
    BY <1>17
  <2> HIDE DEF x
  <2>3. Agrees(s15 \o Word(x), 23 + 2, f)
    BY <1>36, <2>1, <2>2, AgreesWord DEF x
  <2> QED BY <2>2, <2>3 DEF x
<1> HIDE DEF s16
<1> DEFINE s17 == s16 \o Word(r["ix"])
<1>38. Agrees(s17, 27, f)
  <2>1. r["ix"] \in Int
    BY RegsAre DEF Words
  <2> DEFINE x == r["ix"]
  <2>2. 25 \in Nat /\ 25 + 2 = 27 /\ f[25 + 1] = x % 256 /\ f[25 + 2] = (x \div 256) % 256
    BY <1>18
  <2> HIDE DEF x
  <2>3. Agrees(s16 \o Word(x), 25 + 2, f)
    BY <1>37, <2>1, <2>2, AgreesWord DEF x
  <2> QED BY <2>2, <2>3 DEF x
<1> HIDE DEF s17
<1> DEFINE s18 == s17 \o Byte(r["ei"])
<1>39. Agrees(s18, 28, f)
  <2>1. r["ei"] \in Int
    BY RegsAre DEF Words
  <2> DEFINE x == r["ei"]
  <2>2. 27 \in Nat /\ 27 + 1 = 28 /\ f[27 + 1] = x % 256
    BY <1>19
  <2> HIDE DEF x
  <2>3. Agrees(s17 \o Byte(x), 27 + 1, f)
    BY <1>38, <2>1, <2>2, AgreesByte DEF x
  <2> QED BY <2>2, <2>3 DEF x
<1> HIDE DEF s18
<1> DEFINE s19 == s18 \o Byte(0)
<1>40. Agrees(s19, 29, f)
  <2>1. 0 \in Int
    BY <1>1
  <2> DEFINE x == 0
  <2>2. 28 \in Nat /\ 28 + 1 = 29 /\ f[28 + 1] = x % 256
    BY <1>20
  <2> HIDE DEF x
  <2>3. Agrees(s18 \o Byte(x), 28 + 1, f)
    BY <1>39, <2>1, <2>2, AgreesByte DEF x
  <2> QED BY <2>2, <2>3 DEF x
<1> HIDE DEF s19
<1> DEFINE s20 == s19 \o Byte(ModeByte(r))
<1>41. Agrees(s20, 30, f)
  <2>1. ModeByte(r) \in Int
    BY <1>1
  <2> DEFINE x == ModeByte(r)
  <2>2. 29 \in Nat /\ 29 + 1 = 30 /\ f[29 + 1] = x % 256
    BY <1>21
  <2> HIDE DEF x
  <2>3. Agrees(s19 \o Byte(x), 29 + 1, f)
    BY <1>40, <2>1, <2>2, AgreesByte DEF x
  <2> QED BY <2>2, <2>3 DEF x
<1> HIDE DEF s20
<1> QED BY <1>41, Zenon DEF HeadBytes, f, s1, s2, s3, s4, s5, s6, s7, s8, s9, s10, s11, s12, s13, s14, s15, s16, s17, s18, s19, s20

Tail9(r, code, mode, flag) ==
  <<Low(code), High(code), Low(r["pc"]), High(r["pc"]), mode % 256, r["7ffd"] % 256, 0 % 256, flag % 256, r["fffd"] % 256>>
TailBytes(r, code, mode, flag) ==
  Word(code) \o Word(r["pc"]) \o Byte(mode) \o Byte(r["7ffd"]) \o Byte(0) \o Byte(flag) \o Byte(r["fffd"])

\* So are the nine bytes behind the length of the rest.
LEMMA TailIs ==
  ASSUME NEW r, RegsFit(r), NEW code \in Int, NEW mode \in Int, NEW flag \in Int
  PROVE  Agrees(TailBytes(r, code, mode, flag), 9, Tail9(r, code, mode, flag))
<1> DEFINE f == Tail9(r, code, mode, flag)
<1>1. code \in Int /\ mode \in Int /\ flag \in Int
  OBVIOUS
<1>2. f[1] = code % 256 /\ f[2] = (code \div 256) % 256
  BY DEF Tail9, Low, High
<1>3. f[3] = r["pc"] % 256 /\ f[4] = (r["pc"] \div 256) % 256
  BY DEF Tail9, Low, High
<1>4. f[5] = mode % 256
  BY DEF Tail9, Low, High
<1>5. f[6] = r["7ffd"] % 256
  BY DEF Tail9, Low, High
<1>6. f[7] = 0 % 256
  BY DEF Tail9, Low, High
<1>7. f[8] = flag % 256
  BY DEF Tail9, Low, High
<1>8. f[9] = r["fffd"] % 256
  BY DEF Tail9, Low, High
<1> HIDE DEF f
<1> DEFINE s1 == Word(code)
<1>9. Agrees(s1, 2, f)
  <2>1. code \in Int
    BY <1>1
  <2> QED BY <1>2, <2>1, AgreesNone
<1> HIDE DEF s1
<1> DEFINE s2 == s1 \o Word(r["pc"])
<1>10. Agrees(s2, 4, f)
  <2>1. r["pc"] \in Int
    BY RegsAre DEF Words
  <2> DEFINE x == r["pc"]
  <2>2. 2 \in Nat /\ 2 + 2 = 4 /\ f[2 + 1] = x % 256 /\ f[2 + 2] = (x \div 256) % 256
    BY <1>3
  <2> HIDE DEF x
  <2>3. Agrees(s1 \o Word(x), 2 + 2, f)
    BY <1>9, <2>1, <2>2, AgreesWord DEF x
  <2> QED BY <2>2, <2>3 DEF x
<1> HIDE DEF s2
<1> DEFINE s3 == s2 \o Byte(mode)
<1>11. Agrees(s3, 5, f)
  <2>1. mode \in Int
    BY <1>1
  <2> DEFINE x == mode
  <2>2. 4 \in Nat /\ 4 + 1 = 5 /\ f[4 + 1] = x % 256
    BY <1>4
  <2> HIDE DEF x
  <2>3. Agrees(s2 \o Byte(x), 4 + 1, f)
    BY <1>10, <2>1, <2>2, AgreesByte DEF x
  <2> QED BY <2>2, <2>3 DEF x
<1> HIDE DEF s3
<1> DEFINE s4 == s3 \o Byte(r["7ffd"])
<1>12. Agrees(s4, 6, f)
  <2>1. r["7ffd"] \in Int
    BY RegsAre
  <2> DEFINE x == r["7ffd"]
  <2>2. 5 \in Nat /\ 5 + 1 = 6 /\ f[5 + 1] = x % 256
    BY <1>5
  <2> HIDE DEF x
  <2>3. Agrees(s3 \o Byte(x), 5 + 1, f)
    BY <1>11, <2>1, <2>2, AgreesByte DEF x
  <2> QED BY <2>2, <2>3 DEF x
<1> HIDE DEF s4
<1> DEFINE s5 == s4 \o Byte(0)
<1>13. Agrees(s5, 7, f)
  <2>1. 0 \in Int
    OBVIOUS
  <2> DEFINE x == 0
  <2>2. 6 \in Nat /\ 6 + 1 = 7 /\ f[6 + 1] = x % 256
    BY <1>6
  <2> HIDE DEF x
  <2>3. Agrees(s4 \o Byte(x), 6 + 1, f)
    BY <1>12, <2>1, <2>2, AgreesByte DEF x
  <2> QED BY <2>2, <2>3 DEF x
<1> HIDE DEF s5
<1> DEFINE s6 == s5 \o Byte(flag)
<1>14. Agrees(s6, 8, f)
  <2>1. flag \in Int
    BY <1>1
  <2> DEFINE x == flag
  <2>2. 7 \in Nat /\ 7 + 1 = 8 /\ f[7 + 1] = x % 256
    BY <1>7
  <2> HIDE DEF x
  <2>3. Agrees(s5 \o Byte(x), 7 + 1, f)
    BY <1>13, <2>1, <2>2, AgreesByte DEF x
  <2> QED BY <2>2, <2>3 DEF x
<1> HIDE DEF s6
<1> DEFINE s7 == s6 \o Byte(r["fffd"])
<1>15. Agrees(s7, 9, f)
  <2>1. r["fffd"] \in Int
    BY RegsAre
  <2> DEFINE x == r["fffd"]
  <2>2. 8 \in Nat /\ 8 + 1 = 9 /\ f[8 + 1] = x % 256
    BY <1>8
  <2> HIDE DEF x
  <2>3. Agrees(s6 \o Byte(x), 8 + 1, f)
    BY <1>14, <2>1, <2>2, AgreesByte DEF x
  <2> QED BY <2>2, <2>3 DEF x
<1> HIDE DEF s7
<1> QED BY <1>15, Zenon DEF TailBytes, f, s1, s2, s3, s4, s5, s6, s7

\* The whole of it.
LEMMA ZerosAre ==
  ASSUME NEW m \in Nat
  PROVE  Zeros(m) \in Seq(Int) /\ Len(Zeros(m)) = m
<1>1. Zeros(m) = [j \in 1..m |-> 0]
  BY DEF Zeros
<1>2. [j \in 1..m |-> 0] \in [1..m -> Int]
  OBVIOUS
<1> QED BY <1>1, <1>2

\* Where the bytes of a concatenation come from.
LEMMA ConcatAre ==
  ASSUME NEW s \in Seq(Int), NEW t \in Seq(Int)
  PROVE  /\ s \o t \in Seq(Int) /\ Len(s \o t) = Len(s) + Len(t) /\ Len(s) \in Nat /\ Len(t) \in Nat
         /\ \A i \in 1..Len(s) : (s \o t)[i] = s[i]
         /\ \A i \in 1..Len(t) : (s \o t)[Len(s) + i] = t[i]
<1> DEFINE u == s \o t
           m == Len(s)
           e == Len(t)
<1>1. /\ u \in Seq(Int) /\ Len(u) = m + e /\ m \in Nat /\ e \in Nat
      /\ \A i \in 1..m + e : u[i] = IF i <= m THEN s[i] ELSE t[i - m]
  BY ConcatProperties, LenProperties
<1> HIDE DEF m, e
<1> HIDE DEF u
<1>2. \A i \in 1..m : u[i] = s[i]
  BY <1>1
<1>3. \A i \in 1..e : u[m + i] = t[i]
  <2> TAKE i \in 1..e
  <2> DEFINE x == m + i
  <2>1. x \in 1..m + e /\ ~(x <= m) /\ x - m = i
    BY <1>1
  <2> HIDE DEF x
  <2>2. u[x] = t[i]
    BY <1>1, <2>1
  <2> QED BY <2>2 DEF x
<1> QED BY <1>1, <1>2, <1>3 DEF u, m, e

Long(w) == w.regs["1ffd"] # Unset
Code(w) == IF Format(w) = 2 THEN 23 ELSE IF Long(w) THEN 55 ELSE 54
ModeOf(w) == MachineByte(Machine(w), Format(w))
FlagOf(w) == IF Machine(w) = "16k" THEN 128 ELSE 0
HeaderSize(w) == IF Format(w) = 1 THEN 30 ELSE 32 + Code(w)
LastBytes(w) ==
  IF Format(w) = 2 THEN <<>>
  ELSE Zeros(6) \o <<255, 255>> \o Zeros(23) \o IF Long(w) THEN Byte(w.regs["1ffd"]) ELSE <<>>
MoreBytes(w) ==
  IF Format(w) = 1 THEN <<>>
  ELSE TailBytes(w.regs, Code(w), ModeOf(w), FlagOf(w)) \o Zeros(16) \o LastBytes(w)

\* The header has the length of its format and begins with Head30, then Tail9.
LEMMA HeaderIs ==
  ASSUME NEW w, RegsFit(w.regs), Format(w) \in {1, 2, 3}, ModeOf(w) \in Int
  PROVE  /\ Header(w) \in Seq(Int) /\ Len(Header(w)) = HeaderSize(w) /\ HeaderSize(w) \in Nat
         /\ \A i \in 1..30 : Header(w)[i] = Head30(w.regs, Format(w))[i]
         /\ Format(w) # 1 => \A i \in 1..9 : Header(w)[30 + i] = Tail9(w.regs, Code(w), ModeOf(w), FlagOf(w))[i]
<1> DEFINE head == HeadBytes(w.regs, Format(w))
           more == MoreBytes(w)
           tail == TailBytes(w.regs, Code(w), ModeOf(w), FlagOf(w))
           last == LastBytes(w)
<1>1. Header(w) = head \o more
  BY Zenon DEF Header, HeadBytes, MoreBytes, TailBytes, LastBytes, PcNow, Mixed, ModeByte, Long, Code, ModeOf, FlagOf
<1>2. /\ head \in Seq(Int) /\ Len(head) = 30
      /\ \A i \in 1..30 : head[i] = Head30(w.regs, Format(w))[i]
  <2>1. Agrees(head, 30, Head30(w.regs, Format(w)))
    BY HeadIs
  <2> QED BY <2>1, Zenon DEF Agrees
<1>3. Code(w) \in Nat /\ FlagOf(w) \in Int
  BY DEF Code, FlagOf
<1>4. tail \in Seq(Int) /\ Len(tail) = 9 /\ \A i \in 1..9 : tail[i] = Tail9(w.regs, Code(w), ModeOf(w), FlagOf(w))[i]
  <2>1. Agrees(tail, 9, Tail9(w.regs, Code(w), ModeOf(w), FlagOf(w)))
    BY <1>3, TailIs
  <2> QED BY <2>1, Zenon DEF Agrees
<1>5. w.regs["1ffd"] \in Int
  BY RegsAre DEF Words
<1>6. ASSUME Format(w) # 1
      PROVE  last \in Seq(Int) /\ Len(last) = IF Format(w) = 2 THEN 0 ELSE IF Long(w) THEN 32 ELSE 31
  <2>1. CASE Format(w) = 2
    <3>1. last = <<>>
      BY <2>1 DEF LastBytes
    <3> HIDE DEF last
    <3> QED BY <2>1, <3>1
  <2>2. CASE Format(w) # 2
    <3> DEFINE z6 == Zeros(6)
               z23 == Zeros(23)
               f2 == <<255, 255>>
               end == IF Long(w) THEN Byte(w.regs["1ffd"]) ELSE <<>>
    <3>1. z6 \in Seq(Int) /\ Len(z6) = 6 /\ z23 \in Seq(Int) /\ Len(z23) = 23
      BY ZerosAre
    <3>2. f2 \in Seq(Int) /\ Len(f2) = 2
      OBVIOUS
    <3>3. end \in Seq(Int) /\ Len(end) = IF Long(w) THEN 1 ELSE 0
      BY <1>5 DEF Byte
    <3>4. last = ((z6 \o f2) \o z23) \o end
      BY <2>2, Zenon DEF LastBytes
    <3> HIDE DEF z6, z23, f2, end, last
    <3>5. (z6 \o f2) \in Seq(Int) /\ Len(z6 \o f2) = 8
      <4>1. z6 \o f2 \in Seq(Int) /\ Len(z6 \o f2) = Len(z6) + Len(f2)
        BY <3>1, <3>2, ConcatAre
      <4> QED BY <3>1, <3>2, <4>1
    <3> DEFINE a == z6 \o f2
    <3> HIDE DEF a
    <3>6. (a \o z23) \in Seq(Int) /\ Len(a \o z23) = 31
      <4>1. a \o z23 \in Seq(Int) /\ Len(a \o z23) = Len(a) + Len(z23) /\ Len(a) = 8
        BY <3>1, <3>5, ConcatAre DEF a
      <4> QED BY <3>1, <4>1
    <3> DEFINE b == a \o z23
    <3> HIDE DEF b
    <3>7. (b \o end) \in Seq(Int) /\ Len(b \o end) = 31 + IF Long(w) THEN 1 ELSE 0
      <4>1. b \o end \in Seq(Int) /\ Len(b \o end) = Len(b) + Len(end) /\ Len(b) = 31
        BY <3>3, <3>6, ConcatAre DEF b
      <4> QED BY <3>3, <4>1
    <3> QED BY <2>2, <3>4, <3>7 DEF a, b
  <2> QED BY <2>1, <2>2
<1> HIDE DEF head, tail, last
<1>7. CASE Format(w) = 1
  <2>1. more = <<>>
    BY <1>7 DEF MoreBytes
  <2>2. Header(w) = head
    BY <1>1, <1>2, <2>1, ConcatEmptySeq
  <2> QED BY <1>2, <1>7, <2>2 DEF HeaderSize
<1>8. CASE Format(w) # 1
  <2> DEFINE z == Zeros(16)
             a == tail \o z
  <2>1. more = a \o last
    BY <1>8, Zenon DEF MoreBytes, tail, last
  <2>2. z \in Seq(Int) /\ Len(z) = 16
    BY ZerosAre
  <2> HIDE DEF z, more
  <2>3. a \in Seq(Int) /\ Len(a) = 25 /\ \A i \in 1..9 : a[i] = tail[i]
    <3>1. /\ a \in Seq(Int) /\ Len(a) = Len(tail) + Len(z) /\ \A i \in 1..Len(tail) : a[i] = tail[i]
      BY <1>4, <2>2, ConcatAre
    <3> HIDE DEF a
    <3> QED BY <1>4, <2>2, <3>1
  <2> HIDE DEF a
  <2> DEFINE e == Len(last)
  <2>4. e \in Nat /\ last \in Seq(Int) /\ 55 + e = HeaderSize(w)
    <3>1. last \in Seq(Int) /\ e = IF Format(w) = 2 THEN 0 ELSE IF Long(w) THEN 32 ELSE 31
      BY <1>6, <1>8
    <3>2. HeaderSize(w) = 32 + IF Format(w) = 2 THEN 23 ELSE IF Long(w) THEN 55 ELSE 54
      BY <1>8, Zenon DEF HeaderSize, Code
    <3> HIDE DEF e
    <3> QED BY <3>1, <3>2
  <2> HIDE DEF e
  <2>5. more \in Seq(Int) /\ Len(more) = 25 + e /\ \A i \in 1..25 : more[i] = a[i]
    <3> DEFINE u == a \o last
    <3>1. /\ u \in Seq(Int) /\ Len(u) = Len(a) + Len(last) /\ \A i \in 1..Len(a) : u[i] = a[i]
      BY <2>3, <2>4, ConcatAre
    <3> HIDE DEF u
    <3>2. more = u
      BY <2>1 DEF u
    <3> QED BY <2>3, <2>4, <3>1, <3>2 DEF e
  <2> DEFINE h == head \o more
  <2>6. 30 \in Nat /\ 25 + e \in Nat
    BY <2>4
  <2>7. /\ h \in Seq(Int) /\ Len(h) = 30 + (25 + e)
        /\ \A i \in 1..30 : h[i] = head[i]
        /\ \A i \in 1..25 + e : h[30 + i] = more[i]
    <3>1. /\ h \in Seq(Int) /\ Len(h) = Len(head) + Len(more)
          /\ \A i \in 1..Len(head) : h[i] = head[i]
          /\ \A i \in 1..Len(more) : h[Len(head) + i] = more[i]
      BY <1>2, <2>5, ConcatAre
    <3> HIDE DEF h
    <3> QED BY <1>2, <2>5, <3>1
  <2> HIDE DEF h
  <2>8. \A i \in 1..9 : i \in 1..25 /\ i \in 1..25 + e
    BY <2>4
  <2>9. \A i \in 1..9 : h[30 + i] = tail[i]
    BY <2>3, <2>5, <2>7, <2>8
  <2>10. Len(h) = HeaderSize(w) /\ HeaderSize(w) \in Nat
    <3> DEFINE size == HeaderSize(w)
    <3>1. 55 + e = size /\ e \in Nat /\ Len(h) = 30 + (25 + e)
      BY <2>4, <2>7
    <3> HIDE DEF size
    <3>2. Len(h) = size /\ size \in Nat
      BY <3>1
    <3> QED BY <3>2 DEF size
  <2>11. Header(w) = h
    BY <1>1 DEF h
  <2> QED BY <1>2, <1>4, <2>7, <2>9, <2>10, <2>11
<1> QED BY <1>7, <1>8

-----------------------------------------------------------------------------
(* What is loaded from a file.                                             *)

At(file, m) == file[m + 1]
Late(file) == At(file, 6) = 0 /\ At(file, 7) = 0
LengthAt(file) == At(file, 30) + 256 * At(file, 31)
ModeAt(file) == Mode(At(file, 34), IF LengthAt(file) = 23 THEN 2 ELSE 3)
PortsAt(file) ==
  [x \in {"1ffd", "7ffd", "fffd"} |->
     IF ~Late(file) THEN 0
     ELSE CASE x = "7ffd" -> (IF ModeAt(file) = "128k" THEN At(file, 35) ELSE 0)
            [] x = "fffd" -> At(file, 38)
            [] x = "1ffd" -> (IF LengthAt(file) = 55 THEN At(file, 86) ELSE 0)]
BlocksAt(file) ==
  {off \in (32 + LengthAt(file))..(Len(file) - 1) : (off - 32 - LengthAt(file)) % (3 + Page) = 0}
Target(file, number) ==
  IF ModeAt(file) = "128k" THEN number - 3
  ELSE CASE number = 4 -> 2 [] number = 5 -> 0 [] number = 8 -> 5 [] OTHER -> -1
StartsAt(file, b) ==
  IF ~Late(file) THEN CASE b = 5 -> {30} [] b = 2 -> {30 + Page} [] b = 0 -> {30 + 2 * Page} [] OTHER -> {}
  ELSE {off + 3 : off \in {p \in BlocksAt(file) : Target(file, At(file, p + 2)) = b}}
MemoryAt(file, b, o) == IF StartsAt(file, b) = {} THEN 0 ELSE At(file, Max(StartsAt(file, b)) + o)
LEMMA LoadSnapshotIs ==
  ASSUME NEW file
  PROVE  LoadSnapshot(file) =
           IF Late(file) /\ (LengthAt(file) \notin {23, 54, 55} \/ ModeAt(file) = "unsupported")
           THEN [error |-> "unsupported"]
           ELSE [error |-> "none",
                 state |-> LoadState(file, PortsAt(file)),
                 memory |-> [b \in Bank |-> [o \in 0..(Page - 1) |-> MemoryAt(file, b, o)]]]
BY Zenon DEF LoadSnapshot, At, Late, LengthAt, ModeAt, PortsAt, BlocksAt, Target, StartsAt, MemoryAt

\* A writer whose file is written.
Machines == Machines48 \cup Machines128
Z80Writer(w) ==
  /\ RegsFit(w.regs) /\ w.machine \in Machines \cup {"auto"} /\ w.format \in {0, 2} /\ Z80Error(w) = "none"
  /\ \A b \in Bank, p \in Offset : Memory(w)[b][p] \in Int
  /\ Foreign(w) \/ \A b \in Bank \ {0, 2, 5}, p \in Offset : Memory(w)[b][p] = 0

\* A machine is always found out.
LEMMA MachineIs ==
  ASSUME NEW w, w.machine \in Machines \cup {"auto"}
  PROVE  Machine(w) \in Machines
BY DEF Machine, Machines, Machines48, Machines128

\* The byte each machine is stored as.
LEMMA ModesAre ==
  ASSUME NEW m \in Machines, NEW format
  PROVE  /\ m \in {"16k", "48k"} => MachineByte(m, format) = 0
         /\ m = "128k" => MachineByte(m, format) = IF format = 2 THEN 3 ELSE 4
         /\ m = "tc2048" => MachineByte(m, format) = 14
         /\ m = "tc2068" => MachineByte(m, format) = 15
         /\ m = "ts2068" => MachineByte(m, format) = 128
         /\ m \notin {"16k", "48k", "128k", "tc2048", "tc2068", "ts2068"} => MachineByte(m, format) \in {7, 9, 10, 11, 12, 13}
         /\ MachineByte(m, format) \in 0..255
<1>1. m \in {"16k", "48k", "didaktik", "tc2048", "tc2068", "ts2068", "128k", "+3", "pentagon", "scorpion", "+2", "+2A"}
  BY Zenon DEF Machines, Machines48, Machines128
<1>2. /\ MachineByte("16k", format) = 0 /\ MachineByte("48k", format) = 0
      /\ MachineByte("128k", format) = IF format = 2 THEN 3 ELSE 4
      /\ MachineByte("+3", format) = 7
  BY DEF MachineByte
<1>3. /\ MachineByte("pentagon", format) = 9 /\ MachineByte("scorpion", format) = 10
      /\ MachineByte("didaktik", format) = 11 /\ MachineByte("+2", format) = 12
  BY DEF MachineByte
<1>4. /\ MachineByte("+2A", format) = 13 /\ MachineByte("tc2048", format) = 14
      /\ MachineByte("tc2068", format) = 15 /\ MachineByte("ts2068", format) = 128
  BY DEF MachineByte
<1> QED BY <1>1, <1>2, <1>3, <1>4

\* What a writer without an error writes: a format that can hold it, for a machine there is.
LEMMA FormatIs ==
  ASSUME NEW w, Z80Writer(w)
  PROVE  /\ Format(w) \in {1, 2, 3} /\ Machine(w) \in Machines /\ ModeOf(w) \in 0..255
         /\ Format(w) = 1 => w.regs["pc"] # 0 /\ ~Foreign(w)
         /\ Is48k(w) => ~Foreign(w)
<1>1. Machine(w) \in Machines
  BY MachineIs DEF Z80Writer
<1>2. ModeOf(w) \in 0..255
  BY <1>1, ModesAre DEF ModeOf
<1>3. w.format \in {0, 2} /\ Z80Error(w) = "none"
  BY DEF Z80Writer
<1>4. Format(w) \in {1, 2, 3}
  BY <1>3 DEF Format
<1>5. Format(w) = 1 => w.regs["pc"] # 0 /\ ~Foreign(w)
  BY <1>3 DEF Format
<1>6. Is48k(w) => ~Foreign(w)
  BY <1>3 DEF Z80Error
<1> QED BY <1>1, <1>2, <1>4, <1>5, <1>6

\* The bytes of a bank are its memory.
LEMMA BytesAre ==
  ASSUME NEW w, Z80Writer(w), NEW b \in Bank
  PROVE  /\ BankBytes(w, b) \in Seq(Int) /\ Len(BankBytes(w, b)) = Page
         /\ \A p \in Offset : BankBytes(w, b)[p + 1] = Memory(w)[b][p]
<1>1. Page \in Nat
  BY SnapshotAssumption
<1> DEFINE g == [o \in 1..Page |-> Memory(w)[b][o - 1]]
<1>2. \A o \in 1..Page : o - 1 \in Offset
  BY <1>1 DEF Offset
<1>3. \A p \in Offset : p + 1 \in 1..Page /\ (p + 1) - 1 = p
  BY <1>1 DEF Offset
<1>4. \A o \in 1..Page : Memory(w)[b][o - 1] \in Int
  BY <1>2 DEF Z80Writer
<1>5. g \in [1..Page -> Int]
  BY <1>4
<1>6. \A p \in Offset : g[p + 1] = Memory(w)[b][p]
  BY <1>3
<1> HIDE DEF g
<1>7. g \in Seq(Int) /\ Len(g) = Page
  BY <1>1, <1>5
<1> QED BY <1>6, <1>7 DEF BankBytes, g

\* The head of the file.
Reads(w, file, body) ==
  /\ Len(file) = HeaderSize(w) + Len(body) /\ Len(body) \in Nat /\ HeaderSize(w) \in Nat
  /\ \A i \in 1..30 : file[i] = Head30(w.regs, Format(w))[i]
  /\ Format(w) # 1 => \A i \in 1..9 : file[30 + i] = Tail9(w.regs, Code(w), ModeOf(w), FlagOf(w))[i]
  /\ \A i \in 1..Len(body) : file[HeaderSize(w) + i] = body[i]

\* The same offsets in the file, whose header is followed by the banks.
LEMMA FileHead ==
  ASSUME NEW w, Z80Writer(w), NEW body \in Seq(Int), NEW file, file = Header(w) \o body
  PROVE  Reads(w, file, body)
<1> DEFINE h == Header(w)
<1>1. /\ h \in Seq(Int) /\ Len(h) = HeaderSize(w) /\ HeaderSize(w) \in Nat
      /\ \A i \in 1..30 : h[i] = Head30(w.regs, Format(w))[i]
      /\ Format(w) # 1 => \A i \in 1..9 : h[30 + i] = Tail9(w.regs, Code(w), ModeOf(w), FlagOf(w))[i]
  <2>1. RegsFit(w.regs)
    BY DEF Z80Writer
  <2>2. Format(w) \in {1, 2, 3}
    BY FormatIs
  <2>3. ModeOf(w) \in Int
    <3> DEFINE x == ModeOf(w)
    <3>1. x \in 0..255
      BY FormatIs
    <3> HIDE DEF x
    <3>2. x \in Int
      BY <3>1
    <3> QED BY <3>2 DEF x
  <2> QED BY <2>1, <2>2, <2>3, HeaderIs
<1>2. HeaderSize(w) >= 30 /\ (Format(w) # 1 => HeaderSize(w) >= 39)
  BY DEF HeaderSize, Code
<1> HIDE DEF h
<1>3. /\ h \o body \in Seq(Int) /\ Len(h \o body) = Len(h) + Len(body) /\ Len(body) \in Nat
      /\ \A i \in 1..Len(h) : (h \o body)[i] = h[i]
      /\ \A i \in 1..Len(body) : (h \o body)[Len(h) + i] = body[i]
  BY <1>1, ConcatAre
<1>4. file = h \o body
  BY DEF h
<1> DEFINE u == h \o body
<1> HIDE DEF u
<1>5. /\ Len(u) = HeaderSize(w) + Len(body) /\ Len(body) \in Nat
      /\ \A i \in 1..Len(h) : u[i] = h[i]
      /\ \A i \in 1..Len(body) : u[HeaderSize(w) + i] = body[i]
  BY <1>1, <1>3 DEF u
<1>6. \A i \in 1..30 : u[i] = h[i]
  <2> DEFINE m == Len(h)
  <2>1. m \in Nat /\ m >= 30
    BY <1>1, <1>2
  <2> HIDE DEF m
  <2>2. \A i \in 1..30 : i \in 1..m
    BY <2>1
  <2> QED BY <1>5, <2>2 DEF m
<1>7. Format(w) # 1 => \A i \in 1..9 : u[30 + i] = h[30 + i]
  <2> SUFFICES ASSUME Format(w) # 1 PROVE \A i \in 1..9 : u[30 + i] = h[30 + i]
    OBVIOUS
  <2> DEFINE m == Len(h)
  <2>1. m \in Nat /\ m >= 39
    BY <1>1, <1>2
  <2> HIDE DEF m
  <2>2. \A i \in 1..9 : 30 + i \in 1..m
    BY <2>1
  <2> QED BY <1>5, <2>2 DEF m
<1>8. file = u
  BY <1>4 DEF u
<1> QED BY <1>1, <1>5, <1>6, <1>7, <1>8 DEF Reads

\* The bytes of the registers, as they are read.
LEMMA HeadRead ==
  ASSUME NEW r, NEW format, NEW file, \A i \in 1..30 : file[i] = Head30(r, format)[i]
  PROVE  /\ At(file, 0) = r["a"] % 256 /\ At(file, 1) = r["f"] % 256
         /\ At(file, 2) = Low(r["bc"]) /\ At(file, 3) = High(r["bc"])
         /\ At(file, 4) = Low(r["hl"]) /\ At(file, 5) = High(r["hl"])
         /\ At(file, 6) = Low(PcNow(r, format)) /\ At(file, 7) = High(PcNow(r, format))
         /\ At(file, 8) = Low(r["sp"]) /\ At(file, 9) = High(r["sp"])
         /\ At(file, 10) = r["i"] % 256 /\ At(file, 11) = r["r"] % 256 /\ At(file, 12) = Mixed(r) % 256
         /\ At(file, 13) = Low(r["de"]) /\ At(file, 14) = High(r["de"])
         /\ At(file, 15) = Low(r["bc'"]) /\ At(file, 16) = High(r["bc'"])
         /\ At(file, 17) = Low(r["de'"]) /\ At(file, 18) = High(r["de'"])
         /\ At(file, 19) = Low(r["hl'"]) /\ At(file, 20) = High(r["hl'"])
         /\ At(file, 21) = r["a'"] % 256 /\ At(file, 22) = r["f'"] % 256
         /\ At(file, 23) = Low(r["iy"]) /\ At(file, 24) = High(r["iy"])
         /\ At(file, 25) = Low(r["ix"]) /\ At(file, 26) = High(r["ix"])
         /\ At(file, 27) = r["ei"] % 256 /\ At(file, 29) = ModeByte(r) % 256
<1>1. At(file, 0) = r["a"] % 256
  <2>1. file[0 + 1] = Head30(r, format)[1]
    OBVIOUS
  <2>2. Head30(r, format)[1] = r["a"] % 256
    BY DEF Head30
  <2> QED BY <2>1, <2>2 DEF At
<1>2. At(file, 1) = r["f"] % 256
  <2>1. file[1 + 1] = Head30(r, format)[2]
    OBVIOUS
  <2>2. Head30(r, format)[2] = r["f"] % 256
    BY DEF Head30
  <2> QED BY <2>1, <2>2 DEF At
<1>3. At(file, 2) = Low(r["bc"])
  <2>1. file[2 + 1] = Head30(r, format)[3]
    OBVIOUS
  <2>2. Head30(r, format)[3] = Low(r["bc"])
    BY DEF Head30
  <2> QED BY <2>1, <2>2 DEF At
<1>4. At(file, 3) = High(r["bc"])
  <2>1. file[3 + 1] = Head30(r, format)[4]
    OBVIOUS
  <2>2. Head30(r, format)[4] = High(r["bc"])
    BY DEF Head30
  <2> QED BY <2>1, <2>2 DEF At
<1>5. At(file, 4) = Low(r["hl"])
  <2>1. file[4 + 1] = Head30(r, format)[5]
    OBVIOUS
  <2>2. Head30(r, format)[5] = Low(r["hl"])
    BY DEF Head30
  <2> QED BY <2>1, <2>2 DEF At
<1>6. At(file, 5) = High(r["hl"])
  <2>1. file[5 + 1] = Head30(r, format)[6]
    OBVIOUS
  <2>2. Head30(r, format)[6] = High(r["hl"])
    BY DEF Head30
  <2> QED BY <2>1, <2>2 DEF At
<1>7. At(file, 6) = Low(PcNow(r, format))
  <2>1. file[6 + 1] = Head30(r, format)[7]
    OBVIOUS
  <2>2. Head30(r, format)[7] = Low(PcNow(r, format))
    BY DEF Head30
  <2> QED BY <2>1, <2>2 DEF At
<1>8. At(file, 7) = High(PcNow(r, format))
  <2>1. file[7 + 1] = Head30(r, format)[8]
    OBVIOUS
  <2>2. Head30(r, format)[8] = High(PcNow(r, format))
    BY DEF Head30
  <2> QED BY <2>1, <2>2 DEF At
<1>9. At(file, 8) = Low(r["sp"])
  <2>1. file[8 + 1] = Head30(r, format)[9]
    OBVIOUS
  <2>2. Head30(r, format)[9] = Low(r["sp"])
    BY DEF Head30
  <2> QED BY <2>1, <2>2 DEF At
<1>10. At(file, 9) = High(r["sp"])
  <2>1. file[9 + 1] = Head30(r, format)[10]
    OBVIOUS
  <2>2. Head30(r, format)[10] = High(r["sp"])
    BY DEF Head30
  <2> QED BY <2>1, <2>2 DEF At
<1>11. At(file, 10) = r["i"] % 256
  <2>1. file[10 + 1] = Head30(r, format)[11]
    OBVIOUS
  <2>2. Head30(r, format)[11] = r["i"] % 256
    BY DEF Head30
  <2> QED BY <2>1, <2>2 DEF At
<1>12. At(file, 11) = r["r"] % 256
  <2>1. file[11 + 1] = Head30(r, format)[12]
    OBVIOUS
  <2>2. Head30(r, format)[12] = r["r"] % 256
    BY DEF Head30
  <2> QED BY <2>1, <2>2 DEF At
<1>13. At(file, 12) = Mixed(r) % 256
  <2>1. file[12 + 1] = Head30(r, format)[13]
    OBVIOUS
  <2>2. Head30(r, format)[13] = Mixed(r) % 256
    BY DEF Head30
  <2> QED BY <2>1, <2>2 DEF At
<1>14. At(file, 13) = Low(r["de"])
  <2>1. file[13 + 1] = Head30(r, format)[14]
    OBVIOUS
  <2>2. Head30(r, format)[14] = Low(r["de"])
    BY DEF Head30
  <2> QED BY <2>1, <2>2 DEF At
<1>15. At(file, 14) = High(r["de"])
  <2>1. file[14 + 1] = Head30(r, format)[15]
    OBVIOUS
  <2>2. Head30(r, format)[15] = High(r["de"])
    BY DEF Head30
  <2> QED BY <2>1, <2>2 DEF At
<1>16. At(file, 15) = Low(r["bc'"])
  <2>1. file[15 + 1] = Head30(r, format)[16]
    OBVIOUS
  <2>2. Head30(r, format)[16] = Low(r["bc'"])
    BY DEF Head30
  <2> QED BY <2>1, <2>2 DEF At
<1>17. At(file, 16) = High(r["bc'"])
  <2>1. file[16 + 1] = Head30(r, format)[17]
    OBVIOUS
  <2>2. Head30(r, format)[17] = High(r["bc'"])
    BY DEF Head30
  <2> QED BY <2>1, <2>2 DEF At
<1>18. At(file, 17) = Low(r["de'"])
  <2>1. file[17 + 1] = Head30(r, format)[18]
    OBVIOUS
  <2>2. Head30(r, format)[18] = Low(r["de'"])
    BY DEF Head30
  <2> QED BY <2>1, <2>2 DEF At
<1>19. At(file, 18) = High(r["de'"])
  <2>1. file[18 + 1] = Head30(r, format)[19]
    OBVIOUS
  <2>2. Head30(r, format)[19] = High(r["de'"])
    BY DEF Head30
  <2> QED BY <2>1, <2>2 DEF At
<1>20. At(file, 19) = Low(r["hl'"])
  <2>1. file[19 + 1] = Head30(r, format)[20]
    OBVIOUS
  <2>2. Head30(r, format)[20] = Low(r["hl'"])
    BY DEF Head30
  <2> QED BY <2>1, <2>2 DEF At
<1>21. At(file, 20) = High(r["hl'"])
  <2>1. file[20 + 1] = Head30(r, format)[21]
    OBVIOUS
  <2>2. Head30(r, format)[21] = High(r["hl'"])
    BY DEF Head30
  <2> QED BY <2>1, <2>2 DEF At
<1>22. At(file, 21) = r["a'"] % 256
  <2>1. file[21 + 1] = Head30(r, format)[22]
    OBVIOUS
  <2>2. Head30(r, format)[22] = r["a'"] % 256
    BY DEF Head30
  <2> QED BY <2>1, <2>2 DEF At
<1>23. At(file, 22) = r["f'"] % 256
  <2>1. file[22 + 1] = Head30(r, format)[23]
    OBVIOUS
  <2>2. Head30(r, format)[23] = r["f'"] % 256
    BY DEF Head30
  <2> QED BY <2>1, <2>2 DEF At
<1>24. At(file, 23) = Low(r["iy"])
  <2>1. file[23 + 1] = Head30(r, format)[24]
    OBVIOUS
  <2>2. Head30(r, format)[24] = Low(r["iy"])
    BY DEF Head30
  <2> QED BY <2>1, <2>2 DEF At
<1>25. At(file, 24) = High(r["iy"])
  <2>1. file[24 + 1] = Head30(r, format)[25]
    OBVIOUS
  <2>2. Head30(r, format)[25] = High(r["iy"])
    BY DEF Head30
  <2> QED BY <2>1, <2>2 DEF At
<1>26. At(file, 25) = Low(r["ix"])
  <2>1. file[25 + 1] = Head30(r, format)[26]
    OBVIOUS
  <2>2. Head30(r, format)[26] = Low(r["ix"])
    BY DEF Head30
  <2> QED BY <2>1, <2>2 DEF At
<1>27. At(file, 26) = High(r["ix"])
  <2>1. file[26 + 1] = Head30(r, format)[27]
    OBVIOUS
  <2>2. Head30(r, format)[27] = High(r["ix"])
    BY DEF Head30
  <2> QED BY <2>1, <2>2 DEF At
<1>28. At(file, 27) = r["ei"] % 256
  <2>1. file[27 + 1] = Head30(r, format)[28]
    OBVIOUS
  <2>2. Head30(r, format)[28] = r["ei"] % 256
    BY DEF Head30
  <2> QED BY <2>1, <2>2 DEF At
<1>29. At(file, 29) = ModeByte(r) % 256
  <2>1. file[29 + 1] = Head30(r, format)[30]
    OBVIOUS
  <2>2. Head30(r, format)[30] = ModeByte(r) % 256
    BY DEF Head30
  <2> QED BY <2>1, <2>2 DEF At
<1> QED BY <1>1, <1>2, <1>3, <1>4, <1>5, <1>6, <1>7, <1>8, <1>9, <1>10, <1>11, <1>12, <1>13, <1>14, <1>15, <1>16, <1>17, <1>18, <1>19, <1>20, <1>21, <1>22, <1>23, <1>24, <1>25, <1>26, <1>27, <1>28, <1>29, Zenon

\* What follows the header.
BanksOf(w) == IF Is48k(w) THEN Numbered48 ELSE Numbered128
Block(w, j) == Word(65535) \o Byte(BanksOf(w)[j][2]) \o BankBytes(w, BanksOf(w)[j][1])
Blocks(w) == [j \in 1..Len(BanksOf(w)) |-> Block(w, j)]
Body(w) ==
  IF Format(w) = 1 THEN BankBytes(w, 5) \o BankBytes(w, 2) \o BankBytes(w, 0) ELSE FlattenSeq(Blocks(w))

\* A snapshot is a header and a body.
LEMMA Z80FileIs ==
  ASSUME NEW w
  PROVE  Z80File(w) = Header(w) \o Body(w)
<1> DEFINE tail == IF Format(w) = 1 THEN BankBytes(w, 5) \o BankBytes(w, 2) \o BankBytes(w, 0)
                   ELSE FlattenSeq([j \in 1..Len(BanksOf(w)) |->
                          Word(65535) \o Byte(BanksOf(w)[j][2]) \o BankBytes(w, BanksOf(w)[j][1])])
<1>1. Z80File(w) = Header(w) \o tail
  BY DEF Z80File, BanksOf
<1>2. Body(w) = tail
  BY DEF Body, Blocks, Block
<1> HIDE DEF tail
<1> QED BY <1>1, <1>2

\* Every bank has a number of its own.
EachOnce(s) ==
  /\ Len(s) \in Nat \ {0}
  /\ \A j \in 1..Len(s) : s[j][1] \in Bank /\ s[j][2] \in 0..255
  /\ \A i, j \in 1..Len(s) : s[i][1] = s[j][1] => i = j

\* The numbers of the banks of a 48K machine are its three banks, once each.
LEMMA Numbers48 ==
  /\ EachOnce(Numbered48) /\ \A j \in 1..Len(Numbered48) : Numbered48[j] \in {<<5, 8>>, <<2, 4>>, <<0, 5>>}
  /\ \A b \in {0, 2, 5} : \E j \in 1..Len(Numbered48) : Numbered48[j][1] = b
<1>1. Len(Numbered48) = 3 /\ Numbered48[1] = <<5, 8>> /\ Numbered48[2] = <<2, 4>> /\ Numbered48[3] = <<0, 5>>
  BY DEF Numbered48
<1>2. \A j \in 1..3 : j = 1 \/ j = 2 \/ j = 3
  OBVIOUS
<1>3. /\ Numbered48[1][1] = 5 /\ Numbered48[2][1] = 2 /\ Numbered48[3][1] = 0
      /\ Numbered48[1][2] = 8 /\ Numbered48[2][2] = 4 /\ Numbered48[3][2] = 5
  BY <1>1
<1>4. EachOnce(Numbered48)
  BY <1>1, <1>2, <1>3 DEF EachOnce, Bank
<1>5. \A b \in {0, 2, 5} : \E j \in 1..Len(Numbered48) : Numbered48[j][1] = b
  BY <1>1, <1>3
<1> QED BY <1>1, <1>2, <1>4, <1>5

\* The numbers of the banks of a 128K machine are all banks, once each.
LEMMA Numbers128 ==
  /\ EachOnce(Numbered128) /\ \A j \in 1..Len(Numbered128) : Numbered128[j][2] - 3 = Numbered128[j][1]
  /\ \A b \in Bank : \E j \in 1..Len(Numbered128) : Numbered128[j][1] = b
<1>1. /\ Len(Numbered128) = 8
      /\ Numbered128[1] = <<5, 8>> /\ Numbered128[2] = <<2, 5>> /\ Numbered128[3] = <<0, 3>> /\ Numbered128[4] = <<1, 4>>
      /\ Numbered128[5] = <<3, 6>> /\ Numbered128[6] = <<4, 7>> /\ Numbered128[7] = <<6, 9>> /\ Numbered128[8] = <<7, 10>>
  BY DEF Numbered128
<1>2. \A j \in 1..8 : j = 1 \/ j = 2 \/ j = 3 \/ j = 4 \/ j = 5 \/ j = 6 \/ j = 7 \/ j = 8
  OBVIOUS
<1>3. /\ Numbered128[1][1] = 5 /\ Numbered128[2][1] = 2 /\ Numbered128[3][1] = 0 /\ Numbered128[4][1] = 1
      /\ Numbered128[5][1] = 3 /\ Numbered128[6][1] = 4 /\ Numbered128[7][1] = 6 /\ Numbered128[8][1] = 7
      /\ Numbered128[1][2] = 8 /\ Numbered128[2][2] = 5 /\ Numbered128[3][2] = 3 /\ Numbered128[4][2] = 4
      /\ Numbered128[5][2] = 6 /\ Numbered128[6][2] = 7 /\ Numbered128[7][2] = 9 /\ Numbered128[8][2] = 10
  BY <1>1
<1>4. \A j \in 1..8 : Numbered128[j][1] \in 0..7 /\ Numbered128[j][2] \in 0..255 /\ Numbered128[j][2] - 3 = Numbered128[j][1]
  BY <1>2, <1>3
<1>5. \A i, j \in 1..8 : Numbered128[i][1] = Numbered128[j][1] => i = j
  BY <1>2, <1>3
<1>6. EachOnce(Numbered128)
  BY <1>1, <1>4, <1>5, SMTT(30) DEF EachOnce, Bank
<1>7. \A b \in Bank : b = 0 \/ b = 1 \/ b = 2 \/ b = 3 \/ b = 4 \/ b = 5 \/ b = 6 \/ b = 7
  BY DEF Bank
<1>8. \A b \in Bank : \E j \in 1..8 : Numbered128[j][1] = b
  BY <1>3, <1>7
<1> QED BY <1>1, <1>4, <1>6, <1>8

\* In format 1 the body is three banks in a row.
LEMMA BodyOne ==
  ASSUME NEW w, Z80Writer(w), Format(w) = 1
  PROVE  /\ Body(w) \in Seq(Int) /\ Len(Body(w)) = 3 * Page
         /\ \A p \in Offset : /\ Body(w)[p + 1] = Memory(w)[5][p] /\ Body(w)[Page + p + 1] = Memory(w)[2][p]
                              /\ Body(w)[2 * Page + p + 1] = Memory(w)[0][p]
<1>1. Page \in Nat /\ Page # 0
  BY SnapshotAssumption
<1>2. 5 \in Bank /\ 2 \in Bank /\ 0 \in Bank
  BY DEF Bank
<1> DEFINE x == BankBytes(w, 5)  y == BankBytes(w, 2)  z == BankBytes(w, 0)
<1>3. x \in Seq(Int) /\ Len(x) = Page /\ \A p \in Offset : x[p + 1] = Memory(w)[5][p]
  BY <1>2, BytesAre
<1>4. y \in Seq(Int) /\ Len(y) = Page /\ \A p \in Offset : y[p + 1] = Memory(w)[2][p]
  BY <1>2, BytesAre
<1>5. z \in Seq(Int) /\ Len(z) = Page /\ \A p \in Offset : z[p + 1] = Memory(w)[0][p]
  BY <1>2, BytesAre
<1>6. Body(w) = x \o y \o z
  BY DEF Body
<1> HIDE DEF x, y, z
<1> DEFINE u == x \o y
<1>7. /\ u \in Seq(Int) /\ Len(u) = Len(x) + Len(y)
      /\ \A i \in 1..Len(x) : u[i] = x[i]
      /\ \A i \in 1..Len(y) : u[Len(x) + i] = y[i]
  BY <1>3, <1>4, ConcatAre
<1>8. Body(w) = u \o z
  BY <1>6
<1> HIDE DEF u
<1> DEFINE v == u \o z
<1>9. /\ v \in Seq(Int) /\ Len(v) = Len(u) + Len(z)
      /\ \A i \in 1..Len(u) : v[i] = u[i]
      /\ \A i \in 1..Len(z) : v[Len(u) + i] = z[i]
  BY <1>5, <1>7, ConcatAre
<1> HIDE DEF v
<1>10. Len(x) = Page /\ Len(u) = 2 * Page /\ Len(v) = 3 * Page
  BY <1>1, <1>3, <1>4, <1>5, <1>7, <1>9
<1>11. ASSUME NEW p \in Offset
       PROVE  /\ v[p + 1] = Memory(w)[5][p] /\ v[Page + p + 1] = Memory(w)[2][p]
              /\ v[2 * Page + p + 1] = Memory(w)[0][p]
  <2> DEFINE q == p + 1
  <2>1. /\ q \in 1..Page /\ q \in 1..2 * Page /\ Page + q \in 1..2 * Page
        /\ Page + p + 1 = Page + q /\ 2 * Page + p + 1 = 2 * Page + q
    BY <1>1 DEF Offset
  <2>2. x[q] = Memory(w)[5][p] /\ y[q] = Memory(w)[2][p] /\ z[q] = Memory(w)[0][p]
    BY <1>3, <1>4, <1>5
  <2> HIDE DEF q
  <2>3. v[q] = x[q]
    BY <1>3, <1>7, <1>9, <1>10, <2>1
  <2>4. v[Page + q] = y[q]
    BY <1>4, <1>7, <1>9, <1>10, <2>1
  <2>5. v[2 * Page + q] = z[q]
    BY <1>5, <1>9, <1>10, <2>1
  <2> QED BY <2>1, <2>2, <2>3, <2>4, <2>5 DEF q
<1>12. Body(w) = v
  BY <1>8 DEF v
<1> QED BY <1>9, <1>10, <1>11, <1>12

\* In the others it is a block of one length per bank, with the number of the bank in it.
LEMMA BodyMore ==
  ASSUME NEW w, Z80Writer(w), Format(w) # 1
  PROVE  /\ EachOnce(BanksOf(w))
         /\ Body(w) \in Seq(Int) /\ Len(Body(w)) = Len(BanksOf(w)) * (3 + Page)
         /\ \A j \in 1..Len(BanksOf(w)) :
              /\ Body(w)[(j - 1) * (3 + Page) + 3] = BanksOf(w)[j][2]
              /\ \A p \in Offset : Body(w)[(j - 1) * (3 + Page) + (p + 4)] = Memory(w)[BanksOf(w)[j][1]][p]
<1>1. Page \in Nat /\ Page # 0
  BY SnapshotAssumption
<1>2. EachOnce(BanksOf(w))
  BY Numbers48, Numbers128 DEF BanksOf
<1> DEFINE s == BanksOf(w)
           m == Len(s)
           bs == Blocks(w)
<1>3. m \in Nat \ {0}
  BY <1>2 DEF EachOnce
<1>4. ASSUME NEW j \in 1..m
      PROVE  /\ bs[j] \in Seq(Int) /\ Len(bs[j]) = 3 + Page /\ bs[j][3] = s[j][2]
             /\ \A p \in Offset : bs[j][p + 4] = Memory(w)[s[j][1]][p]
  <2>1. s[j][1] \in Bank /\ s[j][2] \in 0..255
    BY <1>2 DEF EachOnce
  <2> DEFINE bank == s[j][1]  number == s[j][2]
             x == Word(65535) \o Byte(number)
             y == BankBytes(w, bank)
  <2>2. y \in Seq(Int) /\ Len(y) = Page /\ \A p \in Offset : y[p + 1] = Memory(w)[bank][p]
    BY <2>1, BytesAre
  <2>3. x \in Seq(Int) /\ Len(x) = 3 /\ x[3] = number
    <3> HIDE DEF number
    <3>1. number \in 0..255
      BY <2>1 DEF number
    <3>2. number % 256 = number
      BY <3>1
    <3>3. Word(65535) = <<65535 % 256, (65535 \div 256) % 256>> /\ Byte(number) = <<number>>
      BY <3>2 DEF Word, Byte
    <3> DEFINE c == 65535 % 256  d == (65535 \div 256) % 256
    <3>4. c \in Int /\ d \in Int
      OBVIOUS
    <3> HIDE DEF c, d
    <3>5. /\ <<c, d>> \o <<number>> \in Seq(Int) /\ Len(<<c, d>> \o <<number>>) = 3
          /\ (<<c, d>> \o <<number>>)[3] = number
      BY <3>1, <3>4
    <3>6. Word(65535) = <<c, d>>
      BY <3>3 DEF c, d
    <3> DEFINE wd == Word(65535)  bn == Byte(number)
    <3>7. x = wd \o bn /\ wd = <<c, d>> /\ bn = <<number>>
      BY <3>3, <3>6
    <3> HIDE DEF x, wd, bn
    <3> QED BY <3>5, <3>7
  <2>4. bs[j] = x \o y
    BY DEF Blocks, Block
  <2> HIDE DEF x, y, bank, number
  <2> DEFINE v == x \o y
  <2>5. /\ v \in Seq(Int) /\ Len(v) = Len(x) + Len(y)
        /\ \A i \in 1..Len(x) : v[i] = x[i]
        /\ \A i \in 1..Len(y) : v[Len(x) + i] = y[i]
    BY <2>2, <2>3, ConcatAre
  <2> HIDE DEF v
  <2>6. v[3] = number /\ Len(v) = 3 + Page
    BY <2>2, <2>3, <2>5
  <2>7. \A p \in Offset : v[p + 4] = Memory(w)[bank][p]
    <3>1. \A p \in Offset : p + 1 \in 1..Page /\ 3 + (p + 1) = p + 4
      BY <1>1 DEF Offset
    <3>2. \A p \in Offset : v[3 + (p + 1)] = y[p + 1]
      BY <2>2, <2>3, <2>5, <3>1
    <3> QED BY <2>2, <3>1, <3>2
  <2>8. bs[j] = v
    BY <2>4 DEF v
  <2> HIDE DEF bs
  <2> QED BY <2>5, <2>6, <2>7, <2>8 DEF bank, number
<1>5. bs \in [1..m -> Seq(Int)]
  <2>1. bs = [j \in 1..m |-> bs[j]]
    BY DEF Blocks
  <2> HIDE DEF bs, m
  <2> QED BY <1>4, <2>1
<1> HIDE DEF s, bs
<1>6. bs \in Seq(Seq(Int)) /\ Len(bs) = m
  <2> HIDE DEF m
  <2> QED BY <1>3, <1>5
<1> HIDE DEF m
<1> DEFINE size == 3 + Page
<1>7. size \in Nat
  BY <1>1
<1> HIDE DEF size
<1>8. \A j \in 1..Len(bs) : Len(bs[j]) = size
  BY <1>4, <1>6 DEF size
<1>9. /\ FlattenSeq(bs) \in Seq(Int) /\ Len(FlattenSeq(bs)) = Len(bs) * size
      /\ \A j \in 1..Len(bs) : \A x \in 1..size : FlattenSeq(bs)[(j - 1) * size + x] = bs[j][x]
  BY <1>3, <1>6, <1>7, <1>8, FlattenIs
<1>10. 3 \in 1..size /\ \A p \in Offset : p + 4 \in 1..size
  BY <1>1 DEF size, Offset
<1>11. \A j \in 1..m : /\ FlattenSeq(bs)[(j - 1) * size + 3] = s[j][2]
                       /\ \A p \in Offset : FlattenSeq(bs)[(j - 1) * size + (p + 4)] = Memory(w)[s[j][1]][p]
  <2> SUFFICES ASSUME NEW j \in 1..m
               PROVE  /\ FlattenSeq(bs)[(j - 1) * size + 3] = s[j][2]
                      /\ \A p \in Offset : FlattenSeq(bs)[(j - 1) * size + (p + 4)] = Memory(w)[s[j][1]][p]
    OBVIOUS
  <2>1. \A x \in 1..size : FlattenSeq(bs)[(j - 1) * size + x] = bs[j][x]
    BY <1>6, <1>9
  <2>2. FlattenSeq(bs)[(j - 1) * size + 3] = s[j][2]
    BY <1>4, <1>10, <2>1
  <2>3. ASSUME NEW p \in Offset PROVE FlattenSeq(bs)[(j - 1) * size + (p + 4)] = Memory(w)[s[j][1]][p]
    <3> DEFINE x == p + 4
    <3>1. x \in 1..size /\ bs[j][x] = Memory(w)[s[j][1]][p]
      BY <1>4, <1>10
    <3> HIDE DEF x
    <3>2. FlattenSeq(bs)[(j - 1) * size + x] = Memory(w)[s[j][1]][p]
      BY <2>1, <3>1
    <3> QED BY <3>2 DEF x
  <2> QED BY <2>2, <2>3
<1>12. Body(w) = FlattenSeq(bs)
  BY DEF Body, bs
<1> QED BY <1>2, <1>6, <1>9, <1>11, <1>12 DEF size, m, s

\* Either way it is a sequence of bytes.
LEMMA BodyIs ==
  ASSUME NEW w, Z80Writer(w)
  PROVE  Body(w) \in Seq(Int) /\ Z80File(w) = Header(w) \o Body(w)
BY BodyOne, BodyMore, Z80FileIs, Zenon

\* The two ways to write the registers: with where to start, or with 0 and more header behind.
LEMMA FileRead ==
  ASSUME NEW w, Z80Writer(w), NEW file, file = Z80File(w)
  PROVE  /\ Late(file) <=> Format(w) # 1
         /\ Format(w) # 1 => /\ LengthAt(file) = Code(w) /\ At(file, 32) = Low(w.regs["pc"]) /\ At(file, 33) = High(w.regs["pc"])
                             /\ At(file, 34) = ModeOf(w) /\ At(file, 35) = w.regs["7ffd"] /\ At(file, 38) = w.regs["fffd"]
<1> DEFINE r == w.regs
<1>1. RegsFit(r)
  BY DEF Z80Writer
<1>2. r["pc"] \in Words /\ r["7ffd"] \in 0..255 /\ r["fffd"] \in 0..255
  BY <1>1, RegsAre
<1>3. /\ \A i \in 1..30 : file[i] = Head30(r, Format(w))[i]
      /\ Format(w) # 1 => \A i \in 1..9 : file[30 + i] = Tail9(r, Code(w), ModeOf(w), FlagOf(w))[i]
  <2>1. Reads(w, file, Body(w))
    BY BodyIs, FileHead
  <2> QED BY <2>1 DEF Reads
<1>4. At(file, 6) = Low(PcNow(r, Format(w))) /\ At(file, 7) = High(PcNow(r, Format(w)))
  BY <1>3, HeadRead
<1>5. CASE Format(w) = 1
  <2>1. r["pc"] # 0
    BY <1>5, FormatIs
  <2>2. At(file, 6) = Low(r["pc"]) /\ At(file, 7) = High(r["pc"])
    BY <1>4, <1>5 DEF PcNow
  <2>3. ~(Low(r["pc"]) = 0 /\ High(r["pc"]) = 0)
    <3> DEFINE x == r["pc"]
    <3>1. x \in Nat /\ x < 65536 /\ x # 0
      BY <1>2, <2>1 DEF Words
    <3> HIDE DEF x
    <3>2. x = 256 * (x \div 256) + (x % 256) /\ x \div 256 \in 0..255
      BY <3>1
    <3>3. ~(x % 256 = 0 /\ (x \div 256) % 256 = 0)
      BY <3>1, <3>2
    <3> QED BY <3>3 DEF Low, High, x
  <2> QED BY <1>5, <2>2, <2>3 DEF Late
<1>6. CASE Format(w) # 1
  <2>1. At(file, 6) = 0 /\ At(file, 7) = 0
    <3>1. PcNow(r, Format(w)) = 0
      BY <1>6 DEF PcNow
    <3>2. Low(0) = 0 /\ High(0) = 0
      BY DEF Low, High
    <3> QED BY <1>4, <3>1, <3>2
  <2> DEFINE t == Tail9(r, Code(w), ModeOf(w), FlagOf(w))
  <2>2. /\ At(file, 30) = t[1] /\ At(file, 31) = t[2] /\ At(file, 32) = t[3] /\ At(file, 33) = t[4] /\ At(file, 34) = t[5]
        /\ At(file, 35) = t[6] /\ At(file, 38) = t[9]
    <3> HIDE DEF t
    <3>1. \A i \in 1..9 : file[30 + i] = t[i]
      BY <1>3, <1>6 DEF t
    <3>2. file[30 + 1] = t[1] /\ file[30 + 2] = t[2] /\ file[30 + 3] = t[3] /\ file[30 + 4] = t[4] /\ file[30 + 5] = t[5]
      BY <3>1
    <3>3. file[30 + 6] = t[6] /\ file[30 + 9] = t[9]
      BY <3>1
    <3> QED BY <3>2, <3>3 DEF At
  <2>3. ModeOf(w) \in 0..255
    BY FormatIs
  <2>4. /\ t[1] = Low(Code(w)) /\ t[2] = High(Code(w)) /\ t[3] = Low(r["pc"]) /\ t[4] = High(r["pc"])
        /\ t[5] = ModeOf(w) % 256 /\ t[6] = r["7ffd"] % 256 /\ t[9] = r["fffd"] % 256
    BY DEF Tail9
  <2> HIDE DEF t
  <2>5. ModeOf(w) % 256 = ModeOf(w)
    BY <2>3
  <2>6. r["7ffd"] % 256 = r["7ffd"] /\ r["fffd"] % 256 = r["fffd"]
    BY <1>2
  <2>7. Low(Code(w)) + 256 * High(Code(w)) = Code(w)
    <3>1. Code(w) = 23 \/ Code(w) = 54 \/ Code(w) = 55
      BY DEF Code
    <3> HIDE DEF r
    <3>2. /\ Low(23) + 256 * High(23) = 23 /\ Low(54) + 256 * High(54) = 54 /\ Low(55) + 256 * High(55) = 55
      BY DEF Low, High
    <3> QED BY <3>1, <3>2
  <2> QED BY <1>6, <2>1, <2>2, <2>4, <2>5, <2>6, <2>7 DEF Late, LengthAt
<1> QED BY <1>5, <1>6

\* The machines the emulator has.
LEMMA ModesRead ==
  ASSUME NEW w, Z80Writer(w), NEW file, file = Z80File(w), Format(w) # 1
  PROVE  /\ LengthAt(file) \in {23, 54, 55}
         /\ ModeAt(file) # "unsupported" => (ModeAt(file) = "128k" <=> ~Is48k(w))
         /\ ModeAt(file) = "unsupported" =>
              w.machine \notin (Machines48 \ {"didaktik"}) \cup {"auto", "128k"} \/ w.regs["1ffd"] # Unset
<1> DEFINE m == Machine(w)
<1>1. LengthAt(file) = Code(w) /\ At(file, 34) = MachineByte(m, Format(w))
  BY FileRead DEF ModeOf
<1>2. m \in Machines /\ Format(w) \in {2, 3} /\ (Is48k(w) <=> m \in Machines48)
  BY FormatIs DEF Is48k
<1>3. Code(w) \in {23, 54, 55} /\ (Code(w) = 23 <=> Format(w) = 2)
  BY <1>2 DEF Code
<1>4. ModeAt(file) = Mode(MachineByte(m, Format(w)), IF Format(w) = 2 THEN 2 ELSE 3)
  BY <1>1, <1>3 DEF ModeAt
<1>5. Is48k(w) <=> m \in {"16k", "48k", "didaktik", "tc2048", "tc2068", "ts2068"}
  BY <1>2 DEF Machines48
<1>6. /\ w.machine # "auto" => m = w.machine
      /\ w.machine = "auto" /\ w.regs["1ffd"] = Unset => m \in {"48k", "128k"}
      /\ w.regs["1ffd"] = Unset => Format(w) # 3
  <2>1. w.format \in {0, 2}
    BY DEF Z80Writer
  <2> QED BY <2>1 DEF Machine, Format
<1> HIDE DEF m
<1>7. CASE m \in {"16k", "48k"}
  <2>1. Mode(0, 2) = "48k" /\ Mode(0, 3) = "48k"
    BY DEF Mode
  <2>2. MachineByte(m, Format(w)) = 0
    BY <1>2, <1>7, ModesAre
  <2>3. ModeAt(file) = "48k"
    BY <1>4, <2>1, <2>2
  <2> QED BY <1>1, <1>3, <1>5, <1>7, <2>3
<1>8. CASE m \in {"tc2048", "tc2068", "ts2068"}
  <2>1. \A v \in {2, 3} : Mode(14, v) = "timex" /\ Mode(15, v) = "timex" /\ Mode(128, v) = "timex"
    BY DEF Mode
  <2>2. MachineByte(m, Format(w)) \in {14, 15, 128}
    BY <1>2, <1>8, ModesAre
  <2>3. ModeAt(file) = "timex"
    BY <1>4, <2>1, <2>2
  <2> QED BY <1>1, <1>3, <1>5, <1>8, <2>3
<1>9. CASE m = "128k" /\ Format(w) = 2
  <2>1. Mode(3, 2) = "128k"
    BY DEF Mode
  <2>2. MachineByte(m, Format(w)) = 3
    BY <1>2, <1>9, ModesAre
  <2>3. ModeAt(file) = "128k"
    BY <1>4, <1>9, <2>1, <2>2
  <2> QED BY <1>1, <1>3, <1>5, <1>9, <2>3
<1>10. CASE m = "128k" /\ Format(w) = 3
  <2>1. Mode(4, 3) = "unsupported"
    BY DEF Mode
  <2>2. MachineByte(m, Format(w)) = 4
    BY <1>2, <1>10, ModesAre
  <2>3. ModeAt(file) = "unsupported"
    BY <1>4, <1>10, <2>1, <2>2
  <2> QED BY <1>1, <1>3, <1>6, <1>10, <2>3
<1>11. CASE m \notin {"16k", "48k", "128k", "tc2048", "tc2068", "ts2068"}
  <2>1. \A x \in {7, 9, 10, 11, 12, 13}, v \in {2, 3} : Mode(x, v) = "unsupported"
    BY DEF Mode
  <2>2. MachineByte(m, Format(w)) \in {7, 9, 10, 11, 12, 13}
    BY <1>2, <1>11, ModesAre
  <2>3. ModeAt(file) = "unsupported"
    BY <1>4, <2>1, <2>2
  <2>4. w.machine \notin (Machines48 \ {"didaktik"}) \cup {"auto", "128k"} \/ w.regs["1ffd"] # Unset
    BY <1>6, <1>11 DEF Machines48
  <2> QED BY <1>1, <1>3, <2>3, <2>4
<1> QED BY <1>2, <1>7, <1>8, <1>9, <1>10, <1>11

\* The numbers are read as they were written.
LEMMA TargetsAre ==
  ASSUME NEW w, Z80Writer(w), NEW file, file = Z80File(w), Format(w) # 1, ModeAt(file) # "unsupported"
  PROVE  \A j \in 1..Len(BanksOf(w)) : Target(file, BanksOf(w)[j][2]) = BanksOf(w)[j][1]
<1>1. ModeAt(file) = "128k" <=> ~Is48k(w)
  BY ModesRead
<1>2. CASE Is48k(w)
  <2>1. Target(file, 8) = 5 /\ Target(file, 4) = 2 /\ Target(file, 5) = 0
    BY <1>1, <1>2 DEF Target
  <2>2. BanksOf(w) = Numbered48
    BY <1>2 DEF BanksOf
  <2>3. ASSUME NEW j \in 1..Len(Numbered48) PROVE Target(file, Numbered48[j][2]) = Numbered48[j][1]
    <3>1. Numbered48[j] \in {<<5, 8>>, <<2, 4>>, <<0, 5>>}
      BY Numbers48
    <3> DEFINE x == Numbered48[j]
    <3> HIDE DEF x
    <3>2. x \in {<<5, 8>>, <<2, 4>>, <<0, 5>>}
      BY <3>1 DEF x
    <3>3. (x[1] = 5 /\ x[2] = 8) \/ (x[1] = 2 /\ x[2] = 4) \/ (x[1] = 0 /\ x[2] = 5)
      BY <3>2
    <3> QED BY <2>1, <3>3 DEF x
  <2> QED BY <2>2, <2>3
<1>3. CASE ~Is48k(w)
  <2>1. \A y : Target(file, y) = y - 3
    BY <1>1, <1>3 DEF Target
  <2>2. BanksOf(w) = Numbered128
    BY <1>3 DEF BanksOf
  <2> QED BY <2>1, <2>2, Numbers128
<1> QED BY <1>2, <1>3

\* A bank that begins at one place is read from there.
LEMMA OneStart ==
  ASSUME NEW file, NEW b, NEW x \in Int, StartsAt(file, b) = {x}, NEW o
  PROVE  MemoryAt(file, b, o) = At(file, x + o)
<1>1. StartsAt(file, b) # {} /\ Max(StartsAt(file, b)) = x
  BY MaxOne
<1> QED BY <1>1 DEF MemoryAt

\* Where the body is in the file.
LEMMA FileBody ==
  ASSUME NEW w, Z80Writer(w), NEW file, file = Z80File(w)
  PROVE  /\ Len(file) = HeaderSize(w) + Len(Body(w)) /\ HeaderSize(w) \in Nat
         /\ \A i \in 1..Len(Body(w)) : file[HeaderSize(w) + i] = Body(w)[i]
<1>1. Reads(w, file, Body(w))
  BY BodyIs, FileHead
<1> QED BY <1>1 DEF Reads

\* What is loaded from a file of format 1 is what was in the memory of the writer.
LEMMA MemoryOne ==
  ASSUME NEW w, Z80Writer(w), NEW file, file = Z80File(w), Format(w) = 1, NEW b \in Bank, NEW o \in Offset
  PROVE  MemoryAt(file, b, o) = Memory(w)[b][o]
<1>1. Page \in Nat /\ Page # 0 /\ o \in Nat /\ o < Page
  BY SnapshotAssumption DEF Offset
<1>2. ~Late(file)
  BY FileRead
<1> DEFINE body == Body(w)
<1>3. /\ body \in Seq(Int) /\ Len(body) = 3 * Page
      /\ body[o + 1] = Memory(w)[5][o] /\ body[Page + o + 1] = Memory(w)[2][o]
      /\ body[2 * Page + o + 1] = Memory(w)[0][o]
  BY BodyOne
<1>4. \A i \in 1..(3 * Page) : file[30 + i] = body[i]
  <2>2. \A i \in 1..Len(body) : file[HeaderSize(w) + i] = body[i]
    BY FileBody
  <2> HIDE DEF body
  <2>3. HeaderSize(w) = 30
    BY DEF HeaderSize
  <2> QED BY <1>3, <2>2, <2>3
<1> HIDE DEF body
<1>5. /\ file[30 + (o + 1)] = body[o + 1] /\ file[30 + (Page + o + 1)] = body[Page + o + 1]
      /\ file[30 + (2 * Page + o + 1)] = body[2 * Page + o + 1]
  BY <1>1, <1>4
<1>6. /\ (30 + o) + 1 = 30 + (o + 1) /\ ((30 + Page) + o) + 1 = 30 + (Page + o + 1)
      /\ ((30 + 2 * Page) + o) + 1 = 30 + (2 * Page + o + 1)
  BY <1>1
<1>7. CASE b = 5
  <2>1. StartsAt(file, b) = {30}
    BY <1>2, <1>7 DEF StartsAt
  <2>2. MemoryAt(file, b, o) = At(file, 30 + o)
    BY <2>1, OneStart
  <2>3. At(file, 30 + o) = body[o + 1]
    BY <1>5, <1>6 DEF At
  <2> QED BY <1>3, <1>7, <2>2, <2>3
<1>8. CASE b = 2
  <2>1. StartsAt(file, b) = {30 + Page} /\ 30 + Page \in Int
    BY <1>1, <1>2, <1>8 DEF StartsAt
  <2>2. MemoryAt(file, b, o) = At(file, (30 + Page) + o)
    BY <2>1, OneStart
  <2>3. At(file, (30 + Page) + o) = body[Page + o + 1]
    BY <1>5, <1>6 DEF At
  <2> QED BY <1>3, <1>8, <2>2, <2>3
<1>9. CASE b = 0
  <2>1. StartsAt(file, b) = {30 + 2 * Page} /\ 30 + 2 * Page \in Int
    BY <1>1, <1>2, <1>9 DEF StartsAt
  <2>2. MemoryAt(file, b, o) = At(file, (30 + 2 * Page) + o)
    BY <2>1, OneStart
  <2>3. At(file, (30 + 2 * Page) + o) = body[2 * Page + o + 1]
    BY <1>5, <1>6 DEF At
  <2> QED BY <1>3, <1>9, <2>2, <2>3
<1>10. CASE b \notin {0, 2, 5}
  <2>1. StartsAt(file, b) = {}
    BY <1>2, <1>10 DEF StartsAt
  <2>2. ~Foreign(w)
    BY FormatIs
  <2>3. Memory(w)[b][o] = 0
    BY <1>10, <2>2 DEF Z80Writer
  <2> QED BY <2>1, <2>3 DEF MemoryAt
<1> QED BY <1>7, <1>8, <1>9, <1>10

\* What is loaded from blocks is, too: each bank has one block, and no other is taken for it.
LEMMA MemoryMore ==
  ASSUME NEW w, Z80Writer(w), NEW file, file = Z80File(w), Format(w) # 1, ModeAt(file) # "unsupported",
         NEW b \in Bank, NEW o \in Offset
  PROVE  MemoryAt(file, b, o) = Memory(w)[b][o]
<1>1. Page \in Nat /\ Page # 0 /\ o \in Nat /\ o < Page
  BY SnapshotAssumption DEF Offset
<1>2. Late(file) /\ LengthAt(file) = Code(w) /\ Code(w) \in {23, 54, 55}
  BY FileRead DEF Code
<1> DEFINE body == Body(w)
           s == BanksOf(w)
           m == Len(s)
           size == 3 + Page
           base == HeaderSize(w)
<1>3. /\ EachOnce(s) /\ body \in Seq(Int) /\ Len(body) = m * size
      /\ \A j \in 1..m : /\ body[(j - 1) * size + 3] = s[j][2]
                         /\ \A p \in Offset : body[(j - 1) * size + (p + 4)] = Memory(w)[s[j][1]][p]
  BY BodyMore
<1>4. base = 32 + Code(w)
  BY DEF HeaderSize
<1>5. Len(file) = base + m * size /\ base \in Nat /\ \A i \in 1..(m * size) : file[base + i] = body[i]
  <2>2. Len(file) = HeaderSize(w) + Len(body) /\ HeaderSize(w) \in Nat /\ \A i \in 1..Len(body) : file[HeaderSize(w) + i] = body[i]
    BY FileBody
  <2> HIDE DEF body, base, m, size
  <2> QED BY <1>3, <2>2 DEF base
<1>6. \A j \in 1..m : Target(file, s[j][2]) = s[j][1]
  BY TargetsAre
<1>7. m \in Nat \ {0} /\ \A i, j \in 1..m : s[i][1] = s[j][1] => i = j
  BY <1>3 DEF EachOnce
<1>8. size \in Nat \ {0} /\ size = 3 + Page
  BY <1>1
<1> HIDE DEF body, s, m, size, base
<1> DEFINE Off(j) == base + (j - 1) * size
<1>9. ASSUME NEW j \in 1..m
      PROVE  /\ (j - 1) * size \in Nat /\ Off(j) \in Nat /\ Off(j) \in BlocksAt(file)
             /\ Target(file, At(file, Off(j) + 2)) = s[j][1]
             /\ \A p \in Offset : At(file, (Off(j) + 3) + p) = Memory(w)[s[j][1]][p]
  <2> DEFINE x == (j - 1) * size
             y == m * size
  <2>1. x \in Nat /\ y \in Nat /\ x + size <= y
    <3>1. /\ m * size \in Nat /\ (j - 1) * size \in Nat
          /\ (m - 1) * size + size = m * size /\ (j - 1) * size + size = j * size
          /\ j # m => j * size <= (m - 1) * size
      BY <1>7, <1>8, Multiples
    <3>2. j = m => x + size = y
      BY <3>1
    <3>3. j # m => x + size <= y
      <4> SUFFICES ASSUME j # m PROVE x + size <= y
        OBVIOUS
      <4> DEFINE u == (m - 1) * size  v == j * size
      <4>1. u + size = y /\ x + size = v /\ v <= u /\ y \in Nat /\ x \in Nat
        BY <3>1
      <4>2. u \in Int /\ v \in Int
        BY <1>7, <1>8
      <4> HIDE DEF u, v, x, y
      <4> QED BY <1>8, <4>1, <4>2
    <3>4. x + size = y => x + size <= y
      BY <1>8, <3>1
    <3> QED BY <3>1, <3>2, <3>3, <3>4
  <2>2. x % size = 0
    <3>1. j - 1 \in Nat
      BY <1>7
    <3> QED BY <1>8, <3>1, MultipleOf
  <2>3. body[x + 3] = s[j][2] /\ \A p \in Offset : body[x + (p + 4)] = Memory(w)[s[j][1]][p]
    BY <1>3
  <2>4. Len(file) = base + y /\ \A i \in 1..y : file[base + i] = body[i]
    BY <1>5
  <2> HIDE DEF x, y
  <2>5. base + x \in BlocksAt(file)
    <3>1. base + x \in base..(Len(file) - 1)
      BY <1>5, <1>8, <2>1, <2>4
    <3>2. (base + x) - 32 - LengthAt(file) = x
      BY <1>2, <1>4, <1>5, <2>1, SMTT(30)
    <3>3. 32 + LengthAt(file) = base
      BY <1>2, <1>4
    <3> QED BY <1>8, <2>2, <3>1, <3>2, <3>3 DEF BlocksAt
  <2>6. At(file, (base + x) + 2) = s[j][2]
    <3>1. x + 3 \in 1..y /\ ((base + x) + 2) + 1 = base + (x + 3)
      BY <1>1, <1>5, <1>8, <2>1
    <3> QED BY <2>3, <2>4, <3>1 DEF At
  <2>7. ASSUME NEW p \in Offset PROVE At(file, ((base + x) + 3) + p) = Memory(w)[s[j][1]][p]
    <3>1. x + (p + 4) \in 1..y /\ (((base + x) + 3) + p) + 1 = base + (x + (p + 4))
      BY <1>1, <1>5, <1>8, <2>1 DEF Offset
    <3> QED BY <2>3, <2>4, <3>1 DEF At
  <2>8. base + x \in Nat
    BY <1>5, <2>1
  <2> QED BY <1>6, <2>1, <2>5, <2>6, <2>7, <2>8 DEF x
<1>10. ASSUME NEW p \in BlocksAt(file) PROVE \E j \in 1..m : p = Off(j)
  <2> DEFINE y == m * size
             x == p - base
  <2>1. y \in Nat
    BY <1>7, <1>8
  <2>2. Len(file) = base + y
    BY <1>5
  <2> HIDE DEF y
  <2>3. 32 + LengthAt(file) = base
    BY <1>2, <1>4
  <2>4. p \in base..(Len(file) - 1) /\ (p - 32 - LengthAt(file)) % size = 0
    BY <1>8, <2>3 DEF BlocksAt
  <2>5. x \in Nat /\ x < y /\ p = base + x
    BY <1>5, <2>1, <2>2, <2>4
  <2>6. p - 32 - LengthAt(file) = x
    BY <1>2, <1>4, <1>5, <2>4
  <2> HIDE DEF x
  <2>7. x % size = 0
    BY <2>4, <2>6
  <2>8. \E j \in 1..m : x = (j - 1) * size
    BY <1>7, <1>8, <2>5, <2>7, MultipleIs DEF y
  <2> QED BY <2>5, <2>8
<1>11. CASE \E j \in 1..m : s[j][1] = b
  <2>1. PICK j \in 1..m : s[j][1] = b
    BY <1>11
  <2>2. ASSUME NEW p \in BlocksAt(file), Target(file, At(file, p + 2)) = b PROVE p = Off(j)
    <3>1. PICK i \in 1..m : p = Off(i)
      BY <1>10
    <3>2. s[i][1] = b
      BY <1>9, <2>2, <3>1
    <3> QED BY <1>7, <2>1, <3>1, <3>2
  <2>3. Off(j) \in BlocksAt(file) /\ Target(file, At(file, Off(j) + 2)) = b /\ Off(j) \in Nat
    BY <1>9, <2>1
  <2>4. \A p \in Offset : At(file, (Off(j) + 3) + p) = Memory(w)[b][p]
    BY <1>9, <2>1
  <2> DEFINE x == Off(j)
  <2> HIDE DEF x, Off
  <2>5. {p \in BlocksAt(file) : Target(file, At(file, p + 2)) = b} = {x}
    BY <2>2, <2>3 DEF x
  <2>6. StartsAt(file, b) = {x + 3}
    BY <1>2, <2>5 DEF StartsAt
  <2>7. x + 3 \in Int
    BY <2>3 DEF x
  <2>8. MemoryAt(file, b, o) = At(file, (x + 3) + o)
    BY <2>6, <2>7, OneStart
  <2> QED BY <2>4, <2>8 DEF x
<1>12. CASE ~\E j \in 1..m : s[j][1] = b
  <2>1. {p \in BlocksAt(file) : Target(file, At(file, p + 2)) = b} = {}
    <3> SUFFICES ASSUME NEW p \in BlocksAt(file), Target(file, At(file, p + 2)) = b PROVE FALSE
      OBVIOUS
    <3>1. PICK i \in 1..m : p = Off(i)
      BY <1>10
    <3> QED BY <1>9, <1>12, <3>1
  <2>2. StartsAt(file, b) = {}
    BY <1>2, <2>1 DEF StartsAt
  <2>3. Is48k(w) /\ b \notin {0, 2, 5}
    BY <1>12, Numbers48, Numbers128 DEF s, m, BanksOf
  <2>4. ~Foreign(w)
    BY <2>3, FormatIs
  <2>5. Memory(w)[b][o] = 0
    BY <2>3, <2>4 DEF Z80Writer
  <2> QED BY <2>2, <2>5 DEF MemoryAt
<1> QED BY <1>11, <1>12

-----------------------------------------------------------------------------
(* The registers a program starts with.                                    *)

\* A state that has the registers of a writer, byte by byte.
HoldsMain(s, r) ==
  /\ s["a"] = r["a"] /\ s["f"] = r["f"] /\ s["b"] = High(r["bc"]) /\ s["c"] = Low(r["bc"])
  /\ s["d"] = High(r["de"]) /\ s["e"] = Low(r["de"]) /\ s["h"] = High(r["hl"]) /\ s["l"] = Low(r["hl"])
HoldsOther(s, r) ==
  /\ s["a'"] = r["a'"] /\ s["f'"] = r["f'"] /\ s["b'"] = High(r["bc'"]) /\ s["c'"] = Low(r["bc'"])
  /\ s["d'"] = High(r["de'"]) /\ s["e'"] = Low(r["de'"]) /\ s["h'"] = High(r["hl'"]) /\ s["l'"] = Low(r["hl'"])
HoldsWords(s, r) ==
  /\ s["ixH"] = High(r["ix"]) /\ s["ixL"] = Low(r["ix"]) /\ s["iyH"] = High(r["iy"]) /\ s["iyL"] = Low(r["iy"])
  /\ s["pcH"] = High(r["pc"]) /\ s["pcL"] = Low(r["pc"]) /\ s["spH"] = High(r["sp"]) /\ s["spL"] = Low(r["sp"])
HoldsRest(s, r) ==
  /\ s["i"] = r["i"] /\ s["r"] = r["r"] /\ s["border"] = r["border"]
  /\ s["intMode"] = r["im"] /\ s["intDisabled"] = 1 - r["ei"]
Holds(s, r) == HoldsMain(s, r) /\ HoldsOther(s, r) /\ HoldsWords(s, r) /\ HoldsRest(s, r)

LEMMA LoadStateIs ==
  ASSUME NEW file, NEW ports, NEW s, s = LoadState(file, ports)
  PROVE  /\ s["a"] = At(file, 0) /\ s["f"] = At(file, 1) /\ s["c"] = At(file, 2) /\ s["b"] = At(file, 3)
         /\ s["l"] = At(file, 4) /\ s["h"] = At(file, 5)
         /\ s["pcL"] = (IF Late(file) THEN At(file, 32) ELSE At(file, 6))
         /\ s["pcH"] = (IF Late(file) THEN At(file, 33) ELSE At(file, 7))
         /\ s["spL"] = At(file, 8) /\ s["spH"] = At(file, 9) /\ s["i"] = At(file, 10)
         /\ s["r"] = (At(file, 11) % 128) + 128 * (At(file, 12) % 2) /\ s["border"] = (At(file, 12) \div 2) % 8
         /\ s["e"] = At(file, 13) /\ s["d"] = At(file, 14) /\ s["c'"] = At(file, 15) /\ s["b'"] = At(file, 16)
         /\ s["e'"] = At(file, 17) /\ s["d'"] = At(file, 18) /\ s["l'"] = At(file, 19) /\ s["h'"] = At(file, 20)
         /\ s["a'"] = At(file, 21) /\ s["f'"] = At(file, 22) /\ s["iyL"] = At(file, 23) /\ s["iyH"] = At(file, 24)
         /\ s["ixL"] = At(file, 25) /\ s["ixH"] = At(file, 26)
         /\ s["intDisabled"] = (IF At(file, 27) = 0 THEN 1 ELSE 0) /\ s["intMode"] = At(file, 29) % 4
         /\ s["1ffd"] = ports["1ffd"] /\ s["7ffd"] = ports["7ffd"] /\ s["fffd"] = ports["fffd"]
<1>1. /\ {"a", "f", "b", "c", "d", "e", "l", "h", "a'", "f'", "b'", "c'", "d'", "e'", "l'", "h'"} \subseteq Field
      /\ {"ixH", "ixL", "iyH", "iyL", "i", "r", "intMode", "intDisabled", "pcL", "pcH", "spL", "spH"} \subseteq Field
      /\ {"1ffd", "7ffd", "fffd", "border"} \subseteq Field
  BY DEF Field, Fields
<1>2. /\ s["a"] = At(file, 0) /\ s["f"] = At(file, 1) /\ s["c"] = At(file, 2) /\ s["b"] = At(file, 3)
      /\ s["l"] = At(file, 4) /\ s["h"] = At(file, 5)
      /\ s["spL"] = At(file, 8) /\ s["spH"] = At(file, 9) /\ s["i"] = At(file, 10)
  BY <1>1 DEF LoadState, At
<1>3. /\ s["pcL"] = (IF Late(file) THEN At(file, 32) ELSE At(file, 6))
      /\ s["pcH"] = (IF Late(file) THEN At(file, 33) ELSE At(file, 7))
  BY <1>1 DEF LoadState, At, Late
<1>4. /\ s["r"] = (At(file, 11) % 128) + 128 * (At(file, 12) % 2) /\ s["border"] = (At(file, 12) \div 2) % 8
      /\ s["intDisabled"] = (IF At(file, 27) = 0 THEN 1 ELSE 0) /\ s["intMode"] = At(file, 29) % 4
  BY <1>1 DEF LoadState, At
<1>5. /\ s["e"] = At(file, 13) /\ s["d"] = At(file, 14) /\ s["c'"] = At(file, 15) /\ s["b'"] = At(file, 16)
      /\ s["e'"] = At(file, 17) /\ s["d'"] = At(file, 18) /\ s["l'"] = At(file, 19) /\ s["h'"] = At(file, 20)
  BY <1>1 DEF LoadState, At
<1>6. /\ s["a'"] = At(file, 21) /\ s["f'"] = At(file, 22) /\ s["iyL"] = At(file, 23) /\ s["iyH"] = At(file, 24)
      /\ s["ixL"] = At(file, 25) /\ s["ixH"] = At(file, 26)
  BY <1>1 DEF LoadState, At
<1>7. s["1ffd"] = ports["1ffd"] /\ s["7ffd"] = ports["7ffd"] /\ s["fffd"] = ports["fffd"]
  BY <1>1 DEF LoadState
<1> QED BY <1>2, <1>3, <1>4, <1>5, <1>6, <1>7

\* The high bit of r is behind the border.
LEMMA MixedIs ==
  ASSUME NEW r, RegsFit(r)
  PROVE  /\ ((r["r"] % 256) % 128) + 128 * ((Mixed(r) % 256) % 2) = r["r"]
         /\ ((Mixed(r) % 256) \div 2) % 8 = r["border"]
         /\ (ModeByte(r) % 256) % 4 = r["im"]
         /\ (IF r["ei"] % 256 = 0 THEN 1 ELSE 0) = 1 - r["ei"]
<1>1. r["r"] \in 0..255 /\ r["border"] \in 0..7 /\ r["im"] \in 0..2 /\ r["ei"] \in {0, 1}
  BY RegsAre
<1> DEFINE x == r["r"]  y == r["border"]  z == r["im"]  e == r["ei"]
<1>2. Mixed(r) = 2 * (y % 8) + ((x \div 128) % 2) /\ ModeByte(r) = 64 + z
  BY <1>1 DEF Mixed, ModeByte
<1>3. x \in 0..255 /\ y \in 0..7 /\ z \in 0..2 /\ e \in {0, 1}
  BY <1>1
<1> HIDE DEF x, y, z, e
<1> DEFINE q == x \div 128  mix == Mixed(r)
<1>4. q \in {0, 1} /\ x = 128 * q + (x % 128)
  BY <1>3
<1>5. q % 2 = q /\ y % 8 = y /\ x % 256 = x
  BY <1>3, <1>4
<1>6. mix = 2 * y + q
  BY <1>2, <1>5
<1> HIDE DEF mix, q
<1>7. mix % 256 = mix
  BY <1>3, <1>4, <1>6
<1>8. mix % 2 = q /\ (mix \div 2) = y
  BY <1>3, <1>4, <1>6
<1>9. ((x % 256) % 128) + 128 * ((mix % 256) % 2) = x
  BY <1>3, <1>4, <1>5, <1>7, <1>8
<1>10. ((mix % 256) \div 2) % 8 = y
  BY <1>5, <1>7, <1>8
<1>11. ((64 + z) % 256) % 4 = z
  <2>1. z = 0 \/ z = 1 \/ z = 2
    BY <1>3
  <2> QED BY <2>1
<1>12. (IF e % 256 = 0 THEN 1 ELSE 0) = 1 - e
  BY <1>3
<1> QED BY <1>2, <1>9, <1>10, <1>11, <1>12 DEF x, y, z, e, mix

\* The state that is loaded from a snapshot holds the registers of the writer.
LEMMA StateRead ==
  ASSUME NEW w, Z80Writer(w), NEW file, file = Z80File(w), NEW ports
  PROVE  Holds(LoadState(file, ports), w.regs)
<1> DEFINE r == w.regs
           s == LoadState(file, ports)
<1>1. RegsFit(r)
  BY DEF Z80Writer
<1>2. Reads(w, file, Body(w))
  BY BodyIs, FileHead
<1>3. \A i \in 1..30 : file[i] = Head30(r, Format(w))[i]
  BY <1>2 DEF Reads
<1>4. /\ r["a"] % 256 = r["a"] /\ r["f"] % 256 = r["f"] /\ r["a'"] % 256 = r["a'"] /\ r["f'"] % 256 = r["f'"]
      /\ r["i"] % 256 = r["i"]
  <2>1. r["a"] \in 0..255 /\ r["f"] \in 0..255 /\ r["a'"] \in 0..255 /\ r["f'"] \in 0..255 /\ r["i"] \in 0..255
    BY <1>1, RegsAre
  <2> QED BY <2>1, SMTT(30)
<1>5. /\ (IF Late(file) THEN At(file, 32) ELSE At(file, 6)) = Low(r["pc"])
      /\ (IF Late(file) THEN At(file, 33) ELSE At(file, 7)) = High(r["pc"])
  <2>1. At(file, 6) = Low(PcNow(r, Format(w))) /\ At(file, 7) = High(PcNow(r, Format(w)))
    BY <1>3, HeadRead
  <2>2. Format(w) = 1 => PcNow(r, Format(w)) = r["pc"]
    BY DEF PcNow
  <2> QED BY <2>1, <2>2, FileRead
<1>6. HoldsMain(s, r)
  <2>1. /\ At(file, 0) = r["a"] % 256 /\ At(file, 1) = r["f"] % 256
        /\ At(file, 2) = Low(r["bc"]) /\ At(file, 3) = High(r["bc"])
        /\ At(file, 4) = Low(r["hl"]) /\ At(file, 5) = High(r["hl"])
        /\ At(file, 13) = Low(r["de"]) /\ At(file, 14) = High(r["de"])
    BY <1>3, HeadRead
  <2>2. /\ s["a"] = At(file, 0) /\ s["f"] = At(file, 1) /\ s["c"] = At(file, 2) /\ s["b"] = At(file, 3)
        /\ s["l"] = At(file, 4) /\ s["h"] = At(file, 5) /\ s["e"] = At(file, 13) /\ s["d"] = At(file, 14)
    BY LoadStateIs
  <2> HIDE DEF r, s
  <2> QED BY <1>4, <2>1, <2>2 DEF HoldsMain
<1>7. HoldsOther(s, r)
  <2>1. /\ At(file, 15) = Low(r["bc'"]) /\ At(file, 16) = High(r["bc'"])
        /\ At(file, 17) = Low(r["de'"]) /\ At(file, 18) = High(r["de'"])
        /\ At(file, 19) = Low(r["hl'"]) /\ At(file, 20) = High(r["hl'"])
        /\ At(file, 21) = r["a'"] % 256 /\ At(file, 22) = r["f'"] % 256
    BY <1>3, HeadRead
  <2>2. /\ s["c'"] = At(file, 15) /\ s["b'"] = At(file, 16) /\ s["e'"] = At(file, 17) /\ s["d'"] = At(file, 18)
        /\ s["l'"] = At(file, 19) /\ s["h'"] = At(file, 20) /\ s["a'"] = At(file, 21) /\ s["f'"] = At(file, 22)
    BY LoadStateIs
  <2> HIDE DEF r, s
  <2> QED BY <1>4, <2>1, <2>2 DEF HoldsOther
<1>8. HoldsWords(s, r)
  <2>1. /\ At(file, 8) = Low(r["sp"]) /\ At(file, 9) = High(r["sp"])
        /\ At(file, 23) = Low(r["iy"]) /\ At(file, 24) = High(r["iy"])
        /\ At(file, 25) = Low(r["ix"]) /\ At(file, 26) = High(r["ix"])
    BY <1>3, HeadRead
  <2>2. /\ s["spL"] = At(file, 8) /\ s["spH"] = At(file, 9) /\ s["iyL"] = At(file, 23) /\ s["iyH"] = At(file, 24)
        /\ s["ixL"] = At(file, 25) /\ s["ixH"] = At(file, 26)
        /\ s["pcL"] = (IF Late(file) THEN At(file, 32) ELSE At(file, 6))
        /\ s["pcH"] = (IF Late(file) THEN At(file, 33) ELSE At(file, 7))
    BY LoadStateIs
  <2> HIDE DEF r, s
  <2> QED BY <1>5, <2>1, <2>2 DEF HoldsWords
<1>9. HoldsRest(s, r)
  <2>1. /\ At(file, 10) = r["i"] % 256 /\ At(file, 11) = r["r"] % 256 /\ At(file, 12) = Mixed(r) % 256
        /\ At(file, 27) = r["ei"] % 256 /\ At(file, 29) = ModeByte(r) % 256
    BY <1>3, HeadRead
  <2>2. /\ s["i"] = At(file, 10)
        /\ s["r"] = (At(file, 11) % 128) + 128 * (At(file, 12) % 2) /\ s["border"] = (At(file, 12) \div 2) % 8
        /\ s["intDisabled"] = (IF At(file, 27) = 0 THEN 1 ELSE 0) /\ s["intMode"] = At(file, 29) % 4
    BY LoadStateIs
  <2>3. /\ ((r["r"] % 256) % 128) + 128 * ((Mixed(r) % 256) % 2) = r["r"]
        /\ ((Mixed(r) % 256) \div 2) % 8 = r["border"]
        /\ (ModeByte(r) % 256) % 4 = r["im"]
        /\ (IF r["ei"] % 256 = 0 THEN 1 ELSE 0) = 1 - r["ei"]
    BY <1>1, MixedIs
  <2> HIDE DEF r, s
  <2> QED BY <1>4, <2>1, <2>2, <2>3 DEF HoldsRest
<1> QED BY <1>6, <1>7, <1>8, <1>9 DEF Holds

\* The state an executable has.
StateIn(bytes) == [x \in Field |-> bytes[CHOOSE j \in 1..Len(Fields) : Fields[j] = x]]

\* No field of the state is there twice.
LEMMA FieldsDiffer ==
  ASSUME NEW i \in 1..32, NEW j \in 1..32, Fields[i] = Fields[j]
  PROVE  i = j
BY DEF Fields

\* A field is read from its place in an executable.
LEMMA StateInIs ==
  ASSUME NEW bytes, NEW i \in 1..32
  PROVE  StateIn(bytes)[Fields[i]] = bytes[i]
<1>1. Len(Fields) = 32
  BY DEF Fields
<1>2. Fields[i] \in Field
  BY <1>1 DEF Field
<1> DEFINE c == CHOOSE j \in 1..Len(Fields) : Fields[j] = Fields[i]
<1>3. c \in 1..32 /\ Fields[c] = Fields[i]
  BY <1>1
<1>4. c = i
  <2> HIDE DEF c
  <2> QED BY <1>3, FieldsDiffer
<1> QED BY <1>2, <1>4 DEF StateIn

\* The state in an executable holds the registers of the writer.
LEMMA ExeRead ==
  ASSUME NEW r
  PROVE  /\ Holds(StateIn(ExeState(r)), r)
         /\ StateIn(ExeState(r))["7ffd"] = r["7ffd"]
<1> DEFINE e == ExeState(r)
           s == StateIn(e)
<1>1. \A i \in 1..32 : s[Fields[i]] = e[i]
  BY StateInIs
<1>2. /\ Fields[1] = "a" /\ Fields[2] = "f" /\ Fields[3] = "b" /\ Fields[4] = "c" /\ Fields[5] = "d" /\ Fields[6] = "e"
      /\ Fields[7] = "l" /\ Fields[8] = "h" /\ Fields[9] = "a'" /\ Fields[10] = "f'" /\ Fields[11] = "b'"
      /\ Fields[12] = "c'" /\ Fields[13] = "d'" /\ Fields[14] = "e'" /\ Fields[15] = "l'" /\ Fields[16] = "h'"
  BY DEF Fields
<1>3. /\ Fields[17] = "ixH" /\ Fields[18] = "ixL" /\ Fields[19] = "iyH" /\ Fields[20] = "iyL" /\ Fields[21] = "i"
      /\ Fields[22] = "r" /\ Fields[23] = "intMode" /\ Fields[24] = "intDisabled" /\ Fields[25] = "pcL"
      /\ Fields[26] = "pcH" /\ Fields[27] = "spL" /\ Fields[28] = "spH" /\ Fields[30] = "7ffd" /\ Fields[32] = "border"
  BY DEF Fields
<1>4. /\ e[1] = r["a"] /\ e[2] = r["f"] /\ e[3] = High(r["bc"]) /\ e[4] = Low(r["bc"])
      /\ e[5] = High(r["de"]) /\ e[6] = Low(r["de"]) /\ e[7] = Low(r["hl"]) /\ e[8] = High(r["hl"])
  BY DEF ExeState
<1>5. /\ e[9] = r["a'"] /\ e[10] = r["f'"] /\ e[11] = High(r["bc'"]) /\ e[12] = Low(r["bc'"])
      /\ e[13] = High(r["de'"]) /\ e[14] = Low(r["de'"]) /\ e[15] = Low(r["hl'"]) /\ e[16] = High(r["hl'"])
  BY DEF ExeState
<1>6. /\ e[17] = High(r["ix"]) /\ e[18] = Low(r["ix"]) /\ e[19] = High(r["iy"]) /\ e[20] = Low(r["iy"])
      /\ e[25] = Low(r["pc"]) /\ e[26] = High(r["pc"]) /\ e[27] = Low(r["sp"]) /\ e[28] = High(r["sp"])
  BY DEF ExeState
<1>7. /\ e[21] = r["i"] /\ e[22] = r["r"] /\ e[23] = r["im"] /\ e[24] = 1 - r["ei"] /\ e[32] = r["border"]
      /\ e[30] = r["7ffd"]
  BY DEF ExeState
<1> HIDE DEF e, s
<1>8. /\ s[Fields[1]] = e[1] /\ s[Fields[2]] = e[2] /\ s[Fields[3]] = e[3] /\ s[Fields[4]] = e[4]
      /\ s[Fields[5]] = e[5] /\ s[Fields[6]] = e[6] /\ s[Fields[7]] = e[7] /\ s[Fields[8]] = e[8]
  BY <1>1
<1>9. /\ s[Fields[9]] = e[9] /\ s[Fields[10]] = e[10] /\ s[Fields[11]] = e[11] /\ s[Fields[12]] = e[12]
      /\ s[Fields[13]] = e[13] /\ s[Fields[14]] = e[14] /\ s[Fields[15]] = e[15] /\ s[Fields[16]] = e[16]
  BY <1>1
<1>10. /\ s[Fields[17]] = e[17] /\ s[Fields[18]] = e[18] /\ s[Fields[19]] = e[19] /\ s[Fields[20]] = e[20]
       /\ s[Fields[25]] = e[25] /\ s[Fields[26]] = e[26] /\ s[Fields[27]] = e[27] /\ s[Fields[28]] = e[28]
  BY <1>1
<1>11. /\ s[Fields[21]] = e[21] /\ s[Fields[22]] = e[22] /\ s[Fields[23]] = e[23] /\ s[Fields[24]] = e[24]
       /\ s[Fields[30]] = e[30] /\ s[Fields[32]] = e[32]
  BY <1>1
<1>12. HoldsMain(s, r)
  BY <1>2, <1>4, <1>8, Zenon DEF HoldsMain
<1>13. HoldsOther(s, r)
  BY <1>2, <1>5, <1>9, Zenon DEF HoldsOther
<1>14. HoldsWords(s, r)
  BY <1>3, <1>6, <1>10, ZenonT(60) DEF HoldsWords
<1>15. HoldsRest(s, r) /\ s["7ffd"] = r["7ffd"]
  BY <1>3, <1>7, <1>11, ZenonT(60) DEF HoldsRest
<1> QED BY <1>12, <1>13, <1>14, <1>15 DEF Holds, e, s

\* A word is what its two bytes make.
LEMMA PairIs ==
  ASSUME NEW x \in Words
  PROVE  Pair(High(x), Low(x)) = x
BY DEF Words, Pair, High, Low

\* What the emulator does with it.
Started == Register \ {"1ffd", "7ffd", "fffd"}
LEMMA StartRegs ==
  ASSUME NEW s, NEW r, RegsFit(r), Holds(s, r), NEW memory, NEW g, g = Start(s, memory).regs
  PROVE  DOMAIN g = Started /\ \A x \in Started : g[x] = r[x]
<1>1. /\ r["bc"] \in Words /\ r["hl"] \in Words /\ r["de"] \in Words
      /\ r["bc'"] \in Words /\ r["hl'"] \in Words /\ r["de'"] \in Words
      /\ r["pc"] \in Words /\ r["sp"] \in Words /\ r["iy"] \in Words /\ r["ix"] \in Words
      /\ r["ei"] \in {0, 1}
  BY RegsAre
<1>2. HoldsMain(s, r) /\ HoldsOther(s, r) /\ HoldsWords(s, r) /\ HoldsRest(s, r)
  BY DEF Holds
<1>3. DOMAIN g = Started
  BY DEF Start, Started
<1>4. /\ {"a", "f", "bc", "hl", "de", "a'", "f'", "bc'", "hl'", "de'", "pc", "sp", "iy", "ix"} \subseteq Started
      /\ {"i", "r", "border", "im", "ei"} \subseteq Started
  BY DEF Started, Register
<1>5. /\ g["a"] = s["a"] /\ g["f"] = s["f"] /\ g["a'"] = s["a'"] /\ g["f'"] = s["f'"]
      /\ g["i"] = s["i"] /\ g["r"] = s["r"] /\ g["border"] = s["border"]
      /\ g["im"] = s["intMode"] /\ g["ei"] = 1 - s["intDisabled"]
  BY <1>4 DEF Start, Started
<1>6. /\ g["bc"] = Pair(s["b"], s["c"]) /\ g["de"] = Pair(s["d"], s["e"]) /\ g["hl"] = Pair(s["h"], s["l"])
      /\ g["bc'"] = Pair(s["b'"], s["c'"]) /\ g["de'"] = Pair(s["d'"], s["e'"]) /\ g["hl'"] = Pair(s["h'"], s["l'"])
  BY <1>4 DEF Start, Started
<1>7. /\ g["ix"] = Pair(s["ixH"], s["ixL"]) /\ g["iy"] = Pair(s["iyH"], s["iyL"])
      /\ g["pc"] = Pair(s["pcH"], s["pcL"]) /\ g["sp"] = Pair(s["spH"], s["spL"])
  BY <1>4 DEF Start, Started
<1>8. /\ g["a"] = r["a"] /\ g["f"] = r["f"] /\ g["a'"] = r["a'"] /\ g["f'"] = r["f'"]
      /\ g["i"] = r["i"] /\ g["r"] = r["r"] /\ g["border"] = r["border"] /\ g["im"] = r["im"]
  BY <1>2, <1>5 DEF HoldsMain, HoldsOther, HoldsRest
<1>9. g["ei"] = r["ei"]
  BY <1>1, <1>2, <1>5 DEF HoldsRest
<1>10. /\ g["bc"] = r["bc"] /\ g["de"] = r["de"] /\ g["hl"] = r["hl"]
  <2>1. /\ s["b"] = High(r["bc"]) /\ s["c"] = Low(r["bc"]) /\ s["d"] = High(r["de"]) /\ s["e"] = Low(r["de"])
        /\ s["h"] = High(r["hl"]) /\ s["l"] = Low(r["hl"])
    BY <1>2 DEF HoldsMain
  <2> QED BY <1>1, <1>6, <2>1, PairIs
<1>11. /\ g["bc'"] = r["bc'"] /\ g["de'"] = r["de'"] /\ g["hl'"] = r["hl'"]
  <2>1. /\ s["b'"] = High(r["bc'"]) /\ s["c'"] = Low(r["bc'"]) /\ s["d'"] = High(r["de'"]) /\ s["e'"] = Low(r["de'"])
        /\ s["h'"] = High(r["hl'"]) /\ s["l'"] = Low(r["hl'"])
    BY <1>2 DEF HoldsOther
  <2> QED BY <1>1, <1>6, <2>1, PairIs
<1>12. /\ g["ix"] = r["ix"] /\ g["iy"] = r["iy"] /\ g["pc"] = r["pc"] /\ g["sp"] = r["sp"]
  <2>1. /\ s["ixH"] = High(r["ix"]) /\ s["ixL"] = Low(r["ix"]) /\ s["iyH"] = High(r["iy"]) /\ s["iyL"] = Low(r["iy"])
        /\ s["pcH"] = High(r["pc"]) /\ s["pcL"] = Low(r["pc"]) /\ s["spH"] = High(r["sp"]) /\ s["spL"] = Low(r["sp"])
    BY <1>2 DEF HoldsWords
  <2> QED BY <1>1, <1>7, <2>1, PairIs
<1>13. \A x \in Started : x \in {"a", "f", "bc", "hl", "de", "a'", "f'", "bc'", "hl'", "de'", "pc", "sp", "iy", "ix",
                                 "i", "r", "border", "im", "ei"}
  BY DEF Started, Register
<1>14. \A x \in Started : g[x] = r[x]
  BY <1>8, <1>9, <1>10, <1>11, <1>12, <1>13
<1> QED BY <1>3, <1>14

\* What else the emulator starts with.
LEMMA StartRest ==
  ASSUME NEW s, NEW memory
  PROVE  /\ Start(s, memory).memory = memory
         /\ Start(s, memory).currentBank = s["7ffd"] % 8
         /\ Start(s, memory).shadowScreen = ((s["7ffd"] \div 8) % 2 = 1)
BY DEF Start, CurrentBank, UseShadowScreen

-----------------------------------------------------------------------------
(* A writer of an output.                                                  *)

OutputOK(o) ==
  /\ o.type \in Types /\ o.enabled \in BOOLEAN /\ o.files \in Seq(OutputFile)
  /\ o.format \in Int /\ o.machine \in Machines \cup {"auto"}
  /\ DOMAIN o.set \subseteq Register /\ \A x \in DOMAIN o.set : o.set[x] \in Value(x)
  /\ o.type \in {"Z80", "PC"} => \A i \in 1..Len(o.files) : o.files[i].refBasic = None
ProjectOK(q) ==
  /\ LinkedFiles(q.linked) /\ q.outputs \in Seq(ToSet(q.outputs))
  /\ \A j \in 1..Len(q.outputs) : OutputOK(q.outputs[j])
  /\ q.sources \in Seq(ToSet(q.sources)) /\ \A j \in 1..Len(q.sources) : q.sources[j].name \in Basics

\* What OutputsAssumption says of a project, by name.
LEMMA ProjectsAre ==
  ASSUME NEW q \in Projects
  PROVE  ProjectOK(q)
<1>1. LinkedFiles(q.linked)
  BY OutputsAssumption DEF LinkedFiles
<1>2. q.outputs \in Seq(ToSet(q.outputs)) /\ q.sources \in Seq(ToSet(q.sources))
  BY OutputsAssumption, Zenon
<1>3. \A j \in 1..Len(q.sources) : q.sources[j].name \in Basics
  BY OutputsAssumption, Zenon
<1>4. \A j \in 1..Len(q.outputs) : OutputOK(q.outputs[j])
  <2> SUFFICES ASSUME NEW j \in 1..Len(q.outputs) PROVE OutputOK(q.outputs[j])
    OBVIOUS
  <2> QED BY OutputsAssumption, Zenon DEF OutputOK, Machines
<1> QED BY <1>1, <1>2, <1>3, <1>4 DEF ProjectOK

\* Nothing is set to what a register can not have.
LEMMA ConfiguredIs ==
  ASSUME NEW o, OutputOK(o)
  PROVE  /\ InitError(o) = "none" => RegsFit(Configured(o.set))
         /\ Configured(o.set)["1ffd"] # Unset => "1ffd" \in DOMAIN o.set
         /\ "fffd" \notin DOMAIN o.set =>
              \A x \in Register : Configured(o.set)[x] = IF x \in DOMAIN o.set THEN o.set[x] ELSE Defaults[x]
<1> DEFINE all == [x \in Register |-> IF x \in DOMAIN o.set THEN o.set[x] ELSE Defaults[x]]
           some == [all EXCEPT !["7ffd"] = o.set["fffd"], !["fffd"] = Defaults["fffd"]]
           r == Configured(o.set)
<1>1. r = IF "fffd" \in DOMAIN o.set THEN some ELSE all
  BY DEF Configured
<1>2. DOMAIN o.set \subseteq Register /\ \A x \in DOMAIN o.set : o.set[x] \in Value(x)
  BY DEF OutputOK
<1>3. \A x \in Register : Defaults[x] =
        (CASE x \in {"pc", "sp"} -> 32768 [] x = "border" -> 7 [] x = "1ffd" -> Unset [] x = "ei" -> 1 [] OTHER -> 0)
  BY DEF Defaults
<1>4. \A x \in Register : Defaults[x] \in Fit(x)
  <2> SUFFICES ASSUME NEW x \in Register PROVE Defaults[x] \in Fit(x)
    OBVIOUS
  <2>1. CASE x \in {"pc", "sp"}
    BY <1>3, <2>1 DEF Fit, Words, ByteSized
  <2>2. CASE x = "border"
    BY <1>3, <2>2 DEF Fit, ByteSized
  <2>3. CASE x = "1ffd"
    BY <1>3, <2>3 DEF Fit, Words, Unset
  <2>4. CASE x = "ei"
    BY <1>3, <2>4 DEF Fit, ByteSized
  <2>5. CASE x \notin {"pc", "sp", "border", "1ffd", "ei"}
    <3>1. Defaults[x] = 0
      BY <1>3, <2>5
    <3>2. 0 \in Words
      BY DEF Words
    <3> QED BY <2>5, <3>1, <3>2 DEF Fit
  <2> QED BY <2>1, <2>2, <2>3, <2>4, <2>5
<1>5. \A x \in Register : r[x] =
        IF "fffd" \in DOMAIN o.set /\ x = "7ffd" THEN o.set["fffd"]
        ELSE IF "fffd" \in DOMAIN o.set /\ x = "fffd" THEN Defaults["fffd"]
        ELSE all[x]
  <2>1. \A x \in Register : some[x] = IF x = "7ffd" THEN o.set["fffd"] ELSE IF x = "fffd" THEN Defaults["fffd"] ELSE all[x]
    BY DEF Register
  <2> HIDE DEF some, all, r
  <2> QED BY <1>1, <2>1
<1>6. \A x \in Register : all[x] = IF x \in DOMAIN o.set THEN o.set[x] ELSE Defaults[x]
  OBVIOUS
<1> HIDE DEF some, all, r
<1>7. ASSUME InitError(o) = "none" PROVE RegsFit(r)
  <2>1. r["border"] \in 0..7 /\ r["im"] \in 0..2
    BY <1>7 DEF InitError, r
  <2> SUFFICES ASSUME NEW x \in Register PROVE r[x] \in Fit(x)
    BY DEF RegsFit
  <2>2. CASE x = "border" \/ x = "im"
    BY <2>1, <2>2 DEF Fit, ByteSized
  <2>3. CASE x \notin {"border", "im"}
    <3>1. Value(x) \subseteq Fit(x)
      BY <2>3 DEF Value, Fit, Words
    <3>2. all[x] \in Fit(x)
      BY <1>2, <1>4, <1>6, <3>1
    <3>3. CASE "fffd" \in DOMAIN o.set /\ x = "7ffd"
      <4>1. r[x] = o.set["fffd"]
        BY <1>5, <3>3
      <4>2. o.set["fffd"] \in Value("fffd")
        BY <1>2, <3>3
      <4> QED BY <3>3, <4>1, <4>2 DEF Value, Fit, ByteSized
    <3>4. CASE "fffd" \in DOMAIN o.set /\ x = "fffd"
      BY <1>4, <1>5, <3>4
    <3> QED BY <1>5, <3>2, <3>3, <3>4
  <2> QED BY <2>2, <2>3
<1>8. r["1ffd"] # Unset => "1ffd" \in DOMAIN o.set
  <2>1. "1ffd" \in Register
    BY DEF Register
  <2>2. r["1ffd"] = all["1ffd"]
    BY <1>5, <2>1
  <2>3. Defaults["1ffd"] = Unset
    BY <1>3, <2>1
  <2> QED BY <1>6, <2>1, <2>2, <2>3
<1>9. "fffd" \notin DOMAIN o.set =>
        \A x \in Register : r[x] = IF x \in DOMAIN o.set THEN o.set[x] ELSE Defaults[x]
  BY <1>5, <1>6
<1> QED BY <1>7, <1>8, <1>9 DEF r

\* The writer of an output when m of its files are in it.
WriterFor(o) ==
  [regs : {Configured(o.set)}, format : {FormatOf(o), 2}, machine : {o.machine}, pieces : Seq(PieceSet)]
Adding(o, w, m) ==
  /\ InitError(o) = "none" /\ w \in WriterFor(o)
  /\ WriterInv(w, project.linked, o.files, m)
  /\ \A i \in 1..m : o.files[i].ref \in DOMAIN project.linked
Finished(o, w) == Adding(o, w, Len(o.files))

\* A writer that was just configured has no file.
LEMMA AddingNone ==
  ASSUME NEW o, InitError(o) = "none"
  PROVE  Adding(o, NewWriter(Configured(o.set), FormatOf(o), o.machine), 0)
<1> DEFINE w == NewWriter(Configured(o.set), FormatOf(o), o.machine)
<1>1. w \in WriterFor(o) /\ w.pieces = <<>>
  BY DEF NewWriter, WriterFor
<1>2. WriterInv(w, project.linked, o.files, 0)
  <2> HIDE DEF w
  <2>1. \A i \in 1..0 : FALSE
    OBVIOUS
  <2> QED BY <1>1, <2>1, NoPiece DEF WriterInv
<1> QED BY <1>1, <1>2 DEF Adding

\* The files of an output.
LEMMA FilesAre ==
  ASSUME NEW o, OutputOK(o), NEW i \in 1..Len(o.files)
  PROVE  BankNamed[o.files[i].name] \in Bank \cup {Plain, Invalid} /\ o.files[i] \in OutputFile
<1>1. o.files \in Seq(OutputFile)
  BY DEF OutputOK
<1>2. o.files[i] \in OutputFile
  BY <1>1
<1>3. o.files[i].name \in DOMAIN BankNamed
  BY <1>2 DEF OutputFile
<1> QED BY <1>2, <1>3, SnapshotAssumption

\* A writer that takes a file without an error has one more.
LEMMA AddingMore ==
  ASSUME NEW o, OutputOK(o), LinkedFiles(project.linked), NEW w, NEW m \in Nat, Adding(o, w, m), m + 1 <= Len(o.files),
         NEW f, f = o.files[m + 1], f.ref \in DOMAIN project.linked,
         CodeError(w, f.name, project.linked[f.ref].load, project.linked[f.ref].data) = "none"
  PROVE  Adding(o, AddCode(w, f.name, project.linked[f.ref].load, project.linked[f.ref].data), m + 1)
<1> DEFINE l == project.linked
           new == AddCode(w, f.name, l[f.ref].load, l[f.ref].data)
<1>1. WriterInv(w, l, o.files, m) /\ InitError(o) = "none" /\ w \in WriterFor(o)
  BY DEF Adding
<1>2. w \in [regs : {w.regs}, format : {w.format}, machine : {w.machine}, pieces : Seq(PieceSet)]
  BY <1>1 DEF WriterFor
<1>3. m + 1 \in 1..Len(o.files)
  <2>1. Len(o.files) \in Nat
    BY DEF OutputOK
  <2> QED BY <2>1
<1>4. BankNamed[f.name] \in Bank \cup {Plain, Invalid}
  BY <1>3, FilesAre
<1>5. /\ WriterInv(new, l, o.files, m + 1)
      /\ new \in [regs : {w.regs}, format : {w.format, 2}, machine : {w.machine}, pieces : Seq(PieceSet)]
  BY <1>1, <1>2, <1>4, AddKeeps
<1>6. w.regs = Configured(o.set) /\ w.format \in {FormatOf(o), 2} /\ w.machine = o.machine
  BY <1>1 DEF WriterFor
<1> HIDE DEF new
<1>7. new \in WriterFor(o)
  BY <1>5, <1>6 DEF WriterFor
<1>8. \A i \in 1..(m + 1) : o.files[i].ref \in DOMAIN l
  <2>1. \A i \in 1..(m + 1) : i \in 1..m \/ i = m + 1
    OBVIOUS
  <2> QED BY <2>1 DEF Adding
<1>9. Adding(o, new, m + 1)
  BY <1>1, <1>5, <1>7, <1>8 DEF Adding
<1> QED BY <1>9 DEF new

\* Of a snapshot that is written.
LEMMA WriterIs ==
  ASSUME NEW o, OutputOK(o), o.type = "Z80", NEW w, NEW m \in Nat, Adding(o, w, m), Z80Error(w) = "none"
  PROVE  Z80Writer(w)
<1>1. WriterInv(w, project.linked, o.files, m) /\ InitError(o) = "none" /\ w \in WriterFor(o)
  BY DEF Adding
<1>2. w.regs = Configured(o.set) /\ w.format \in {0, 2} /\ w.machine = o.machine /\ w.pieces \in Seq(PieceSet)
  BY <1>1 DEF WriterFor, FormatOf
<1>3. RegsFit(w.regs)
  BY <1>1, <1>2, ConfiguredIs
<1>4. w.machine \in Machines \cup {"auto"}
  BY <1>2 DEF OutputOK
<1>8. \A b \in Bank, p \in Offset : Given(w, project.linked, o.files, m, b, p)
  BY <1>1, MemoryIs
<1>5. \A b \in Bank, p \in Offset : Memory(w)[b][p] \in 0..255
  BY <1>8 DEF Given
<1>6. \A b \in Bank, p \in Offset : Memory(w)[b][p] \in Int
  BY <1>5
<1>7. ASSUME ~Foreign(w), NEW b \in Bank \ {0, 2, 5}, NEW p \in Offset PROVE Memory(w)[b][p] = 0
  <2>1. \A j \in 1..Len(w.pieces) : w.pieces[j].bank # b
    BY <1>7 DEF Foreign
  <2> QED BY <1>8, <2>1 DEF Given
<1> QED BY <1>2, <1>3, <1>4, <1>6, <1>7 DEF Z80Writer

-----------------------------------------------------------------------------
(* What reaches the emulator.                                              *)

\* Each byte where the linker meant it to be.
LoadsFiles(o, memory) ==
  \A b \in Bank, p \in 0..(Page - 1) :
    LET owners == Owners(o, <<b, p>>) IN
    /\ owners = {} => memory[b][p] = 0
    /\ \A own \in owners :
         LET file == o.files[own[1]]
         IN memory[b][p] = Bytes(file)[own[2] - project.linked[file.ref].load + 1]

\* A memory that is the one of a finished writer holds the files of the output and nothing else.
LEMMA LoadsIs ==
  ASSUME NEW o, OutputOK(o), LinkedFiles(project.linked), NEW w, Finished(o, w),
         NEW memory, \A b \in Bank, p \in Offset : memory[b][p] = Memory(w)[b][p]
  PROVE  LoadsFiles(o, memory)
<1> DEFINE l == project.linked
           m == Len(o.files)
<1>1. WriterInv(w, l, o.files, m) /\ m \in Nat /\ \A i \in 1..m : o.files[i].ref \in DOMAIN l
  <2>1. o.files \in Seq(OutputFile)
    BY DEF OutputOK
  <2>2. m \in Nat
    BY <2>1
  <2> QED BY <2>2 DEF Finished, Adding
<1> HIDE DEF m
<1> SUFFICES ASSUME NEW b \in Bank, NEW p \in Offset
             PROVE  /\ Owners(o, <<b, p>>) = {} => memory[b][p] = 0
                    /\ \A own \in Owners(o, <<b, p>>) :
                         memory[b][p] = Bytes(o.files[own[1]])[own[2] - l[o.files[own[1]].ref].load + 1]
  BY DEF LoadsFiles, Offset
<1>2. memory[b][p] = Memory(w)[b][p]
  OBVIOUS
<1>5. /\ (\A i \in 1..m : \A v : ~FileGives(l, o.files[i], b, p, v)) => Memory(w)[b][p] = 0
      /\ \A i \in 1..m : \A v : FileGives(l, o.files[i], b, p, v) => Memory(w)[b][p] = v
  <2>1. Given(w, l, o.files, m, b, p)
    BY <1>1, MemoryIs
  <2> QED BY <2>1 DEF Given
<1>3. ASSUME NEW own \in Owners(o, <<b, p>>)
      PROVE  memory[b][p] = Bytes(o.files[own[1]])[own[2] - l[o.files[own[1]].ref].load + 1]
  <2>1. /\ own \in (1..m) \X (Page..(4 * Page - 1))
        /\ own[2] \in Addresses(o.files[own[1]]) /\ Cell(o.files[own[1]], own[2]) = <<b, p>>
    BY DEF Owners, m
  <2> DEFINE i == own[1]  a == own[2]  f == o.files[i]  load == l[f.ref].load  data == l[f.ref].data
  <2>2. i \in 1..m /\ a \in Addresses(f) /\ Cell(f, a) = <<b, p>>
    BY <2>1
  <2>3. f.ref \in DOMAIN l /\ load \in Nat /\ data \in Seq(0..255)
    BY <1>1, <2>2 DEF LinkedFiles
  <2>4. a \in Int /\ load <= a /\ a < load + Len(data)
    BY <2>2, <2>3, AddressesAre
  <2> DEFINE x == a - load + 1
  <2>5. x \in 1..Len(data) /\ load + x - 1 = a
    <3> HIDE DEF load, data, a
    <3>1. Len(data) \in Nat
      BY <2>3
    <3> QED BY <2>3, <2>4, <3>1
  <2>6. Resolve(BankOf(f.name), load + x - 1) = <<b, p>>
    BY <2>2, <2>5 DEF Cell, BankOf
  <2>7. FileGives(l, f, b, p, data[x])
    <3> HIDE DEF x, load, data, f, i, a
    <3>1. Gives(load, data, f.name, b, p, data[x])
      BY <2>5, <2>6 DEF Gives
    <3> QED BY <3>1 DEF FileGives, load, data
  <2>8. Memory(w)[b][p] = data[x]
    BY <1>5, <2>2, <2>7
  <2> QED BY <1>2, <2>8 DEF Bytes
<1>4. ASSUME Owners(o, <<b, p>>) = {} PROVE memory[b][p] = 0
  <2>1. ASSUME NEW i \in 1..m, NEW v, FileGives(l, o.files[i], b, p, v) PROVE FALSE
    <3> DEFINE f == o.files[i]  load == l[f.ref].load  data == l[f.ref].data
    <3>1. f.ref \in DOMAIN l /\ load \in Nat /\ data \in Seq(0..255)
      BY <1>1 DEF LinkedFiles
    <3>2. Gives(load, data, f.name, b, p, v)
      BY <2>1 DEF FileGives
    <3>3. InMemory(l, f)
      BY <1>1 DEF WriterInv
    <3>4. Len(data) = 0 \/ (load >= Page /\ load + Len(data) <= 4 * Page)
      BY <3>3 DEF InMemory
    <3>5. \A a : a \in Addresses(f) <=> a \in Int /\ load <= a /\ a < load + Len(data)
      BY <3>1, AddressesAre
    <3> HIDE DEF f, load, data
    <3>6. PICK x \in 1..Len(data) : Resolve(BankOf(f.name), load + x - 1) = <<b, p>>
      BY <3>2 DEF Gives
    <3> DEFINE a == load + x - 1
    <3>7. Len(data) \in Nat
      BY <3>1
    <3>8. a \in Int /\ load <= a /\ a < load + Len(data)
      BY <3>1, <3>6, <3>7
    <3>9. Page \in Nat
      BY SnapshotAssumption
    <3>10. a \in Page..(4 * Page - 1)
      BY <3>1, <3>4, <3>6, <3>7, <3>9
    <3>11. a \in Addresses(f) /\ Cell(f, a) = <<b, p>>
      BY <3>5, <3>6, <3>8 DEF Cell, BankOf
    <3> HIDE DEF a
    <3>12. <<i, a>> \in Owners(o, <<b, p>>)
      <4> DEFINE own == <<i, a>>
      <4>1. own \in (1..m) \X (Page..(4 * Page - 1)) /\ own[1] = i /\ own[2] = a
        BY <3>10
      <4> HIDE DEF own
      <4>2. own[2] \in Addresses(o.files[own[1]]) /\ Cell(o.files[own[1]], own[2]) = <<b, p>>
        BY <3>11, <4>1 DEF f
      <4>3. own \in Owners(o, <<b, p>>)
        BY <4>1, <4>2 DEF Owners, m
      <4> QED BY <4>3 DEF own
    <3> QED BY <1>4, <3>12
  <2>2. Memory(w)[b][p] = 0
    BY <1>5, <2>1
  <2> QED BY <1>2, <2>2
<1> QED BY <1>3, <1>4

\* A snapshot that is not refused.
LEMMA SnapshotLoads ==
  ASSUME NEW w, Z80Writer(w), NEW file, file = Z80File(w), LoadSnapshot(file).error = "none"
  PROVE  /\ LoadSnapshot(file).state = LoadState(file, PortsAt(file))
         /\ Format(w) # 1 => ModeAt(file) # "unsupported"
         /\ \A b \in Bank, p \in Offset : LoadSnapshot(file).memory[b][p] = Memory(w)[b][p]
<1> DEFINE memory == [b \in Bank |-> [o \in 0..(Page - 1) |-> MemoryAt(file, b, o)]]
           bad == Late(file) /\ (LengthAt(file) \notin {23, 54, 55} \/ ModeAt(file) = "unsupported")
           good == [error |-> "none", state |-> LoadState(file, PortsAt(file)), memory |-> memory]
<1>1. LoadSnapshot(file) = IF bad THEN [error |-> "unsupported"] ELSE good
  BY LoadSnapshotIs, Zenon
<1> HIDE DEF memory
<1>2. ~bad /\ LoadSnapshot(file) = good
  <2> HIDE DEF bad, good
  <2>1. bad => LoadSnapshot(file).error = "unsupported"
    BY <1>1
  <2> QED BY <1>1, <2>1
<1>3. Format(w) # 1 => ModeAt(file) # "unsupported"
  BY <1>2, FileRead
<1>4. LoadSnapshot(file).memory = memory /\ LoadSnapshot(file).state = LoadState(file, PortsAt(file))
  BY <1>2
<1>5. \A b \in Bank, p \in Offset : memory[b][p] = MemoryAt(file, b, p)
  BY DEF memory, Offset
<1>6. \A b \in Bank, p \in Offset : MemoryAt(file, b, p) = Memory(w)[b][p]
  BY <1>3, MemoryOne, MemoryMore
<1> QED BY <1>3, <1>4, <1>5, <1>6

\* One that is.
LEMMA SnapshotRefused ==
  ASSUME NEW w, Z80Writer(w), NEW file, file = Z80File(w), LoadSnapshot(file).error # "none"
  PROVE  w.machine \notin (Machines48 \ {"didaktik"}) \cup {"auto", "128k"} \/ w.regs["1ffd"] # Unset
<1> DEFINE memory == [b \in Bank |-> [o \in 0..(Page - 1) |-> MemoryAt(file, b, o)]]
           bad == Late(file) /\ (LengthAt(file) \notin {23, 54, 55} \/ ModeAt(file) = "unsupported")
           good == [error |-> "none", state |-> LoadState(file, PortsAt(file)), memory |-> memory]
<1>1. LoadSnapshot(file) = IF bad THEN [error |-> "unsupported"] ELSE good
  BY LoadSnapshotIs, Zenon
<1>2. good.error = "none"
  OBVIOUS
<1>3. bad
  <2> HIDE DEF bad, good
  <2> QED BY <1>1, <1>2
<1>4. Format(w) # 1
  BY <1>3, FileRead
<1>5. ModeAt(file) = "unsupported"
  BY <1>3, <1>4, ModesRead
<1> QED BY <1>4, <1>5, ModesRead

\* With what the project sets.
Want(o, x) == IF x \in DOMAIN o.set THEN o.set[x] ELSE Defaults[x]
StartsFor(o, e) ==
  /\ \A x \in DOMAIN e.regs : e.regs[x] = Want(o, x)
  /\ e.currentBank = Want(o, "7ffd") % 8
  /\ e.shadowScreen = ((Want(o, "7ffd") \div 8) % 2 = 1)
LEMMA StartsWith ==
  ASSUME NEW o, OutputOK(o), ~Misconfigured(o), NEW w, NEW m, Adding(o, w, m), NEW s, Holds(s, w.regs),
         s["7ffd"] = w.regs["7ffd"], NEW memory
  PROVE  StartsFor(o, Start(s, memory))
<1> DEFINE e == Start(s, memory)
           r == w.regs
<1>1. InitError(o) = "none" /\ r = Configured(o.set)
  BY DEF Adding, WriterFor
<1>2. RegsFit(r)
  BY <1>1, ConfiguredIs
<1>3. "fffd" \notin DOMAIN o.set
  BY DEF Misconfigured
<1>4. \A x \in Register : r[x] = Want(o, x)
  BY <1>1, <1>3, ConfiguredIs DEF Want
<1>5. DOMAIN e.regs = Started /\ \A x \in Started : e.regs[x] = r[x]
  BY <1>2, StartRegs
<1>6. Started \subseteq Register /\ "7ffd" \in Register
  BY DEF Started, Register
<1>7. \A x \in DOMAIN e.regs : e.regs[x] = Want(o, x)
  <2> HIDE DEF e, r
  <2> QED BY <1>4, <1>5, <1>6
<1>8. e.currentBank = s["7ffd"] % 8 /\ e.shadowScreen = ((s["7ffd"] \div 8) % 2 = 1)
  BY StartRest
<1>9. s["7ffd"] = Want(o, "7ffd")
  BY <1>4, <1>6
<1> HIDE DEF e
<1>10. StartsFor(o, e)
  BY <1>7, <1>8, <1>9 DEF StartsFor
<1> QED BY <1>10 DEF e

\* The bank in the last page, where 7FFD is stored or not needed.
LEMMA PortRead ==
  ASSUME NEW o, OutputOK(o), o.type = "Z80", ~Misconfigured(o), NEW w, NEW m \in Nat, Adding(o, w, m), Z80Error(w) = "none",
         NEW file, file = Z80File(w), LoadSnapshot(file).error = "none"
  PROVE  LoadState(file, PortsAt(file))["7ffd"] = w.regs["7ffd"]
<1>1. Z80Writer(w)
  BY WriterIs
<1>2. w.regs = Configured(o.set) /\ w.format \in {0, 2} /\ w.machine = o.machine
  BY DEF Adding, WriterFor, FormatOf
<1> DEFINE s == LoadState(file, PortsAt(file))
<1>3. s["7ffd"] = PortsAt(file)["7ffd"]
  BY LoadStateIs
<1>4. s["7ffd"] = IF Late(file) /\ ModeAt(file) = "128k" THEN At(file, 35) ELSE 0
  BY <1>3 DEF PortsAt
<1> HIDE DEF s
<1>5. Late(file) <=> Format(w) # 1
  BY <1>1, FileRead
<1>6. Format(w) # 1 => At(file, 35) = w.regs["7ffd"]
  BY <1>1, FileRead
<1>7. CASE "7ffd" \notin DOMAIN o.set
  <2>1. w.regs["7ffd"] = Defaults["7ffd"]
    <3>1. "7ffd" \in Register
      BY DEF Register
    <3> QED BY <1>2, <1>7, <3>1, ConfiguredIs DEF Misconfigured
  <2>2. Defaults["7ffd"] = 0
    BY DEF Defaults, Register
  <2> QED BY <1>4, <1>5, <1>6, <2>1, <2>2 DEF s
<1>8. CASE "7ffd" \in DOMAIN o.set
  <2>1. w.machine \in Machines128
    BY <1>2, <1>8 DEF Misconfigured, OutputOK, Machines
  <2>2. w.machine \notin {"auto", "48k"} \cup Machines48
    BY <2>1 DEF Machines48, Machines128
  <2>3. Format(w) # 1
    BY <1>2, <2>2 DEF Format
  <2>4. ~Is48k(w)
    BY <2>2 DEF Is48k, Machine
  <2>5. ModeAt(file) = "128k"
    BY <1>1, <2>3, <2>4, ModesRead, SnapshotLoads
  <2> QED BY <1>4, <1>5, <1>6, <2>3, <2>5 DEF s
<1> QED BY <1>7, <1>8

\* A snapshot starts the emulator as its output is configured.
LEMMA SnapshotStarts ==
  ASSUME NEW o, OutputOK(o), o.type = "Z80", ~Misconfigured(o), NEW w, NEW m \in Nat, Adding(o, w, m), Z80Error(w) = "none",
         NEW file, file = Z80File(w), LoadSnapshot(file).error = "none", NEW memory
  PROVE  StartsFor(o, Start(LoadSnapshot(file).state, memory))
<1>1. Z80Writer(w)
  BY WriterIs
<1> DEFINE s == LoadState(file, PortsAt(file))
<1>2. Holds(s, w.regs)
  BY <1>1, StateRead
<1>3. s["7ffd"] = w.regs["7ffd"]
  BY PortRead
<1>4. LoadSnapshot(file).state = s
  BY <1>1, SnapshotLoads
<1> HIDE DEF s
<1>5. StartsFor(o, Start(s, memory))
  BY <1>2, <1>3, StartsWith
<1> QED BY <1>4, <1>5

-----------------------------------------------------------------------------
(* The invariant.                                                          *)

Shaped ==
  /\ project \in Projects /\ n \in Nat \ {0} /\ k \in Nat \ {0} /\ n <= Len(project.outputs) + 1
  /\ pc \in {"basic", "open", "add", "done", "failed", "refused", "playing"}
  /\ IsFiniteSet(DOMAIN basic) /\ DOMAIN basic \subseteq Basics
  /\ error # "none" => pc = "failed"
  /\ pc = "basic" => made = {}
  /\ pc \in {"done", "refused", "playing"} => n > Len(project.outputs)

\* The output that is open has a writer with the files before k in it.
AddingNow ==
  pc = "add" =>
    /\ n <= Len(project.outputs) /\ Output.enabled /\ k <= Len(Output.files) + 1
    /\ Snap => Adding(Output, writer, k - 1)

\* No path is given out twice: of each type there is one output that is written.
Opened == IF pc = "add" THEN n ELSE n - 1
OnceUpTo(m) ==
  /\ \A j \in 1..m : project.outputs[j].enabled => PathsOf(project.outputs[j]) \subseteq made
  /\ \A i, j \in 1..m :
       /\ project.outputs[i].enabled /\ project.outputs[j].enabled
       /\ PathsOf(project.outputs[i]) \cap PathsOf(project.outputs[j]) # {}
       => i = j
PathsOnce == OnceUpTo(Opened)

\* What was written is what a writer of such an output had in the end.
SnapshotOf(o, file) == \E w : Finished(o, w) /\ Z80Error(w) = "none" /\ file = Z80File(w)
ExeOf(o, exe) == \E w : Finished(o, w) /\ exe = [state |-> ExeState(w.regs), memory |-> Memory(w)]
Behind(type, m) == {j \in 1..m : project.outputs[j].type = type /\ project.outputs[j].enabled}
WrittenAre ==
  /\ "z80" \in DOMAIN written => \E j \in Behind("Z80", n - 1) : SnapshotOf(project.outputs[j], written["z80"])
  /\ "exe" \in DOMAIN written => \E j \in Behind("PC", n - 1) : ExeOf(project.outputs[j], written["exe"])

PlayedIs ==
  /\ pc = "refused" => played = "Z80" /\ "z80" \in DOMAIN written /\ LoadSnapshot(written["z80"]).error # "none"
  /\ pc = "playing" =>
       \/ /\ played = "Z80" /\ "z80" \in DOMAIN written /\ LoadSnapshot(written["z80"]).error = "none"
          /\ emulator = Start(LoadSnapshot(written["z80"]).state, LoadSnapshot(written["z80"]).memory)
       \/ /\ played = "PC" /\ "exe" \in DOMAIN written
          /\ emulator = Start(StateIn(written["exe"].state), written["exe"].memory)

\* The reasons of the errors that have one.
BoundsFit == ~Fits(Output.files[k])
OverlapMeets == \E j \in 1..(k - 1) : Meet(Output.files[k], Output.files[j])
MachineLacks ==
  /\ \E j \in 1..Len(Output.files) : BankNamed[Output.files[j].name] \notin {Plain, 0, 2, 5}
  /\ Output.machine \in Machines48 \cup {"auto"}
Reason(why) ==
  /\ why = "bounds" => BoundsFit
  /\ why = "overlap" => OverlapMeets
  /\ why = "machine" => MachineLacks
Reasons == made # {} => Reason(error)
IInv == Shaped /\ AddingNow /\ PathsOnce /\ WrittenAre /\ PlayedIs /\ Reasons

\* The project never changes, and what is said of it alone does not either.
LEMMA Same ==
  ASSUME project' = project
  PROVE  /\ \A o : PathsOf(o)' = PathsOf(o)
         /\ \A o, w, m : Adding(o, w, m)' <=> Adding(o, w, m)
         /\ \A o, w : Finished(o, w)' <=> Finished(o, w)
         /\ \A o, file : SnapshotOf(o, file)' <=> SnapshotOf(o, file)
         /\ \A o, exe : ExeOf(o, exe)' <=> ExeOf(o, exe)
         /\ \A type, m : Behind(type, m)' = Behind(type, m)
<1>1. \A o : PathsOf(o)' = PathsOf(o)
  BY DEF PathsOf
<1>2. \A o, w, m : Adding(o, w, m)' <=> Adding(o, w, m)
  BY Zenon DEF Adding
<1>3. \A o, w : Finished(o, w)' <=> Finished(o, w)
  BY Zenon DEF Finished, Adding
<1>4. \A o, file : SnapshotOf(o, file)' <=> SnapshotOf(o, file)
  BY Zenon DEF SnapshotOf, Finished, Adding
<1>5. \A o, exe : ExeOf(o, exe)' <=> ExeOf(o, exe)
  BY Zenon DEF ExeOf, Finished, Adding
<1>6. \A type, m : Behind(type, m)' = Behind(type, m)
  BY Zenon DEF Behind
<1> QED BY <1>1, <1>2, <1>3, <1>4, <1>5, <1>6

\* Paths given out stay given out.
LEMMA OnceSame ==
  ASSUME UNCHANGED <<project, made>>, NEW m, OnceUpTo(m)
  PROVE  OnceUpTo(m)'
BY Same DEF OnceUpTo

\* A reason stays a reason while the file is the same.
LEMMA ReasonSame ==
  ASSUME UNCHANGED <<project, n, k>>, NEW why, Reason(why)
  PROVE  Reason(why)'
<1>1. Output' = Output
  BY DEF Output
<1>2. \A f : Fits(f)' <=> Fits(f)
  BY Zenon DEF Fits, Addresses, Bytes
<1>3. \A f, g : Meet(f, g)' <=> Meet(f, g)
  <2>1. \A f : Addresses(f)' = Addresses(f)
    BY Zenon DEF Addresses, Bytes
  <2>2. \A f : Len(Bytes(f))' = Len(Bytes(f)) /\ project.linked[f.ref].load' = project.linked[f.ref].load
    BY Zenon DEF Bytes
  <2>3. \A f, g : RightBefore(f, g)' <=> RightBefore(f, g)
    BY <2>1, <2>2 DEF RightBefore
  <2> QED BY <2>1, <2>3 DEF Meet
<1>4. BoundsFit' <=> BoundsFit
  BY <1>1, <1>2, Zenon DEF BoundsFit
<1>5. OverlapMeets' <=> OverlapMeets
  BY <1>1, <1>3, Zenon DEF OverlapMeets
<1>6. MachineLacks' <=> MachineLacks
  BY <1>1, Zenon DEF MachineLacks
<1> QED BY <1>4, <1>5, <1>6, Zenon DEF Reason

\* What is said of the outputs up to one is said of those up to an earlier one.
LEMMA OnceLess ==
  ASSUME NEW m \in Nat, NEW i \in Int, i <= m, OnceUpTo(m)
  PROVE  OnceUpTo(i)
<1>1. \A j \in 1..i : j \in 1..m
  OBVIOUS
<1> QED BY <1>1, Zenon DEF OnceUpTo

\* What was written stays what a finished writer had, though later outputs come.
LEMMA WrittenSame ==
  ASSUME WrittenAre, UNCHANGED <<project, written>>, n \in Nat, n' \in Nat, n <= n'
  PROVE  WrittenAre'
<1>1. \A type : Behind(type, n - 1) \subseteq Behind(type, n' - 1)
  BY DEF Behind
<1>2. \A type, m : Behind(type, m)' = Behind(type, m)
  BY Same
<1>3. \A o, file : SnapshotOf(o, file)' <=> SnapshotOf(o, file)
  BY Same
<1>4. \A o, exe : ExeOf(o, exe)' <=> ExeOf(o, exe)
  BY Same
<1>5. \A type : Behind(type, n - 1)' = Behind(type, n' - 1)
  BY DEF Behind
<1>6. ASSUME "z80" \in DOMAIN written' PROVE \E j \in Behind("Z80", n - 1)' : SnapshotOf(project.outputs[j], written["z80"])'
  <2>1. PICK j \in Behind("Z80", n - 1) : SnapshotOf(project.outputs[j], written["z80"])
    BY <1>6 DEF WrittenAre
  <2>2. SnapshotOf(project.outputs[j], written["z80"])'
    BY <2>1, Zenon DEF SnapshotOf, Finished, Adding
  <2> QED BY <1>1, <1>5, <2>1, <2>2
<1>7. ASSUME "exe" \in DOMAIN written' PROVE \E j \in Behind("PC", n - 1)' : ExeOf(project.outputs[j], written["exe"])'
  <2>1. PICK j \in Behind("PC", n - 1) : ExeOf(project.outputs[j], written["exe"])
    BY <1>7 DEF WrittenAre
  <2>2. ExeOf(project.outputs[j], written["exe"])'
    BY <2>1, Zenon DEF ExeOf, Finished, Adding
  <2> QED BY <1>1, <1>5, <2>1, <2>2
<1> QED BY <1>6, <1>7 DEF WrittenAre

\* The steps keep the invariant, one lemma per action.
LEMMA FailKeeps ==
  ASSUME IInv, pc \in {"open", "add"}, NEW why, Fail(why), made # {} => Reason(why)
  PROVE  IInv'
<1> USE DEF IInv
<1>1. pc' = "failed" /\ error' = why /\ UNCHANGED <<project, basicVars, n, k, made, writer, disk, written, played, emulator>>
  BY DEF Fail
<1>2. Shaped'
  BY <1>1 DEF Shaped, basicVars
<1>3. AddingNow' /\ PlayedIs'
  BY <1>1 DEF AddingNow, PlayedIs
<1>4. PathsOnce'
  <2>1. Opened \in Nat /\ n - 1 <= Opened /\ n - 1 \in Int
    BY DEF Shaped, Opened
  <2>2. OnceUpTo(n - 1)
    BY <2>1, OnceLess DEF PathsOnce
  <2>3. OnceUpTo(n - 1)'
    <3> DEFINE m == n - 1
    <3>1. /\ \A j \in 1..m : project.outputs[j].enabled => PathsOf(project.outputs[j]) \subseteq made
          /\ \A i, j \in 1..m :
               /\ project.outputs[i].enabled /\ project.outputs[j].enabled
               /\ PathsOf(project.outputs[i]) \cap PathsOf(project.outputs[j]) # {}
               => i = j
      BY <2>2 DEF OnceUpTo
    <3>2. m' = m /\ project' = project /\ made' = made /\ \A o : PathsOf(o)' = PathsOf(o)
      BY <1>1, Same
    <3> HIDE DEF m
    <3>3. OnceUpTo(m)'
      BY <3>1, <3>2 DEF OnceUpTo
    <3> QED BY <3>3 DEF m
  <2>4. Opened' = (n - 1)'
    BY <1>1 DEF Opened
  <2> QED BY <2>3, <2>4, Zenon DEF PathsOnce, OnceUpTo
<1>5. WrittenAre'
  <2>1. n \in Nat /\ n' \in Nat /\ n <= n'
    BY <1>1 DEF Shaped
  <2> QED BY <1>1, <2>1, WrittenSame
<1>6. Reasons'
  <2>1. Reason(why) => Reason(why)'
    BY <1>1, ReasonSame
  <2>2. made' = made
    BY <1>1
  <2>3. Reason(why)' => Reason(error)'
    BY <1>1, Zenon DEF Reason
  <2> QED BY <2>1, <2>2, <2>3, Zenon DEF Reasons
<1> QED BY <1>2, <1>3, <1>4, <1>5, <1>6

\* As long as nothing failed there is nothing to explain.
LEMMA NoReason ==
  ASSUME Shaped, pc # "failed", UNCHANGED error
  PROVE  Reasons'
BY DEF Shaped, Reasons, Reason

LEMMA CompileKeeps ==
  ASSUME IInv, CompileBasic
  PROVE  IInv'
<1> USE DEF IInv
<1>1. /\ pc = "basic" /\ UNCHANGED <<project, n, k, made, writer, disk, written, played, emulator>>
      /\ (UNCHANGED <<pc, error>> \/ (pc' = "failed" /\ UNCHANGED basic))
      /\ DOMAIN basic' \subseteq DOMAIN basic \cup {NextProgram.name}
      /\ Cardinality(DOMAIN basic) < Len(project.sources)
  BY DEF CompileBasic
<1>2. made = {} /\ IsFiniteSet(DOMAIN basic) /\ DOMAIN basic \subseteq Basics
  BY <1>1 DEF Shaped
<1>3. NextProgram.name \in Basics
  <2>1. Cardinality(DOMAIN basic) \in Nat
    BY <1>2, FS_CardinalityType
  <2>2. ProjectOK(project)
    BY ProjectsAre DEF Shaped
  <2>3. Len(project.sources) \in Nat
    BY <2>2 DEF ProjectOK
  <2>4. Cardinality(DOMAIN basic) + 1 \in 1..Len(project.sources)
    BY <1>1, <2>1, <2>3
  <2> QED BY <2>2, <2>4 DEF NextProgram, ProjectOK
<1>4. IsFiniteSet(DOMAIN basic') /\ DOMAIN basic' \subseteq Basics
  <2>1. IsFiniteSet(DOMAIN basic \cup {NextProgram.name})
    BY <1>2, FS_AddElement
  <2> QED BY <1>1, <1>2, <1>3, <2>1, FS_Subset
<1>5. Shaped'
  BY <1>1, <1>4 DEF Shaped
<1>6. pc' # "add" /\ pc' \notin {"refused", "playing"}
  BY <1>1
<1>7. AddingNow' /\ PlayedIs'
  BY <1>6 DEF AddingNow, PlayedIs
<1>8. PathsOnce'
  <2>1. Opened' = Opened
    BY <1>1, <1>6 DEF Opened
  <2>2. OnceUpTo(Opened)
    BY DEF PathsOnce
  <2> QED BY <1>1, <2>1, <2>2, Same, SMTT(30) DEF PathsOnce, OnceUpTo
<1>9. WrittenAre'
  <2>1. n \in Nat /\ n' \in Nat /\ n <= n'
    BY <1>1 DEF Shaped
  <2> QED BY <1>1, <2>1, WrittenSame
<1>10. Reasons'
  BY <1>1, <1>2 DEF Reasons
<1> QED BY <1>5, <1>7, <1>8, <1>9, <1>10

\* A step that opens and writes nothing and fails nowhere.
LEMMA QuietKeeps ==
  ASSUME IInv, UNCHANGED <<project, error, basicVars, made, written, k>>, pc # "failed",
         n' = n, Opened' = Opened, Shaped', AddingNow', PlayedIs'
  PROVE  IInv'
<1> USE DEF IInv
<1>1. PathsOnce'
  <2>1. OnceUpTo(Opened)
    BY DEF PathsOnce
  <2> QED BY <2>1, Same DEF PathsOnce, OnceUpTo
<1>2. WrittenAre'
  <2>1. n \in Nat /\ n' \in Nat /\ n <= n'
    BY DEF Shaped
  <2> QED BY <2>1, WrittenSame
<1>3. Reasons'
  BY NoReason
<1> QED BY <1>1, <1>2, <1>3

LEMMA BasicDoneKeeps ==
  ASSUME IInv, BasicDone
  PROVE  IInv'
<1>1. pc = "basic" /\ pc' = "open" /\ UNCHANGED <<project, error, basicVars, n, k, made, writer, disk, written, played, emulator>>
  BY DEF BasicDone
<1>2. Shaped'
  BY <1>1 DEF IInv, Shaped, basicVars
<1>3. AddingNow' /\ PlayedIs'
  BY <1>1 DEF AddingNow, PlayedIs
<1>4. Opened' = Opened
  BY <1>1 DEF Opened
<1> QED BY <1>1, <1>2, <1>3, <1>4, QuietKeeps

LEMMA FinishKeeps ==
  ASSUME IInv, Finish
  PROVE  IInv'
<1>1. /\ pc = "open" /\ pc' = "done" /\ n > Len(project.outputs)
      /\ UNCHANGED <<project, error, basicVars, n, k, made, writer, disk, written, played, emulator>>
  BY DEF Finish
<1>2. Shaped'
  BY <1>1 DEF IInv, Shaped, basicVars
<1>3. AddingNow' /\ PlayedIs'
  BY <1>1 DEF AddingNow, PlayedIs
<1>4. Opened' = Opened
  BY <1>1 DEF Opened
<1> QED BY <1>1, <1>2, <1>3, <1>4, QuietKeeps

LEMMA PlaySnapshotKeeps ==
  ASSUME IInv, PlaySnapshot
  PROVE  IInv'
<1> DEFINE loaded == LoadSnapshot(written["z80"])
<1>1. /\ pc = "done" /\ "z80" \in DOMAIN written /\ played' = "Z80"
      /\ IF loaded.error # "none" THEN pc' = "refused" /\ UNCHANGED emulator
         ELSE pc' = "playing" /\ emulator' = Start(loaded.state, loaded.memory)
      /\ UNCHANGED <<project, error, basicVars, n, k, made, writer, disk, written>>
  BY DEF PlaySnapshot
<1>2. pc' \in {"refused", "playing"}
  BY <1>1
<1>3. Shaped'
  BY <1>1, <1>2 DEF IInv, Shaped, basicVars
<1>4. AddingNow'
  BY <1>2 DEF AddingNow
<1>5. PlayedIs'
  <2>1. LoadSnapshot(written["z80"])' = loaded
    BY <1>1
  <2> HIDE DEF loaded
  <2>2. written' = written
    BY <1>1
  <2> QED BY <1>1, <2>1, <2>2 DEF PlayedIs
<1>6. Opened' = Opened
  BY <1>1, <1>2 DEF Opened
<1> QED BY <1>1, <1>3, <1>4, <1>5, <1>6, QuietKeeps

LEMMA PlayExeKeeps ==
  ASSUME IInv, PlayExe
  PROVE  IInv'
<1> DEFINE e == Start(StateIn(written["exe"].state), written["exe"].memory)
<1>1. /\ pc = "done" /\ "exe" \in DOMAIN written /\ played' = "PC" /\ pc' = "playing"
      /\ emulator' = e
      /\ UNCHANGED <<project, error, basicVars, n, k, made, writer, disk, written>>
  BY DEF PlayExe, StateIn
<1>2. Shaped'
  BY <1>1 DEF IInv, Shaped, basicVars
<1>3. AddingNow'
  BY <1>1 DEF AddingNow
<1>4. PlayedIs'
  BY <1>1 DEF PlayedIs
<1>5. Opened' = Opened
  BY <1>1 DEF Opened
<1> QED BY <1>1, <1>2, <1>3, <1>4, <1>5, QuietKeeps

LEMMA OverKeeps ==
  ASSUME IInv, UNCHANGED vars
  PROVE  IInv'
<1> USE DEF IInv
<1>1. UNCHANGED <<project, pc, error, basic, previous, n, k, made, writer, disk, written, played, emulator>>
  BY DEF vars, basicVars
<1>2. Shaped' /\ PlayedIs'
  BY <1>1 DEF Shaped, PlayedIs
<1>3. AddingNow'
  <2>1. Output' = Output /\ Snap' = Snap
    BY <1>1 DEF Output, Snap
  <2>2. \A o, w, m : Adding(o, w, m)' <=> Adding(o, w, m)
    BY <1>1, Same
  <2> QED BY <1>1, <2>1, <2>2 DEF AddingNow, Adding, Output, Snap
<1>4. PathsOnce'
  <2>1. Opened' = Opened
    BY <1>1 DEF Opened
  <2>2. OnceUpTo(Opened)
    BY DEF PathsOnce
  <2> QED BY <1>1, <2>1, <2>2, Same DEF PathsOnce, OnceUpTo
<1>5. WrittenAre'
  <2>1. n \in Nat /\ n' \in Nat /\ n <= n'
    BY <1>1 DEF Shaped
  <2> QED BY <1>1, <2>1, WrittenSame
<1>6. Reasons'
  BY <1>1, ReasonSame, Zenon DEF Reasons, Reason, BoundsFit, OverlapMeets, MachineLacks, Output, Fits, Addresses, Bytes
<1> QED BY <1>2, <1>3, <1>4, <1>5, <1>6

\* Where no path is given out, the outputs up to the present one still have theirs.
LEMMA OnceNext ==
  ASSUME UNCHANGED <<project, made>>, NEW m, OnceUpTo(m), Opened' = m
  PROVE  PathsOnce'
<1>1. \A o : PathsOf(o)' = PathsOf(o)
  BY Same
<1>2. /\ \A j \in 1..m : project.outputs[j].enabled => PathsOf(project.outputs[j])' \subseteq made'
      /\ \A i, j \in 1..m :
           /\ project.outputs[i].enabled /\ project.outputs[j].enabled
           /\ PathsOf(project.outputs[i])' \cap PathsOf(project.outputs[j])' # {}
           => i = j
  BY <1>1 DEF OnceUpTo
<1> QED BY <1>2 DEF PathsOnce, OnceUpTo

LEMMA SkipKeeps ==
  ASSUME IInv, Skip
  PROVE  IInv'
<1> USE DEF IInv
<1>1. /\ pc = "open" /\ n <= Len(project.outputs) /\ ~project.outputs[n].enabled /\ n' = n + 1
      /\ UNCHANGED <<project, pc, error, basicVars, k, made, writer, disk, written, played, emulator>>
  BY DEF Skip, Output
<1>2. Len(project.outputs) \in Nat
  <2>1. ProjectOK(project)
    BY ProjectsAre DEF Shaped
  <2> QED BY <2>1 DEF ProjectOK
<1>3. Shaped'
  BY <1>1, <1>2 DEF Shaped, basicVars
<1>4. AddingNow' /\ PlayedIs'
  BY <1>1 DEF AddingNow, PlayedIs
<1>5. PathsOnce'
  <2>1. Opened = n - 1 /\ Opened' = n /\ n \in Nat
    BY <1>1 DEF Opened, Shaped
  <2>2. OnceUpTo(n - 1)
    BY <2>1 DEF PathsOnce
  <2>3. \A j \in 1..n : j \in 1..(n - 1) \/ j = n
    BY <2>1
  <2>4. OnceUpTo(n)
    BY <1>1, <2>2, <2>3 DEF OnceUpTo
  <2>5. Opened' = n
    BY <2>1
  <2> QED BY <1>1, <2>4, <2>5, OnceNext
<1>6. WrittenAre'
  <2>1. n \in Nat /\ n' \in Nat /\ n <= n'
    BY <1>1 DEF Shaped
  <2> QED BY <1>1, <2>1, WrittenSame
<1>7. Reasons'
  BY <1>1, NoReason
<1> QED BY <1>3, <1>4, <1>5, <1>6, <1>7

\* The output that is open is one of the project.
LEMMA OutputIs ==
  ASSUME Shaped, n <= Len(project.outputs)
  PROVE  OutputOK(Output) /\ LinkedFiles(project.linked) /\ Len(Output.files) \in Nat
<1>1. ProjectOK(project)
  BY ProjectsAre DEF Shaped
<1>2. Len(project.outputs) \in Nat
  BY <1>1 DEF ProjectOK
<1>3. n \in 1..Len(project.outputs)
  BY <1>2 DEF Shaped
<1>4. OutputOK(Output)
  BY <1>1, <1>3 DEF ProjectOK, Output
<1>5. Len(Output.files) \in Nat
  BY <1>4 DEF OutputOK
<1> QED BY <1>1, <1>4, <1>5 DEF ProjectOK

\* Only a snapshot writes a .z80 and only an executable writes an .exe.
LEMMA PathsAre ==
  ASSUME NEW o, o.type \in Types
  PROVE  /\ o.type = "Z80" => PathsOf(o) = {"z80"}
         /\ o.type = "PC" => PathsOf(o) = {"exe"}
         /\ o.type # "Z80" => "z80" \notin PathsOf(o)
         /\ o.type # "PC" => "exe" \notin PathsOf(o)
BY DEF PathsOf, Types

LEMMA OpenKeeps ==
  ASSUME IInv, Open
  PROVE  IInv'
<1> USE DEF IInv
<1>1. pc = "open" /\ n <= Len(project.outputs) /\ Output.enabled
  BY DEF Open
<1>2. CASE Snap /\ InitError(Output) # "none"
  <2>1. Fail(InitError(Output))
    BY <1>2 DEF Open
  <2>2. InitError(Output) \notin {"bounds", "overlap", "machine"}
    BY DEF InitError
  <2> DEFINE why == InitError(Output)
  <2> HIDE DEF why
  <2>3. Fail(why) /\ Reason(why)
    BY <2>1, <2>2 DEF Reason, why
  <2> QED BY <1>1, <2>3, FailKeeps
<1>3. CASE Fail("duplicate")
  <2>1. Reason("duplicate")
    BY DEF Reason
  <2> QED BY <1>1, <1>3, <2>1, FailKeeps
<1>4. CASE /\ Snap => InitError(Output) = "none"
           /\ PathsOf(Output) \cap made = {}
           /\ pc' = "add" /\ k' = 1 /\ made' = made \cup PathsOf(Output)
           /\ writer' = NewWriter(Configured(Output.set), FormatOf(Output), Output.machine) /\ disk' = <<>>
           /\ UNCHANGED <<project, error, basicVars, n, written, played, emulator>>
  <2>1. Shaped'
    BY <1>1, <1>4 DEF Shaped, basicVars
  <2>2. OutputOK(Output) /\ Len(Output.files) \in Nat
    BY <1>1, OutputIs
  <2>3. Output' = Output /\ Snap' = Snap
    BY <1>4 DEF Output, Snap
  <2>4. AddingNow'
    <3>1. Snap => Adding(Output, writer', 0)
      BY <1>4, AddingNone
    <3>2. \A o, w, m : Adding(o, w, m)' <=> Adding(o, w, m)
      BY <1>4, Same
    <3>3. k' - 1 = 0 /\ k' <= Len(Output.files) + 1
      BY <1>4, <2>2
    <3>4. Snap' => Adding(Output, writer, k - 1)'
      BY <1>4, <2>3, <3>1, <3>3, Zenon DEF Adding
    <3>5. n' <= Len(project.outputs') /\ Output'.enabled /\ k' <= Len(Output'.files) + 1
      BY <1>1, <1>4, <2>3, <3>3
    <3> QED BY <3>4, <3>5 DEF AddingNow
  <2>5. PlayedIs'
    BY <1>4 DEF PlayedIs
  <2>6. PathsOnce'
    <3>1. n \in Nat /\ Opened = n - 1 /\ Opened' = n
      BY <1>1, <1>4 DEF Opened, Shaped
    <3>2. \A j \in 1..n : j \in 1..(n - 1) \/ j = n
      BY <3>1
    <3>3. \A o : PathsOf(o)' = PathsOf(o)
      BY <1>4, Same
    <3>4. OnceUpTo(n - 1)
      BY <3>1 DEF PathsOnce
    <3> DEFINE on(j) == project.outputs[j].enabled  paths(j) == PathsOf(project.outputs[j])
    <3>5. /\ \A j \in 1..(n - 1) : on(j) => paths(j) \subseteq made
          /\ \A i, j \in 1..(n - 1) : on(i) /\ on(j) /\ paths(i) \cap paths(j) # {} => i = j
      BY <3>4 DEF OnceUpTo
    <3>6. paths(n) \cap made = {} /\ made' = made \cup paths(n)
      BY <1>4 DEF Output
    <3> HIDE DEF on, paths
    <3>7. /\ \A j \in 1..n : on(j) => paths(j) \subseteq made'
          /\ \A i, j \in 1..n : on(i) /\ on(j) /\ paths(i) \cap paths(j) # {} => i = j
      BY <3>2, <3>5, <3>6
    <3>8. /\ \A j \in 1..n : project.outputs[j].enabled => PathsOf(project.outputs[j])' \subseteq made'
          /\ \A i, j \in 1..n :
               /\ project.outputs[i].enabled /\ project.outputs[j].enabled
               /\ PathsOf(project.outputs[i])' \cap PathsOf(project.outputs[j])' # {}
               => i = j
      <4>1. project' = project
        BY <1>4
      <4>2. \A j : PathsOf(project.outputs[j])' = paths(j)
        BY <3>3, <4>1 DEF paths
      <4>3. \A j : on(j) <=> project.outputs[j].enabled
        BY DEF on
      <4> QED BY <3>7, <4>2, <4>3
    <3> QED BY <1>4, <3>1, <3>8 DEF PathsOnce, OnceUpTo
  <2>7. WrittenAre'
    <3>1. n \in Nat /\ n' \in Nat /\ n <= n'
      BY <1>4 DEF Shaped
    <3> QED BY <1>4, <3>1, WrittenSame
  <2>8. Reasons'
    BY <1>1, <1>4, NoReason
  <2> QED BY <2>1, <2>4, <2>5, <2>6, <2>7, <2>8
<1> QED BY <1>2, <1>3, <1>4 DEF Open

\* Adding a file keeps the invariant, whichever writer took it.
LEMMA AddedKeeps ==
  ASSUME IInv, pc = "add", Added, k <= Len(Output.files), Snap => Adding(Output, writer', k)
  PROVE  IInv'
<1> USE DEF IInv
<1>1. k' = k + 1 /\ UNCHANGED <<project, pc, error, basicVars, n, made, written, played, emulator>>
  BY DEF Added
<1>2. k \in Nat /\ n <= Len(project.outputs) /\ Output.enabled /\ Len(Output.files) \in Nat
  BY OutputIs DEF Shaped, AddingNow
<1>3. Shaped'
  BY <1>1 DEF Shaped, basicVars
<1>4. AddingNow'
  <2>1. Output' = Output /\ Snap' = Snap
    BY <1>1 DEF Output, Snap
  <2>2. k' - 1 = k /\ k' <= Len(Output.files) + 1
    BY <1>1, <1>2
  <2>3. Snap' => Adding(Output, writer, k - 1)'
    BY <1>1, <2>1, <2>2, Zenon DEF Adding
  <2>4. n' <= Len(project.outputs') /\ Output'.enabled /\ k' <= Len(Output'.files) + 1
    BY <1>1, <1>2, <2>1, <2>2
  <2> QED BY <2>3, <2>4 DEF AddingNow
<1>5. PlayedIs'
  BY <1>1 DEF PlayedIs
<1>6. PathsOnce'
  <2>1. Opened' = Opened /\ OnceUpTo(Opened)
    BY <1>1 DEF Opened, PathsOnce
  <2> QED BY <1>1, <2>1, OnceNext
<1>7. WrittenAre'
  <2>1. n \in Nat /\ n' \in Nat /\ n <= n'
    BY <1>1 DEF Shaped
  <2> QED BY <1>1, <2>1, WrittenSame
<1>8. Reasons'
  BY <1>1, NoReason
<1> QED BY <1>3, <1>4, <1>5, <1>6, <1>7, <1>8

LEMMA AddFileKeeps ==
  ASSUME IInv, AddFile
  PROVE  IInv'
<1> USE DEF IInv
<1> DEFINE file == Output.files[k]
           f == project.linked[file.ref]
           why == CodeError(writer, file.name, f.load, f.data)
<1>1. pc = "add" /\ k <= Len(Output.files)
  BY DEF AddFile
<1>2. /\ k \in Nat \ {0} /\ n <= Len(project.outputs) /\ (Snap => Adding(Output, writer, k - 1))
      /\ OutputOK(Output) /\ LinkedFiles(project.linked) /\ Len(Output.files) \in Nat
  BY <1>1, OutputIs DEF Shaped, AddingNow
<1>3. k \in 1..Len(Output.files) /\ k - 1 \in Nat /\ (k - 1) + 1 = k
  BY <1>1, <1>2
<1>4. file \in OutputFile /\ BankNamed[file.name] \in Bank \cup {Plain, Invalid}
  BY <1>2, <1>3, FilesAre
<1>5. CASE file.ref \in DOMAIN project.linked /\ AddLinked(file)
  <2>1. CASE ~Snap
    <3>1. Added
      BY <1>5, <2>1 DEF AddLinked
    <3> QED BY <1>1, <2>1, <3>1, AddedKeeps
  <2>2. CASE Snap /\ why # "none"
    <3>1. Fail(why)
      BY <1>5, <2>2 DEF AddLinked
    <3>2. WriterInv(writer, project.linked, Output.files, k - 1) /\ \A i \in 1..(k - 1) : Output.files[i].ref \in DOMAIN project.linked
      BY <1>2, <2>2 DEF Adding
    <3>3. why = "bounds" => BoundsFit
      <4> SUFFICES ASSUME why = "bounds" PROVE ~Fits(file)
        BY DEF BoundsFit
      <4> HIDE DEF file
      <4> QED BY <1>2, <1>4, <1>5, BoundsReason
    <3>4. why = "overlap" => OverlapMeets
      <4> SUFFICES ASSUME why = "overlap" PROVE \E i \in 1..(k - 1) : Meet(file, Output.files[i])
        BY DEF OverlapMeets
      <4> DEFINE files == Output.files
      <4>1. /\ WriterInv(writer, project.linked, files, k - 1) /\ \A i \in 1..(k - 1) : files[i].ref \in DOMAIN project.linked
        BY <3>2
      <4> HIDE DEF file, files
      <4>2. \E i \in 1..(k - 1) : Meet(file, files[i])
        BY <1>2, <1>3, <1>4, <1>5, <4>1, OverlapReason
      <4> QED BY <4>2 DEF files
    <3>5. why # "machine"
      BY DEF CodeError
    <3> HIDE DEF why
    <3>6. Reason(why)
      BY <3>3, <3>4, <3>5 DEF Reason
    <3> QED BY <1>1, <3>1, <3>6, FailKeeps
  <2>3. CASE Snap /\ why = "none"
    <3>1. writer' = AddCode(writer, file.name, f.load, f.data) /\ Added
      BY <1>5, <2>3 DEF AddLinked
    <3>2. Adding(Output, AddCode(writer, file.name, f.load, f.data), (k - 1) + 1)
      <4> DEFINE m == k - 1
      <4>1. m \in Nat /\ m + 1 <= Len(Output.files) /\ file = Output.files[m + 1] /\ Adding(Output, writer, m)
        BY <1>1, <1>2, <1>3, <2>3
      <4> HIDE DEF m, file
      <4>2. Adding(Output, AddCode(writer, file.name, f.load, f.data), m + 1)
        BY <1>2, <1>5, <2>3, <4>1, AddingMore
      <4> QED BY <4>2 DEF m
    <3>3. Adding(Output, writer', k)
      BY <1>3, <3>1, <3>2
    <3> QED BY <1>1, <3>1, <3>3, AddedKeeps
  <2> QED BY <2>1, <2>2, <2>3
<1>6. CASE Fail("missing") \/ Fail("unsupported")
  <2>1. Reason("missing") /\ Reason("unsupported")
    BY DEF Reason
  <2> QED BY <1>1, <1>6, <2>1, FailKeeps
<1>7. CASE file.refBasic \in DOMAIN basic /\ Added
  <2>1. file.refBasic \in Basics
    BY <1>7 DEF Shaped
  <2>2. file.refBasic # None
    BY <2>1, OutputsAssumption
  <2>3. ~Snap
    BY <1>2, <1>3, <2>2 DEF OutputOK, Snap
  <2> QED BY <1>1, <1>7, <2>3, AddedKeeps
<1> QED BY <1>5, <1>6, <1>7 DEF AddFile

LEMMA RuntimeKeeps ==
  ASSUME IInv, RuntimeUnfit
  PROVE  IInv'
<1>1. pc = "add" /\ Fail("runtime")
  BY DEF RuntimeUnfit
<1>2. Reason("runtime")
  BY DEF Reason
<1> QED BY <1>1, <1>2, FailKeeps

LEMMA WriteKeeps ==
  ASSUME IInv, Write
  PROVE  IInv'
<1> USE DEF IInv
<1>1. pc = "add" /\ k > Len(Output.files)
  BY DEF Write
<1>2. /\ k \in Nat \ {0} /\ n \in Nat \ {0} /\ n <= Len(project.outputs) /\ Output.enabled
      /\ OutputOK(Output) /\ LinkedFiles(project.linked) /\ Len(Output.files) \in Nat
  BY <1>1, OutputIs DEF Shaped, AddingNow
<1>3. k - 1 = Len(Output.files)
  BY <1>1, <1>2 DEF AddingNow
<1>4. Snap => Finished(Output, writer)
  BY <1>1, <1>3 DEF AddingNow, Finished
<1>5. CASE Output.type = "Z80" /\ Z80Error(writer) # "none"
  <2> DEFINE why == Z80Error(writer)
  <2>1. Fail(why)
    BY <1>5 DEF Write
  <2>2. why \in {"pc", "port", "machine"}
    BY <1>5 DEF Z80Error
  <2>3. why = "machine" => MachineLacks
    <3> SUFFICES ASSUME why = "machine" PROVE MachineLacks
      OBVIOUS
    <3>1. Is48k(writer) /\ Foreign(writer)
      BY DEF Z80Error
    <3>2. Adding(Output, writer, Len(Output.files))
      BY <1>4, <1>5 DEF Snap, Finished
    <3>3. /\ WriterInv(writer, project.linked, Output.files, Len(Output.files))
          /\ \A i \in 1..Len(Output.files) : Output.files[i].ref \in DOMAIN project.linked
          /\ writer.machine = Output.machine
      BY <3>2 DEF Adding, WriterFor
    <3>4. \E j \in 1..Len(Output.files) : BankNamed[Output.files[j].name] \notin {Plain, 0, 2, 5}
      <4> DEFINE files == Output.files
      <4>1. /\ WriterInv(writer, project.linked, files, Len(files)) /\ Len(files) \in Nat
            /\ \A i \in 1..Len(files) : files[i].ref \in DOMAIN project.linked
        BY <1>2, <3>3
      <4> HIDE DEF files
      <4>2. \E j \in 1..Len(files) : BankNamed[files[j].name] \notin {Plain, 0, 2, 5}
        BY <1>2, <3>1, <4>1, ForeignReason
      <4> QED BY <4>2 DEF files
    <3>5. writer.machine \in Machines48 \cup {"auto"}
      BY <3>1 DEF Is48k, Machine
    <3> QED BY <3>3, <3>4, <3>5 DEF MachineLacks
  <2> HIDE DEF why
  <2>4. Reason(why)
    BY <2>2, <2>3 DEF Reason
  <2> QED BY <1>1, <2>1, <2>4, FailKeeps
<1>6. CASE /\ ~(Output.type = "Z80" /\ Z80Error(writer) # "none")
           /\ written' = [x \in DOMAIN written \cup PathsOf(Output) |->
                            IF x \in PathsOf(Output) THEN Content(x) ELSE written[x]]
           /\ pc' = "open" /\ n' = n + 1
           /\ UNCHANGED <<project, error, basicVars, k, made, writer, disk, played, emulator>>
  <2>1. Shaped'
    <3>1. Len(project.outputs) \in Nat
      <4>1. ProjectOK(project)
        BY ProjectsAre DEF Shaped
      <4> QED BY <4>1 DEF ProjectOK
    <3> QED BY <1>1, <1>2, <1>6, <3>1 DEF Shaped, basicVars
  <2>2. AddingNow' /\ PlayedIs'
    BY <1>6 DEF AddingNow, PlayedIs
  <2>3. PathsOnce'
    <3>1. Opened' = n /\ OnceUpTo(n)
      BY <1>1, <1>2, <1>6 DEF Opened, PathsOnce
    <3> QED BY <1>6, <3>1, OnceNext
  <2>4. Reasons'
    BY <1>1, <1>6, NoReason
  <2>5. WrittenAre'
    <3> DEFINE paths == PathsOf(Output)
    <3>1. DOMAIN written' = DOMAIN written \cup paths
      BY <1>6
    <3>2. /\ \A x \in paths : written'[x] = Content(x)
          /\ \A x \in DOMAIN written \ paths : written'[x] = written[x]
      BY <1>6
    <3>3. /\ Output.type = "Z80" => paths = {"z80"}
          /\ Output.type = "PC" => paths = {"exe"}
          /\ Output.type # "Z80" => "z80" \notin paths
          /\ Output.type # "PC" => "exe" \notin paths
      BY <1>2, PathsAre DEF OutputOK
    <3> HIDE DEF paths
    <3>4. n' - 1 = n /\ project' = project /\ Output = project.outputs[n]
      BY <1>2, <1>6 DEF Output
    <3>5. \A type : Behind(type, n - 1) \subseteq Behind(type, n)
      BY <1>2 DEF Behind
    <3>6. \A type : Behind(type, n - 1)' = Behind(type, n)
      BY <3>4 DEF Behind
    <3>7. ASSUME "z80" \in DOMAIN written' PROVE \E j \in Behind("Z80", n - 1)' : SnapshotOf(project.outputs[j], written["z80"])'
      <4>1. CASE Output.type = "Z80"
        <5>1. Finished(Output, writer) /\ Z80Error(writer) = "none"
          BY <1>4, <1>6, <4>1 DEF Snap
        <5>2. Content("z80") = Z80File(writer)
          BY DEF Content
        <5>3. written'["z80"] = Z80File(writer)
          BY <3>2, <3>3, <4>1, <5>2
        <5>4. SnapshotOf(Output, written'["z80"])
          BY <5>1, <5>3 DEF SnapshotOf
        <5>6. n \in Behind("Z80", n)
          BY <1>2, <3>4, <4>1 DEF Behind
        <5>9. \E j \in Behind("Z80", n) : SnapshotOf(project'.outputs[j], written'["z80"])
          BY <3>4, <5>4, <5>6
        <5> QED BY <3>4, <3>6, <5>9, Zenon DEF SnapshotOf, Finished, Adding
      <4>2. CASE Output.type # "Z80"
        <5>1. "z80" \in DOMAIN written /\ written'["z80"] = written["z80"]
          BY <3>1, <3>2, <3>3, <3>7, <4>2
        <5>2. PICK j \in Behind("Z80", n - 1) : SnapshotOf(project.outputs[j], written["z80"])
          BY <5>1 DEF WrittenAre
        <5>3. SnapshotOf(project.outputs[j], written["z80"])'
          BY <3>4, <5>1, <5>2, Zenon DEF SnapshotOf, Finished, Adding
        <5> QED BY <3>5, <3>6, <5>2, <5>3
      <4> QED BY <4>1, <4>2
    <3>8. ASSUME "exe" \in DOMAIN written' PROVE \E j \in Behind("PC", n - 1)' : ExeOf(project.outputs[j], written["exe"])'
      <4>1. CASE Output.type = "PC"
        <5>1. Finished(Output, writer)
          BY <1>4, <4>1 DEF Snap
        <5>2. Content("exe") = [state |-> ExeState(writer.regs), memory |-> Memory(writer)]
          BY DEF Content
        <5>3. written'["exe"] = [state |-> ExeState(writer.regs), memory |-> Memory(writer)]
          BY <3>2, <3>3, <4>1, <5>2
        <5>4. ExeOf(Output, written'["exe"])
          BY <5>1, <5>3 DEF ExeOf
        <5>6. n \in Behind("PC", n)
          BY <1>2, <3>4, <4>1 DEF Behind
        <5>9. \E j \in Behind("PC", n) : ExeOf(project'.outputs[j], written'["exe"])
          BY <3>4, <5>4, <5>6
        <5> QED BY <3>4, <3>6, <5>9, Zenon DEF ExeOf, Finished, Adding
      <4>2. CASE Output.type # "PC"
        <5>1. "exe" \in DOMAIN written /\ written'["exe"] = written["exe"]
          BY <3>1, <3>2, <3>3, <3>8, <4>2
        <5>2. PICK j \in Behind("PC", n - 1) : ExeOf(project.outputs[j], written["exe"])
          BY <5>1 DEF WrittenAre
        <5>3. ExeOf(project.outputs[j], written["exe"])'
          BY <3>4, <5>1, <5>2, Zenon DEF ExeOf, Finished, Adding
        <5> QED BY <3>5, <3>6, <5>2, <5>3
      <4> QED BY <4>1, <4>2
    <3> QED BY <3>7, <3>8 DEF WrittenAre
  <2> QED BY <2>1, <2>2, <2>3, <2>4, <2>5
<1> QED BY <1>5, <1>6 DEF Write

\* The invariant holds at first.
LEMMA InitIs ==
  ASSUME Init
  PROVE  IInv
<1>1. /\ project \in Projects /\ pc = "basic" /\ DOMAIN basic = {} /\ error = "none" /\ n = 1 /\ k = 1 /\ made = {}
      /\ DOMAIN written = {}
  BY DEF Init
<1>2. Len(project.outputs) \in Nat
  <2>1. ProjectOK(project)
    BY <1>1, ProjectsAre
  <2> QED BY <2>1 DEF ProjectOK
<1>3. Shaped
  BY <1>1, <1>2, FS_EmptySet DEF Shaped
<1>4. AddingNow /\ PlayedIs /\ WrittenAre /\ Reasons
  BY <1>1 DEF AddingNow, PlayedIs, WrittenAre, Reasons
<1>5. PathsOnce
  BY <1>1 DEF PathsOnce, Opened, OnceUpTo
<1> QED BY <1>3, <1>4, <1>5 DEF IInv

\* Every step keeps the invariant.
LEMMA NextKeeps ==
  ASSUME IInv, [Next]_vars
  PROVE  IInv'
<1>1. CASE CompileBasic
  BY <1>1, CompileKeeps
<1>2. CASE BasicDone
  BY <1>2, BasicDoneKeeps
<1>3. CASE Skip
  BY <1>3, SkipKeeps
<1>4. CASE Open
  BY <1>4, OpenKeeps
<1>5. CASE AddFile
  BY <1>5, AddFileKeeps
<1>6. CASE Write
  BY <1>6, WriteKeeps
<1>7. CASE RuntimeUnfit
  BY <1>7, RuntimeKeeps
<1>8. CASE Finish
  BY <1>8, FinishKeeps
<1>9. CASE PlaySnapshot
  BY <1>9, PlaySnapshotKeeps
<1>10. CASE PlayExe
  BY <1>10, PlayExeKeeps
<1>11. CASE UNCHANGED vars
  BY <1>11, OverKeeps
<1> QED BY <1>1, <1>2, <1>3, <1>4, <1>5, <1>6, <1>7, <1>8, <1>9, <1>10, <1>11 DEF Next, Over

\* The invariant: no path is given out twice, the writer of an output that is open has
\* exactly the files before the next one, in cells of its own; what was written, and what
\* the emulator was started with, comes from a writer of such an output that had them all.
THEOREM Invariance == Spec => []IInv
<1>1. Init => IInv
  BY InitIs
<1>2. IInv /\ [Next]_vars => IInv'
  BY NextKeeps
<1> QED BY <1>1, <1>2, PTL DEF Spec

\* The output that is played is the one that was written.
LEMMA PlayedIsThat ==
  ASSUME IInv, n > Len(project.outputs), NEW j \in Behind(played, n - 1), played \in {"Z80", "PC"}
  PROVE  /\ PlayedOutput = project.outputs[j] /\ PlayedOutput.type = played
         /\ OutputOK(PlayedOutput) /\ LinkedFiles(project.linked)
<1> USE DEF IInv
<1>1. ProjectOK(project)
  BY ProjectsAre DEF Shaped
<1>2. project.outputs \in Seq(ToSet(project.outputs)) /\ Len(project.outputs) \in Nat
  BY <1>1 DEF ProjectOK
<1>3. n - 1 = Len(project.outputs) /\ DOMAIN project.outputs = 1..(n - 1)
  BY <1>2 DEF Shaped
<1>4. j \in 1..(n - 1) /\ project.outputs[j].type = played /\ project.outputs[j].enabled
  BY DEF Behind
<1>5. project.outputs[j] \in ToSet(project.outputs)
  BY <1>3, <1>4 DEF ToSet
<1>6. /\ PlayedOutput \in ToSet(project.outputs) /\ PlayedOutput.type = played /\ PlayedOutput.enabled
  BY <1>4, <1>5 DEF PlayedOutput
<1>7. PICK i \in 1..(n - 1) : PlayedOutput = project.outputs[i]
  BY <1>3, <1>6 DEF ToSet
<1>8. OnceUpTo(n - 1)
  <2>1. pc # "add"
    <3>1. pc = "add" => n <= Len(project.outputs)
      BY DEF AddingNow
    <3>2. n \in Nat
      BY DEF Shaped
    <3> QED BY <1>2, <3>1, <3>2
  <2> QED BY <2>1 DEF PathsOnce, Opened
<1>9. PathsOf(project.outputs[i]) \cap PathsOf(project.outputs[j]) # {}
  <2>1. project.outputs[i].type = played /\ project.outputs[j].type = played /\ played \in Types
    BY <1>4, <1>6, <1>7 DEF Types
  <2>2. PathsOf(project.outputs[i]) = PathsOf(project.outputs[j]) /\ PathsOf(project.outputs[j]) # {}
    BY <2>1, PathsAre
  <2> QED BY <2>2
<1>10. i = j
  BY <1>4, <1>6, <1>7, <1>8, <1>9 DEF OnceUpTo
<1>11. OutputOK(project.outputs[j])
  BY <1>1, <1>3, <1>4 DEF ProjectOK
<1> QED BY <1>1, <1>6, <1>7, <1>10, <1>11 DEF ProjectOK

\* What is played is the output that was written under its suffix.
LEMMA PlayedWas ==
  ASSUME IInv, pc \in {"playing", "refused"}
  PROVE  /\ played = "Z80" => SnapshotOf(PlayedOutput, written["z80"])
         /\ played = "PC" => ExeOf(PlayedOutput, written["exe"])
         /\ PlayedOutput.type = played /\ OutputOK(PlayedOutput) /\ LinkedFiles(project.linked)
<1>1. n > Len(project.outputs)
  BY DEF IInv, Shaped
<1>2. (played = "Z80" /\ "z80" \in DOMAIN written) \/ (played = "PC" /\ "exe" \in DOMAIN written)
  BY DEF IInv, PlayedIs
<1>3. CASE played = "Z80"
  <2>1. PICK j \in Behind("Z80", n - 1) : SnapshotOf(project.outputs[j], written["z80"])
    BY <1>2, <1>3 DEF IInv, WrittenAre
  <2> QED BY <1>1, <1>3, <2>1, PlayedIsThat
<1>4. CASE played = "PC"
  <2>1. PICK j \in Behind("PC", n - 1) : ExeOf(project.outputs[j], written["exe"])
    BY <1>2, <1>4 DEF IInv, WrittenAre
  <2> QED BY <1>1, <1>4, <2>1, PlayedIsThat
<1> QED BY <1>2, <1>3, <1>4

\* The reasons a build or the emulator refuses something for are the ones the code has: a
\* file that does not fit, bytes that meet, a bank the machine lacks, a machine the emulator
\* lacks.
THEOREM Refused == Spec => []RefusedForAReason
<1>1. ASSUME IInv PROVE RefusedForAReason
  <2>1. made # {} => Reason(error)
    BY <1>1 DEF IInv, Reasons
  <2>2. ASSUME pc = "refused"
        PROVE  \/ PlayedOutput.machine \notin (Machines48 \ {"didaktik"}) \cup {"auto", "128k"}
               \/ "1ffd" \in DOMAIN PlayedOutput.set
    <3> DEFINE o == PlayedOutput
    <3>1. played = "Z80" /\ LoadSnapshot(written["z80"]).error # "none"
      BY <1>1, <2>2 DEF IInv, PlayedIs
    <3>2. SnapshotOf(o, written["z80"]) /\ o.type = "Z80" /\ OutputOK(o) /\ LinkedFiles(project.linked)
      BY <1>1, <2>2, <3>1, PlayedWas
    <3>3. PICK w : Finished(o, w) /\ Z80Error(w) = "none" /\ written["z80"] = Z80File(w)
      BY <3>2 DEF SnapshotOf
    <3> HIDE DEF o
    <3>4. Len(o.files) \in Nat /\ Adding(o, w, Len(o.files))
      BY <3>2, <3>3 DEF OutputOK, Finished
    <3>5. Z80Writer(w)
      BY <3>2, <3>3, <3>4, WriterIs
    <3>6. w.machine \notin (Machines48 \ {"didaktik"}) \cup {"auto", "128k"} \/ w.regs["1ffd"] # Unset
      BY <3>1, <3>3, <3>5, SnapshotRefused
    <3>7. w.machine = o.machine /\ w.regs = Configured(o.set)
      BY <3>4 DEF Adding, WriterFor
    <3>8. w.regs["1ffd"] # Unset => "1ffd" \in DOMAIN o.set
      BY <3>2, <3>7, ConfiguredIs
    <3> QED BY <3>6, <3>7, <3>8 DEF o
  <2> QED BY <2>1, <2>2 DEF RefusedForAReason, Reason, BoundsFit, OverlapMeets, MachineLacks
<1> QED BY <1>1, Invariance, PTL

\* Whichever way a program takes into the emulator, its memory is what the linker made of
\* each file, in the bank the file's name asks for, and nothing else.
THEOREM Loads == Spec => []LoadsWhatWasLinked
<1>1. ASSUME IInv PROVE LoadsWhatWasLinked
  <2> SUFFICES ASSUME pc = "playing" PROVE LoadsFiles(PlayedOutput, emulator.memory)
    BY Zenon DEF LoadsWhatWasLinked, LoadsFiles
  <2> DEFINE o == PlayedOutput
  <2>1. /\ o.type = played /\ OutputOK(o) /\ LinkedFiles(project.linked)
        /\ played = "Z80" => SnapshotOf(o, written["z80"])
        /\ played = "PC" => ExeOf(o, written["exe"])
    BY <1>1, PlayedWas
  <2>2. \/ /\ played = "Z80" /\ LoadSnapshot(written["z80"]).error = "none"
           /\ emulator = Start(LoadSnapshot(written["z80"]).state, LoadSnapshot(written["z80"]).memory)
        \/ /\ played = "PC"
           /\ emulator = Start(StateIn(written["exe"].state), written["exe"].memory)
    BY <1>1 DEF IInv, PlayedIs
  <2> HIDE DEF o
  <2>3. CASE played = "Z80"
    <3>1. PICK w : Finished(o, w) /\ Z80Error(w) = "none" /\ written["z80"] = Z80File(w)
      BY <2>1, <2>3 DEF SnapshotOf
    <3>2. Len(o.files) \in Nat /\ Adding(o, w, Len(o.files))
      BY <2>1, <3>1 DEF OutputOK, Finished
    <3>3. Z80Writer(w)
      BY <2>1, <2>3, <3>1, <3>2, WriterIs
    <3> DEFINE memory == LoadSnapshot(written["z80"]).memory
    <3>4. \A b \in Bank, p \in Offset : memory[b][p] = Memory(w)[b][p]
      BY <2>2, <2>3, <3>1, <3>3, SnapshotLoads
    <3>5. emulator.memory = memory
      BY <2>2, <2>3, StartRest
    <3> HIDE DEF memory
    <3>6. LoadsFiles(o, memory)
      BY <2>1, <3>1, <3>4, LoadsIs
    <3> QED BY <3>5, <3>6 DEF o
  <2>4. CASE played = "PC"
    <3>1. PICK w : Finished(o, w) /\ written["exe"] = [state |-> ExeState(w.regs), memory |-> Memory(w)]
      BY <2>1, <2>4 DEF ExeOf
    <3>2. emulator.memory = Memory(w)
      BY <2>2, <2>4, <3>1, StartRest
    <3>3. LoadsFiles(o, Memory(w))
      BY <2>1, <3>1, LoadsIs
    <3> QED BY <3>2, <3>3 DEF o
  <2> QED BY <2>2, <2>3, <2>4
<1> QED BY <1>1, Invariance, PTL

\* The processor starts with the registers, the bank and the screen the project sets, for
\* every format and machine, wherever the settings are stored at all.
THEOREM Starts == Spec => []StartsAsConfigured
<1>1. ASSUME IInv PROVE StartsAsConfigured
  <2> SUFFICES ASSUME pc = "playing", ~Misconfigured(PlayedOutput) PROVE StartsFor(PlayedOutput, emulator)
    BY Zenon DEF StartsAsConfigured, StartsFor, Want
  <2> DEFINE o == PlayedOutput
  <2>1. /\ o.type = played /\ OutputOK(o) /\ ~Misconfigured(o)
        /\ played = "Z80" => SnapshotOf(o, written["z80"])
        /\ played = "PC" => ExeOf(o, written["exe"])
    BY <1>1, PlayedWas
  <2>2. \/ /\ played = "Z80" /\ LoadSnapshot(written["z80"]).error = "none"
           /\ emulator = Start(LoadSnapshot(written["z80"]).state, LoadSnapshot(written["z80"]).memory)
        \/ /\ played = "PC"
           /\ emulator = Start(StateIn(written["exe"].state), written["exe"].memory)
    BY <1>1 DEF IInv, PlayedIs
  <2> HIDE DEF o
  <2>3. CASE played = "Z80"
    <3>1. PICK w : Finished(o, w) /\ Z80Error(w) = "none" /\ written["z80"] = Z80File(w)
      BY <2>1, <2>3 DEF SnapshotOf
    <3>2. Len(o.files) \in Nat /\ Adding(o, w, Len(o.files))
      BY <2>1, <3>1 DEF OutputOK, Finished
    <3> DEFINE file == written["z80"]  memory == LoadSnapshot(written["z80"]).memory
    <3>3. file = Z80File(w) /\ LoadSnapshot(file).error = "none" /\ emulator = Start(LoadSnapshot(file).state, memory)
      BY <2>2, <2>3, <3>1
    <3> HIDE DEF memory, file
    <3>4. StartsFor(o, Start(LoadSnapshot(file).state, memory))
      BY <2>1, <2>3, <3>1, <3>2, <3>3, SnapshotStarts
    <3> QED BY <3>3, <3>4 DEF o
  <2>4. CASE played = "PC"
    <3>1. PICK w : Finished(o, w) /\ written["exe"] = [state |-> ExeState(w.regs), memory |-> Memory(w)]
      BY <2>1, <2>4 DEF ExeOf
    <3> DEFINE s == StateIn(ExeState(w.regs))
    <3>2. Holds(s, w.regs) /\ s["7ffd"] = w.regs["7ffd"]
      BY ExeRead
    <3>3. emulator = Start(s, Memory(w))
      BY <2>2, <2>4, <3>1
    <3> HIDE DEF s
    <3>4. StartsFor(o, Start(s, Memory(w)))
      BY <2>1, <3>1, <3>2, StartsWith DEF Finished
    <3> QED BY <3>3, <3>4 DEF o
  <2> QED BY <2>2, <2>3, <2>4
<1> QED BY <1>1, Invariance, PTL
=============================================================================
