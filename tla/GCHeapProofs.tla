---------------------------- MODULE GCHeapProofs ----------------------------
(***************************************************************************)
(* Theorems about GCHeap, for any size of an arena, any sizes of blocks    *)
(* and any number of allocations and objects.                              *)
(***************************************************************************)
EXTENDS GCHeap, FiniteSetTheorems, TLAPS

-----------------------------------------------------------------------------
(* The inductive invariant.                                                *)

\* What is left of an arena lies below its blocks; one that was not obtained has none.
BlocksInv ==
  /\ IsFiniteSet(chunks) /\ mallocs <= Cardinality(chunks) /\ Cardinality(chunks) <= MaxAllocs
  /\ \A c \in chunks :
       /\ c.n < Cardinality(chunks) /\ c.arena <= mallocs
       /\ c.size > 0 /\ bytesLeft[c.arena] <= c.from
       /\ ~Large(c.size) => c.from + c.size <= ArenaSize
  /\ \A b, c \in chunks :
       b # c /\ b.arena = c.arena => b.from + b.size <= c.from \/ c.from + c.size <= b.from

\* The arenas not freed yet are a list: mArena is the first one, each leads to the
\* next one by its prev, and the last one to no arena.
IsList(k, list) ==
  /\ list \in [1..k -> 1..mallocs]
  /\ \A i, j \in 1..k : list[i] = list[j] => i = j
  /\ \A a \in 1..mallocs : a \in freed \/ \E i \in 1..k : list[i] = a
  /\ \A i \in 1..k : list[i] \notin freed
  /\ k > 0 => mArena = list[1]
  /\ k = 0 => mArena \in {Null, Wild}
  /\ \A i \in 1..k : IF i < k THEN prev[list[i]] = list[i + 1] ELSE prev[list[i]] \in {Null, Wild}

ListInv ==
  /\ freed \subseteq 1..mallocs
  /\ pc = "alive" => freed = {}
  /\ pc # "crashed" => \E k \in Nat : \E list \in [1..k -> 1..mallocs] : IsList(k, list)
  /\ mallocs = 0 => \A a \in Arena : prev[a] \in {Null, Wild}
  /\ pc = "gone" => mArena = Null
  /\ pc = "alive" => mArena # Wild

IInv == TypeOK /\ BlocksInv /\ ListInv

-----------------------------------------------------------------------------
\* The numbers the constants are, and what they differ from.
LEMMA Constants ==
  /\ ArenaSize \in Nat \ {0} /\ Sizes \subseteq Nat /\ MaxAllocs \in Nat /\ Len(Calls) \in Nat
  /\ Calls \in Seq(Nat)
  /\ Null \notin Nat /\ Wild \notin Nat /\ Null # Wild
BY GCHeapAssumption

\* Bytes(size) is never 0, and a block that is not large fits into an arena.
LEMMA SizeFacts ==
  ASSUME NEW size \in Sizes
  PROVE  /\ Bytes(size) \in Nat \ {0}
         /\ ~Large(Bytes(size)) => Bytes(size) <= ArenaSize
<1>1. Bytes(size) \in Nat \ {0}
  BY Constants DEF Bytes
<1>2. ArenaSize \div 2 <= ArenaSize /\ ArenaSize \div 2 \in Nat
  BY Constants
<1>3. QED BY <1>1, <1>2, Constants DEF Large

\* Nothing is allocated at first.
LEMMA Initially == Init => IInv
<1> SUFFICES ASSUME Init PROVE IInv
  OBVIOUS
<1>1. TypeOK
  BY Constants DEF Init, TypeOK, Arena, Object
<1>2. BlocksInv
  BY Constants, FS_EmptySet DEF Init, BlocksInv
<1>3. ListInv
  <2> DEFINE list == [i \in 1..0 |-> 1]
  <2>1. list \in [1..0 -> 1..mallocs] /\ IsList(0, list)
    BY DEF Init, IsList
  <2>2. \A a \in Arena : prev[a] \in {Null, Wild}
    BY DEF Init
  <2>3. QED BY <2>1, <2>2, Constants DEF Init, ListInv
<1>4. QED BY <1>1, <1>2, <1>3 DEF IInv

-----------------------------------------------------------------------------
(* Allocation.                                                             *)

\* A block below the others of its arena, and above what is left of it.
LEMMA HandKeeps ==
  ASSUME TypeOK, BlocksInv, Cardinality(chunks) < MaxAllocs,
         NEW arena \in Arena, NEW from \in Nat, NEW size \in Nat \ {0}, Hand(arena, from, size),
         mallocs' \in mallocs..mallocs + 1, arena <= mallocs',
         bytesLeft' \in [Arena -> Int], bytesLeft'[arena] <= from,
         \A c \in chunks : bytesLeft'[c.arena] <= c.from,
         \A c \in chunks : c.arena = arena => from + size <= c.from,
         ~Large(size) => from + size <= ArenaSize
  PROVE  BlocksInv' /\ chunks' \subseteq Chunk
<1> DEFINE c0 == [arena |-> arena, from |-> from, size |-> size, n |-> Cardinality(chunks)]
<1>1. Cardinality(chunks) \in Nat /\ \A c \in chunks : c \in Chunk /\ c.n \in Nat /\ c.arena \in Arena
  BY FS_CardinalityType DEF BlocksInv, TypeOK, Chunk
<1>2. c0 \notin chunks
  <2> SUFFICES ASSUME c0 \in chunks PROVE FALSE
    OBVIOUS
  <2>1. c0.n < Cardinality(chunks)
    BY DEF BlocksInv
  <2>2. QED BY <1>1, <2>1
<1>3. chunks' = chunks \cup {c0}
  BY DEF Hand
<1>4. IsFiniteSet(chunks') /\ Cardinality(chunks') = Cardinality(chunks) + 1
  BY <1>2, <1>3, FS_AddElement DEF BlocksInv
<1>5. c0 \in Chunk
  BY <1>1 DEF Chunk
<1>6. mallocs' <= Cardinality(chunks') /\ Cardinality(chunks') <= MaxAllocs
  BY <1>1, <1>4, Constants DEF BlocksInv, TypeOK
<1>7. ASSUME NEW c \in chunks'
      PROVE  /\ c.n < Cardinality(chunks') /\ c.arena <= mallocs'
             /\ c.size > 0 /\ bytesLeft'[c.arena] <= c.from
             /\ ~Large(c.size) => c.from + c.size <= ArenaSize
  <2>1. CASE c = c0
    BY <1>1, <1>4, <2>1
  <2>2. CASE c \in chunks
    <3>1. c.n < Cardinality(chunks) /\ c.arena <= mallocs /\ c.size > 0
      BY <2>2 DEF BlocksInv
    <3>2. c.n < Cardinality(chunks) + 1
      BY <1>1, <2>2, <3>1
    <3>3. c.arena <= mallocs'
      BY <1>1, <2>2, <3>1, Constants DEF TypeOK, Arena
    <3>4. ~Large(c.size) => c.from + c.size <= ArenaSize
      BY <2>2 DEF BlocksInv
    <3>5. QED BY <1>4, <2>2, <3>1, <3>2, <3>3, <3>4
  <2>3. QED BY <1>3, <2>1, <2>2
<1>8. ASSUME NEW b \in chunks', NEW c \in chunks', b # c, b.arena = c.arena
      PROVE  b.from + b.size <= c.from \/ c.from + c.size <= b.from
  <2>1. CASE b \in chunks /\ c \in chunks
    BY <1>8, <2>1 DEF BlocksInv
  <2>2. CASE b = c0 /\ c \in chunks
    BY <1>8, <2>2
  <2>3. CASE b \in chunks /\ c = c0
    BY <1>8, <2>3
  <2>4. QED BY <1>3, <1>8, <2>1, <2>2, <2>3
<1>9. BlocksInv'
  <2> HIDE DEF c0
  <2>1. QED BY <1>4, <1>6, <1>7, <1>8 DEF BlocksInv, Large
<1>10. QED BY <1>3, <1>5, <1>9 DEF TypeOK

\* The arena blocks are taken from is one that was obtained, or there is none yet.
LEMMA CurrentArena ==
  ASSUME TypeOK, ListInv, pc = "alive"
  PROVE  (mArena = Null /\ mallocs = 0) \/ mArena \in 1..mallocs
<1>0. PICK k \in Nat : \E list \in [1..k -> 1..mallocs] : IsList(k, list)
  BY DEF ListInv
<1>1. PICK list \in [1..k -> 1..mallocs] : IsList(k, list)
  BY <1>0
<1>2. CASE k = 0
  <2>1. mArena = Null /\ freed = {}
    BY <1>1, <1>2 DEF IsList, ListInv
  <2>2. \A a \in 1..mallocs : FALSE
    BY <1>1, <1>2, <2>1 DEF IsList
  <2>3. mallocs \in Nat
    BY Constants DEF TypeOK
  <2>4. 1 \notin 1..mallocs
    BY <2>2
  <2>5. QED BY <2>1, <2>3, <2>4
<1>3. CASE k > 0
  BY <1>1, <1>3 DEF IsList
<1>4. QED BY <1>2, <1>3

\* A new arena of its own goes behind the first one of the list.
LEMMA LinkLargeKeeps ==
  ASSUME TypeOK, ListInv, pc = "alive", mallocs < MaxAllocs, UNCHANGED <<pc, freed>>,
         mallocs' = mallocs + 1, LinkLarge(mallocs + 1),
         mArena' = IF mArena = Null THEN mallocs + 1 ELSE mArena
  PROVE  ListInv' /\ prev' \in [Arena -> Arena \cup {Null, Wild}] /\ mArena' \in Arena
<1>1. mallocs + 1 \in Arena /\ mallocs \in Nat /\ freed = {}
  BY Constants DEF TypeOK, Arena, ListInv
<1>a. PICK a \in Arena : a = mallocs + 1
  BY <1>1
<1>0. PICK k \in Nat : \E list \in [1..k -> 1..mallocs] : IsList(k, list)
  BY DEF ListInv
<1>2. PICK list \in [1..k -> 1..mallocs] : IsList(k, list)
  BY <1>0
<1>3. \A b \in 1..mallocs : b \in Arena /\ b # a /\ b # Null /\ b # Wild
  BY <1>a, Constants DEF TypeOK, Arena
<1>4. CASE mArena = Null
  <2>1. mallocs = 0
    BY <1>3, <1>4, CurrentArena
  <2>2. prev' = prev /\ mArena' = 1 /\ mallocs' = 1
    BY <1>4, <2>1 DEF LinkLarge
  <2>3. prev[1] \in {Null, Wild}
    BY <1>1, <2>1 DEF ListInv
  <2> DEFINE l == [i \in 1..1 |-> 1]
  <2>4. l \in [1..1 -> 1..mallocs'] /\ IsList(1, l)'
    BY <1>1, <2>2, <2>3 DEF IsList
  <2>5. \E m \in Nat : \E u \in [1..m -> 1..mallocs'] : IsList(m, u)'
    BY <2>4
  <2>6. QED BY <1>1, <2>1, <2>2, <2>5, Constants DEF ListInv, TypeOK
<1>5. CASE mArena # Null
  <2>1. mArena \in 1..mallocs /\ mArena' = mArena
    BY <1>5, CurrentArena
  <2>2. k > 0 /\ list[1] = mArena
    BY <1>2, <1>3, <2>1 DEF IsList
  <2>3. prev' = [prev EXCEPT ![a] = prev[mArena], ![mArena] = a]
    BY <1>5, <1>a DEF LinkLarge
  <2>4. /\ prev'[a] = prev[mArena] /\ prev'[mArena] = a
        /\ \A b \in Arena : b # a /\ b # mArena => prev'[b] = prev[b]
    BY <1>1, <1>a, <1>3, <2>1, <2>3 DEF TypeOK
  <2>5. prev' \in [Arena -> Arena \cup {Null, Wild}]
    BY <1>1, <1>a, <1>3, <2>1, <2>3 DEF TypeOK
  <2> DEFINE l == [i \in 1..k + 1 |-> IF i = 1 THEN list[1] ELSE IF i = 2 THEN a ELSE list[i - 1]]
  <2>6. l \in [1..k + 1 -> 1..mallocs']
    BY <1>1, <1>a, <2>2
  <2>7. \A i, j \in 1..k + 1 : l[i] = l[j] => i = j
    BY <1>2, <1>3, <2>2 DEF IsList
  <2>8. ASSUME NEW b \in 1..mallocs'
        PROVE  \E i \in 1..k + 1 : l[i] = b
    <3>1. CASE b = a
      BY <2>2, <3>1
    <3>2. CASE b # a
      <4>1. b \in 1..mallocs
        BY <1>1, <1>a, <3>2
      <4>2. PICK i \in 1..k : list[i] = b
        BY <1>1, <1>2, <4>1 DEF IsList
      <4>3. CASE i = 1
        BY <4>2, <4>3
      <4>4. CASE i > 1
        <5>1. i + 1 \in 1..k + 1 /\ l[i + 1] = b
          BY <4>2, <4>4
        <5>2. QED BY <5>1
      <4>5. QED BY <4>3, <4>4
    <3>3. QED BY <3>1, <3>2
  <2>9. ASSUME NEW i \in 1..k + 1
        PROVE  IF i < k + 1 THEN prev'[l[i]] = l[i + 1] ELSE prev'[l[i]] \in {Null, Wild}
    <3>1. CASE i = 1
      BY <2>2, <2>4, <3>1
    <3>2. CASE i = 2
      <4>1. l[2] = a /\ prev'[a] = prev[list[1]]
        BY <2>2, <2>4, <3>2
      <4>2. IF 1 < k THEN prev[list[1]] = list[2] ELSE prev[list[1]] \in {Null, Wild}
        BY <1>2, <2>2 DEF IsList
      <4>3. 2 < k + 1 => l[3] = list[2]
        OBVIOUS
      <4>4. QED BY <3>2, <4>1, <4>2, <4>3
    <3>3. CASE i > 2
      <4>1. i - 1 \in 2..k /\ l[i] = list[i - 1] /\ (i < k + 1 => l[i + 1] = list[i])
        BY <3>3
      <4>2. list[i - 1] # mArena /\ list[i - 1] \in 1..mallocs
        BY <1>2, <2>2, <4>1 DEF IsList
      <4>3. prev'[list[i - 1]] = prev[list[i - 1]]
        BY <1>3, <2>4, <4>2
      <4>4. IF i - 1 < k THEN prev[list[i - 1]] = list[i] ELSE prev[list[i - 1]] \in {Null, Wild}
        <5>1. i - 1 \in 1..k /\ (i - 1) + 1 = i
          BY <4>1
        <5>2. QED BY <1>2, <5>1 DEF IsList
      <4>5. QED BY <3>3, <4>1, <4>3, <4>4
    <3>4. QED BY <3>1, <3>2, <3>3
  <2>10. k + 1 \in Nat /\ k + 1 > 0 /\ mArena' = l[1] /\ freed' = {}
    BY <1>1, <2>1, <2>2
  <2> HIDE DEF l
  <2>11. IsList(k + 1, l)'
    BY <2>6, <2>7, <2>8, <2>9, <2>10 DEF IsList
  <2>12. \E m \in Nat : \E u \in [1..m -> 1..mallocs'] : IsList(m, u)'
    BY <2>6, <2>10, <2>11
  <2>13. mallocs' # 0 /\ mArena' # Wild /\ mArena' \in Arena
    BY <1>1, <1>3, <2>1
  <2>14. QED BY <2>5, <2>10, <2>12, <2>13 DEF ListInv
<1>6. QED BY <1>4, <1>5

\* A new arena of small blocks becomes the first one of the list.
LEMMA LinkSmallKeeps ==
  ASSUME TypeOK, ListInv, pc = "alive", mallocs < MaxAllocs, UNCHANGED <<pc, freed>>,
         mallocs' = mallocs + 1, prev' = [prev EXCEPT ![mallocs + 1] = mArena], mArena' = mallocs + 1
  PROVE  ListInv' /\ prev' \in [Arena -> Arena \cup {Null, Wild}] /\ mArena' \in Arena
<1>1. mallocs + 1 \in Arena /\ mallocs \in Nat /\ freed = {}
  BY Constants DEF TypeOK, Arena, ListInv
<1>2. PICK a \in Arena : a = mallocs + 1
  BY <1>1
<1>3. PICK k \in Nat : \E list \in [1..k -> 1..mallocs] : IsList(k, list)
  BY DEF ListInv
<1>4. PICK list \in [1..k -> 1..mallocs] : IsList(k, list)
  BY <1>3
<1>5. \A b \in 1..mallocs : b \in Arena /\ b # a
  BY <1>2, Constants DEF TypeOK, Arena
<1>6. prev'[a] = mArena /\ \A b \in Arena : b # a => prev'[b] = prev[b]
  BY <1>2 DEF TypeOK
<1>7. prev' \in [Arena -> Arena \cup {Null, Wild}] /\ mArena' = a
  BY <1>2 DEF TypeOK
<1> DEFINE l == [i \in 1..k + 1 |-> IF i = 1 THEN a ELSE list[i - 1]]
<1>8. l \in [1..k + 1 -> 1..mallocs']
  BY <1>1, <1>2
<1>9. \A i, j \in 1..k + 1 : l[i] = l[j] => i = j
  BY <1>4, <1>5 DEF IsList
<1>10. ASSUME NEW b \in 1..mallocs'
       PROVE  \E i \in 1..k + 1 : l[i] = b
  <2>1. CASE b = a
    BY <2>1
  <2>2. CASE b # a
    <3>1. b \in 1..mallocs
      BY <1>1, <1>2, <2>2
    <3>2. PICK i \in 1..k : list[i] = b
      BY <1>1, <1>4, <3>1 DEF IsList
    <3>3. i + 1 \in 1..k + 1 /\ l[i + 1] = b
      BY <3>2
    <3>4. QED BY <3>3
  <2>3. QED BY <2>1, <2>2
<1>11. ASSUME NEW i \in 1..k + 1
       PROVE  IF i < k + 1 THEN prev'[l[i]] = l[i + 1] ELSE prev'[l[i]] \in {Null, Wild}
  <2>1. CASE i = 1
    <3>1. l[1] = a /\ (1 < k + 1 => l[2] = list[1])
      OBVIOUS
    <3>2. IF 1 < k + 1 THEN mArena = list[1] ELSE mArena \in {Null, Wild}
      BY <1>4 DEF IsList
    <3>3. QED BY <1>6, <2>1, <3>1, <3>2
  <2>2. CASE i > 1
    <3>1. i - 1 \in 1..k /\ (i - 1) + 1 = i /\ l[i] = list[i - 1] /\ (i < k + 1 => l[i + 1] = list[i])
      BY <2>2
    <3>2. prev'[list[i - 1]] = prev[list[i - 1]]
      BY <1>5, <1>6, <3>1
    <3>3. IF i - 1 < k THEN prev[list[i - 1]] = list[i] ELSE prev[list[i - 1]] \in {Null, Wild}
      BY <1>4, <3>1 DEF IsList
    <3>4. QED BY <3>1, <3>2, <3>3
  <2>3. QED BY <2>1, <2>2
<1>12. k + 1 \in Nat /\ k + 1 > 0 /\ mArena' = l[1] /\ freed' = {}
  BY <1>1, <1>7
<1> HIDE DEF l
<1>13. IsList(k + 1, l)'
  BY <1>8, <1>9, <1>10, <1>11, <1>12 DEF IsList
<1>14. \E m \in Nat : \E u \in [1..m -> 1..mallocs'] : IsList(m, u)'
  BY <1>8, <1>12, <1>13
<1>15. mallocs' # 0 /\ mArena' # Wild
  BY <1>1, <1>2, <1>7, Constants DEF Arena
<1>16. QED BY <1>7, <1>12, <1>14, <1>15 DEF ListInv

\* The list depends on nothing but the arenas.
LEMMA ListStays ==
  ASSUME UNCHANGED <<mallocs, prev, mArena, freed>>,
         NEW k \in Nat, \E list \in [1..k -> 1..mallocs] : IsList(k, list)
  PROVE  \E list \in [1..k -> 1..mallocs'] : IsList(k, list)'
<1>1. PICK list \in [1..k -> 1..mallocs] : IsList(k, list)
  OBVIOUS
<1>2. IsList(k, list)'
  BY <1>1 DEF IsList
<1>3. QED BY <1>2

\* alloc keeps the invariant and changes the types of nothing.
LEMMA AllocKeeps ==
  ASSUME IInv, pc = "alive", NEW s \in Sizes, Alloc(s), UNCHANGED <<pc, freed>>
  PROVE  /\ BlocksInv' /\ ListInv' /\ chunks' \subseteq Chunk
         /\ mallocs' \in 0..MaxAllocs /\ bytesLeft' \in [Arena -> 0..ArenaSize]
         /\ prev' \in [Arena -> Arena \cup {Null, Wild}] /\ mArena' \in Arena \cup {Null, Wild}
<1>1. TypeOK /\ BlocksInv /\ ListInv
  BY DEF IInv
<1>2. PICK size \in Nat \ {0} : size = Bytes(s) /\ (~Large(size) => size <= ArenaSize)
  BY SizeFacts
<1>3. Cardinality(chunks) \in Nat /\ mallocs \in Nat /\ mallocs < MaxAllocs /\ Cardinality(chunks) < MaxAllocs
  BY <1>1, FS_CardinalityType, Constants DEF BlocksInv, TypeOK, Alloc
<1>4. mallocs + 1 \in Arena
  BY <1>3, Constants DEF Arena
<1>5. \A c \in chunks : c.arena \in Arena /\ c.arena <= mallocs /\ bytesLeft[c.arena] <= c.from /\ c.from \in Int
  BY <1>1 DEF BlocksInv, TypeOK, Chunk
<1>6. \A c \in chunks : c.arena # mallocs + 1
  BY <1>3, <1>5, Constants DEF Arena
<1>7. AllocLarge(size) \/ AllocSmall(size)
  BY <1>2 DEF Alloc
<1>8. CASE AllocLarge(size)
  <2>1. mallocs' = mallocs + 1 /\ bytesLeft' = [bytesLeft EXCEPT ![mallocs + 1] = 0] /\ Hand(mallocs + 1, 0, size)
        /\ Large(size) /\ LinkLarge(mallocs + 1) /\ mArena' = IF mArena = Null THEN mallocs + 1 ELSE mArena
    BY <1>8 DEF AllocLarge
  <2>2. bytesLeft' \in [Arena -> 0..ArenaSize] /\ bytesLeft'[mallocs + 1] = 0
    BY <1>1, <1>4, <2>1, Constants DEF TypeOK
  <2>3. \A c \in chunks : bytesLeft'[c.arena] <= c.from
    BY <1>1, <1>5, <1>6, <2>1 DEF TypeOK
  <2>4. bytesLeft' \in [Arena -> Int] /\ mallocs' \in mallocs..mallocs + 1
    BY <1>3, <2>1, <2>2
  <2>5. BlocksInv' /\ chunks' \subseteq Chunk
    <3>1. mallocs + 1 <= mallocs' /\ bytesLeft'[mallocs + 1] <= 0
      BY <1>3, <2>1, <2>2
    <3>2. QED BY <1>1, <1>3, <1>4, <1>6, <2>1, <2>3, <2>4, <3>1, HandKeeps
  <2>6. ListInv' /\ prev' \in [Arena -> Arena \cup {Null, Wild}] /\ mArena' \in Arena
    BY <1>1, <1>3, <2>1, LinkLargeKeeps
  <2>7. QED BY <1>3, <2>1, <2>2, <2>5, <2>6, Constants
<1>9. CASE AllocSmall(size) /\ Fits(size)
  <2>1. /\ bytesLeft' = [bytesLeft EXCEPT ![mArena] = bytesLeft[mArena] - size]
        /\ Hand(mArena, bytesLeft[mArena] - size, size) /\ UNCHANGED <<mallocs, prev, mArena>>
    BY <1>9 DEF AllocSmall, Take
  <2>2. mArena \in 1..mallocs /\ bytesLeft[mArena] >= size
    BY <1>1, <1>9, CurrentArena DEF Fits
  <2>3. mArena \in Arena /\ bytesLeft[mArena] \in 0..ArenaSize
    BY <1>1, <1>3, <2>2, Constants DEF TypeOK, Arena
  <2>4. PICK from \in Nat : from = bytesLeft[mArena] - size
    BY <2>2, <2>3, Constants
  <2>5. bytesLeft' \in [Arena -> 0..ArenaSize] /\ bytesLeft'[mArena] = from
    BY <1>1, <2>1, <2>3, <2>4, Constants DEF TypeOK
  <2>6. \A c \in chunks : bytesLeft'[c.arena] <= c.from /\ (c.arena = mArena => from + size <= c.from)
    BY <1>1, <1>5, <2>1, <2>3, <2>4 DEF TypeOK
  <2>7. from + size <= ArenaSize
    BY <2>3, <2>4, Constants
  <2>8. BlocksInv' /\ chunks' \subseteq Chunk
    <3>1. bytesLeft' \in [Arena -> Int] /\ mallocs' \in mallocs..mallocs + 1 /\ mArena <= mallocs' /\ bytesLeft'[mArena] <= from
      BY <1>3, <2>1, <2>2, <2>5
    <3>2. QED BY <1>1, <1>3, <2>1, <2>3, <2>4, <2>6, <2>7, <3>1, HandKeeps
  <2>9. ListInv'
    BY <1>1, <2>1, ListStays DEF ListInv
  <2>10. QED BY <1>1, <2>1, <2>5, <2>8, <2>9 DEF TypeOK
<1>10. CASE AllocSmall(size) /\ ~Fits(size)
  <2>1. /\ mallocs' = mallocs + 1 /\ prev' = [prev EXCEPT ![mallocs + 1] = mArena] /\ mArena' = mallocs + 1
        /\ bytesLeft' = [bytesLeft EXCEPT ![mallocs + 1] = ArenaSize - size]
        /\ Hand(mallocs + 1, ArenaSize - size, size) /\ ~Large(size)
    BY <1>10 DEF AllocSmall, Take
  <2>2. PICK from \in Nat : from = ArenaSize - size
    BY <1>2, <2>1, Constants
  <2>3. bytesLeft' \in [Arena -> 0..ArenaSize] /\ bytesLeft'[mallocs + 1] = from
    BY <1>1, <1>4, <2>1, <2>2, Constants DEF TypeOK
  <2>4. \A c \in chunks : bytesLeft'[c.arena] <= c.from
    BY <1>1, <1>5, <1>6, <2>1 DEF TypeOK
  <2>5. BlocksInv' /\ chunks' \subseteq Chunk
    <3>1. /\ bytesLeft' \in [Arena -> Int] /\ mallocs' \in mallocs..mallocs + 1 /\ mallocs + 1 <= mallocs'
          /\ bytesLeft'[mallocs + 1] <= from /\ from + size <= ArenaSize
      BY <1>3, <2>1, <2>2, <2>3, Constants
    <3>2. QED BY <1>1, <1>3, <1>4, <1>6, <2>1, <2>2, <2>4, <3>1, HandKeeps
  <2>6. ListInv' /\ prev' \in [Arena -> Arena \cup {Null, Wild}] /\ mArena' \in Arena
    BY <1>1, <1>3, <2>1, LinkSmallKeeps
  <2>7. QED BY <1>3, <2>1, <2>3, <2>5, <2>6, Constants
<1>11. QED BY <1>7, <1>8, <1>9, <1>10

-----------------------------------------------------------------------------
(* The other steps.                                                        *)

\* ~GCHeap takes the first arena off the list; it meets no arena it freed.
LEMMA FreeKeeps ==
  ASSUME TypeOK, ListInv, FreeArena
  PROVE  ListInv' /\ TypeOK'
<1>1. PICK k \in Nat : \E list \in [1..k -> 1..mallocs] : IsList(k, list)
  BY DEF ListInv, FreeArena
<1>2. PICK list \in [1..k -> 1..mallocs] : IsList(k, list)
  BY <1>1
<1>3. mallocs \in Nat /\ \A b \in 1..mallocs : b \in Arena /\ b # Null /\ b # Wild
  BY Constants DEF TypeOK, Arena
<1>4. pc = "freeing" /\ mArena # Null /\ UNCHANGED <<mallocs, prev, bytesLeft, chunks, finalizerVars, obj, destroyed>>
  BY DEF FreeArena
<1>5. CASE mArena = Wild \/ mArena \in freed
  <2>1. pc' = "crashed" /\ UNCHANGED <<mArena, freed>>
    BY <1>5 DEF FreeArena
  <2>2. ListInv'
    BY <1>4, <2>1 DEF ListInv
  <2>3. TypeOK'
    BY <1>4, <2>1 DEF TypeOK, finalizerVars
  <2>4. QED BY <2>2, <2>3
<1>6. CASE ~(mArena = Wild \/ mArena \in freed)
  <2>1. mArena' = prev[mArena] /\ freed' = freed \cup {mArena} /\ pc' = pc
    BY <1>6 DEF FreeArena
  <2>2. k > 0 /\ mArena = list[1] /\ mArena \in 1..mallocs
    BY <1>2, <1>4, <1>6 DEF IsList
  <2>3. PICK m \in Nat : m = k - 1
    BY <2>2
  <2> DEFINE l == [i \in 1..m |-> list[i + 1]]
  <2>4. l \in [1..m -> 1..mallocs']
    BY <1>4, <2>3
  <2>5. \A i \in 1..m : i + 1 \in 1..k /\ l[i] = list[i + 1] /\ l[i] # list[1]
    BY <1>2, <2>2, <2>3 DEF IsList
  <2>6. \A i, j \in 1..m : l[i] = l[j] => i = j
    BY <1>2, <2>3, <2>5 DEF IsList
  <2>7. ASSUME NEW a \in 1..mallocs', a \notin freed'
        PROVE  \E i \in 1..m : l[i] = a
    <3>1. a # list[1] /\ a \notin freed /\ a \in 1..mallocs
      BY <1>4, <2>1, <2>2, <2>7
    <3>2. PICK i \in 1..k : list[i] = a
      BY <1>2, <3>1 DEF IsList
    <3>3. i - 1 \in 1..m /\ l[i - 1] = a
      BY <2>3, <3>1, <3>2
    <3>4. QED BY <3>3
  <2>8. \A i \in 1..m : l[i] \notin freed'
    BY <1>2, <2>1, <2>2, <2>5 DEF IsList
  <2>9. IF 1 < k THEN mArena' = list[2] ELSE mArena' \in {Null, Wild}
    BY <1>2, <2>1, <2>2 DEF IsList
  <2>10. (m > 0 => mArena' = l[1]) /\ (m = 0 => mArena' \in {Null, Wild})
    BY <2>3, <2>9
  <2>11. ASSUME NEW i \in 1..m
         PROVE  IF i < m THEN prev'[l[i]] = l[i + 1] ELSE prev'[l[i]] \in {Null, Wild}
    <3>1. i + 1 \in 1..k /\ l[i] = list[i + 1] /\ (i < m => l[i + 1] = list[(i + 1) + 1]) /\ (i < m <=> i + 1 < k)
      BY <2>3
    <3>2. IF i + 1 < k THEN prev[list[i + 1]] = list[(i + 1) + 1] ELSE prev[list[i + 1]] \in {Null, Wild}
      BY <1>2, <3>1 DEF IsList
    <3>3. QED BY <1>4, <3>1, <3>2
  <2> HIDE DEF l
  <2>12. IsList(m, l)'
    BY <2>4, <2>6, <2>7, <2>8, <2>10, <2>11 DEF IsList
  <2>13. \E n \in Nat : \E u \in [1..n -> 1..mallocs'] : IsList(n, u)'
    BY <2>4, <2>12
  <2>14. ListInv'
    <3>1. freed' \subseteq 1..mallocs' /\ pc' = "freeing"
      BY <1>4, <2>1, <2>2 DEF ListInv
    <3>2. mallocs' # 0
      BY <1>3, <1>4, <2>2
    <3>3. QED BY <2>13, <3>1, <3>2 DEF ListInv
  <2>15. TypeOK'
    <3>1. mArena \in Arena /\ mArena' \in Arena \cup {Null, Wild}
      BY <1>3, <2>1, <2>2 DEF TypeOK
    <3>2. QED BY <1>4, <2>1, <3>1 DEF TypeOK, finalizerVars
  <2>16. QED BY <2>14, <2>15
<1>7. QED BY <1>5, <1>6

\* Every step keeps the invariant.
LEMMA Inductive == IInv /\ [Next]_vars => IInv'
<1> SUFFICES ASSUME IInv, [Next]_vars PROVE IInv'
  OBVIOUS
<1>1. TypeOK /\ BlocksInv /\ ListInv
  BY DEF IInv
<1>2. CASE AllocBlock
  <2>1. PICK s \in Sizes : Alloc(s)
    BY <1>2 DEF AllocBlock
  <2>2. pc = "alive" /\ UNCHANGED <<pc, freed, finalizerVars, obj, destroyed>>
    BY <1>2 DEF AllocBlock
  <2>3. QED BY <1>1, <2>1, <2>2, AllocKeeps DEF IInv, TypeOK, finalizerVars
<1>3. CASE NewObject
  <2>1. PICK s \in Sizes : Alloc(s)
    BY <1>3 DEF NewObject
  <2>2. pc = "alive" /\ built' \in Object /\ UNCHANGED <<pc, freed, mNext, mFinalizers, calls, obj, destroyed>>
    BY <1>3 DEF NewObject
  <2>3. QED BY <1>1, <2>1, <2>2, AllocKeeps DEF IInv, TypeOK
<1>4. ASSUME UNCHANGED <<arenaVars, freed>>, pc' \in {"alive", "finalizing", "freeing", "gone"}, pc # "crashed",
             pc' = "alive" => pc = "alive", pc' = "gone" => mArena = Null
      PROVE  BlocksInv' /\ ListInv'
  <2>1. BlocksInv'
    BY <1>1, <1>4 DEF BlocksInv, arenaVars
  <2>2. PICK k \in Nat : \E list \in [1..k -> 1..mallocs] : IsList(k, list)
    BY <1>1, <1>4 DEF ListInv
  <2>3. \E list \in [1..k -> 1..mallocs'] : IsList(k, list)'
    BY <1>4, <2>2, ListStays DEF arenaVars
  <2>4. ListInv'
    BY <1>1, <1>4, <2>3 DEF ListInv, arenaVars
  <2>5. QED BY <2>1, <2>4
<1>5. CASE RegisterFinalizer
  <2>1. PICK o \in 1..built :
          calls' = [calls EXCEPT ![o] = @ + 1] /\ Register(o)
    BY <1>5 DEF RegisterFinalizer
  <2>2. pc = "alive" /\ UNCHANGED <<pc, arenaVars, freed, built, obj, destroyed>>
    BY <1>5 DEF RegisterFinalizer
  <2>3. o \in Object
    BY <1>1, Constants DEF TypeOK, Object
  <2>4. TypeOK'
    <3>1. mNext' \in [Object -> Object \cup {Null}] /\ mFinalizers' \in Object \cup {Null}
      BY <1>1, <2>1, <2>3 DEF Register, TypeOK
    <3>2. calls' \in [Object -> Nat]
      BY <1>1, <2>1, <2>3 DEF TypeOK
    <3>3. QED BY <1>1, <2>2, <3>1, <3>2 DEF TypeOK, arenaVars
  <2>5. QED BY <1>1, <1>4, <2>2, <2>4 DEF IInv
<1>6. CASE Destroy
  <2>1. TypeOK'
    BY <1>1, <1>6 DEF Destroy, TypeOK, arenaVars, finalizerVars
  <2>2. QED BY <1>4, <1>6, <2>1 DEF IInv, Destroy
<1>7. CASE Finalize
  <2>1. destroyed' \in [Object -> 0..2] /\ obj' \in Object \cup {Null}
    BY <1>1, <1>7 DEF Finalize, TypeOK
  <2>2. TypeOK'
    BY <1>1, <1>7, <2>1 DEF Finalize, TypeOK, arenaVars, finalizerVars
  <2>3. QED BY <1>4, <1>7, <2>2 DEF IInv, Finalize
<1>8. CASE EndFinalizing \/ EndFreeing
  <2>1. TypeOK'
    BY <1>1, <1>8 DEF EndFinalizing, EndFreeing, TypeOK, arenaVars, finalizerVars
  <2>2. QED BY <1>4, <1>8, <2>1 DEF IInv, EndFinalizing, EndFreeing
<1>9. CASE FreeArena
  <2>1. BlocksInv'
    BY <1>1, <1>9 DEF BlocksInv, FreeArena
  <2>2. QED BY <1>1, <1>9, <2>1, FreeKeeps DEF IInv
<1>10. CASE Over \/ UNCHANGED vars
  <2>1. UNCHANGED vars
    BY <1>10 DEF Over
  <2>2. TypeOK'
    BY <1>1, <2>1 DEF TypeOK, vars, arenaVars, finalizerVars
  <2>3. CASE pc = "crashed"
    BY <1>1, <2>1, <2>2, <2>3 DEF IInv, BlocksInv, ListInv, vars, arenaVars
  <2>4. CASE pc # "crashed"
    BY <1>1, <1>4, <2>1, <2>2, <2>4 DEF IInv, TypeOK, ListInv, vars
  <2>5. QED BY <2>3, <2>4
<1>11. QED BY <1>2, <1>3, <1>5, <1>6, <1>7, <1>8, <1>9, <1>10 DEF Next, Destructor

-----------------------------------------------------------------------------
(* The theorems.                                                           *)

\* The inductive invariant of GCHeap: types, which bytes of an arena are taken, and
\* the list of the arenas that are not freed yet.
THEOREM Invariance == Spec => []IInv
<1>1. QED BY Initially, Inductive, PTL DEF Spec

\* Every variable keeps the type of the field it stands for.
THEOREM TypeCorrect == Spec => []TypeOK
<1>1. QED BY Invariance, PTL DEF IInv

\* No two blocks share a byte and the small ones lie in their arena, for any arena
\* size and any order of allocations.
THEOREM Disjointness == Spec => []BlocksDisjoint
<1>1. IInv => BlocksDisjoint
  <2> SUFFICES ASSUME IInv, NEW b \in chunks, NEW c \in chunks
               PROVE  /\ b.size > 0 /\ b.from >= 0
                      /\ ~Large(b.size) => b.from + b.size <= ArenaSize
                      /\ b # c /\ b.arena = c.arena => b.from + b.size <= c.from \/ c.from + c.size <= b.from
    BY DEF BlocksDisjoint
  <2>1. bytesLeft[b.arena] \in 0..ArenaSize /\ b.from \in Int /\ bytesLeft[b.arena] <= b.from
    BY DEF IInv, TypeOK, Chunk, BlocksInv
  <2>2. b.from >= 0
    BY <2>1, Constants
  <2>3. QED BY <2>2 DEF IInv, BlocksInv
<1>2. QED BY <1>1, Invariance, PTL

\* Whatever the order of large and small blocks, an arena is not lost: when the
\* destructor ends, all were freed.
THEOREM AllArenasFreed == Spec => []ArenasFreed
<1>1. IInv => ArenasFreed
  <2> SUFFICES ASSUME IInv, pc = "gone" PROVE freed = 1..mallocs
    BY DEF ArenasFreed
  <2>1. PICK k \in Nat : \E list \in [1..k -> 1..mallocs] : IsList(k, list)
    BY DEF IInv, ListInv
  <2>2. PICK list \in [1..k -> 1..mallocs] : IsList(k, list)
    BY <2>1
  <2>3. k = 0
    <3>1. mArena = Null /\ \A a \in 1..mallocs : a # Null
      BY Constants DEF IInv, ListInv, TypeOK
    <3>2. k > 0 => list[1] \in 1..mallocs /\ mArena = list[1]
      BY <2>2 DEF IsList
    <3>3. QED BY <3>1, <3>2
  <2>4. \A a \in 1..mallocs : a \in freed
    BY <2>2, <2>3 DEF IsList
  <2>5. QED BY <2>4 DEF IInv, ListInv
<1>2. QED BY <1>1, Invariance, PTL

-----------------------------------------------------------------------------
(* Finalizers.                                                             *)

\* The first object that registers does so once.  (The other way round its second call
\* finds no successor and makes the object its own.)
FirstRegistersOnce == \A o \in Object : Calls[o] > 1 => \E p \in 1..(o - 1) : Calls[p] > 0

Registered == {o \in Object : calls[o] > 0}

\* next is the last object registered before o.
Before(next, o) ==
  IF next = Null THEN \A p \in Registered : p >= o
  ELSE next \in Registered /\ next < o /\ \A p \in Registered : p < o => p <= next

\* Objects register in the order they are made.
CallsInv ==
  /\ \A o \in Object : calls[o] <= Calls[o] /\ (calls[o] > 0 => o <= built)
  /\ \A o \in Object : o < built \/ (o <= built /\ pc # "alive") => calls[o] = Calls[o]

\* The registered objects are a list that goes down from the last one.
ChainInv ==
  /\ Before(mFinalizers, Len(Calls) + 1)
  /\ \A o \in Object : IF o \in Registered THEN Before(mNext[o], o) ELSE mNext[o] = Null

\* ~GCHeap has called the destructors of the registered objects above the one it is at.
WalkInv ==
  /\ pc = "alive" => \A o \in Object : destroyed[o] = 0
  /\ pc = "finalizing" =>
       /\ obj # Null => obj \in Registered
       /\ \A o \in Object :
            destroyed[o] = IF o \in Registered /\ (obj = Null \/ o > obj) THEN 1 ELSE 0
  /\ pc \in {"freeing", "gone", "crashed"} =>
       \A o \in Object : destroyed[o] = IF o \in Registered THEN 1 ELSE 0

FInv == CallsInv /\ ChainInv /\ WalkInv

LEMMA ObjectFacts ==
  /\ Len(Calls) \in Nat /\ \A o \in Object : o \in Nat /\ o >= 1 /\ o <= Len(Calls) /\ Calls[o] \in Nat /\ o # Null
  /\ Null \notin Object /\ Registered \subseteq Object
BY Constants DEF Object, Registered

\* What the finalizers are does not depend on what is allocated.
LEMMA FinalizersStay ==
  ASSUME FInv, UNCHANGED <<mNext, mFinalizers, calls, obj, destroyed>>, pc' = pc, built' = built
  PROVE  FInv'
BY DEF FInv, CallsInv, ChainInv, WalkInv, Before, Registered

\* An object registers before the next one is made, and is linked once.
LEMMA RegisterKeeps ==
  ASSUME FirstRegistersOnce, TypeOK, FInv, RegisterFinalizer
  PROVE  FInv'
<1>1. PICK o \in 1..built :
        /\ calls[o] < Calls[o]
        /\ calls' = [calls EXCEPT ![o] = @ + 1] /\ Register(o)
  BY DEF RegisterFinalizer
<1>2. pc = "alive" /\ UNCHANGED <<pc, built, obj, destroyed>>
  BY DEF RegisterFinalizer
<1>3. /\ o \in Object /\ built \in Nat /\ o \in Nat
      /\ \A p \in Object : calls[p] \in Nat /\ Calls[p] \in Nat /\ p \in Nat
  BY ObjectFacts DEF TypeOK, Object
<1>4. o = built /\ \A p \in Registered : p <= o
  BY <1>1, <1>3 DEF FInv, CallsInv, Registered
<1>5. calls'[o] = calls[o] + 1 /\ \A p \in Object : p # o => calls'[p] = calls[p]
  BY <1>1, <1>3 DEF TypeOK
<1>6. Registered' = Registered \cup {o}
  <2>1. calls'[o] > 0
    BY <1>3, <1>5
  <2>2. \A p \in Object : p \in Registered' <=> p \in Registered \/ p = o
    BY <1>5, <2>1 DEF Registered
  <2>3. QED BY <1>3, <2>2 DEF Registered
<1>7. CallsInv'
  BY <1>1, <1>2, <1>3, <1>4, <1>5 DEF FInv, CallsInv
<1>8. WalkInv'
  BY <1>2 DEF FInv, WalkInv
<1>9. CASE o \in Registered
  <2>1. PICK p \in Registered : p < o
    <3>1. Calls[o] > 1
      BY <1>1, <1>3, <1>9 DEF Registered
    <3>2. PICK p \in 1..(o - 1) : Calls[p] > 0
      BY <1>3, <3>1 DEF FirstRegistersOnce
    <3>3. p \in Object /\ p < o
      BY <1>3, <3>2, ObjectFacts DEF Object
    <3>4. calls[p] = Calls[p]
      BY <1>3, <1>4, <3>3 DEF FInv, CallsInv
    <3>5. QED BY <3>2, <3>3, <3>4 DEF Registered
  <2>2. mNext[o] # Null
    <3>1. Before(mNext[o], o)
      BY <1>3, <1>9 DEF FInv, ChainInv
    <3>2. p \in Nat
      BY <1>3, ObjectFacts
    <3>3. QED BY <1>3, <2>1, <3>1, <3>2 DEF Before
  <2>3. UNCHANGED <<mNext, mFinalizers>> /\ Registered' = Registered
    BY <1>1, <1>6, <1>9, <2>2 DEF Register
  <2>4. ChainInv'
    BY <2>3 DEF FInv, ChainInv, Before
  <2>5. QED BY <1>7, <1>8, <2>4 DEF FInv
<1>10. CASE o \notin Registered
  <2>1. mNext' = [mNext EXCEPT ![o] = mFinalizers] /\ mFinalizers' = o
    BY <1>1, <1>3, <1>10 DEF FInv, ChainInv, Register
  <2>2. mNext'[o] = mFinalizers /\ \A p \in Object : p # o => mNext'[p] = mNext[p]
    BY <1>3, <2>1 DEF TypeOK
  <2>3. \A p \in Registered : p < o /\ p \in Nat /\ p >= 1
    BY <1>3, <1>4, <1>10, ObjectFacts
  <2>4. o # Null /\ o < Len(Calls) + 1 /\ Len(Calls) \in Nat
    BY <1>3, ObjectFacts
  <2>5. Before(mFinalizers, Len(Calls) + 1)'
    BY <1>6, <2>1, <2>3, <2>4 DEF Before
  <2>6. ASSUME NEW p \in Object, p \in Registered'
        PROVE  Before(mNext[p], p)'
    <3>1. CASE p = o
      <4>1. IF mFinalizers = Null THEN Registered = {}
            ELSE mFinalizers \in Registered /\ \A q \in Registered : q <= mFinalizers
        <5>1. Before(mFinalizers, Len(Calls) + 1)
          BY DEF FInv, ChainInv
        <5>2. \A q \in Registered : q < Len(Calls) + 1 /\ ~(q >= Len(Calls) + 1)
          BY <1>3, <2>3, <2>4
        <5>3. QED BY <5>1, <5>2 DEF Before
      <4>2. QED BY <1>3, <1>6, <2>2, <2>3, <3>1, <4>1 DEF Before
    <3>2. CASE p # o
      <4>1. p \in Registered /\ Before(mNext[p], p) /\ mNext'[p] = mNext[p] /\ p < o /\ p \in Nat
        BY <1>6, <2>2, <2>3, <2>6, <3>2 DEF FInv, ChainInv
      <4>2. QED BY <1>3, <1>6, <2>3, <4>1 DEF Before
    <3>3. QED BY <3>1, <3>2
  <2>7. \A p \in Object : p \notin Registered' => mNext'[p] = Null
    BY <1>6, <2>2 DEF FInv, ChainInv
  <2>8. ChainInv'
    BY <2>5, <2>6, <2>7 DEF ChainInv
  <2>9. QED BY <1>7, <1>8, <2>8 DEF FInv
<1>11. QED BY <1>9, <1>10

\* ~GCHeap goes down the list and misses no registered object.
LEMMA FinalizeKeeps ==
  ASSUME TypeOK, FInv, Finalize
  PROVE  FInv'
<1>1. /\ pc = "finalizing" /\ obj # Null /\ obj' = mNext[obj] /\ UNCHANGED <<pc, mNext, mFinalizers, calls, built>>
      /\ destroyed' = [destroyed EXCEPT ![obj] = IF @ < 2 THEN @ + 1 ELSE @]
  BY DEF Finalize, finalizerVars
<1>2. /\ obj \in Registered /\ obj \in Object /\ Registered' = Registered /\ obj \in Nat
      /\ \A o \in Object : o \in Nat /\ destroyed[o] \in 0..2
  BY <1>1, ObjectFacts DEF FInv, WalkInv, TypeOK, Registered
<1>3. CallsInv' /\ ChainInv'
  BY <1>1 DEF FInv, CallsInv, ChainInv, Before, Registered
<1>4. /\ IF obj' = Null THEN \A p \in Registered : p >= obj
         ELSE obj' \in Registered /\ obj' < obj /\ \A p \in Registered : p < obj => p <= obj'
      /\ obj' \in Object \cup {Null}
  BY <1>1, <1>2 DEF FInv, ChainInv, Before, Registered, TypeOK
<1>5. ASSUME NEW o \in Object
      PROVE  destroyed'[o] = IF o \in Registered /\ (obj' = Null \/ o > obj') THEN 1 ELSE 0
  <2>1. destroyed[o] = IF o \in Registered /\ o > obj THEN 1 ELSE 0
    BY <1>1 DEF FInv, WalkInv
  <2>2. CASE o = obj
    <3>1. destroyed[o] = 0 /\ destroyed'[o] = 1
      BY <1>1, <1>2, <2>1, <2>2 DEF TypeOK
    <3>2. QED BY <1>2, <1>4, <2>2, <3>1
  <2>3. CASE o # obj
    <3>1. destroyed'[o] = destroyed[o]
      BY <1>1, <1>2, <2>3 DEF TypeOK
    <3>2. o \in Registered => (o > obj <=> obj' = Null \/ o > obj')
      BY <1>2, <1>4, <2>3
    <3>3. QED BY <2>1, <3>1, <3>2
  <2>4. QED BY <2>2, <2>3
<1>6. WalkInv'
  BY <1>1, <1>2, <1>4, <1>5 DEF WalkInv
<1>7. QED BY <1>3, <1>6 DEF FInv

LEMMA FinalizersInductive ==
  ASSUME FirstRegistersOnce, TypeOK, FInv, [Next]_vars
  PROVE  FInv'
<1>1. CASE AllocBlock \/ FreeArena \/ Over \/ UNCHANGED vars
  <2>1. UNCHANGED <<mNext, mFinalizers, calls, obj, destroyed, built>>
        /\ \/ pc' = pc
           \/ pc = "freeing" /\ pc' = "crashed"
    BY <1>1 DEF AllocBlock, FreeArena, Over, vars, finalizerVars
  <2>2. CASE pc' = pc
    BY <2>1, <2>2, FinalizersStay
  <2>3. CASE pc = "freeing" /\ pc' = "crashed"
    BY <2>1, <2>3 DEF FInv, CallsInv, ChainInv, WalkInv, Before, Registered
  <2>4. QED BY <2>1, <2>2, <2>3
<1>2. CASE NewObject
  <2>1. /\ pc = "alive" /\ built' = built + 1 /\ \A o \in 1..built : calls[o] = Calls[o]
        /\ UNCHANGED <<pc, mNext, mFinalizers, calls, obj, destroyed>>
    BY <1>2 DEF NewObject
  <2>2. built \in Nat /\ \A o \in Object : o \in Nat /\ o >= 1
    BY ObjectFacts DEF TypeOK
  <2>3. CallsInv'
    BY <2>1, <2>2 DEF FInv, CallsInv
  <2>4. ChainInv' /\ WalkInv'
    BY <2>1 DEF FInv, ChainInv, WalkInv, Before, Registered
  <2>5. QED BY <2>3, <2>4 DEF FInv
<1>3. CASE Destroy
  <2>1. /\ pc = "alive" /\ pc' = "finalizing" /\ obj' = mFinalizers /\ \A o \in 1..built : calls[o] = Calls[o]
        /\ UNCHANGED <<mNext, mFinalizers, calls, built, destroyed>>
    BY <1>3 DEF Destroy, finalizerVars
  <2>2. built \in Nat /\ \A o \in Object : o \in Nat /\ o >= 1 /\ o < Len(Calls) + 1
    BY ObjectFacts DEF TypeOK
  <2>3. CallsInv' /\ ChainInv'
    BY <2>1, <2>2 DEF FInv, CallsInv, ChainInv, Before, Registered
  <2>4. IF mFinalizers = Null THEN Registered = {}
        ELSE mFinalizers \in Registered /\ \A o \in Registered : o <= mFinalizers
    <3>1. Before(mFinalizers, Len(Calls) + 1)
      BY DEF FInv, ChainInv
    <3>2. \A o \in Registered : o < Len(Calls) + 1 /\ ~(o >= Len(Calls) + 1)
      BY <2>2, ObjectFacts
    <3>3. QED BY <3>1, <3>2 DEF Before
  <2>5. \A o \in Object : ~(o \in Registered /\ (mFinalizers = Null \/ o > mFinalizers))
    BY <2>2, <2>4, ObjectFacts
  <2>6. WalkInv'
    BY <2>1, <2>4, <2>5 DEF FInv, WalkInv, Registered
  <2>7. QED BY <2>3, <2>6 DEF FInv
<1>4. CASE RegisterFinalizer
  BY <1>4, RegisterKeeps
<1>5. CASE Finalize
  BY <1>5, FinalizeKeeps
<1>6. CASE EndFinalizing \/ EndFreeing
  <2>1. /\ \/ pc = "finalizing" /\ obj = Null /\ pc' = "freeing"
           \/ pc = "freeing" /\ pc' = "gone"
        /\ UNCHANGED <<mNext, mFinalizers, calls, built, obj, destroyed>>
    BY <1>6 DEF EndFinalizing, EndFreeing, finalizerVars
  <2>2. QED BY <2>1 DEF FInv, CallsInv, ChainInv, WalkInv, Before, Registered
<1>7. QED BY <1>1, <1>2, <1>3, <1>4, <1>5, <1>6 DEF Next, Destructor

\* Every object that registered is destroyed once and no other one, for any number of
\* objects and of classes that register them, as long as the first one to register does
\* so once (GC.cpp; DeveloperNotes.md:17-19 promises it without that condition).
THEOREM FinalizersRunOnce ==
  ASSUME FirstRegistersOnce
  PROVE  Spec => []FinalizedOnce
<1>1. Init => FInv
  <2> SUFFICES ASSUME Init PROVE FInv
    OBVIOUS
  <2>1. Registered = {} /\ built = 0 /\ pc = "alive" /\ mFinalizers = Null
        /\ \A o \in Object : calls[o] = 0 /\ mNext[o] = Null /\ destroyed[o] = 0
    BY DEF Init, Registered
  <2>2. QED BY <2>1, ObjectFacts DEF FInv, CallsInv, ChainInv, WalkInv, Before
<1>2. IInv /\ FInv /\ [Next]_vars => FInv'
  BY FinalizersInductive DEF IInv
<1>3. IInv /\ FInv => FinalizedOnce
  <2> SUFFICES ASSUME TypeOK, FInv PROVE FinalizedOnce
    BY DEF IInv
  <2>1. \A o \in Object : destroyed[o] \in {0, 1}
    BY DEF FInv, WalkInv, TypeOK
  <2>2. ASSUME pc \in {"freeing", "gone"}, NEW o \in Object
        PROVE  destroyed[o] = IF o <= built /\ Calls[o] > 0 THEN 1 ELSE 0
    <3>1. o \in Registered <=> o <= built /\ Calls[o] > 0
      <4>1. o <= built => calls[o] = Calls[o]
        BY <2>2 DEF FInv, CallsInv
      <4>2. calls[o] > 0 => o <= built
        BY DEF FInv, CallsInv
      <4>3. QED BY <4>1, <4>2 DEF Registered
    <3>2. QED BY <2>2, <3>1 DEF FInv, WalkInv
  <2>3. QED BY <2>1, <2>2 DEF FinalizedOnce
<1>4. QED BY <1>1, <1>2, <1>3, Invariance, PTL DEF Spec
=============================================================================
