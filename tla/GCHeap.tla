------------------------------- MODULE GCHeap -------------------------------
(***************************************************************************)
(* The heap of the compiler (Common/GC.cpp): memory is taken from arenas   *)
(* and returned only by ~GCHeap, which first calls the destructors of the  *)
(* objects that registered a finalizer.                                    *)
(*                                                                         *)
(* Arenas are numbered in the order they are obtained from malloc.         *)
(***************************************************************************)
EXTENDS Integers, FiniteSets, Sequences

CONSTANTS
  ArenaSize,   (* bytes of an arena                                        *)
  Sizes,       (* the sizes asked for                                      *)
  MaxAllocs,   (* bound: number of calls of alloc                          *)
  Calls,       (* how often the constructors of the objects register them  *)
  Null,        (* a null pointer                                           *)
  Wild         (* a pointer read from uninitialized memory                 *)

ASSUME GCHeapAssumption ==
  /\ ArenaSize \in Nat \ {0} /\ Sizes \subseteq Nat /\ MaxAllocs \in Nat
  /\ Calls \in Seq(Nat)
  /\ Null \notin Nat /\ Wild \notin Nat \cup {Null}

Arena == 1..MaxAllocs
\* The objects derived from GCObject, in the order they are made.
Object == 1..Len(Calls)

VARIABLES
  pc,          \* "alive", the loop ~GCHeap is in, "gone", or "crashed"
  mallocs,     \* number of arenas obtained so far
  prev, bytesLeft,   \* Arena::prev and Arena::bytesLeft
  mArena,      \* the arena small blocks are taken from
  chunks,      \* blocks handed out: arena, position in it, size, number
  freed,       \* arenas given to free
  mNext,       \* GCObject::mNext
  mFinalizers, \* the object registered last
  calls,       \* calls of registerFinalizer made so far
  built,       \* number of objects made so far
  obj,         \* the object ~GCHeap is at
  destroyed    \* number of destructor calls

arenaVars == <<mallocs, prev, bytesLeft, mArena, chunks>>
finalizerVars == <<mNext, mFinalizers, calls, built>>
vars == <<pc, arenaVars, freed, finalizerVars, obj, destroyed>>

-----------------------------------------------------------------------------
Large(size) == size >= ArenaSize \div 2
Fits(size) == mArena # Null /\ bytesLeft[mArena] >= size
Hand(arena, from, size) ==
  chunks' = chunks \cup {[arena |-> arena, from |-> from, size |-> size, n |-> Cardinality(chunks)]}

\* A large block gets an arena of its own, behind the current one.  The first arena
\* of the heap is left with the prev malloc gave it.
LinkLargeLosing(arena) ==
  prev' = IF mArena = Null THEN prev ELSE [prev EXCEPT ![mArena] = arena]
LinkLarge(arena) ==
  prev' = IF mArena = Null THEN prev ELSE [prev EXCEPT ![arena] = prev[mArena], ![mArena] = arena]

AllocLarge(size) ==
  LET arena == mallocs + 1 IN
  /\ Large(size)
  /\ mallocs' = arena
  /\ LinkLarge(arena)
  /\ mArena' = IF mArena = Null THEN arena ELSE mArena
  /\ bytesLeft' = [bytesLeft EXCEPT ![arena] = 0]
  /\ Hand(arena, 0, size)

\* Small blocks are taken from the end of the current arena.
TakeBeforeSubtracting(arena, left, size) ==
  /\ bytesLeft' = [bytesLeft EXCEPT ![arena] = left - size]
  /\ Hand(arena, left, size)
Take(arena, left, size) ==
  /\ bytesLeft' = [bytesLeft EXCEPT ![arena] = left - size]
  /\ Hand(arena, left - size, size)

AllocSmall(size) ==
  /\ ~Large(size)
  /\ \/ /\ Fits(size)
        /\ Take(mArena, bytesLeft[mArena], size)
        /\ UNCHANGED <<mallocs, prev, mArena>>
     \/ /\ ~Fits(size)
        /\ mallocs' = mallocs + 1
        /\ prev' = [prev EXCEPT ![mallocs + 1] = mArena]
        /\ mArena' = mallocs + 1
        /\ Take(mallocs + 1, ArenaSize, size)

Bytes(size) == IF size = 0 THEN 1 ELSE size
Alloc(size) ==
  /\ Cardinality(chunks) < MaxAllocs
  /\ AllocLarge(Bytes(size)) \/ AllocSmall(Bytes(size))

AllocBlock ==
  /\ pc = "alive"
  /\ \E size \in Sizes : Alloc(size)
  /\ UNCHANGED <<pc, freed, finalizerVars, obj, destroyed>>

\* The constructors of an object end before the next object is made.
NewObject ==
  /\ pc = "alive"
  /\ built + 1 \in Object
  /\ \A o \in 1..built : calls[o] = Calls[o]
  /\ \E size \in Sizes : Alloc(size)
  /\ built' = built + 1
  /\ UNCHANGED <<pc, freed, mNext, mFinalizers, calls, obj, destroyed>>

RegisterAlways(o) == mNext' = [mNext EXCEPT ![o] = mFinalizers] /\ mFinalizers' = o
Register(o) ==
  IF mNext[o] = Null THEN mNext' = [mNext EXCEPT ![o] = mFinalizers] /\ mFinalizers' = o
  ELSE UNCHANGED <<mNext, mFinalizers>>

RegisterFinalizer ==
  /\ pc = "alive"
  /\ \E o \in 1..built :
       /\ calls[o] < Calls[o]
       /\ calls' = [calls EXCEPT ![o] = @ + 1]
       /\ Register(o)
  /\ UNCHANGED <<pc, arenaVars, freed, built, obj, destroyed>>

-----------------------------------------------------------------------------
(* ~GCHeap.                                                                *)

Destroy ==
  /\ pc = "alive"
  /\ \A o \in 1..built : calls[o] = Calls[o]
  /\ pc' = "finalizing"
  /\ obj' = mFinalizers
  /\ UNCHANGED <<arenaVars, freed, finalizerVars, destroyed>>

\* (The count of destructor calls is capped: it tells only whether there are several.)
Finalize ==
  /\ pc = "finalizing" /\ obj # Null
  /\ destroyed' = [destroyed EXCEPT ![obj] = IF @ < 2 THEN @ + 1 ELSE @]
  /\ obj' = mNext[obj]
  /\ UNCHANGED <<pc, arenaVars, freed, finalizerVars>>

EndFinalizing ==
  /\ pc = "finalizing" /\ obj = Null
  /\ pc' = "freeing"
  /\ UNCHANGED <<arenaVars, freed, finalizerVars, obj, destroyed>>

\* Freeing what was not obtained, or twice, crashes or corrupts the memory.
FreeArena ==
  /\ pc = "freeing" /\ mArena # Null
  /\ IF mArena = Wild \/ mArena \in freed
       THEN pc' = "crashed" /\ UNCHANGED <<mArena, freed>>
       ELSE mArena' = prev[mArena] /\ freed' = freed \cup {mArena} /\ UNCHANGED pc
  /\ UNCHANGED <<mallocs, prev, bytesLeft, chunks, finalizerVars, obj, destroyed>>

EndFreeing ==
  /\ pc = "freeing" /\ mArena = Null
  /\ pc' = "gone"
  /\ UNCHANGED <<arenaVars, freed, finalizerVars, obj, destroyed>>

-----------------------------------------------------------------------------
\* malloc does not clear what it returns, but what it returns may be clear.
Init ==
  /\ pc = "alive"
  /\ mallocs = 0 /\ mArena = Null /\ chunks = {} /\ freed = {}
  /\ \E p \in {Null, Wild} : prev = [a \in Arena |-> p]
  /\ bytesLeft = [a \in Arena |-> 0]
  /\ mNext = [o \in Object |-> Null] /\ mFinalizers = Null
  /\ calls = [o \in Object |-> 0] /\ built = 0
  /\ obj = Null /\ destroyed = [o \in Object |-> 0]

Destructor == Finalize \/ EndFinalizing \/ FreeArena \/ EndFreeing
Over == pc \in {"gone", "crashed"} /\ UNCHANGED vars
Next == AllocBlock \/ NewObject \/ RegisterFinalizer \/ Destroy \/ Destructor \/ Over

\* Nothing here is owed: the program may stop asking for blocks at any time.
Spec == Init /\ [][Next]_vars

-----------------------------------------------------------------------------
Chunk == [arena : Arena, from : Int, size : Nat, n : Nat]

\* Every variable has the type of the field it stands for.
TypeOK ==
  /\ pc \in {"alive", "finalizing", "freeing", "gone", "crashed"}
  /\ mallocs \in 0..MaxAllocs
  /\ prev \in [Arena -> Arena \cup {Null, Wild}]
  /\ bytesLeft \in [Arena -> 0..ArenaSize]
  /\ mArena \in Arena \cup {Null, Wild}
  /\ chunks \subseteq Chunk
  /\ freed \subseteq Arena
  /\ mNext \in [Object -> Object \cup {Null}] /\ mFinalizers \in Object \cup {Null}
  /\ calls \in [Object -> Nat] /\ built \in Object \cup {0}
  /\ obj \in Object \cup {Null} /\ destroyed \in [Object -> 0..2]

\* Two blocks never share a byte, and a small one lies in its arena, though small
\* and large ones are asked for in any order.
BlocksDisjoint ==
  \A b, c \in chunks :
    /\ b.size > 0 /\ b.from >= 0
    /\ ~Large(b.size) => b.from + b.size <= ArenaSize
    /\ b # c /\ b.arena = c.arena => b.from + b.size <= c.from \/ c.from + c.size <= b.from

\* DeveloperNotes.md:17-19: the destructor of an object that registered, be it in the
\* constructors of several of its classes, is called once, of any other one never;
\* all are called before the memory is freed.
FinalizedOnce ==
  /\ \A o \in Object : destroyed[o] <= 1
  /\ pc \in {"freeing", "gone"} =>
       \A o \in Object : destroyed[o] = IF o <= built /\ Calls[o] > 0 THEN 1 ELSE 0

\* What is allocated is reachable from the current arena until the heap goes, and
\* then every arena is freed, unless the uninitialized prev led elsewhere.
ArenasFreed == pc = "gone" => freed = 1..mallocs
=============================================================================
