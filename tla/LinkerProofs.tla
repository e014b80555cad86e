---------------------------- MODULE LinkerProofs ----------------------------
(***************************************************************************)
(* Theorems about Linker, for any number of files and sections, any        *)
(* projects and any width of a word.                                       *)
(***************************************************************************)
EXTENDS Linker, FiniteSetTheorems, WellFoundedInduction, TLAPS

-----------------------------------------------------------------------------
(* Facts about the projects and about size_t arithmetic.                   *)

\* What the proofs need to know of the types of a project and of its order.
LEMMA ProjectFacts ==
  ASSUME project \in Project
  PROVE  /\ \A s \in Section :
              /\ project.file[s] \in File
              /\ project.base[s] \in Opt(Word)
              /\ project.offset[s] \in Opt(Word)
              /\ project.align[s] \in Opt(Word)
              /\ project.length[s] \in Word
              /\ project.packed[s] \in Word
              /\ project.compressed[s] \in BOOLEAN
         /\ \A g \in File : project.start[g] \in Opt(Word) /\ project.until[g] \in Opt(Word)
         /\ project.attachment \in [Section -> {"Lower", "Upper"}]
         /\ \A s, t \in Section : s <= t => project.file[s] <= project.file[t]
<1>1. project \in ProjectType
  BY LinkerAssumption
<1>2. \A s, t \in Section : s <= t => project.file[s] <= project.file[t]
  BY LinkerAssumption
<1>3. QED BY <1>1, <1>2 DEF ProjectType

LEMMA BoundFacts ==
  /\ N \in Nat /\ F \in Nat /\ WordMax \in Nat /\ SizeMod \in Nat
  /\ 4 * WordMax < SizeMod /\ 2 * WordMax < SizeMod
BY LinkerAssumption

\* The numbers None differs from.
LEMMA NumberFacts ==
  /\ N \in Nat /\ F \in Nat /\ WordMax \in Nat /\ SizeMod \in Nat /\ 2 * WordMax < SizeMod
  /\ Word \subseteq SizeT /\ SizeT \subseteq Nat /\ Section \subseteq Nat /\ File \subseteq Nat
  /\ None \notin SizeT /\ None \notin Word /\ None \notin Nat
BY LinkerAssumption DEF Word, SizeT, Section, File

\* Rounding down stays between zero and the address.
LEMMA ModFacts ==
  ASSUME NEW a \in Nat, NEW n \in Nat, n # 0
  PROVE  a % n \in 0..a
<1>1. a % n \in 0..(n - 1) /\ a = n * (a \div n) + (a % n) /\ a \div n \in Int
  OBVIOUS
<1>2. a \div n >= 0
  BY SMT
<1>3. n * (a \div n) >= 0
  BY <1>2, SMT
<1>4. QED BY <1>1, <1>3

\* Addresses stay in a size_t: sums wrap, and rounding never leaves it.
LEMMA SizeTArithmetic ==
  ASSUME NEW a \in SizeT, NEW b \in SizeT, NEW n \in Opt(Word), n # 0
  PROVE  /\ Plus(a, b) \in SizeT
         /\ Minus(a, b) \in SizeT
         /\ AlignUp(a, n) \in SizeT
         /\ AlignDown(a, n) \in SizeT
<1>1. Plus(a, b) \in SizeT /\ Minus(a, b) \in SizeT
  BY NumberFacts DEF Plus, Minus, SizeT
<1>2. CASE n = None
  BY <1>1, <1>2 DEF AlignUp, AlignDown
<1>3. CASE n # None
  <2>1. n \in Nat /\ n # 0 /\ n - 1 \in SizeT
    BY <1>3, NumberFacts DEF Opt, Word, SizeT
  <2>2. Plus(a, n - 1) \in SizeT
    BY <2>1, NumberFacts DEF Plus, SizeT
  <2>3. Plus(a, n - 1) % n \in 0..Plus(a, n - 1) /\ a % n \in 0..a
    BY <2>1, <2>2, ModFacts, NumberFacts
  <2>4. QED BY <1>1, <1>3, <2>2, <2>3, NumberFacts DEF AlignUp, AlignDown, SizeT
<1>4. QED BY <1>1, <1>2, <1>3

\* First(g) is not after any section of file g.
LEMMA FirstFacts ==
  ASSUME project \in Project, NEW g \in Int
  PROVE  /\ First(g) \in 1..(N + 1)
         /\ \A s \in SectionsOf(g) : First(g) <= s
<1> DEFINE Before == {s \in Section : project.file[s] < g}
<1>1. IsFiniteSet(Section) /\ Cardinality(Section) = N
  BY FS_Interval, NumberFacts DEF Section
<1>2. Cardinality(Before) \in Nat /\ Cardinality(Before) <= N
  BY <1>1, FS_Subset, FS_CardinalityType
<1>3. ASSUME NEW s \in SectionsOf(g)
      PROVE  1 + Cardinality(Before) <= s
  <2>1. s \in Nat /\ s >= 1 /\ s \in Section /\ project.file[s] = g
    BY <1>3 DEF SectionsOf, Section
  <2>2. \A t \in Before : t < s
    BY <2>1, ProjectFacts, NumberFacts DEF Section, File
  <2>3. Before \subseteq 1..(s - 1)
    BY <2>1, <2>2 DEF Section
  <2>4. IsFiniteSet(1..(s - 1)) /\ Cardinality(1..(s - 1)) = s - 1
    BY <2>1, FS_Interval
  <2>5. Cardinality(Before) <= s - 1
    BY <2>3, <2>4, FS_Subset
  <2>6. QED BY <1>2, <2>1, <2>5
<1>4. QED BY <1>2, <1>3, NumberFacts DEF First

\* A non-empty set of placed sections has a lowest one.
LEMMA LowestFacts ==
  ASSUME NEW S, S \subseteq Section, S # {}, \A s \in S : offset[s] \in Nat
  PROVE  Lowest(S) # {} /\ Lowest(S) \subseteq S
<1> DEFINE O == {offset[s] : s \in S}
<1>1. O \subseteq Nat /\ O # {}
  OBVIOUS
<1>2. PICK x \in O : \A y \in O : <<y, x>> \notin OpToRel(<, Nat)
  BY <1>1, WFMin, NatLessThanWellFounded
<1>3. \A y \in O : ~(y < x)
  BY <1>1, <1>2 DEF OpToRel
<1>4. PICK s \in S : offset[s] = x
  OBVIOUS
<1>5. s \in Lowest(S)
  BY <1>3, <1>4 DEF Lowest
<1>6. QED BY <1>5 DEF Lowest

-----------------------------------------------------------------------------
(* The inductive invariant.                                                *)

Constructing == {"construct", "ctorSize", "ctorFrom", "ctorUntil", "ctorTo", "ctorAnchor"}
AfterBases == {"ctorFrom", "ctorUntil", "ctorTo", "ctorAnchor"}
OnSection == {"placeTo", "placeAfter", "placeFrom", "placeNext"}
Resolving == {"sizes", "compress", "place"} \cup OnSection
Generated == {"generate", "copy", "symbols", "linked"}

\* Where the loop variables are.
CursorInv ==
  /\ pc \in (Constructing \ {"construct"}) \cup Resolving => f \in File /\ i >= 1
  /\ pc \in OnSection => i \in SectionsOf(f) /\ offset[i] # None /\ labels[i]
  /\ pc = "placeFrom" /\ k # 0 => size[i] # None
  /\ pc = "ctorSize" => ~BadSections(f)
  /\ pc = "copy" => f \in File /\ SectionsOf(f) # {}

\* The constructor gives the sections of a file their bases and file offsets while
\* they still have none.
FreshInv ==
  /\ pc \in Constructing =>
       \A s \in Section : project.file[s] > f => base[s] = None /\ offset[s] = None
  /\ pc \in {"construct", "ctorSize"} =>
       \A s \in Section : project.file[s] = f => base[s] = None /\ offset[s] = None

\* What is known of a section is what its project says, in the order in which the
\* loops find it out.
KnownInv ==
  \A s \in Section :
    /\ size[s] # None => size[s] = IF project.compressed[s] THEN project.packed[s] ELSE project.length[s]
    /\ project.compressed[s] => (size[s] = None <=> code[s] = None)
    /\ offset[s] # None => base[s] # None

\* While hasUnresolved is FALSE, the sections the third loop of tryResolve has
\* passed are complete, and the one it is at becomes so.
PassedInv ==
  /\ pc \in {"place"} \cup OnSection /\ ~hasUnresolved => \A s \in SectionsOf(f) : s < i => Complete(s)
  /\ pc \in OnSection /\ ~hasUnresolved =>
       /\ ~project.compressed[i] => code[i] # None
       /\ pc \in {"placeFrom", "placeNext"} => size[i] # None

\* mIsResolved is set for files with complete sections only.
FileInv == \A g \in File : isResolved[g] => \A s \in SectionsOf(g) : Complete(s)

\* While resolvedAll is TRUE, the files the sweep has passed are complete.
SweepInv ==
  pc \in {"file"} \cup Resolving /\ resolvedAll =>
    \A s \in Section : project.file[s] < f => Complete(s)

\* generateCode runs with complete sections only, and before it nothing is copied.
GenerateInv ==
  /\ pc \in Generated => \A s \in Section : Complete(s)
  /\ pc \notin Generated \cup {"failed"} => \A s \in Section : image[s] = None

\* The files are generated in turn.
TurnInv ==
  /\ pc = "generate" => \A s \in Section : image[s] # None <=> project.file[s] < f
  /\ pc = "copy" =>
       \A s \in Section :
         /\ image[s] # None => project.file[s] <= f
         /\ project.file[s] < f => image[s] # None
  /\ pc \in {"symbols", "linked"} => \A s \in Section : image[s] # None

\* The sections of a file are copied by increasing offset, each ending at or before
\* the next byte to write, unless one is stored above 64K.
CopyInv ==
  pc = "copy" =>
    /\ \A s, t \in SectionsOf(f) : image[s] # None /\ image[t] = None => offset[s] <= offset[t]
    /\ \A s \in SectionsOf(f) :
         /\ image[s] # None /\ size[s] > 0
         /\ \A t \in SectionsOf(f) : image[t] # None => offset[t] <= WordMax
         => offset[s] + size[s] <= out

IInv ==
  /\ TypeOK /\ project \in Project
  /\ CursorInv /\ FreshInv /\ KnownInv /\ PassedInv /\ FileInv /\ SweepInv
  /\ GenerateInv /\ TurnInv /\ CopyInv /\ NoOverlap

-----------------------------------------------------------------------------
(* What a step preserves because of the phase it belongs to.               *)

LEMMA InvFacts ==
  ASSUME IInv
  PROVE  /\ project \in Project /\ TypeOK /\ CursorInv /\ FreshInv /\ KnownInv /\ PassedInv
         /\ FileInv /\ SweepInv /\ GenerateInv /\ TurnInv /\ CopyInv /\ NoOverlap
BY DEF IInv

\* A CompilerError ends the program and changes nothing else.
LEMMA FailKeeps ==
  ASSUME IInv, NEW why \in Errors, Fail(why)
  PROVE  IInv'
<1>1. /\ pc' = "failed" /\ error' = why
      /\ UNCHANGED <<project, f, i, k, addr, attachment, size, base, offset, labels, code>>
      /\ UNCHANGED <<isResolved, hasUnresolved, didResolve, resolvedAll, image, out, written, load>>
  BY DEF Fail, sectionVars, sweepVars, outputVars
<1>2. TypeOK' /\ project' \in Project
  BY <1>1, InvFacts DEF TypeOK, Opt
<1>3. \A s \in Section : Complete(s) <=> Complete(s)'
  BY <1>1 DEF Complete
<1>4. KnownInv' /\ NoOverlap'
  BY <1>1, InvFacts DEF KnownInv, NoOverlap
<1>5. FileInv'
  BY <1>1, <1>3, InvFacts DEF FileInv, SectionsOf
<1>6. CursorInv' /\ FreshInv' /\ PassedInv' /\ SweepInv' /\ GenerateInv' /\ TurnInv' /\ CopyInv'
  BY <1>1 DEF CursorInv, FreshInv, PassedInv, SweepInv, GenerateInv, TurnInv, CopyInv,
              Constructing, Resolving, OnSection, Generated
<1>7. QED BY <1>2, <1>4, <1>5, <1>6 DEF IInv

\* In the constructor nothing is copied, and no file is passed by a sweep.
LEMMA ConstructingStep ==
  ASSUME IInv, pc \in Constructing, pc' \in Constructing \cup {"sweep"},
         UNCHANGED <<project, image, isResolved>>,
         \A s \in Section : Complete(s) => Complete(s)'
  PROVE  PassedInv' /\ FileInv' /\ SweepInv' /\ GenerateInv' /\ TurnInv' /\ CopyInv' /\ NoOverlap'
<1>1. PassedInv' /\ SweepInv' /\ TurnInv' /\ CopyInv'
  BY DEF PassedInv, SweepInv, TurnInv, CopyInv, Constructing, Resolving, OnSection
<1>2. \A s \in Section : image[s] = None /\ image'[s] = None
  BY InvFacts DEF GenerateInv, Constructing, Generated
<1>3. GenerateInv' /\ NoOverlap'
  BY <1>2 DEF GenerateInv, NoOverlap, Constructing, Generated
<1>4. FileInv'
  BY InvFacts DEF FileInv, SectionsOf
<1>5. QED BY <1>1, <1>3, <1>4

\* While a sweep resolves a file, nothing is copied, and what is complete stays so.
LEMMA ResolvingStep ==
  ASSUME IInv, pc \in Resolving, pc' \in Resolving,
         UNCHANGED <<project, f, image, isResolved, resolvedAll>>,
         \A s \in Section : Complete(s) => Complete(s)'
  PROVE  FreshInv' /\ FileInv' /\ SweepInv' /\ GenerateInv' /\ TurnInv' /\ CopyInv' /\ NoOverlap'
<1>1. FreshInv' /\ TurnInv' /\ CopyInv'
  BY DEF FreshInv, TurnInv, CopyInv, Constructing, Resolving, OnSection
<1>2. \A s \in Section : image[s] = None /\ image'[s] = None
  BY InvFacts DEF GenerateInv, Resolving, OnSection, Generated
<1>3. GenerateInv' /\ NoOverlap'
  BY <1>2 DEF GenerateInv, NoOverlap, Resolving, OnSection, Generated
<1>4. FileInv' /\ SweepInv'
  BY InvFacts DEF FileInv, SweepInv, SectionsOf
<1>5. QED BY <1>1, <1>3, <1>4

-----------------------------------------------------------------------------
(* The steps of the constructor preserve the invariant.                    *)

LEMMA ConstructFileKeeps ==
  ASSUME IInv, ConstructFile
  PROVE  IInv'
<1>1. pc = "construct" /\ f \in 1..(F + 1)
  BY InvFacts DEF ConstructFile, TypeOK
<1>2. CASE Fail("invalid")
  BY <1>2, FailKeeps DEF Errors
<1>3. CASE /\ f \notin File /\ pc' = "sweep"
           /\ UNCHANGED <<project, error, f, i, k, addr, sectionVars, sweepVars, outputVars>>
  <2>1. UNCHANGED <<project, error, f, i, k, addr, attachment, size, base, offset, labels, code,
                    isResolved, hasUnresolved, didResolve, resolvedAll, image, out, written, load>>
    BY <1>3 DEF sectionVars, sweepVars, outputVars
  <2>2. TypeOK' /\ project' \in Project /\ KnownInv'
    BY <1>3, <2>1, InvFacts DEF TypeOK, Loops, KnownInv
  <2>3. CursorInv' /\ FreshInv'
    BY <1>3 DEF CursorInv, FreshInv, Constructing, Resolving, OnSection
  <2>4. \A s \in Section : Complete(s) => Complete(s)'
    BY <2>1 DEF Complete
  <2>5. QED BY <1>1, <1>3, <2>1, <2>2, <2>3, <2>4, ConstructingStep DEF IInv, Constructing
<1>4. CASE /\ f \in File /\ ~BadSections(f) /\ pc' = "ctorSize" /\ i' = First(f)
           /\ UNCHANGED <<project, error, f, k, addr, sectionVars, sweepVars, outputVars>>
  <2>1. UNCHANGED <<project, error, f, k, addr, attachment, size, base, offset, labels, code,
                    isResolved, hasUnresolved, didResolve, resolvedAll, image, out, written, load>>
    BY <1>4 DEF sectionVars, sweepVars, outputVars
  <2>2. i' \in 1..(N + 1)
    BY <1>4, InvFacts, FirstFacts, NumberFacts
  <2>3. i' \in 0..(N + 1) /\ i' >= 1
    BY <2>2, BoundFacts
  <2>4. TypeOK' /\ project' \in Project /\ KnownInv'
    BY <1>4, <2>1, <2>3, InvFacts DEF TypeOK, Loops, KnownInv
  <2>5. BadSections(f)' = BadSections(f)
    BY <2>1 DEF BadSections, SectionsOf
  <2>6. CursorInv'
    BY <1>4, <2>1, <2>3, <2>5 DEF CursorInv, Constructing, Resolving, OnSection
  <2>7. FreshInv'
    BY <1>1, <1>4, <2>1, InvFacts DEF FreshInv, Constructing
  <2>8. \A s \in Section : Complete(s) => Complete(s)'
    BY <2>1 DEF Complete
  <2>9. QED BY <1>1, <1>4, <2>1, <2>4, <2>6, <2>7, <2>8, ConstructingStep DEF IInv, Constructing
<1>5. QED BY <1>2, <1>3, <1>4 DEF ConstructFile, Goto

LEMMA CtorSizeKeeps ==
  ASSUME IInv, CtorSize
  PROVE  IInv'
<1>1. pc = "ctorSize" /\ i \in SectionsOf(f) /\ i \in Section /\ f \in File
  BY InvFacts DEF CtorSize, SectionsOf, CursorInv, Constructing
<1>2. CASE Fail("ambiguous")
  BY <1>2, FailKeeps DEF Errors
<1>3. CASE ~Fail("ambiguous")
  <2>0. \/ size' = size
        \/ ~project.compressed[i] /\ size' = [size EXCEPT ![i] = project.length[i]]
    <3>1. CASE project.compressed[i]
      BY <1>3, <3>1 DEF CtorSize
    <3>2. CASE ~project.compressed[i]
      BY <1>3, <3>2 DEF CtorSize
    <3>3. QED BY <3>1, <3>2
  <2>1. /\ pc' = "ctorSize" /\ i' = i + 1
        /\ UNCHANGED <<project, error, f, k, addr, attachment, base, offset, labels, code,
                       isResolved, hasUnresolved, didResolve, resolvedAll, image, out, written, load>>
    BY <1>3 DEF CtorSize, Goto, sweepVars, outputVars
  <2>2. i' \in 0..(N + 1) /\ i' >= 1
    BY <1>1, <2>1, BoundFacts DEF Section
  <2>3. size \in [Section -> Opt(Word)] /\ project.length[i] \in Opt(Word)
    BY <1>1, InvFacts, ProjectFacts DEF TypeOK, Opt
  <2>4. size' \in [Section -> Opt(Word)]
    BY <2>0, <2>3
  <2>5. \A s \in Section :
          size'[s] = size[s] \/ (size'[s] = project.length[s] /\ ~project.compressed[s])
    BY <2>0, <2>3
  <2>6. TypeOK' /\ project' \in Project
    BY <2>1, <2>2, <2>4, InvFacts DEF TypeOK, Loops
  <2>7. KnownInv'
    BY <2>1, <2>5, InvFacts DEF KnownInv
  <2>8. BadSections(f)' = BadSections(f)
    BY <2>1 DEF BadSections, SectionsOf
  <2>9. CursorInv'
    BY <1>1, <2>1, <2>2, <2>8, InvFacts DEF CursorInv, Resolving, OnSection
  <2>10. FreshInv'
    BY <1>1, <2>1, InvFacts DEF FreshInv, Constructing
  <2>11. \A s \in Section : Complete(s) => Complete(s)'
    BY <2>1, <2>5, InvFacts, ProjectFacts, NumberFacts DEF Complete
  <2>12. QED BY <1>1, <2>1, <2>6, <2>7, <2>9, <2>10, <2>11, ConstructingStep DEF IInv, Constructing
<1>4. QED BY <1>2, <1>3

\* A section that had no file offset gets one, and a base if it had none.
LEMMA PlaceKeeps ==
  ASSUME IInv, NEW s \in Section, NEW at \in SizeT, Place(s, at), offset[s] = None, project' = project
  PROVE  /\ offset' \in [Section -> Opt(SizeT)] /\ base' \in [Section -> Opt(SizeT)]
         /\ \A t \in Section : t # s => offset'[t] = offset[t] /\ base'[t] = base[t]
         /\ \A t \in Section : base[t] # None => base'[t] = base[t]
         /\ didResolve' = TRUE
         /\ UNCHANGED <<f, i, attachment, size, labels, code,
                        isResolved, hasUnresolved, resolvedAll, image, out, written, load>>
         /\ KnownInv'
         /\ \A t \in Section : Complete(t) => Complete(t)'
<1>1. /\ offset' = [offset EXCEPT ![s] = at]
      /\ base' = [base EXCEPT ![s] = IF base[s] = None THEN at ELSE base[s]]
      /\ didResolve' = TRUE
      /\ UNCHANGED <<f, i, attachment, size, labels, code,
                     isResolved, hasUnresolved, resolvedAll, image, out, written, load>>
  BY DEF Place, outputVars
<1>2. offset \in [Section -> Opt(SizeT)] /\ base \in [Section -> Opt(SizeT)]
  BY InvFacts DEF TypeOK
<1>3. at \in Opt(SizeT) /\ at # None
  BY NumberFacts DEF Opt
<1>4. /\ offset'[s] = at
      /\ base'[s] = IF base[s] = None THEN at ELSE base[s]
      /\ \A t \in Section : t # s => offset'[t] = offset[t] /\ base'[t] = base[t]
  BY <1>1, <1>2
<1>5. offset' \in [Section -> Opt(SizeT)] /\ base' \in [Section -> Opt(SizeT)]
  BY <1>1, <1>2, <1>3
<1>6. KnownInv'
  BY <1>1, <1>3, <1>4, InvFacts DEF KnownInv
<1>7. \A t \in Section : Complete(t) => Complete(t)'
  BY <1>1, <1>4 DEF Complete
<1>8. QED BY <1>1, <1>4, <1>5, <1>6, <1>7

\* What one step of resolveSectionsFrom or resolveSectionsTo does, if it does not
\* throw.
Placement(here, next) ==
  /\ pc = here /\ pc' \in {here, next}
  /\ TypeOK' /\ project' = project /\ KnownInv'
  /\ \A s \in Section : Complete(s) => Complete(s)'
  /\ \A s \in Section : offset[s] # None => offset'[s] = offset[s]
  /\ \A s \in Section : base[s] # None => base'[s] = base[s]
  /\ \A s \in Section \ SectionsOf(f) : offset'[s] = offset[s] /\ base'[s] = base[s]
  /\ k' # k => k # 0
  /\ UNCHANGED <<f, i, attachment, size, labels, code,
                 isResolved, hasUnresolved, resolvedAll, image, out, written, load>>

LEMMA LeaveLoopIsPlacement ==
  ASSUME IInv, NEW here, NEW next \in Loops, pc = here, LeaveLoop(next)
  PROVE  Placement(here, next)
<1>1. pc' = next
      /\ UNCHANGED <<project, error, f, i, k, addr, attachment, size, base, offset, labels, code,
                     isResolved, hasUnresolved, didResolve, resolvedAll, image, out, written, load>>
  BY DEF LeaveLoop, Goto, sectionVars, sweepVars, outputVars
<1>2. TypeOK'
  BY <1>1, InvFacts DEF TypeOK
<1>3. KnownInv' /\ \A s \in Section : Complete(s) => Complete(s)'
  BY <1>1, InvFacts DEF KnownInv, Complete
<1>4. QED BY <1>1, <1>2, <1>3 DEF Placement

LEMMA SectionsFromIsPlacement ==
  ASSUME IInv, NEW here \in Loops, NEW next \in Loops, SectionsFrom(here, next), ~Fail("alignment")
  PROVE  Placement(here, next)
<1>1. pc = here
  BY DEF SectionsFrom
<1>2. CASE LeaveLoop(next)
  BY <1>1, <1>2, LeaveLoopIsPlacement
<1>3. CASE ~LeaveLoop(next)
  <2> DEFINE at == AlignUp(addr, project.align[k])
  <2>1. /\ k \in SectionsOf(f) /\ offset[k] = None /\ project.align[k] # 0
        /\ Place(k, at) /\ project' = project /\ error' = error
        /\ \/ size[k] = None /\ pc' = next /\ k' = k /\ addr' = addr
           \/ size[k] # None /\ pc' = here /\ k' = k + 1 /\ addr' = Plus(at, size[k])
    BY <1>3 DEF SectionsFrom, MayPlaceFrom, Goto
  <2>2. k \in Section /\ k \in 1..N
    BY <2>1 DEF SectionsOf, Section
  <2>3. project.align[k] \in Opt(Word) /\ addr \in SizeT /\ size[k] \in Opt(Word)
    BY <2>2, InvFacts, ProjectFacts DEF TypeOK
  <2>4. at \in SizeT
    BY <2>1, <2>3, SizeTArithmetic
  <2>5. size[k] # None => Plus(at, size[k]) \in SizeT
    <3>1. size[k] # None => size[k] \in SizeT
      BY <2>3, NumberFacts DEF Opt
    <3>2. QED BY <2>1, <2>3, <2>4, <3>1, SizeTArithmetic
  <2>6. k' \in 0..(N + 1) /\ k # 0
    BY <2>1, <2>2, BoundFacts
  <2>7. /\ offset' \in [Section -> Opt(SizeT)] /\ base' \in [Section -> Opt(SizeT)]
        /\ \A t \in Section : t # k => offset'[t] = offset[t] /\ base'[t] = base[t]
        /\ \A t \in Section : base[t] # None => base'[t] = base[t]
        /\ didResolve' = TRUE
        /\ UNCHANGED <<f, i, attachment, size, labels, code,
                       isResolved, hasUnresolved, resolvedAll, image, out, written, load>>
        /\ KnownInv' /\ \A t \in Section : Complete(t) => Complete(t)'
    BY <2>1, <2>2, <2>4, PlaceKeeps
  <2>8. TypeOK'
    BY <2>1, <2>3, <2>5, <2>6, <2>7, InvFacts DEF TypeOK
  <2>9. QED BY <1>1, <2>1, <2>2, <2>6, <2>7, <2>8 DEF Placement
<1>4. QED BY <1>2, <1>3

LEMMA SectionsToIsPlacement ==
  ASSUME IInv, NEW here \in Loops, NEW next \in Loops, SectionsTo(here, next), ~Fail("alignment")
  PROVE  Placement(here, next)
<1>1. pc = here
  BY DEF SectionsTo
<1>2. CASE LeaveLoop(next)
  BY <1>1, <1>2, LeaveLoopIsPlacement
<1>3. CASE ~LeaveLoop(next)
  <2> DEFINE at == AlignDown(Minus(addr, size[k]), project.align[k])
  <2>1. /\ k \in SectionsOf(f) /\ offset[k] = None /\ project.align[k] # 0
        /\ Place(k, at) /\ project' = project /\ error' = error
        /\ size[k] # None /\ pc' = here /\ k' = k - 1 /\ addr' = at
    BY <1>3 DEF SectionsTo, MayPlaceTo, Goto
  <2>2. k \in Section /\ k \in 1..N
    BY <2>1 DEF SectionsOf, Section
  <2>3. project.align[k] \in Opt(Word) /\ addr \in SizeT /\ size[k] \in Opt(Word)
    BY <2>2, InvFacts, ProjectFacts DEF TypeOK
  <2>4. size[k] \in SizeT
    BY <2>1, <2>3, NumberFacts DEF Opt
  <2>5. at \in SizeT
    <3>1. Minus(addr, size[k]) \in SizeT
      BY <2>1, <2>3, <2>4, SizeTArithmetic
    <3>2. QED BY <2>1, <2>3, <3>1, SizeTArithmetic
  <2>6. k' \in 0..(N + 1) /\ k # 0
    BY <2>1, <2>2, BoundFacts
  <2>7. /\ offset' \in [Section -> Opt(SizeT)] /\ base' \in [Section -> Opt(SizeT)]
        /\ \A t \in Section : t # k => offset'[t] = offset[t] /\ base'[t] = base[t]
        /\ \A t \in Section : base[t] # None => base'[t] = base[t]
        /\ didResolve' = TRUE
        /\ UNCHANGED <<f, i, attachment, size, labels, code,
                       isResolved, hasUnresolved, resolvedAll, image, out, written, load>>
        /\ KnownInv' /\ \A t \in Section : Complete(t) => Complete(t)'
    BY <2>1, <2>2, <2>5, PlaceKeeps
  <2>8. TypeOK'
    BY <2>1, <2>3, <2>5, <2>6, <2>7, InvFacts DEF TypeOK
  <2>9. QED BY <1>1, <2>1, <2>2, <2>6, <2>7, <2>8 DEF Placement
<1>4. QED BY <1>2, <1>3

LEMMA CtorPlacementKeeps ==
  ASSUME IInv,
         \/ SectionsFrom("ctorFrom", "ctorUntil")
         \/ SectionsTo("ctorTo", "ctorAnchor")
  PROVE  IInv'
<1>1. CASE Fail("alignment")
  BY <1>1, FailKeeps DEF Errors
<1>2. ASSUME NEW here \in {"ctorFrom", "ctorTo"}, NEW next \in {"ctorUntil", "ctorAnchor"},
             Placement(here, next)
      PROVE  IInv'
  <2>1. /\ pc \in AfterBases /\ pc' \in AfterBases /\ pc \in Constructing /\ pc' \in Constructing
        /\ pc # "construct" /\ pc # "ctorSize" /\ pc' # "construct" /\ pc' # "ctorSize"
        /\ pc \notin OnSection /\ pc' \notin OnSection /\ pc' \notin {"copy"}
    BY <1>2 DEF Placement, AfterBases, Constructing, OnSection
  <2>2. CursorInv'
    BY <1>2, <2>1, InvFacts DEF CursorInv, Placement, OnSection
  <2>3. FreshInv'
    <3>1. \A s \in Section : project.file[s] > f => s \in Section \ SectionsOf(f)
      BY InvFacts, ProjectFacts, NumberFacts DEF SectionsOf, TypeOK
    <3>2. \A s \in Section : project.file[s] > f => base'[s] = None /\ offset'[s] = None
      BY <1>2, <2>1, <3>1, InvFacts DEF FreshInv, Placement
    <3>3. QED BY <1>2, <2>1, <3>2 DEF FreshInv, Placement
  <2>4. PassedInv' /\ FileInv' /\ SweepInv' /\ GenerateInv' /\ TurnInv' /\ CopyInv' /\ NoOverlap'
    BY <1>2, <2>1, ConstructingStep DEF Placement
  <2>5. QED BY <1>2, <2>2, <2>3, <2>4, InvFacts DEF IInv, Placement
<1>3. QED BY <1>1, <1>2, SectionsFromIsPlacement, SectionsToIsPlacement DEF Loops

LEMMA CtorBasesKeeps ==
  ASSUME IInv, CtorBases
  PROVE  IInv'
<1>1. pc = "ctorSize" /\ f \in File /\ f \in Int /\ i >= 1
  BY InvFacts DEF CtorBases, CursorInv, Constructing, File
<1>2. CASE Fail("alignment")
  BY <1>2, FailKeeps DEF Errors
<1>3. CASE ~Fail("alignment")
  <2>1. /\ pc' = "ctorFrom"
        /\ base' = [s \in Section |-> IF s \in SectionsOf(f) THEN project.base[s] ELSE base[s]]
        /\ offset' = [s \in Section |-> IF s \in SectionsOf(f) THEN CtorOffset(s) ELSE offset[s]]
        /\ attachment' = ConvertUpper(ConvertLower(offset'), offset')
        /\ k' = IF project.start[f] = None THEN 0 ELSE First(f)
        /\ addr' = IF project.start[f] = None THEN 0 ELSE project.start[f]
        /\ UNCHANGED <<project, error, f, i, size, labels, code,
                       isResolved, hasUnresolved, didResolve, resolvedAll, image, out, written, load>>
    BY <1>3 DEF CtorBases, Goto, sweepVars, outputVars
  <2>2. \A s \in Section : project.file[s] = f => base[s] = None /\ offset[s] = None
    BY <1>1, InvFacts DEF FreshInv
  <2>3. \A s \in Section : s \in SectionsOf(f) <=> project.file[s] = f
    BY DEF SectionsOf
  <2>4. \A s \in SectionsOf(f) : CtorOffset(s) # None => project.base[s] # None
    BY <1>1, InvFacts DEF CursorInv, BadSections, CtorOffset
  <2>5. \A s \in Section : CtorOffset(s) \in Opt(Word) /\ project.base[s] \in Opt(Word)
    BY InvFacts, ProjectFacts DEF CtorOffset, Opt
  <2>6. Opt(Word) \subseteq Opt(SizeT)
    BY NumberFacts DEF Opt
  <2>7. base' \in [Section -> Opt(SizeT)] /\ offset' \in [Section -> Opt(SizeT)]
    BY <2>1, <2>5, <2>6, InvFacts DEF TypeOK
  <2>8. attachment' \in [Section -> {"Lower", "Upper"}]
    <3>1. attachment \in [Section -> {"Lower", "Upper"}]
      BY InvFacts DEF TypeOK
    <3>2. ConvertLower(offset') \in [Section -> {"Lower", "Upper"}]
      BY <3>1 DEF ConvertLower
    <3>3. QED BY <2>1, <3>2 DEF ConvertUpper
  <2>9. k' \in 0..(N + 1)
    <3>1. First(f) \in 1..(N + 1)
      BY <1>1, InvFacts, FirstFacts
    <3>2. QED BY <2>1, <3>1, BoundFacts
  <2>10. addr' \in SizeT
    BY <1>1, <2>1, InvFacts, ProjectFacts, NumberFacts DEF Opt, SizeT
  <2>11. TypeOK' /\ project' \in Project
    BY <2>1, <2>7, <2>8, <2>9, <2>10, InvFacts DEF TypeOK, Loops
  <2>12. KnownInv'
    <3>1. \A s \in Section : offset'[s] # None => base'[s] # None
      BY <2>1, <2>3, <2>4, InvFacts DEF KnownInv
    <3>2. QED BY <2>1, <3>1, InvFacts DEF KnownInv
  <2>13. CursorInv'
    BY <1>1, <2>1 DEF CursorInv, Constructing, Resolving, OnSection
  <2>14. FreshInv'
    <3>1. \A s \in Section : project.file[s] > f => base'[s] = None /\ offset'[s] = None
      BY <1>1, <2>1, <2>3, InvFacts DEF FreshInv, Constructing
    <3>2. QED BY <2>1, <3>1 DEF FreshInv
  <2>15. \A s \in Section : Complete(s) => Complete(s)'
    BY <2>1, <2>2, <2>3 DEF Complete
  <2>16. QED BY <1>1, <2>1, <2>11, <2>12, <2>13, <2>14, <2>15, ConstructingStep DEF IInv, Constructing
<1>4. QED BY <1>2, <1>3

LEMMA CtorUntilKeeps ==
  ASSUME IInv, CtorUntil
  PROVE  IInv'
<1>1. /\ pc = "ctorUntil" /\ pc' = "ctorTo"
      /\ k' = IF project.until[f] = None THEN 0 ELSE i - 1
      /\ addr' = IF project.until[f] = None THEN 0 ELSE project.until[f]
      /\ UNCHANGED <<project, error, f, i, attachment, size, base, offset, labels, code,
                     isResolved, hasUnresolved, didResolve, resolvedAll, image, out, written, load>>
  BY DEF CtorUntil, Goto, sectionVars, sweepVars, outputVars
<1>2. f \in File /\ i >= 1 /\ i \in 0..(N + 1)
  BY <1>1, InvFacts DEF CursorInv, Constructing, TypeOK
<1>3. k' \in 0..(N + 1)
  BY <1>1, <1>2, BoundFacts
<1>4. addr' \in SizeT
  BY <1>1, <1>2, InvFacts, ProjectFacts, NumberFacts DEF Opt, SizeT
<1>5. TypeOK' /\ project' \in Project /\ KnownInv'
  BY <1>1, <1>3, <1>4, InvFacts DEF TypeOK, Loops, KnownInv
<1>6. CursorInv' /\ FreshInv'
  BY <1>1, <1>2, InvFacts DEF CursorInv, FreshInv, Constructing, Resolving, OnSection
<1>7. \A s \in Section : Complete(s) => Complete(s)'
  BY <1>1 DEF Complete
<1>8. QED BY <1>1, <1>5, <1>6, <1>7, ConstructingStep DEF IInv, Constructing

LEMMA CtorAnchorKeeps ==
  ASSUME IInv, CtorAnchor
  PROVE  IInv'
<1>1. pc = "ctorAnchor" /\ f \in File /\ f \in 1..(F + 1)
  BY InvFacts DEF CtorAnchor, CursorInv, Constructing, TypeOK
<1>2. CASE Fail("anchor")
  BY <1>2, FailKeeps DEF Errors
<1>3. CASE ~Fail("anchor")
  <2> DEFINE Chosen(s) == NeedsAnchor /\ s \in Anchors /\ \A t \in Anchors : s <= t
  <2>1. /\ pc' = "construct" /\ f' = f + 1
        /\ offset' = [s \in Section |-> IF Chosen(s) THEN base[s] ELSE offset[s]]
        /\ UNCHANGED <<project, error, i, k, addr, attachment, size, base, labels, code,
                       isResolved, hasUnresolved, didResolve, resolvedAll, image, out, written, load>>
    BY <1>3 DEF CtorAnchor, Goto, sweepVars, outputVars
  <2>2. \A s \in Section : Chosen(s) => s \in SectionsOf(f) /\ base[s] # None /\ offset[s] = None
    BY DEF NeedsAnchor, Anchors
  <2> HIDE DEF Chosen
  <2>3. offset' \in [Section -> Opt(SizeT)]
    BY <2>1, InvFacts DEF TypeOK
  <2>4. f' \in 1..(F + 1) /\ f' > f /\ f \in Int /\ f' \in Int
    BY <1>1, <2>1, BoundFacts DEF File
  <2>5. TypeOK' /\ project' \in Project
    BY <2>1, <2>3, <2>4, InvFacts DEF TypeOK, Loops
  <2>6. \A s \in Section :
          offset'[s] = offset[s] \/ (s \in SectionsOf(f) /\ base[s] # None /\ offset[s] = None /\ offset'[s] # None)
    BY <2>1, <2>2
  <2>7. KnownInv'
    BY <2>1, <2>6, InvFacts DEF KnownInv
  <2>8. CursorInv'
    BY <2>1 DEF CursorInv, Constructing, Resolving, OnSection
  <2>9. FreshInv'
    <3>1. \A s \in Section : project.file[s] >= f' => base[s] = None /\ offset[s] = None /\ s \notin SectionsOf(f)
      <4>1. \A s \in Section : project.file[s] \in Int /\ (project.file[s] > f => base[s] = None /\ offset[s] = None)
        BY <1>1, InvFacts, ProjectFacts DEF FreshInv, Constructing, File
      <4>2. QED BY <2>4, <4>1 DEF SectionsOf
    <3>2. \A s \in Section : project.file[s] >= f' => base'[s] = None /\ offset'[s] = None
      BY <2>1, <2>6, <3>1
    <3>3. \A s \in Section : project.file[s] \in Int
      BY InvFacts, ProjectFacts DEF File
    <3>4. QED BY <2>1, <2>4, <3>2, <3>3 DEF FreshInv
  <2>10. \A s \in Section : Complete(s) => Complete(s)'
    BY <2>1, <2>6 DEF Complete
  <2>11. QED BY <1>1, <2>1, <2>5, <2>7, <2>8, <2>9, <2>10, ConstructingStep DEF IInv, Constructing
<1>4. QED BY <1>2, <1>3

-----------------------------------------------------------------------------
(* The steps of the sweeps preserve the invariant.                         *)

\* What holds between two calls of tryResolve.
LEMMA BetweenFiles ==
  ASSUME IInv, pc \in {"construct", "sweep", "file"}, pc' \in {"sweep", "file"},
         UNCHANGED <<project, image, size, offset, base, labels, code, isResolved>>
  PROVE  /\ CursorInv' /\ FreshInv' /\ KnownInv' /\ PassedInv' /\ FileInv' /\ GenerateInv'
         /\ TurnInv' /\ CopyInv' /\ NoOverlap'
         /\ \A s \in Section : Complete(s) => Complete(s)'
<1>1. \A s \in Section : Complete(s) <=> Complete(s)'
  BY DEF Complete
<1>2. CursorInv' /\ FreshInv' /\ PassedInv' /\ TurnInv' /\ CopyInv'
  BY DEF CursorInv, FreshInv, PassedInv, TurnInv, CopyInv, Constructing, Resolving, OnSection
<1>3. KnownInv' /\ NoOverlap'
  BY InvFacts DEF KnownInv, NoOverlap
<1>4. FileInv' /\ GenerateInv'
  BY <1>1, InvFacts DEF FileInv, GenerateInv, Generated, SectionsOf
<1>5. QED BY <1>1, <1>2, <1>3, <1>4

LEMMA StartSweepKeeps ==
  ASSUME IInv, StartSweep
  PROVE  IInv'
<1>1. /\ pc = "sweep" /\ pc' = "file" /\ f' = 1 /\ resolvedAll' = TRUE /\ didResolve' = FALSE
      /\ UNCHANGED <<project, error, i, k, addr, attachment, size, base, offset, labels, code,
                     isResolved, hasUnresolved, image, out, written, load>>
  BY DEF StartSweep, Goto, ResetSweep, sectionVars, outputVars
<1>2. f' \in 1..(F + 1)
  BY <1>1, BoundFacts
<1>3. TypeOK' /\ project' \in Project
  BY <1>1, <1>2, InvFacts DEF TypeOK, Loops
<1>4. \A s \in Section : project.file[s] >= 1 /\ project.file[s] \in Int
  BY InvFacts, ProjectFacts DEF File
<1>5. SweepInv'
  BY <1>1, <1>4 DEF SweepInv
<1>6. QED BY <1>1, <1>3, <1>5, BetweenFiles DEF IInv

LEMMA EndSweepKeeps ==
  ASSUME IInv, EndSweep
  PROVE  IInv'
<1>1. pc = "file" /\ f \in 1..(F + 1) /\ f \notin File
  BY InvFacts DEF EndSweep, TypeOK
<1>2. CASE Fail("unresolved")
  BY <1>2, FailKeeps DEF Errors
<1>3. CASE /\ resolvedAll /\ pc' = "generate" /\ f' = 1 /\ UNCHANGED <<project, error>>
           /\ UNCHANGED <<i, k, addr, sectionVars, sweepVars, outputVars>>
  <2>1. UNCHANGED <<project, error, i, k, addr, attachment, size, base, offset, labels, code,
                    isResolved, hasUnresolved, didResolve, resolvedAll, image, out, written, load>>
    BY <1>3 DEF sectionVars, sweepVars, outputVars
  <2>2. f' \in 1..(F + 1)
    BY <1>3, BoundFacts
  <2>3. TypeOK' /\ project' \in Project /\ KnownInv'
    BY <1>3, <2>1, <2>2, InvFacts DEF TypeOK, Loops, KnownInv
  <2>4. \A s \in Section : project.file[s] < f
    BY <1>1, InvFacts, ProjectFacts, BoundFacts DEF File
  <2>5. \A s \in Section : Complete(s)
    BY <1>1, <1>3, <2>4, InvFacts DEF SweepInv
  <2>6. \A s \in Section : Complete(s)'
    BY <2>1, <2>5 DEF Complete
  <2>7. \A s \in Section : image[s] = None /\ image'[s] = None
    BY <1>1, <2>1, InvFacts DEF GenerateInv, Generated
  <2>8. GenerateInv' /\ TurnInv' /\ CopyInv' /\ NoOverlap'
    <3>1. \A s \in Section : ~(project.file[s] < 1)
      BY InvFacts, ProjectFacts DEF File
    <3>2. QED BY <1>3, <2>1, <2>6, <2>7, <3>1 DEF GenerateInv, TurnInv, CopyInv, NoOverlap
  <2>9. FileInv'
    BY <2>6, InvFacts DEF FileInv, SectionsOf
  <2>10. CursorInv' /\ FreshInv' /\ PassedInv' /\ SweepInv'
    BY <1>3 DEF CursorInv, FreshInv, PassedInv, SweepInv, Constructing, Resolving, OnSection
  <2>11. QED BY <2>3, <2>8, <2>9, <2>10 DEF IInv
<1>4. CASE /\ pc' = "sweep" /\ UNCHANGED <<project, error>>
           /\ UNCHANGED <<f, i, k, addr, sectionVars, sweepVars, outputVars>>
  <2>1. UNCHANGED <<project, error, f, i, k, addr, attachment, size, base, offset, labels, code,
                    isResolved, hasUnresolved, didResolve, resolvedAll, image, out, written, load>>
    BY <1>4 DEF sectionVars, sweepVars, outputVars
  <2>2. TypeOK' /\ project' \in Project
    BY <1>4, <2>1, InvFacts DEF TypeOK, Loops
  <2>3. SweepInv'
    BY <1>4 DEF SweepInv, Resolving, OnSection
  <2>4. QED BY <1>1, <1>4, <2>1, <2>2, <2>3, BetweenFiles DEF IInv
<1>5. QED BY <1>2, <1>3, <1>4 DEF EndSweep, Goto

LEMMA TryResolveKeeps ==
  ASSUME IInv, TryResolve
  PROVE  IInv'
<1>1. /\ pc = "file" /\ f \in File /\ f \in 1..(F + 1) /\ f \in Int
      /\ UNCHANGED <<project, error, k, addr, attachment, size, base, offset, labels, code,
                     isResolved, didResolve, resolvedAll, image, out, written, load>>
  BY InvFacts DEF TryResolve, TypeOK, Goto, sectionVars, outputVars
<1>2. \A s \in Section : Complete(s) <=> Complete(s)'
  BY <1>1 DEF Complete
<1>3. CASE isResolved[f]
  <2>1. pc' = "file" /\ f' = f + 1 /\ UNCHANGED <<i, hasUnresolved>>
    BY <1>3 DEF TryResolve, Goto
  <2>2. f' \in 1..(F + 1)
    BY <1>1, <2>1, BoundFacts DEF File
  <2>3. TypeOK' /\ project' \in Project
    BY <1>1, <2>1, <2>2, InvFacts DEF TypeOK, Loops
  <2>4. \A s \in Section : project.file[s] < f' => project.file[s] < f \/ s \in SectionsOf(f)
    BY <1>1, <2>1, InvFacts, ProjectFacts DEF SectionsOf, File
  <2>5. SweepInv'
    BY <1>1, <1>2, <1>3, <2>1, <2>4, InvFacts DEF SweepInv, FileInv
  <2>6. QED BY <1>1, <2>1, <2>3, <2>5, BetweenFiles DEF IInv
<1>4. CASE ~isResolved[f]
  <2>1. pc' = "sizes" /\ i' = First(f) /\ hasUnresolved' = FALSE /\ f' = f
    BY <1>4 DEF TryResolve, Goto
  <2>2. i' \in 1..(N + 1)
    BY <1>1, <2>1, InvFacts, FirstFacts
  <2>3. i' \in 0..(N + 1) /\ i' >= 1
    BY <2>2, BoundFacts
  <2>4. TypeOK' /\ project' \in Project /\ KnownInv'
    BY <1>1, <2>1, <2>3, InvFacts DEF TypeOK, Loops, KnownInv
  <2>5. CursorInv' /\ FreshInv' /\ PassedInv' /\ TurnInv' /\ CopyInv'
    BY <1>1, <2>1, <2>3 DEF CursorInv, FreshInv, PassedInv, TurnInv, CopyInv, Constructing, OnSection
  <2>6. FileInv' /\ GenerateInv' /\ SweepInv'
    BY <1>1, <1>2, <2>1, InvFacts DEF FileInv, GenerateInv, SweepInv, Generated, SectionsOf
  <2>7. NoOverlap'
    BY <1>1, InvFacts DEF NoOverlap
  <2>8. QED BY <2>4, <2>5, <2>6, <2>7 DEF IInv
<1>5. QED BY <1>3, <1>4

\* NextSection leaves the loop at the next index, which a section has or N follows.
LEMMA NextSectionFacts ==
  ASSUME IInv, NEW here \in Resolving \ OnSection, NextSection(here), i \in SectionsOf(f)
  PROVE  /\ pc' = here /\ i' = i + 1 /\ i \in Section /\ i \in Int /\ i' \in 0..(N + 1) /\ i' >= 1 /\ f \in Int
         /\ UNCHANGED <<project, error, f, k, addr, attachment, base, offset,
                        isResolved, resolvedAll, image, out, written, load>>
         /\ pc \in Resolving => CursorInv'
<1>1. /\ pc' = here /\ i' = i + 1
      /\ UNCHANGED <<project, error, f, k, addr, attachment, base, offset,
                     isResolved, resolvedAll, image, out, written, load>>
  BY DEF NextSection, Goto, outputVars
<1>2. i \in Section /\ i \in Int /\ i' \in 0..(N + 1) /\ i' >= 1 /\ f \in Int
  BY <1>1, InvFacts, BoundFacts DEF SectionsOf, Section, TypeOK
<1>3. pc \in Resolving => CursorInv'
  BY <1>1, <1>2, InvFacts DEF CursorInv, Resolving, OnSection, Constructing
<1>4. QED BY <1>1, <1>2, <1>3

\* An iteration of one of the three loops of tryResolve keeps the invariant if what
\* it does to the section does.
LEMMA LoopStepKeeps ==
  ASSUME IInv, NEW here \in {"sizes", "compress", "place"}, pc \in Resolving,
         NextSection(here), i \in SectionsOf(f),
         size' \in [Section -> Opt(Word)], labels' \in [Section -> BOOLEAN],
         code' \in [Section -> Opt(SizeT)], hasUnresolved' \in BOOLEAN, didResolve' \in BOOLEAN,
         KnownInv', PassedInv', \A s \in Section : Complete(s) => Complete(s)'
  PROVE  IInv'
<1>1. here \in Resolving \ OnSection
  BY DEF Resolving, OnSection
<1>2. TypeOK' /\ project' \in Project
  BY <1>1, NextSectionFacts, InvFacts DEF TypeOK, Loops
<1>3. QED BY <1>1, <1>2, NextSectionFacts, ResolvingStep DEF IInv

\* A loop that only looks at its section, the first two loops.
LEMMA LoopSkipKeeps ==
  ASSUME IInv, NEW here \in {"sizes", "compress"}, pc \in Resolving, NextSection(here), i \in SectionsOf(f),
         UNCHANGED <<size, labels, code>>, hasUnresolved' \in BOOLEAN, didResolve' \in BOOLEAN
  PROVE  IInv'
<1>1. /\ size' \in [Section -> Opt(Word)] /\ labels' \in [Section -> BOOLEAN]
      /\ code' \in [Section -> Opt(SizeT)]
  BY InvFacts DEF TypeOK
<1>2. pc' = here /\ UNCHANGED <<project, base, offset>>
  BY NextSectionFacts DEF Resolving, OnSection
<1>3. KnownInv' /\ \A s \in Section : Complete(s) => Complete(s)'
  BY <1>2, InvFacts DEF KnownInv, Complete
<1>4. PassedInv'
  BY <1>2 DEF PassedInv, OnSection
<1>5. QED BY <1>1, <1>3, <1>4, LoopStepKeeps

LEMMA SizesKeeps ==
  ASSUME IInv, ResolveLabels \/ CalculateSize
  PROVE  IInv'
<1>1. pc = "sizes" /\ pc \in Resolving /\ i \in SectionsOf(f) /\ i \in Section
  BY DEF ResolveLabels, CalculateSize, SetLabels, SectionsOf, Resolving
<1>2. /\ NextSection("sizes") /\ code' = code /\ hasUnresolved' = hasUnresolved /\ didResolve' = TRUE
      /\ labels' = labels \/ labels' = [labels EXCEPT ![i] = TRUE]
      /\ \/ size' = size
         \/ NeedsSize(i) /\ size' = [size EXCEPT ![i] = project.length[i]]
  BY DEF ResolveLabels, CalculateSize, SetLabels
<1>3. pc' = "sizes" /\ UNCHANGED <<project, base, offset>>
  BY <1>1, <1>2, NextSectionFacts DEF Resolving, OnSection
<1>4. /\ size \in [Section -> Opt(Word)] /\ labels \in [Section -> BOOLEAN]
      /\ code' \in [Section -> Opt(SizeT)] /\ hasUnresolved' \in BOOLEAN /\ didResolve' \in BOOLEAN
      /\ project.length[i] \in Opt(Word)
  BY <1>1, <1>2, InvFacts, ProjectFacts DEF TypeOK, Opt
<1>5. size' \in [Section -> Opt(Word)] /\ labels' \in [Section -> BOOLEAN]
  BY <1>2, <1>4
<1>6. \A s \in Section :
        /\ labels[s] => labels'[s]
        /\ size'[s] = size[s]
           \/ (size[s] = None /\ ~project.compressed[s] /\ size'[s] = project.length[s])
  BY <1>1, <1>2, <1>4 DEF NeedsSize
<1>7. KnownInv' /\ \A s \in Section : Complete(s) => Complete(s)'
  BY <1>2, <1>3, <1>6, InvFacts DEF KnownInv, Complete
<1>8. PassedInv'
  BY <1>3 DEF PassedInv, OnSection
<1>9. QED BY <1>1, <1>2, <1>4, <1>5, <1>7, <1>8, LoopStepKeeps

LEMMA SizesUnknownKeeps ==
  ASSUME IInv, SizesUnknown
  PROVE  IInv'
<1>1. /\ pc \in Resolving /\ NextSection("sizes") /\ i \in SectionsOf(f)
      /\ UNCHANGED <<size, labels, code, didResolve>>
      /\ hasUnresolved' = (hasUnresolved \/ NeedsSize(i) \/ NeedsLabels(i))
  BY DEF SizesUnknown, KeepLabels, Resolving
<1>2. hasUnresolved' \in BOOLEAN /\ didResolve' \in BOOLEAN
  BY <1>1, InvFacts DEF TypeOK
<1>3. QED BY <1>1, <1>2, LoopSkipKeeps

LEMMA NextLoopKeeps ==
  ASSUME IInv, NextLoop("sizes", "compress") \/ NextLoop("compress", "place")
  PROVE  IInv'
<1>1. /\ pc \in {"sizes", "compress"} /\ pc' \in {"compress", "place"} /\ i' = First(f)
      /\ UNCHANGED <<project, error, f, k, addr, attachment, size, base, offset, labels, code,
                     isResolved, hasUnresolved, didResolve, resolvedAll, image, out, written, load>>
  BY DEF NextLoop, Goto, sectionVars, sweepVars, outputVars
<1>2. f \in Int /\ f \in File
  BY <1>1, InvFacts DEF TypeOK, CursorInv, Resolving
<1>3. i' \in 1..(N + 1) /\ \A s \in SectionsOf(f) : i' <= s
  BY <1>1, <1>2, InvFacts, FirstFacts
<1>4. i' \in 0..(N + 1) /\ i' >= 1 /\ \A s \in SectionsOf(f) : ~(s < i')
  BY <1>3, BoundFacts DEF SectionsOf, Section
<1>5. TypeOK' /\ project' \in Project /\ KnownInv'
  BY <1>1, <1>4, InvFacts DEF TypeOK, Loops, KnownInv
<1>6. CursorInv'
  BY <1>1, <1>2, <1>4 DEF CursorInv, Constructing, OnSection
<1>7. PassedInv'
  BY <1>1, <1>4 DEF PassedInv, OnSection, SectionsOf
<1>8. \A s \in Section : Complete(s) => Complete(s)'
  BY <1>1 DEF Complete
<1>9. pc \in Resolving /\ pc' \in Resolving
  BY <1>1 DEF Resolving
<1>10. QED BY <1>1, <1>5, <1>6, <1>7, <1>8, <1>9, ResolvingStep DEF IInv

LEMMA CompressKeeps ==
  ASSUME IInv, Compress
  PROVE  IInv'
<1>1. pc = "compress" /\ pc \in Resolving /\ i \in SectionsOf(f) /\ i \in Section
  BY DEF Compress, SectionsOf, Resolving
<1>2. /\ NextSection("compress") /\ labels' = labels /\ hasUnresolved' = hasUnresolved /\ didResolve' = TRUE
      /\ project.compressed[i] /\ size[i] = None
      /\ size' = [size EXCEPT ![i] = project.packed[i]]
      /\ code' = [code EXCEPT ![i] = EmitBase(i)]
  BY DEF Compress, NeedsCompression
<1>3. pc' = "compress" /\ UNCHANGED <<project, base, offset>>
  BY <1>1, <1>2, NextSectionFacts DEF Resolving, OnSection
<1>4. /\ size \in [Section -> Opt(Word)] /\ code \in [Section -> Opt(SizeT)]
      /\ base \in [Section -> Opt(SizeT)]
      /\ labels' \in [Section -> BOOLEAN] /\ hasUnresolved' \in BOOLEAN /\ didResolve' \in BOOLEAN
      /\ project.packed[i] \in Opt(Word) /\ project.packed[i] # None
  BY <1>1, <1>2, InvFacts, ProjectFacts, NumberFacts DEF TypeOK, Opt
<1>5. EmitBase(i) \in Opt(SizeT) /\ EmitBase(i) # None
  <2>1. 0 \in SizeT /\ 0 # None
    BY NumberFacts DEF SizeT
  <2>2. QED BY <1>1, <1>4, <2>1 DEF EmitBase, Opt
<1>6. size' \in [Section -> Opt(Word)] /\ code' \in [Section -> Opt(SizeT)]
  BY <1>2, <1>4, <1>5
<1>7. /\ size'[i] = project.packed[i] /\ size'[i] # None /\ code'[i] # None
      /\ \A s \in Section : s # i => size'[s] = size[s] /\ code'[s] = code[s]
  BY <1>1, <1>2, <1>4, <1>5
<1>8. KnownInv' /\ \A s \in Section : Complete(s) => Complete(s)'
  BY <1>2, <1>3, <1>7, InvFacts DEF KnownInv, Complete
<1>9. PassedInv'
  BY <1>3 DEF PassedInv, OnSection
<1>10. QED BY <1>1, <1>2, <1>4, <1>6, <1>8, <1>9, LoopStepKeeps

LEMMA SkipCompressKeeps ==
  ASSUME IInv, SkipCompress
  PROVE  IInv'
<1>1. /\ pc \in Resolving /\ NextSection("compress") /\ i \in SectionsOf(f)
      /\ UNCHANGED <<size, labels, code, hasUnresolved, didResolve>>
  BY DEF SkipCompress, Resolving
<1>2. hasUnresolved' \in BOOLEAN /\ didResolve' \in BOOLEAN
  BY <1>1, InvFacts DEF TypeOK
<1>3. QED BY <1>1, <1>2, LoopSkipKeeps

LEMMA NotPlacedKeeps ==
  ASSUME IInv, NotPlaced
  PROVE  IInv'
<1>1. /\ pc \in Resolving /\ NextSection("place") /\ i \in SectionsOf(f)
      /\ UNCHANGED <<size, labels, code, didResolve>> /\ hasUnresolved' = TRUE
  BY DEF NotPlaced, Resolving
<1>2. /\ size' \in [Section -> Opt(Word)] /\ labels' \in [Section -> BOOLEAN]
      /\ code' \in [Section -> Opt(SizeT)] /\ hasUnresolved' \in BOOLEAN /\ didResolve' \in BOOLEAN
  BY <1>1, InvFacts DEF TypeOK
<1>3. UNCHANGED <<project, base, offset>>
  BY <1>1, NextSectionFacts DEF Resolving, OnSection
<1>4. KnownInv' /\ PassedInv' /\ \A s \in Section : Complete(s) => Complete(s)'
  BY <1>1, <1>3, InvFacts DEF KnownInv, PassedInv, Complete
<1>5. QED BY <1>1, <1>2, <1>4, LoopStepKeeps

\* Code is emitted for the base of a section that has one.
LEMMA EmitCodeKeeps ==
  ASSUME IInv, EmitCode
  PROVE  IInv'
<1>1. /\ pc = "place" /\ i \in SectionsOf(f) /\ i \in Section /\ i \in 1..N
      /\ offset[i] # None /\ labels[i]
  BY DEF EmitCode, Placed, SectionsOf, Section
<1>2. /\ pc' = "placeTo" /\ k' = i - 1 /\ addr' = offset[i]
      /\ UNCHANGED <<project, error, f, i, attachment, base, offset, labels,
                     isResolved, resolvedAll, image, out, written, load>>
      /\ \/ ~NeedsCode(i) /\ UNCHANGED <<size, code, didResolve, hasUnresolved>>
         \/ NeedsCode(i) /\ hasUnresolved' = TRUE /\ UNCHANGED <<size, code, didResolve>>
         \/ /\ NeedsCode(i) /\ code' = [code EXCEPT ![i] = base[i]]
            /\ size' = [size EXCEPT ![i] = project.length[i]]
            /\ didResolve' = TRUE /\ UNCHANGED hasUnresolved
  BY DEF EmitCode, Goto, outputVars
<1>3. /\ size \in [Section -> Opt(Word)] /\ code \in [Section -> Opt(SizeT)]
      /\ base[i] \in Opt(SizeT) /\ base[i] # None /\ project.length[i] \in Opt(Word)
      /\ project.length[i] # None /\ offset[i] \in SizeT
  BY <1>1, InvFacts, ProjectFacts, NumberFacts DEF TypeOK, KnownInv, Opt
<1>4. size' \in [Section -> Opt(Word)] /\ code' \in [Section -> Opt(SizeT)]
  BY <1>2, <1>3
<1>5. \A s \in Section :
        \/ size'[s] = size[s] /\ code'[s] = code[s]
        \/ /\ ~project.compressed[s] /\ size'[s] = project.length[s] /\ size'[s] # None
           /\ code'[s] # None
  BY <1>1, <1>2, <1>3 DEF NeedsCode
<1>6. k' \in 0..(N + 1) /\ addr' \in SizeT
  BY <1>1, <1>2, <1>3, BoundFacts
<1>7. hasUnresolved' \in BOOLEAN /\ didResolve' \in BOOLEAN
  BY <1>2, InvFacts DEF TypeOK
<1>8. TypeOK' /\ project' \in Project
  BY <1>2, <1>4, <1>6, <1>7, InvFacts DEF TypeOK, Loops
<1>9. KnownInv' /\ \A s \in Section : Complete(s) => Complete(s)'
  BY <1>2, <1>5, InvFacts DEF KnownInv, Complete
<1>10. CursorInv'
  BY <1>1, <1>2, InvFacts DEF CursorInv, Constructing, Resolving, OnSection, SectionsOf
<1>11. ~hasUnresolved' => ~hasUnresolved /\ (~project.compressed[i] => code'[i] # None)
  BY <1>1, <1>2, <1>3 DEF NeedsCode
<1>12. PassedInv'
  BY <1>1, <1>2, <1>9, <1>11, InvFacts DEF PassedInv, OnSection, SectionsOf
<1>13. pc \in Resolving /\ pc' \in Resolving
  BY <1>1, <1>2 DEF Resolving, OnSection
<1>14. QED BY <1>2, <1>8, <1>9, <1>10, <1>12, <1>13, ResolvingStep DEF IInv

LEMMA ThrowKeeps ==
  ASSUME IInv, SizesThrow \/ CompressThrow \/ EmitThrow
  PROVE  IInv'
BY FailKeeps DEF SizesThrow, CompressThrow, EmitThrow, Errors

LEMMA PlacementKeeps ==
  ASSUME IInv,
         \/ SectionsTo("placeTo", "placeAfter")
         \/ SectionsFrom("placeFrom", "placeNext")
  PROVE  IInv'
<1>1. CASE Fail("alignment")
  BY <1>1, FailKeeps DEF Errors
<1>2. ASSUME NEW here \in {"placeTo", "placeFrom"}, NEW next,
             here = "placeTo" => next = "placeAfter", here = "placeFrom" => next = "placeNext",
             Placement(here, next)
      PROVE  IInv'
  <2>1. /\ pc \in OnSection /\ pc' \in OnSection /\ pc \in Resolving /\ pc' \in Resolving
        /\ pc = "placeTo" => pc' \in {"placeTo", "placeAfter"}
        /\ pc = "placeFrom" => pc' \in {"placeFrom", "placeNext"}
        /\ pc \in {"placeTo", "placeFrom"}
    BY <1>2 DEF Placement, OnSection, Resolving
  <2>2. f \in File /\ i >= 1 /\ i \in SectionsOf(f) /\ i \in Section /\ offset[i] # None /\ labels[i]
    BY <2>1, InvFacts DEF CursorInv, SectionsOf
  <2>3. pc' = "placeFrom" /\ k' # 0 => size[i] # None
    BY <1>2, <2>1, InvFacts DEF CursorInv, Placement
  <2>4. i \in SectionsOf(f)' /\ f' = f /\ i' = i /\ offset'[i] # None /\ labels'[i] /\ size' = size
    BY <1>2, <2>2 DEF Placement, SectionsOf
  <2>5. CursorInv'
    BY <2>1, <2>2, <2>3, <2>4 DEF CursorInv, OnSection
  <2>6. PassedInv'
    BY <1>2, <2>1, <2>4, InvFacts DEF PassedInv, Placement, SectionsOf
  <2>7. FreshInv' /\ FileInv' /\ SweepInv' /\ GenerateInv' /\ TurnInv' /\ CopyInv' /\ NoOverlap'
    BY <1>2, <2>1, ResolvingStep DEF Placement
  <2>8. QED BY <1>2, <2>5, <2>6, <2>7, InvFacts DEF IInv, Placement
<1>3. QED BY <1>1, <1>2, SectionsFromIsPlacement, SectionsToIsPlacement DEF Loops

LEMMA PlaceAfterKeeps ==
  ASSUME IInv, PlaceAfter
  PROVE  IInv'
<1>1. /\ pc = "placeAfter" /\ pc' = "placeFrom"
      /\ k' = IF size[i] = None THEN 0 ELSE i + 1
      /\ addr' = IF size[i] = None THEN 0 ELSE Plus(offset[i], size[i])
      /\ hasUnresolved' = (hasUnresolved \/ size[i] = None)
      /\ UNCHANGED <<project, error, f, i, attachment, size, base, offset, labels, code,
                     isResolved, didResolve, resolvedAll, image, out, written, load>>
  BY DEF PlaceAfter, Goto, sectionVars, outputVars
<1>2. /\ f \in File /\ i >= 1 /\ i \in SectionsOf(f) /\ i \in Section /\ i \in 1..N
      /\ offset[i] # None /\ labels[i]
  BY <1>1, InvFacts DEF CursorInv, SectionsOf, Section, Resolving, OnSection
<1>3. offset[i] \in SizeT /\ size[i] \in Opt(Word) /\ 0 \in SizeT
  BY <1>2, InvFacts, NumberFacts DEF TypeOK, Opt, SizeT
<1>4. k' \in 0..(N + 1) /\ (k' # 0 => size[i] # None)
  BY <1>1, <1>2, BoundFacts
<1>5. addr' \in SizeT
  <2>1. size[i] # None => size[i] \in SizeT
    BY <1>3, NumberFacts DEF Opt
  <2>2. size[i] # None => Plus(offset[i], size[i]) \in SizeT
    BY <1>3, <2>1, NumberFacts DEF Plus, SizeT
  <2>3. QED BY <1>1, <1>3, <2>2
<1>6. hasUnresolved' \in BOOLEAN
  BY <1>1, InvFacts DEF TypeOK
<1>7. TypeOK' /\ project' \in Project /\ KnownInv'
  BY <1>1, <1>4, <1>5, <1>6, InvFacts DEF TypeOK, Loops, KnownInv
<1>8. CursorInv'
  BY <1>1, <1>2, <1>4 DEF CursorInv, OnSection, SectionsOf
<1>9. \A s \in Section : Complete(s) => Complete(s)'
  BY <1>1 DEF Complete
<1>10. PassedInv'
  BY <1>1, <1>9, InvFacts DEF PassedInv, OnSection, SectionsOf
<1>11. pc \in Resolving /\ pc' \in Resolving
  BY <1>1 DEF Resolving, OnSection
<1>12. QED BY <1>1, <1>7, <1>8, <1>9, <1>10, <1>11, ResolvingStep DEF IInv

\* The section the third loop has handled is complete, if nothing is unresolved.
LEMMA PlaceNextKeeps ==
  ASSUME IInv, PlaceNext
  PROVE  IInv'
<1>1. /\ pc = "placeNext" /\ pc \in Resolving /\ NextSection("place")
      /\ UNCHANGED <<size, labels, code, hasUnresolved, didResolve>>
  BY DEF PlaceNext, Resolving, OnSection
<1>2. i \in SectionsOf(f) /\ i \in Section /\ offset[i] # None /\ labels[i]
  BY <1>1, InvFacts DEF CursorInv, OnSection, SectionsOf
<1>3. /\ size' \in [Section -> Opt(Word)] /\ labels' \in [Section -> BOOLEAN]
      /\ code' \in [Section -> Opt(SizeT)] /\ hasUnresolved' \in BOOLEAN /\ didResolve' \in BOOLEAN
  BY <1>1, InvFacts DEF TypeOK
<1>4. pc' = "place" /\ i' = i + 1 /\ i \in Int /\ UNCHANGED <<project, f, base, offset>>
  BY <1>1, <1>2, NextSectionFacts DEF Resolving, OnSection
<1>5. KnownInv' /\ \A s \in Section : Complete(s) => Complete(s)'
  BY <1>1, <1>4, InvFacts DEF KnownInv, Complete
<1>6. ~hasUnresolved => Complete(i) /\ \A s \in SectionsOf(f) : s < i => Complete(s)
  BY <1>1, <1>2, InvFacts DEF PassedInv, KnownInv, Complete, OnSection
<1>7. \A s \in SectionsOf(f) : s < i' => s < i \/ s = i
  BY <1>4 DEF SectionsOf, Section
<1>8. PassedInv'
  BY <1>1, <1>4, <1>5, <1>6, <1>7 DEF PassedInv, OnSection, SectionsOf
<1>9. QED BY <1>1, <1>2, <1>3, <1>5, <1>8, LoopStepKeeps

LEMMA EndResolveKeeps ==
  ASSUME IInv, EndResolve
  PROVE  IInv'
<1>1. /\ pc = "place" /\ AtEnd(f, i) /\ pc' = "file" /\ f' = f + 1
      /\ isResolved' = [isResolved EXCEPT ![f] = ~hasUnresolved]
      /\ resolvedAll' = (resolvedAll /\ ~hasUnresolved)
      /\ UNCHANGED <<project, error, i, k, addr, attachment, size, base, offset, labels, code,
                     hasUnresolved, didResolve, image, out, written, load>>
  BY DEF EndResolve, Goto, sectionVars, outputVars
<1>2. /\ f \in File /\ f \in Int /\ hasUnresolved \in BOOLEAN /\ resolvedAll \in BOOLEAN
      /\ isResolved \in [File -> BOOLEAN]
  BY <1>1, InvFacts DEF CursorInv, Resolving, TypeOK
<1>3. f' \in 1..(F + 1)
  BY <1>1, <1>2, BoundFacts DEF File
<1>4. isResolved' \in [File -> BOOLEAN] /\ resolvedAll' \in BOOLEAN
  BY <1>1, <1>2
<1>5. TypeOK' /\ project' \in Project /\ KnownInv'
  BY <1>1, <1>3, <1>4, InvFacts DEF TypeOK, Loops, KnownInv
<1>6. \A s \in Section : Complete(s) <=> Complete(s)'
  BY <1>1 DEF Complete
<1>7. ~hasUnresolved => \A s \in SectionsOf(f) : Complete(s)
  BY <1>1, InvFacts DEF PassedInv, AtEnd
<1>8. FileInv'
  <2>1. \A g \in File : isResolved'[g] => (g = f /\ ~hasUnresolved) \/ (g # f /\ isResolved[g])
    BY <1>1, <1>2
  <2>2. \A g \in File : isResolved'[g] => \A s \in SectionsOf(g) : Complete(s)
    BY <1>7, <2>1, InvFacts DEF FileInv
  <2>3. QED BY <1>1, <1>6, <2>2 DEF FileInv, SectionsOf
<1>9. SweepInv'
  <2>1. \A s \in Section : project.file[s] < f' => project.file[s] < f \/ s \in SectionsOf(f)
    BY <1>1, <1>2, InvFacts, ProjectFacts DEF SectionsOf, File
  <2>2. resolvedAll' => \A s \in Section : project.file[s] < f' => Complete(s)
    BY <1>1, <1>2, <1>7, <2>1, InvFacts DEF SweepInv, Resolving
  <2>3. QED BY <1>1, <1>6, <2>2 DEF SweepInv
<1>10. CursorInv' /\ FreshInv' /\ PassedInv' /\ TurnInv' /\ CopyInv'
  BY <1>1 DEF CursorInv, FreshInv, PassedInv, TurnInv, CopyInv, Constructing, Resolving, OnSection
<1>11. GenerateInv' /\ NoOverlap'
  BY <1>1, InvFacts DEF GenerateInv, NoOverlap, Generated
<1>12. QED BY <1>5, <1>8, <1>9, <1>10, <1>11 DEF IInv

-----------------------------------------------------------------------------
(* The steps of generateCode preserve the invariant.                       *)

\* Sizes and file offsets are there when code is generated.
LEMMA GeneratedFacts ==
  ASSUME IInv, pc \in Generated
  PROVE  \A s \in Section : /\ size[s] \in Word /\ size[s] \in Nat
                            /\ offset[s] \in SizeT /\ offset[s] \in Nat
<1>1. \A s \in Section : size[s] # None /\ offset[s] # None
  BY InvFacts DEF GenerateInv, Complete
<1>2. \A s \in Section : size[s] \in Opt(Word) /\ offset[s] \in Opt(SizeT)
  BY InvFacts DEF TypeOK
<1>3. Word \subseteq Nat /\ SizeT \subseteq Nat
  BY NumberFacts
<1>4. QED BY <1>1, <1>2, <1>3 DEF Opt

LEMMA StartOfFacts ==
  ASSUME IInv, pc \in Generated, NEW g \in File, SectionsOf(g) # {}
  PROVE  StartOf(g) \in SizeT
<1>1. CASE project.start[g] # None
  BY <1>1, InvFacts, ProjectFacts, NumberFacts DEF StartOf, Opt
<1>2. CASE project.start[g] = None
  <2>1. SectionsOf(g) \subseteq Section
    BY DEF SectionsOf
  <2>2. Lowest(SectionsOf(g)) # {} /\ Lowest(SectionsOf(g)) \subseteq SectionsOf(g)
    BY <2>1, GeneratedFacts, LowestFacts
  <2>3. (CHOOSE s \in Lowest(SectionsOf(g)) : TRUE) \in Section
    BY <2>1, <2>2
  <2>4. QED BY <1>2, <2>3, GeneratedFacts DEF StartOf
<1>3. QED BY <1>1, <1>2

\* Steps that copy nothing.
LEMMA GenerateStep ==
  ASSUME IInv, pc \in Generated, pc' \in Generated,
         UNCHANGED <<project, size, base, offset, labels, code, isResolved, image>>
  PROVE  /\ FreshInv' /\ KnownInv' /\ PassedInv' /\ FileInv' /\ SweepInv' /\ GenerateInv' /\ NoOverlap'
<1>1. \A s \in Section : Complete(s) <=> Complete(s)'
  BY DEF Complete
<1>2. FreshInv' /\ PassedInv' /\ SweepInv'
  BY DEF FreshInv, PassedInv, SweepInv, Constructing, Resolving, OnSection, Generated
<1>3. KnownInv' /\ NoOverlap'
  BY InvFacts DEF KnownInv, NoOverlap
<1>4. FileInv' /\ GenerateInv'
  BY <1>1, InvFacts DEF FileInv, GenerateInv, SectionsOf
<1>5. QED BY <1>2, <1>3, <1>4

LEMMA StartFileKeeps ==
  ASSUME IInv, StartFile
  PROVE  IInv'
<1>1. /\ pc = "generate" /\ pc \in Generated /\ f \in 1..(F + 1) /\ f \in Int
      /\ UNCHANGED <<project, error, i, k, addr, attachment, size, base, offset, labels, code,
                     isResolved, hasUnresolved, didResolve, resolvedAll, image, load>>
  BY InvFacts DEF StartFile, Goto, Generated, TypeOK, sectionVars, sweepVars
<1>2. \A s \in Section : image[s] # None <=> project.file[s] < f
  BY <1>1, InvFacts DEF TurnInv
<1>3. \A s \in Section : project.file[s] \in File /\ project.file[s] \in Int
  BY InvFacts, ProjectFacts DEF File
<1>4. CASE f \notin File
  <2>1. pc' = "symbols" /\ UNCHANGED <<f, out, written>>
    BY <1>4 DEF StartFile, Goto
  <2>2. TypeOK' /\ project' \in Project
    BY <1>1, <2>1, InvFacts DEF TypeOK, Loops
  <2>3. CursorInv' /\ TurnInv' /\ CopyInv'
    <3>1. \A s \in Section : project.file[s] < f
      BY <1>1, <1>3, <1>4, BoundFacts DEF File
    <3>2. QED BY <1>1, <1>2, <2>1, <3>1 DEF CursorInv, TurnInv, CopyInv, Constructing, Resolving, OnSection
  <2>4. pc' \in Generated
    BY <2>1 DEF Generated
  <2>5. QED BY <1>1, <2>2, <2>3, <2>4, GenerateStep DEF IInv
<1>5. CASE f \in File /\ SectionsOf(f) = {}
  <2>1. pc' = "generate" /\ f' = f + 1 /\ UNCHANGED <<out, written>>
    BY <1>5 DEF StartFile, Goto
  <2>2. f' \in 1..(F + 1)
    BY <1>5, <2>1, BoundFacts DEF File
  <2>3. TypeOK' /\ project' \in Project
    BY <1>1, <2>1, <2>2, InvFacts DEF TypeOK, Loops
  <2>4. \A s \in Section : image'[s] # None <=> project.file[s] < f'
    <3>1. \A s \in Section : project.file[s] # f
      BY <1>5 DEF SectionsOf
    <3>2. QED BY <1>1, <1>2, <1>3, <2>1, <3>1
  <2>5. TurnInv'
    BY <1>1, <2>1, <2>4 DEF TurnInv
  <2>6. CursorInv' /\ CopyInv'
    BY <2>1 DEF CursorInv, CopyInv, Constructing, Resolving, OnSection
  <2>7. pc' \in Generated
    BY <2>1 DEF Generated
  <2>8. QED BY <1>1, <2>3, <2>5, <2>6, <2>7, GenerateStep DEF IInv
<1>6. CASE f \in File /\ SectionsOf(f) # {}
  <2>1. pc' = "copy" /\ f' = f /\ out' = StartOf(f) /\ written' = 0
    BY <1>6 DEF StartFile, Goto
  <2>2. out' \in SizeT
    BY <1>1, <1>6, <2>1, StartOfFacts
  <2>3. TypeOK' /\ project' \in Project
    BY <1>1, <2>1, <2>2, InvFacts DEF TypeOK, Loops
  <2>4. CursorInv'
    BY <1>1, <1>6, <2>1 DEF CursorInv, Constructing, Resolving, OnSection, SectionsOf
  <2>5. TurnInv'
    BY <1>1, <1>2, <1>3, <2>1 DEF TurnInv
  <2>6. \A s \in SectionsOf(f) : image[s] = None
    BY <1>1, <1>2 DEF SectionsOf
  <2>7. CopyInv'
    BY <1>1, <2>1, <2>6 DEF CopyInv, SectionsOf
  <2>8. pc' \in Generated
    BY <2>1 DEF Generated
  <2>9. QED BY <1>1, <2>3, <2>4, <2>5, <2>7, <2>8, GenerateStep DEF IInv
<1>7. QED BY <1>4, <1>5, <1>6

\* The section copied next begins at or after the next byte to write, and those
\* copied before it end at or before that byte.
LEMMA CopySectionKeeps ==
  ASSUME IInv, CopySection
  PROVE  IInv'
<1>1. PICK s \in Lowest(Pending) :
        /\ ~Overlaps(s)
        /\ image' = [image EXCEPT ![s] = written + Padding(s)]
        /\ written' = written + Padding(s) + size[s]
        /\ out' = OutAfter(s)
  BY DEF CopySection
<1>2. /\ pc = "copy" /\ pc' = "copy" /\ pc \in Generated /\ f \in File /\ f \in Int
      /\ UNCHANGED <<project, error, f, i, k, addr, attachment, size, base, offset, labels, code,
                     isResolved, hasUnresolved, didResolve, resolvedAll, load>>
  BY InvFacts DEF CopySection, Goto, Generated, CursorInv, TypeOK, sectionVars, sweepVars
<1>3. /\ s \in SectionsOf(f) /\ s \in Section /\ image[s] = None
      /\ \A t \in SectionsOf(f) : image[t] = None => offset[s] <= offset[t]
  BY <1>1 DEF Lowest, Pending, SectionsOf
<1>4. \A t \in Section : size[t] \in Word /\ size[t] \in Nat /\ offset[t] \in SizeT /\ offset[t] \in Nat
  BY <1>2, GeneratedFacts
<1>5. out \in Nat /\ out < SizeMod /\ written \in Nat /\ image \in [Section -> Opt(Nat)]
  BY InvFacts, NumberFacts DEF TypeOK, SizeT
<1>6. offset[s] \in Nat /\ size[s] \in Nat /\ offset[s] < SizeMod /\ size[s] <= WordMax /\ out <= offset[s]
  <2>1. offset[s] \in SizeT /\ size[s] \in Word /\ ~(offset[s] < out)
    BY <1>1, <1>3, <1>4 DEF Overlaps
  <2>2. QED BY <1>5, <2>1, BoundFacts DEF SizeT, Word
<1>7. Padding(s) \in Nat /\ Padding(s) = IF size[s] > 0 THEN offset[s] - out ELSE 0
  BY <1>5, <1>6 DEF Padding
<1>8. written + Padding(s) \in Nat /\ written' \in Nat
  BY <1>1, <1>5, <1>6, <1>7
<1>9. out' \in SizeT
  BY <1>1, <1>5, <1>6, <1>7, BoundFacts DEF OutAfter, Plus, SizeT
<1>10. /\ image' \in [Section -> Opt(Nat)] /\ image'[s] # None
       /\ \A t \in Section : t # s => image'[t] = image[t]
  BY <1>1, <1>3, <1>5, <1>8, NumberFacts DEF Opt
<1>11. TypeOK' /\ project' \in Project
  BY <1>2, <1>8, <1>9, <1>10, InvFacts DEF TypeOK, Loops
<1>12. /\ size[s] > 0 /\ offset[s] <= WordMax => out' = offset[s] + size[s]
       /\ size[s] = 0 => out' = out
       /\ offset[s] <= WordMax => offset[s] <= out' \/ size[s] = 0
  BY <1>1, <1>5, <1>6, <1>7, BoundFacts DEF OutAfter, Plus
<1>13. \A t \in SectionsOf(f) : image[t] # None => t # s /\ t \in Section /\ offset[t] <= offset[s]
  BY <1>2, <1>3, InvFacts DEF CopyInv, SectionsOf
<1>14. ASSUME offset[s] <= WordMax, NEW t \in SectionsOf(f), image[t] # None, size[t] > 0
       PROVE  offset[t] + size[t] <= out
  <2>1. \A u \in SectionsOf(f) : image[u] # None => offset[u] <= WordMax
    BY <1>4, <1>6, <1>13, <1>14, BoundFacts
  <2>2. QED BY <1>2, <1>14, <2>1, InvFacts DEF CopyInv
<1>15. CopyInv'
  <2>1. ASSUME NEW t \in SectionsOf(f), NEW u \in SectionsOf(f), image'[t] # None, image'[u] = None
        PROVE  offset[t] <= offset[u]
    <3>1. u # s /\ image[u] = None
      BY <1>10, <2>1 DEF SectionsOf
    <3>2. CASE t = s
      BY <1>3, <3>1, <3>2
    <3>3. CASE t # s
      BY <1>2, <1>10, <2>1, <3>1, <3>3, InvFacts DEF CopyInv, SectionsOf
    <3>4. QED BY <3>2, <3>3
  <2>2. ASSUME NEW t \in SectionsOf(f), image'[t] # None, size[t] > 0,
               \A u \in SectionsOf(f) : image'[u] # None => offset[u] <= WordMax
        PROVE  offset[t] + size[t] <= out'
    <3>1. offset[s] <= WordMax
      BY <1>3, <1>10, <2>2
    <3>2. CASE t = s
      BY <1>12, <2>2, <3>1, <3>2, <1>6
    <3>3. CASE t # s
      <4>1. offset[t] + size[t] <= out
        BY <1>10, <1>14, <2>2, <3>1, <3>3 DEF SectionsOf
      <4>2. out <= out'
        BY <1>5, <1>6, <1>12, <3>1
      <4>3. QED BY <1>4, <1>5, <1>9, <4>1, <4>2, NumberFacts DEF SectionsOf
    <3>4. QED BY <3>2, <3>3
  <2>3. QED BY <1>2, <2>1, <2>2 DEF CopyInv, SectionsOf
<1>16. NoOverlap'
  <2>1. ASSUME NEW t \in Section, t # s, project.file[t] = project.file[s], image[t] # None,
               size[t] > 0, offset[s] <= WordMax
        PROVE  offset[t] + size[t] <= offset[s]
    <3>1. t \in SectionsOf(f)
      BY <1>3, <2>1 DEF SectionsOf
    <3>2. offset[t] + size[t] <= out
      BY <1>14, <2>1, <3>1
    <3>3. QED BY <1>4, <1>5, <1>6, <2>1, <3>2
  <2>2. QED BY <1>2, <1>3, <1>10, <2>1, InvFacts DEF NoOverlap
<1>17. TurnInv'
  BY <1>2, <1>3, <1>10, InvFacts DEF TurnInv, SectionsOf
<1>18. \A t \in Section : Complete(t) <=> Complete(t)'
  BY <1>2 DEF Complete
<1>19. CursorInv' /\ KnownInv'
  BY <1>2, InvFacts DEF CursorInv, KnownInv, Constructing, Resolving, OnSection, SectionsOf
<1>20. FreshInv' /\ PassedInv' /\ SweepInv'
  BY <1>2 DEF FreshInv, PassedInv, SweepInv, Constructing, Resolving, OnSection
<1>21. FileInv' /\ GenerateInv'
  BY <1>2, <1>18, InvFacts DEF FileInv, GenerateInv, Generated, SectionsOf
<1>22. QED BY <1>11, <1>15, <1>16, <1>17, <1>19, <1>20, <1>21 DEF IInv

LEMMA RejectKeeps ==
  ASSUME IInv, BadBounds \/ RejectSection
  PROVE  IInv'
BY FailKeeps DEF BadBounds, RejectSection, Errors

LEMMA EndFileKeeps ==
  ASSUME IInv, EndFile
  PROVE  IInv'
<1>1. /\ pc = "copy" /\ pc' = "generate" /\ f' = f + 1
      /\ load' = [load EXCEPT ![f] = StartOf(f)]
      /\ UNCHANGED <<project, error, i, k, addr, attachment, size, base, offset, labels, code,
                     isResolved, hasUnresolved, didResolve, resolvedAll, image, out, written>>
  BY DEF EndFile, Goto, sectionVars, sweepVars
<1>2. f \in File /\ f \in Int /\ SectionsOf(f) # {} /\ pc \in Generated /\ pc' \in Generated
  BY <1>1, InvFacts DEF CursorInv, TypeOK, Generated
<1>3. f' \in 1..(F + 1)
  BY <1>1, <1>2, BoundFacts DEF File
<1>4. load' \in [File -> Opt(SizeT)]
  <2>1. StartOf(f) \in Opt(SizeT)
    BY <1>2, StartOfFacts DEF Opt
  <2>2. QED BY <1>1, <2>1, InvFacts DEF TypeOK
<1>5. TypeOK' /\ project' \in Project
  BY <1>1, <1>3, <1>4, InvFacts DEF TypeOK, Loops
<1>6. \A s \in Section : image[s] # None <=> project.file[s] < f'
  <2>1. \A s \in Section : project.file[s] = f => image[s] # None
    BY DEF EndFile, Pending, SectionsOf
  <2>2. \A s \in Section : project.file[s] \in Int
    BY InvFacts, ProjectFacts DEF File
  <2>3. \A s \in Section :
          /\ image[s] # None => project.file[s] <= f
          /\ project.file[s] < f => image[s] # None
    BY <1>1, InvFacts DEF TurnInv
  <2>4. \A s \in Section : project.file[s] < f' <=> project.file[s] < f \/ project.file[s] = f
    BY <1>1, <1>2, <2>2
  <2>5. \A s \in Section : project.file[s] <= f => project.file[s] < f \/ project.file[s] = f
    BY <1>2, <2>2
  <2>6. QED BY <2>1, <2>3, <2>4, <2>5
<1>7. TurnInv' /\ CopyInv'
  BY <1>1, <1>6 DEF TurnInv, CopyInv
<1>8. CursorInv'
  BY <1>1 DEF CursorInv, Constructing, Resolving, OnSection
<1>9. QED BY <1>1, <1>2, <1>5, <1>7, <1>8, GenerateStep DEF IInv

LEMMA CheckSymbolsKeeps ==
  ASSUME IInv, CheckSymbols
  PROVE  IInv'
<1>1. CASE Fail("constant")
  BY <1>1, FailKeeps DEF Errors
<1>2. CASE ~Fail("constant")
  <2>1. /\ pc = "symbols" /\ pc' = "linked"
        /\ UNCHANGED <<project, error, f, i, k, addr, attachment, size, base, offset, labels, code,
                       isResolved, hasUnresolved, didResolve, resolvedAll, image, out, written, load>>
    BY <1>2 DEF CheckSymbols, Goto, sectionVars, sweepVars, outputVars
  <2>2. TypeOK' /\ project' \in Project
    BY <2>1, InvFacts DEF TypeOK
  <2>3. CursorInv' /\ TurnInv' /\ CopyInv' /\ pc \in Generated /\ pc' \in Generated
    BY <2>1, InvFacts DEF CursorInv, TurnInv, CopyInv, Generated, Constructing, Resolving, OnSection
  <2>4. QED BY <2>1, <2>2, <2>3, GenerateStep DEF IInv
<1>3. QED BY <1>1, <1>2

-----------------------------------------------------------------------------
(* The theorems.                                                           *)

LEMMA InitInv == Init => IInv
<1> SUFFICES ASSUME Init PROVE IInv
  OBVIOUS
<1>1. /\ project \in Project /\ pc = "construct" /\ error = None /\ f = 1 /\ i = 0 /\ k = 0 /\ addr = 0
      /\ attachment = project.attachment
      /\ size = [s \in Section |-> None] /\ base = [s \in Section |-> None]
      /\ offset = [s \in Section |-> None] /\ code = [s \in Section |-> None]
      /\ labels = [s \in Section |-> FALSE] /\ isResolved = [g \in File |-> FALSE]
      /\ hasUnresolved = FALSE /\ didResolve = FALSE /\ resolvedAll = TRUE
      /\ image = [s \in Section |-> None] /\ out = 0 /\ written = 0 /\ load = [g \in File |-> None]
  BY DEF Init
<1>2. f \in 1..(F + 1) /\ i \in 0..(N + 1) /\ k \in 0..(N + 1) /\ addr \in SizeT /\ out \in SizeT /\ written \in Nat
  BY <1>1, BoundFacts DEF SizeT
<1>3. TypeOK
  <2>1. project \in ProjectType /\ attachment \in [Section -> {"Lower", "Upper"}]
    BY <1>1, LinkerAssumption, ProjectFacts
  <2>2. QED BY <1>1, <1>2, <2>1 DEF TypeOK, Loops, Opt
<1>4. CursorInv /\ FreshInv /\ KnownInv /\ PassedInv /\ FileInv /\ SweepInv
  BY <1>1 DEF CursorInv, FreshInv, KnownInv, PassedInv, FileInv, SweepInv, Constructing, Resolving, OnSection
<1>5. GenerateInv /\ TurnInv /\ CopyInv /\ NoOverlap
  BY <1>1 DEF GenerateInv, TurnInv, CopyInv, NoOverlap, Generated
<1>6. QED BY <1>1, <1>3, <1>4, <1>5 DEF IInv

LEMMA StutterInv ==
  ASSUME IInv, UNCHANGED vars
  PROVE  IInv'
<1>1. UNCHANGED <<project, pc, error, f, i, k, addr, attachment, size, base, offset, labels, code,
                  isResolved, hasUnresolved, didResolve, resolvedAll, image, out, written, load>>
  BY DEF vars, sectionVars, sweepVars, outputVars
<1>2. TypeOK' /\ project' \in Project
  BY <1>1, InvFacts DEF TypeOK
<1>3. \A s \in Section : Complete(s) <=> Complete(s)'
  BY <1>1 DEF Complete
<1>4. CursorInv'
  BY <1>1, InvFacts DEF CursorInv, BadSections, SectionsOf
<1>5. FreshInv' /\ KnownInv' /\ NoOverlap' /\ TurnInv' /\ CopyInv'
  BY <1>1, InvFacts DEF FreshInv, KnownInv, NoOverlap, TurnInv, CopyInv, SectionsOf
<1>6. PassedInv' /\ FileInv' /\ SweepInv' /\ GenerateInv'
  BY <1>1, <1>3, InvFacts DEF PassedInv, FileInv, SweepInv, GenerateInv, SectionsOf
<1>7. QED BY <1>2, <1>4, <1>5, <1>6 DEF IInv

LEMMA NextInv ==
  ASSUME IInv, [Next]_vars
  PROVE  IInv'
<1>1. CASE Construct
  BY <1>1, ConstructFileKeeps, CtorSizeKeeps, CtorBasesKeeps, CtorPlacementKeeps, CtorUntilKeeps,
     CtorAnchorKeeps DEF Construct
<1>2. CASE Resolve
  BY <1>2, StartSweepKeeps, EndSweepKeeps, TryResolveKeeps, SizesKeeps, SizesUnknownKeeps,
     ThrowKeeps, NextLoopKeeps, CompressKeeps, SkipCompressKeeps, NotPlacedKeeps, EmitCodeKeeps,
     PlacementKeeps, PlaceAfterKeeps, PlaceNextKeeps, EndResolveKeeps DEF Resolve
<1>3. CASE Generate
  BY <1>3, StartFileKeeps, CopySectionKeeps, RejectKeeps, EndFileKeeps, CheckSymbolsKeeps DEF Generate
<1>4. CASE UNCHANGED vars
  BY <1>4, StutterInv
<1>5. QED BY <1>1, <1>2, <1>3, <1>4 DEF Next, Finished

\* The inductive invariant holds of every behaviour of the linker.
THEOREM Invariance == Spec => []IInv
<1>1. Init => IInv
  BY InitInv
<1>2. IInv /\ [Next]_vars => IInv'
  BY NextInv
<1>3. QED BY <1>1, <1>2, PTL DEF Spec

\* Every field and local of the linker has its type; in particular no address
\* computed by resolveSectionsFrom, resolveSectionsTo or generateCode leaves a size_t,
\* and generateCode never reads a size or a file offset that is not there.
THEOREM TypeCorrect == Spec => []TypeOK
<1>1. IInv => TypeOK
  BY InvFacts
<1>2. QED BY <1>1, Invariance, PTL

\* Code is generated only when every section of every file has its size, place,
\* labels and code (Linker.cpp:460, 481, 495, 504 read them unconditionally).
THEOREM Completeness == Spec => []LinkedIsComplete
<1>1. IInv => LinkedIsComplete
  BY InvFacts DEF GenerateInv, LinkedIsComplete, Generated
<1>2. QED BY <1>1, Invariance, PTL

\* Sections stored below 64K never share a byte of their file, whatever the order
\* in which std::sort leaves those with equal file offsets (Linker.cpp:459-541).
THEOREM Disjointness == Spec => []NoOverlap
<1>1. IInv => NoOverlap
  BY InvFacts
<1>2. QED BY <1>1, Invariance, PTL

-----------------------------------------------------------------------------
(* Decisions are final.                                                    *)

Kept ==
  \A s \in Section :
    /\ size[s] # None => size'[s] = size[s]
    /\ base[s] # None => base'[s] = base[s]
    /\ offset[s] # None => offset'[s] = offset[s]
    /\ code[s] # None => code'[s] = code[s]
    /\ labels[s] => labels'[s]

LEMMA ConstructKept ==
  ASSUME IInv, Construct
  PROVE  Kept /\ project' = project
<1>1. CASE ConstructFile \/ CtorUntil
  BY <1>1 DEF ConstructFile, CtorUntil, Goto, Fail, Kept, sectionVars
<1>2. CASE CtorSize
  <2>1. /\ i \in Section /\ UNCHANGED <<project, base, offset, code, labels>>
        /\ size' = size \/ (~project.compressed[i] /\ size' = [size EXCEPT ![i] = project.length[i]])
    <3>1. CASE project.compressed[i]
      BY <1>2, <3>1 DEF CtorSize, Goto, Fail, sectionVars, SectionsOf
    <3>2. CASE ~project.compressed[i]
      BY <1>2, <3>2 DEF CtorSize, Goto, Fail, sectionVars, SectionsOf
    <3>3. QED BY <3>1, <3>2
  <2>2. size \in [Section -> Opt(Word)]
    BY InvFacts DEF TypeOK
  <2>3. \A s \in Section :
          size'[s] = size[s] \/ (size'[s] = project.length[s] /\ ~project.compressed[s])
    BY <2>1, <2>2
  <2>4. QED BY <2>1, <2>3, InvFacts DEF Kept, KnownInv
<1>3. CASE CtorBases
  <2>1. pc = "ctorSize" /\ project' = project /\ UNCHANGED <<size, code, labels>>
        /\ \/ UNCHANGED <<base, offset>>
           \/ \A s \in Section : s \notin SectionsOf(f) => base'[s] = base[s] /\ offset'[s] = offset[s]
    BY <1>3 DEF CtorBases, Goto, Fail, sectionVars
  <2>2. \A s \in SectionsOf(f) : base[s] = None /\ offset[s] = None
    BY <2>1, InvFacts DEF FreshInv, SectionsOf
  <2>3. QED BY <2>1, <2>2 DEF Kept
<1>4. CASE CtorAnchor
  <2>1. project' = project /\ UNCHANGED <<size, base, code, labels>>
        /\ \/ offset' = offset
           \/ \A s \in Section : offset'[s] = offset[s] \/ (NeedsAnchor /\ s \in Anchors)
    BY <1>4 DEF CtorAnchor, Goto, Fail, sectionVars
  <2>2. \A s \in Section : NeedsAnchor /\ s \in Anchors => offset[s] = None
    BY DEF NeedsAnchor, Anchors
  <2>3. QED BY <2>1, <2>2 DEF Kept
<1>5. CASE Fail("alignment")
  BY <1>5 DEF Fail, Kept, sectionVars
<1>6. ASSUME ~Fail("alignment"), SectionsFrom("ctorFrom", "ctorUntil") \/ SectionsTo("ctorTo", "ctorAnchor")
      PROVE  Kept /\ project' = project
  BY <1>6, SectionsFromIsPlacement, SectionsToIsPlacement DEF Placement, Kept, Loops
<1>7. QED BY <1>1, <1>2, <1>3, <1>4, <1>5, <1>6 DEF Construct

LEMMA ResolveKept ==
  ASSUME IInv, Resolve
  PROVE  Kept /\ project' = project
<1>1. CASE \/ StartSweep \/ EndSweep \/ TryResolve \/ SizesUnknown \/ SizesThrow
           \/ NextLoop("sizes", "compress") \/ NextLoop("compress", "place")
           \/ SkipCompress \/ CompressThrow \/ NotPlaced \/ EmitThrow
           \/ PlaceAfter \/ PlaceNext \/ EndResolve
  <2>1. UNCHANGED <<project, size, base, offset, code, labels>>
    BY <1>1 DEF StartSweep, EndSweep, TryResolve, SizesUnknown, SizesThrow, NextLoop, SkipCompress,
       CompressThrow, NotPlaced, EmitThrow, PlaceAfter, PlaceNext, EndResolve, NextSection, KeepLabels,
       Goto, Fail, sectionVars
  <2>2. QED BY <2>1 DEF Kept
<1>2. CASE ResolveLabels \/ CalculateSize
  <2>1. /\ UNCHANGED <<project, base, offset, code>> /\ i \in Section
        /\ labels' = labels \/ labels' = [labels EXCEPT ![i] = TRUE]
        /\ size' = size \/ (NeedsSize(i) /\ size' = [size EXCEPT ![i] = project.length[i]])
    BY <1>2 DEF ResolveLabels, CalculateSize, SetLabels, NextSection, Goto, SectionsOf
  <2>2. size \in [Section -> Opt(Word)] /\ labels \in [Section -> BOOLEAN]
    BY InvFacts DEF TypeOK
  <2>3. QED BY <2>1, <2>2 DEF Kept, NeedsSize
<1>3. CASE Compress
  <2>1. /\ UNCHANGED <<project, base, offset, labels>> /\ i \in Section /\ size[i] = None
        /\ size' = [size EXCEPT ![i] = project.packed[i]]
        /\ code' = [code EXCEPT ![i] = EmitBase(i)]
    BY <1>3 DEF Compress, NeedsCompression, NextSection, Goto, SectionsOf
  <2>2. size \in [Section -> Opt(Word)] /\ code \in [Section -> Opt(SizeT)]
    BY InvFacts DEF TypeOK
  <2>3. \A s \in Section : s # i => size'[s] = size[s] /\ code'[s] = code[s]
    BY <2>1, <2>2
  <2>4. code[i] = None
    BY <1>3, <2>1, InvFacts DEF KnownInv, Compress, NeedsCompression
  <2>5. QED BY <2>1, <2>3, <2>4 DEF Kept
<1>4. CASE EmitCode
  <2>1. /\ UNCHANGED <<project, base, offset, labels>> /\ i \in Section
        /\ \/ UNCHANGED <<size, code>>
           \/ /\ ~project.compressed[i] /\ code[i] = None
              /\ code' = [code EXCEPT ![i] = base[i]]
              /\ size' = [size EXCEPT ![i] = project.length[i]]
    BY <1>4 DEF EmitCode, NeedsCode, Goto, SectionsOf
  <2>2. size \in [Section -> Opt(Word)] /\ code \in [Section -> Opt(SizeT)]
    BY InvFacts DEF TypeOK
  <2>3. size[i] # None => size[i] = IF project.compressed[i] THEN project.packed[i] ELSE project.length[i]
    BY <2>1, InvFacts DEF KnownInv
  <2>4. QED BY <2>1, <2>2, <2>3 DEF Kept
<1>5. CASE Fail("alignment")
  BY <1>5 DEF Fail, Kept, sectionVars
<1>6. ASSUME ~Fail("alignment"), SectionsTo("placeTo", "placeAfter") \/ SectionsFrom("placeFrom", "placeNext")
      PROVE  Kept /\ project' = project
  BY <1>6, SectionsFromIsPlacement, SectionsToIsPlacement DEF Placement, Kept, Loops
<1>7. QED BY <1>1, <1>2, <1>3, <1>4, <1>5, <1>6 DEF Resolve

LEMMA GenerateKept ==
  ASSUME Generate
  PROVE  Kept /\ project' = project
<1>1. UNCHANGED <<project, size, base, offset, code, labels>>
  BY DEF Generate, StartFile, BadBounds, CopySection, RejectSection, EndFile, CheckSymbols,
     Goto, Fail, sectionVars
<1>2. QED BY <1>1 DEF Kept

LEMMA StepKept ==
  ASSUME IInv, [Next]_vars
  PROVE  Kept /\ project' = project
<1>1. CASE UNCHANGED vars
  BY <1>1 DEF Kept, vars, sectionVars
<1>2. QED BY <1>1, ConstructKept, ResolveKept, GenerateKept DEF Next, Finished

\* Where the steps of a phase of link() start.
LEMMA StepPhase ==
  /\ Construct => pc \in Constructing
  /\ Resolve => pc \in {"sweep", "file"} \cup Resolving
  /\ Generate => pc \in {"generate", "copy", "symbols"}
<1>1. Construct => pc \in Constructing
  BY DEF Construct, ConstructFile, CtorSize, CtorBases, SectionsFrom, CtorUntil, SectionsTo,
     CtorAnchor, Constructing
<1>2. Resolve => pc \in {"sweep", "file"} \cup Resolving
  BY DEF Resolve, StartSweep, EndSweep, TryResolve, ResolveLabels, CalculateSize, SizesUnknown,
     SizesThrow, NextLoop, Compress, SkipCompress, CompressThrow, NotPlaced, EmitCode, EmitThrow,
     SectionsTo, SectionsFrom, PlaceAfter, PlaceNext, EndResolve, Resolving, OnSection
<1>3. Generate => pc \in {"generate", "copy", "symbols"}
  BY DEF Generate, StartFile, BadBounds, CopySection, RejectSection, EndFile, CheckSymbols
<1>4. QED BY <1>1, <1>2, <1>3

\* No step revises a size, base, file offset, code or label address that another
\* section may have used: the fixpoint of link() only adds.
THEOREM DecisionsAreFinal == Spec => ResolvedOnce
<1>1. IInv /\ [Next]_vars => [Kept]_vars
  BY StepKept
<1>2. [Kept]_vars => [\A s \in Section :
       /\ size[s] # None => size'[s] = size[s]
       /\ base[s] # None => base'[s] = base[s]
       /\ offset[s] # None => offset'[s] = offset[s]
       /\ code[s] # None => code'[s] = code[s]
       /\ labels[s] => labels'[s]]_vars
  BY DEF Kept
<1>3. QED BY <1>1, <1>2, Invariance, PTL DEF Spec, ResolvedOnce

-----------------------------------------------------------------------------
(* link() implements LinkPromise.                                          *)

\* What the last step of link() is.
LEMMA FailedStep ==
  ASSUME IInv, [Next]_vars, pc # "failed", pc' = "failed"
  PROVE  UNCHANGED <<size, base, offset, code>>
<1>1. ASSUME NEW why, Fail(why)
      PROVE  UNCHANGED <<size, base, offset, code>>
  BY <1>1 DEF Fail, sectionVars
<1>2. SUFFICES ASSUME \A why : ~Fail(why) PROVE FALSE
  BY <1>1
<1>3. Construct => FALSE
  <2>1. ~(ConstructFile \/ CtorSize \/ CtorBases \/ CtorUntil \/ CtorAnchor)
    BY <1>2 DEF ConstructFile, CtorSize, CtorBases, CtorUntil, CtorAnchor, Goto
  <2>2. ~(SectionsFrom("ctorFrom", "ctorUntil") \/ SectionsTo("ctorTo", "ctorAnchor"))
    BY <1>2, SectionsFromIsPlacement, SectionsToIsPlacement DEF Placement, Loops
  <2>3. QED BY <2>1, <2>2 DEF Construct
<1>4. Resolve => FALSE
  <2>1. ~(\/ StartSweep \/ EndSweep \/ TryResolve \/ ResolveLabels \/ CalculateSize \/ SizesUnknown
          \/ SizesThrow \/ NextLoop("sizes", "compress") \/ NextLoop("compress", "place")
          \/ Compress \/ SkipCompress \/ CompressThrow \/ NotPlaced \/ EmitCode \/ EmitThrow
          \/ PlaceAfter \/ PlaceNext \/ EndResolve)
    BY <1>2 DEF StartSweep, EndSweep, TryResolve, ResolveLabels, CalculateSize, SetLabels, SizesUnknown, SizesThrow,
       NextLoop, Compress, SkipCompress, CompressThrow, NotPlaced, EmitCode, EmitThrow, PlaceAfter,
       PlaceNext, EndResolve, NextSection, Goto
  <2>2. ~(SectionsTo("placeTo", "placeAfter") \/ SectionsFrom("placeFrom", "placeNext"))
    BY <1>2, SectionsFromIsPlacement, SectionsToIsPlacement DEF Placement, Loops
  <2>3. QED BY <2>1, <2>2 DEF Resolve
<1>5. Generate => FALSE
  BY <1>2 DEF Generate, StartFile, BadBounds, CopySection, RejectSection, EndFile, CheckSymbols, Goto
<1>6. ~UNCHANGED vars
  BY DEF vars
<1>7. QED BY <1>3, <1>4, <1>5, <1>6 DEF Next, Finished

LEMMA LinkedStep ==
  ASSUME IInv, [Next]_vars, pc # "linked", pc' = "linked"
  PROVE  pc = "symbols" /\ UNCHANGED <<size, base, offset, code>>
<1>1. ASSUME NEW why, Fail(why)
      PROVE  FALSE
  <2>1. pc' = "failed"
    BY <1>1 DEF Fail
  <2>2. QED BY <2>1
<1>2. Construct => FALSE
  <2>1. ~(ConstructFile \/ CtorSize \/ CtorBases \/ CtorUntil \/ CtorAnchor)
    BY <1>1 DEF ConstructFile, CtorSize, CtorBases, CtorUntil, CtorAnchor, Goto
  <2>2. ~(SectionsFrom("ctorFrom", "ctorUntil") \/ SectionsTo("ctorTo", "ctorAnchor"))
    BY <1>1, SectionsFromIsPlacement, SectionsToIsPlacement DEF Placement, Loops
  <2>3. QED BY <2>1, <2>2 DEF Construct
<1>3. Resolve => FALSE
  <2>1. ~(\/ StartSweep \/ EndSweep \/ TryResolve \/ ResolveLabels \/ CalculateSize \/ SizesUnknown
          \/ SizesThrow \/ NextLoop("sizes", "compress") \/ NextLoop("compress", "place")
          \/ Compress \/ SkipCompress \/ CompressThrow \/ NotPlaced \/ EmitCode \/ EmitThrow
          \/ PlaceAfter \/ PlaceNext \/ EndResolve)
    BY <1>1 DEF StartSweep, EndSweep, TryResolve, ResolveLabels, CalculateSize, SetLabels, SizesUnknown, SizesThrow,
       NextLoop, Compress, SkipCompress, CompressThrow, NotPlaced, EmitCode, EmitThrow, PlaceAfter,
       PlaceNext, EndResolve, NextSection, Goto
  <2>2. ~(SectionsTo("placeTo", "placeAfter") \/ SectionsFrom("placeFrom", "placeNext"))
    BY <1>1, SectionsFromIsPlacement, SectionsToIsPlacement DEF Placement, Loops
  <2>3. QED BY <2>1, <2>2 DEF Resolve
<1>4. Generate => pc = "symbols" /\ UNCHANGED <<size, base, offset, code>>
  <2>1. ~(StartFile \/ BadBounds \/ CopySection \/ RejectSection \/ EndFile)
    BY <1>1 DEF StartFile, BadBounds, CopySection, RejectSection, EndFile, Goto
  <2>2. CheckSymbols => pc = "symbols" /\ UNCHANGED <<size, base, offset, code>>
    BY <1>1 DEF CheckSymbols, sectionVars
  <2>3. QED BY <2>1, <2>2 DEF Generate
<1>5. ~UNCHANGED vars
  BY DEF vars
<1>6. QED BY <1>2, <1>3, <1>4, <1>5 DEF Next, Finished

LEMMA PromiseStep ==
  ASSUME IInv, [Next]_vars
  PROVE  [Promise!Next]_(Promise!promiseVars)
<1>1. Kept /\ project' = project
  BY StepKept
<1>2. CASE pc \in {"linked", "failed"}
  <2>1. Finished \/ UNCHANGED vars
    BY <1>2 DEF Next, Construct, Resolve, Generate, Finished,
       ConstructFile, CtorSize, CtorBases, SectionsFrom, CtorUntil, SectionsTo, CtorAnchor,
       StartSweep, EndSweep, TryResolve, ResolveLabels, CalculateSize, SetLabels, SizesUnknown, SizesThrow, NextLoop,
       Compress, SkipCompress, CompressThrow, NotPlaced, EmitCode, EmitThrow, PlaceAfter, PlaceNext,
       EndResolve, StartFile, BadBounds, CopySection, RejectSection, EndFile, CheckSymbols
  <2>2. UNCHANGED <<project, pc, size, base, offset, code>>
    BY <2>1 DEF Finished, vars, sectionVars
  <2>3. QED BY <2>2 DEF Promise!promiseVars, Promise!decisions, Outcome
<1>3. CASE pc \notin {"linked", "failed"} /\ pc' \notin {"linked", "failed"}
  <2>1. Outcome = "linking" /\ Outcome' = "linking"
    BY <1>3 DEF Outcome
  <2>2. Promise!Decide
    BY <1>1, <2>1 DEF Promise!Decide, Promise!Keeps, Kept
  <2>3. QED BY <2>2 DEF Promise!Next
<1>4. CASE pc \notin {"linked", "failed"} /\ pc' = "failed"
  <2>1. UNCHANGED <<size, base, offset, code>>
    BY <1>4, FailedStep
  <2>2. Promise!Reject
    BY <1>1, <1>4, <2>1 DEF Promise!Reject, Promise!decisions, Outcome
  <2>3. QED BY <2>2 DEF Promise!Next
<1>5. CASE pc \notin {"linked", "failed"} /\ pc' = "linked"
  <2>1. pc = "symbols" /\ UNCHANGED <<size, base, offset, code>>
    BY <1>5, LinkedStep
  <2>2. \A s \in Section : Complete(s) /\ base[s] # None /\ image[s] # None
    BY <2>1, InvFacts DEF GenerateInv, Generated, TurnInv, KnownInv, Complete
  <2>3. Promise!Decided
    BY <2>2 DEF Promise!Decided, Complete
  <2>4. \A s, t \in Section : s # t => Promise!Apart(s, t)
    BY <2>2, InvFacts DEF NoOverlap, Promise!Apart
  <2>5. Promise!Succeed
    BY <1>1, <1>5, <2>1, <2>3, <2>4 DEF Promise!Succeed, Promise!decisions, Outcome
  <2>6. QED BY <2>5 DEF Promise!Next
<1>6. QED BY <1>2, <1>3, <1>4, <1>5

\* Linker refines LinkPromise: decisions come in any order and are final, and a
\* project is linked only if every section is decided and none overlap.
THEOREM Refinement == Spec => KeepsPromise
<1>1. Init => Promise!Init
  BY DEF Init, Promise!Init, Outcome
<1>2. IInv /\ [Next]_vars => [Promise!Next]_(Promise!promiseVars)
  BY PromiseStep
<1>3. QED BY <1>1, <1>2, Invariance, PTL DEF Spec, KeepsPromise, Promise!Spec
=============================================================================
