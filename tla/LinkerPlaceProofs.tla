-------------------------- MODULE LinkerPlaceProofs --------------------------
(***************************************************************************)
(* Theorems about where Linker places sections and how it ends: that code  *)
(* runs at the address it was emitted for, that a section without an       *)
(* address of its own lies next to the neighbour it is attached to, that   *)
(* link() gives up only when nothing can be resolved any more, and that a  *)
(* section is found in the generated file where its file offset says.      *)
(***************************************************************************)
EXTENDS LinkerProofs

-----------------------------------------------------------------------------
(* Rounding.                                                               *)

\* What rounding down leaves is a multiple.
LEMMA RoundedFacts ==
  ASSUME NEW a \in Nat, NEW n \in Nat, n # 0
  PROVE  (a - (a % n)) % n = 0
<1>1. a = n * (a \div n) + (a % n) /\ a \div n \in Int
  OBVIOUS
<1>2. a - (a % n) = n * (a \div n)
  BY <1>1
<1>3. \A q \in Int : (n * q) % n = 0
  OBVIOUS
<1>4. QED BY <1>1, <1>2, <1>3

\* Rounding an address up or down gives a multiple of the alignment.
LEMMA AlignedFacts ==
  ASSUME NEW a \in SizeT, NEW n \in Opt(Word), n # 0, n # None
  PROVE  AlignUp(a, n) % n = 0 /\ AlignDown(a, n) % n = 0
<1>1. n \in Nat /\ n - 1 \in SizeT /\ a \in Nat
  BY NumberFacts DEF Opt, Word, SizeT
<1>2. Plus(a, n - 1) \in Nat
  BY <1>1, NumberFacts DEF Plus, SizeT
<1>3. QED BY <1>1, <1>2, RoundedFacts DEF AlignUp, AlignDown

-----------------------------------------------------------------------------
(* The inductive invariant.                                                *)

\* A section whose file the constructor has not come to.
Unbased(s) ==
  \/ pc = "failed"
  \/ pc \in {"construct", "ctorSize"} /\ f <= project.file[s]
  \/ pc \in AfterBases /\ f < project.file[s]

\* The base of a section is the one its project gives or else its file offset.
BaseInv ==
  \A s \in Section :
    /\ base[s] # None => base[s] = IF project.base[s] # None THEN project.base[s] ELSE offset[s]
    /\ project.base[s] # None /\ base[s] = None => Unbased(s)

\* A base obeys the alignment of its section.
AlignedInv ==
  \A s \in Section :
    base[s] # None /\ project.align[s] # None => project.align[s] # 0 /\ base[s] % project.align[s] = 0

\* Code that depends on its address was emitted for the base.
CodeInv ==
  \A s \in Section :
    code[s] # None /\ (project.usesHere[s] \/ ~project.compressed[s]) =>
      base[s] # None /\ code[s] = base[s]

\* addr is the end of the previous section of the file or the start of the file,
\* and the beginning of the next section or the end of the file.
FromInv ==
  pc \in {"ctorFrom", "placeFrom"} /\ k \in SectionsOf(f) =>
    IF k - 1 \in SectionsOf(f)
    THEN offset[k - 1] # None /\ size[k - 1] # None /\ addr = Plus(offset[k - 1], size[k - 1])
    ELSE addr = project.start[f]
ToInv ==
  pc \in {"ctorTo", "placeTo"} /\ k \in SectionsOf(f) =>
    IF k + 1 \in SectionsOf(f) THEN offset[k + 1] # None /\ addr = offset[k + 1]
    ELSE addr = project.until[f]

\* The constructor has sized all sections of a file before it places them.
EndInv == pc \in AfterBases => AtEnd(f, i)

\* A section that its project gives no base is where KeepsAttachment says.
Attached(s) ==
  offset[s] # None /\ project.base[s] = None =>
    IF attachment[s] = "Lower"
    THEN /\ s - 1 \in SectionsOf(project.file[s]) => offset[s - 1] # None /\ size[s - 1] # None
         /\ offset[s] = AlignUp(IF s - 1 \in SectionsOf(project.file[s])
                                  THEN Plus(offset[s - 1], size[s - 1]) ELSE project.start[project.file[s]],
                                project.align[s])
    ELSE /\ s + 1 \in SectionsOf(project.file[s]) => offset[s + 1] # None
         /\ size[s] # None
         /\ offset[s] = AlignDown(Minus(IF s + 1 \in SectionsOf(project.file[s])
                                          THEN offset[s + 1] ELSE project.until[project.file[s]],
                                        size[s]),
                                  project.align[s])
AttachedInv == \A s \in Section : Attached(s)

PlaceInv == BaseInv /\ AlignedInv /\ CodeInv /\ FromInv /\ ToInv /\ EndInv /\ AttachedInv

-----------------------------------------------------------------------------
(* The steps that place a section.                                         *)

\* Section k is stored at the address at, and runs there if it had no base.
PlacedAt(at) ==
  /\ k \in SectionsOf(f) /\ k \in Section /\ offset[k] = None /\ project.align[k] # 0 /\ at \in SizeT
  /\ offset' = [offset EXCEPT ![k] = at]
  /\ base' = [base EXCEPT ![k] = IF @ = None THEN at ELSE @]
  /\ UNCHANGED <<project, f, i, attachment, size, labels, code>>

PlacedFrom(here, next) ==
  /\ pc = here
  /\ attachment[k] = "Lower" /\ PlacedAt(AlignUp(addr, project.align[k]))
  /\ \/ pc' = next
     \/ pc' = here /\ size[k] # None /\ k' = k + 1 /\ addr' = Plus(offset'[k], size[k])

PlacedTo(here) ==
  /\ pc = here
  /\ attachment[k] = "Upper" /\ PlacedAt(AlignDown(Minus(addr, size[k]), project.align[k]))
  /\ size[k] # None /\ pc' = here /\ k' = k - 1 /\ addr' = offset'[k]

\* A turn of resolveSectionsFrom stores section k behind addr, leaves the loop or throws.
LEMMA SectionsFromPlaces ==
  ASSUME IInv, NEW here, NEW next, SectionsFrom(here, next)
  PROVE  Fail("alignment") \/ LeaveLoop(next) \/ PlacedFrom(here, next)
<1>1. SUFFICES ASSUME ~Fail("alignment"), ~LeaveLoop(next)
               PROVE  PlacedFrom(here, next)
  OBVIOUS
<1> DEFINE at == AlignUp(addr, project.align[k])
<1>2. /\ k \in SectionsOf(f) /\ attachment[k] = "Lower" /\ offset[k] = None /\ project.align[k] # 0
      /\ Place(k, at) /\ project' = project
      /\ \/ size[k] = None /\ pc' = next /\ k' = k /\ addr' = addr
         \/ size[k] # None /\ pc' = here /\ k' = k + 1 /\ addr' = Plus(at, size[k])
  BY <1>1 DEF SectionsFrom, MayPlaceFrom, Goto
<1>3. k \in Section
  BY <1>2 DEF SectionsOf
<1>4. project.align[k] \in Opt(Word) /\ addr \in SizeT /\ offset \in [Section -> Opt(SizeT)]
  BY <1>3, InvFacts, ProjectFacts DEF TypeOK
<1>5. at \in SizeT
  BY <1>2, <1>4, SizeTArithmetic
<1>6. PlacedAt(at)
  BY <1>2, <1>3, <1>5 DEF PlacedAt, Place
<1>7. offset'[k] = at
  BY <1>3, <1>4, <1>6 DEF PlacedAt
<1>8. QED BY <1>2, <1>6, <1>7 DEF PlacedFrom, SectionsFrom

\* A turn of resolveSectionsTo stores section k before addr, leaves the loop or throws.
LEMMA SectionsToPlaces ==
  ASSUME IInv, NEW here, NEW next, SectionsTo(here, next)
  PROVE  Fail("alignment") \/ LeaveLoop(next) \/ PlacedTo(here)
<1>1. SUFFICES ASSUME ~Fail("alignment"), ~LeaveLoop(next)
               PROVE  PlacedTo(here)
  OBVIOUS
<1> DEFINE at == AlignDown(Minus(addr, size[k]), project.align[k])
<1>2. /\ k \in SectionsOf(f) /\ attachment[k] = "Upper" /\ offset[k] = None /\ project.align[k] # 0
      /\ Place(k, at) /\ project' = project
      /\ size[k] # None /\ pc' = here /\ k' = k - 1 /\ addr' = at
  BY <1>1 DEF SectionsTo, MayPlaceTo, Goto
<1>3. k \in Section
  BY <1>2 DEF SectionsOf
<1>4. /\ project.align[k] \in Opt(Word) /\ addr \in SizeT /\ offset \in [Section -> Opt(SizeT)]
      /\ size[k] \in Opt(Word)
  BY <1>3, InvFacts, ProjectFacts DEF TypeOK
<1>5. size[k] \in SizeT
  BY <1>2, <1>4, NumberFacts DEF Opt
<1>6. Minus(addr, size[k]) \in SizeT
  BY <1>2, <1>4, <1>5, SizeTArithmetic
<1>7. at \in SizeT
  BY <1>2, <1>4, <1>6, SizeTArithmetic
<1>8. PlacedAt(at)
  BY <1>2, <1>3, <1>7 DEF PlacedAt, Place
<1>9. offset'[k] = at
  BY <1>3, <1>4, <1>8 DEF PlacedAt
<1>10. QED BY <1>2, <1>8, <1>9 DEF PlacedTo, SectionsTo

\* How a step of the linker may change bases and file offsets.
BasesStep ==
  /\ pc = "ctorSize" /\ AtEnd(f, i) /\ pc' = "ctorFrom" /\ UNCHANGED <<f, i>>
  /\ \A s \in SectionsOf(f) : ~BadAlignment(s)
  /\ \A s \in Section :
       IF s \in SectionsOf(f) THEN base'[s] = project.base[s] /\ offset'[s] = CtorOffset(s)
       ELSE base'[s] = base[s] /\ offset'[s] = offset[s] /\ attachment'[s] = attachment[s]
  /\ k' = IF project.start[f] = None THEN 0 ELSE First(f)
  /\ addr' = IF project.start[f] = None THEN 0 ELSE project.start[f]
AnchorStep ==
  /\ pc = "ctorAnchor" /\ pc' = "construct" /\ f' = f + 1 /\ UNCHANGED <<base, attachment>>
  /\ \A s \in Section :
       offset'[s] = offset[s] \/ (base[s] # None /\ offset[s] = None /\ offset'[s] = base[s])
PlacementStep ==
  \/ PlacedFrom("ctorFrom", "ctorUntil") \/ PlacedTo("ctorTo")
  \/ PlacedTo("placeTo") \/ PlacedFrom("placeFrom", "placeNext")
PlacesKept == UNCHANGED <<base, offset, attachment>>

\* What the constructor does to a file it has sized.
LEMMA CtorBasesIsBasesStep ==
  ASSUME CtorBases
  PROVE  Fail("alignment") \/ BasesStep
<1>1. SUFFICES ASSUME ~Fail("alignment")
               PROVE  BasesStep
  OBVIOUS
<1>2. /\ pc = "ctorSize" /\ AtEnd(f, i) /\ pc' = "ctorFrom" /\ UNCHANGED <<f, i>>
      /\ \A s \in SectionsOf(f) : ~BadAlignment(s)
      /\ base' = [s \in Section |-> IF s \in SectionsOf(f) THEN project.base[s] ELSE base[s]]
      /\ offset' = [s \in Section |-> IF s \in SectionsOf(f) THEN CtorOffset(s) ELSE offset[s]]
      /\ attachment' = ConvertUpper(ConvertLower(offset'), offset')
      /\ k' = IF project.start[f] = None THEN 0 ELSE First(f)
      /\ addr' = IF project.start[f] = None THEN 0 ELSE project.start[f]
  BY <1>1 DEF CtorBases, Goto
<1>3. \A s \in Section : s \notin SectionsOf(f) => attachment'[s] = attachment[s]
  BY <1>2 DEF ConvertUpper, ConvertLower, Leading
<1>4. \A s \in Section : IF s \in SectionsOf(f)
        THEN base'[s] = project.base[s] /\ offset'[s] = CtorOffset(s)
        ELSE base'[s] = base[s] /\ offset'[s] = offset[s]
  BY <1>2
<1>5. QED BY <1>2, <1>3, <1>4 DEF BasesStep

\* Of the steps of the constructor, only these change bases and file offsets.
LEMMA ConstructPlaces ==
  ASSUME IInv, Construct
  PROVE  PlacesKept \/ BasesStep \/ AnchorStep \/ PlacementStep
<1>1. CASE ConstructFile \/ CtorSize \/ CtorUntil
  BY <1>1 DEF ConstructFile, CtorSize, CtorUntil, Goto, Fail, sectionVars, PlacesKept
<1>2. CASE CtorBases
  BY <1>2, CtorBasesIsBasesStep DEF Fail, sectionVars, PlacesKept
<1>3. CASE CtorAnchor
  <2>1. CASE Fail("anchor")
    BY <2>1 DEF Fail, sectionVars, PlacesKept
  <2>2. CASE ~Fail("anchor")
    <3>1. /\ pc = "ctorAnchor" /\ pc' = "construct" /\ f' = f + 1 /\ UNCHANGED <<base, attachment>>
          /\ offset' = [s \in Section |->
                          IF NeedsAnchor /\ s \in Anchors /\ \A t \in Anchors : s <= t
                            THEN base[s] ELSE offset[s]]
      BY <1>3, <2>2 DEF CtorAnchor, Goto
    <3>2. \A s \in Section : NeedsAnchor /\ s \in Anchors => base[s] # None /\ offset[s] = None
      BY DEF NeedsAnchor, Anchors
    <3>3. QED BY <3>1, <3>2 DEF AnchorStep
  <2>3. QED BY <2>1, <2>2
<1>4. CASE SectionsFrom("ctorFrom", "ctorUntil") \/ SectionsTo("ctorTo", "ctorAnchor")
  BY <1>4, SectionsFromPlaces, SectionsToPlaces DEF PlacementStep, PlacesKept, Fail, LeaveLoop, sectionVars
<1>5. QED BY <1>1, <1>2, <1>3, <1>4 DEF Construct

LEMMA StepPlaces ==
  ASSUME IInv, [Next]_vars
  PROVE  PlacesKept \/ BasesStep \/ AnchorStep \/ PlacementStep
<1>1. CASE UNCHANGED vars
  BY <1>1 DEF vars, sectionVars, PlacesKept
<1>2. CASE Resolve
  <2>1. CASE SectionsTo("placeTo", "placeAfter") \/ SectionsFrom("placeFrom", "placeNext")
    BY <2>1, SectionsFromPlaces, SectionsToPlaces DEF PlacementStep, PlacesKept, Fail, LeaveLoop, sectionVars
  <2>2. CASE ~(SectionsTo("placeTo", "placeAfter") \/ SectionsFrom("placeFrom", "placeNext"))
    BY <1>2, <2>2 DEF Resolve, StartSweep, EndSweep, TryResolve, ResolveLabels, CalculateSize, SizesUnknown,
       SizesThrow, NextLoop, Compress, SkipCompress, CompressThrow, NotPlaced, EmitCode, EmitThrow,
       PlaceAfter, PlaceNext, EndResolve, NextSection, Goto, Fail, sectionVars, PlacesKept
  <2>3. QED BY <2>1, <2>2
<1>3. CASE Generate
  BY <1>3 DEF Generate, StartFile, BadBounds, CopySection, RejectSection, EndFile, CheckSymbols,
     Goto, Fail, sectionVars, PlacesKept
<1>4. QED BY <1>1, <1>2, <1>3, ConstructPlaces DEF Next, Finished

\* The constructor gives a section its base when it comes to its file.
LEMMA UnbasedStep ==
  ASSUME IInv, [Next]_vars, NEW s \in Section, project.base[s] # None, Unbased(s), base'[s] = None
  PROVE  Unbased(s)'
<1>0. /\ project' = project /\ f \in Int /\ project.file[s] \in File /\ project.file[s] \in Int
      /\ F \in Nat /\ f \in 1..(F + 1)
  BY StepKept, InvFacts, ProjectFacts, NumberFacts DEF TypeOK, File
<1>1. CASE UNCHANGED vars \/ Finished
  BY <1>1 DEF Finished, vars, Unbased
<1>2. CASE \E why : Fail(why)
  BY <1>2 DEF Fail, Unbased
<1>3. CASE Resolve \/ Generate
  BY <1>3, StepPhase DEF Unbased, AfterBases, Resolving, OnSection
<1>4. CASE Construct /\ ~\E why : Fail(why)
  <2>1. CASE ConstructFile
    <3>1. pc = "construct" /\ f <= project.file[s]
      BY <2>1 DEF ConstructFile, Unbased, AfterBases
    <3>2. f \in File
      BY <1>0, <3>1, NumberFacts DEF File
    <3>3. pc' = "ctorSize" /\ f' = f
      BY <1>4, <2>1, <3>2 DEF ConstructFile, Goto
    <3>4. QED BY <1>0, <3>1, <3>3 DEF Unbased
  <2>2. CASE CtorSize
    BY <1>0, <1>4, <2>2 DEF CtorSize, Goto, Unbased, AfterBases
  <2>3. CASE CtorBases
    <3>1. pc = "ctorSize" /\ pc' = "ctorFrom" /\ f' = f
          /\ base' = [t \in Section |-> IF t \in SectionsOf(f) THEN project.base[t] ELSE base[t]]
      BY <1>4, <2>3 DEF CtorBases, Goto
    <3>2. s \notin SectionsOf(f)
      BY <3>1
    <3>3. f <= project.file[s] /\ f # project.file[s]
      BY <3>1, <3>2 DEF Unbased, AfterBases, SectionsOf
    <3>4. QED BY <1>0, <3>1, <3>3 DEF Unbased, AfterBases
  <2>4. CASE SectionsFrom("ctorFrom", "ctorUntil") \/ CtorUntil \/ SectionsTo("ctorTo", "ctorAnchor")
    <3>1. pc \in AfterBases /\ pc' \in AfterBases /\ f' = f
      <4>1. CASE CtorUntil
        BY <4>1 DEF CtorUntil, Goto, AfterBases
      <4>2. CASE ~CtorUntil
        <5>1. pc \in {"ctorFrom", "ctorTo"}
          BY <2>4, <4>2 DEF SectionsFrom, SectionsTo
        <5>2. \/ LeaveLoop("ctorUntil") \/ PlacedFrom("ctorFrom", "ctorUntil")
              \/ LeaveLoop("ctorAnchor") \/ PlacedTo("ctorTo")
          BY <1>4, <2>4, <4>2, SectionsFromPlaces, SectionsToPlaces
        <5>3. QED BY <5>1, <5>2 DEF LeaveLoop, Goto, PlacedFrom, PlacedTo, PlacedAt, AfterBases
      <4>3. QED BY <4>1, <4>2
    <3>2. pc # "failed" /\ pc \notin {"construct", "ctorSize"}
      BY <3>1 DEF AfterBases
    <3>3. QED BY <1>0, <3>1, <3>2 DEF Unbased
  <2>5. CASE CtorAnchor
    <3>1. pc = "ctorAnchor" /\ pc' = "construct" /\ f' = f + 1
      BY <1>4, <2>5 DEF CtorAnchor, Goto
    <3>2. QED BY <1>0, <3>1 DEF Unbased, AfterBases
  <2>6. QED BY <1>4, <2>1, <2>2, <2>3, <2>4, <2>5 DEF Construct
<1>5. QED BY <1>1, <1>2, <1>3, <1>4 DEF Next

\* A placed section, and what placing one leaves alone.
LEMMA PlacedFacts ==
  ASSUME IInv, NEW at, PlacedAt(at)
  PROVE  /\ k \in Section /\ k \in SectionsOf(f) /\ offset[k] = None /\ at # None
         /\ offset'[k] = at /\ base'[k] = IF base[k] = None THEN at ELSE base[k]
         /\ \A s \in Section : s # k => offset'[s] = offset[s] /\ base'[s] = base[s]
<1>1. offset \in [Section -> Opt(SizeT)] /\ base \in [Section -> Opt(SizeT)]
  BY InvFacts DEF TypeOK
<1>2. at # None
  BY NumberFacts DEF PlacedAt
<1>3. QED BY <1>1, <1>2 DEF PlacedAt

\* The cases in which a section is placed.
LEMMA PlacementFacts ==
  ASSUME PlacementStep
  PROVE  /\ pc \in AfterBases \cup OnSection
         /\ \E at : /\ PlacedAt(at)
                    /\ \/ at = AlignUp(addr, project.align[k]) /\ attachment[k] = "Lower"
                       \/ at = AlignDown(Minus(addr, size[k]), project.align[k]) /\ attachment[k] = "Upper"
BY DEF PlacementStep, PlacedFrom, PlacedTo, AfterBases, OnSection

LEMMA BaseKeeps ==
  ASSUME IInv, BaseInv, [Next]_vars
  PROVE  BaseInv'
<1>0. Kept /\ project' = project
  BY StepKept
<1>1. ASSUME NEW s \in Section, base'[s] # None
      PROVE  base'[s] = IF project.base[s] # None THEN project.base[s] ELSE offset'[s]
  <2>1. CASE base[s] # None
    BY <1>0, <2>1, InvFacts DEF BaseInv, Kept, KnownInv
  <2>2. CASE base[s] = None
    <3>1. ~PlacesKept /\ ~AnchorStep
      BY <1>1, <2>2 DEF PlacesKept, AnchorStep
    <3>2. CASE BasesStep
      <4>1. s \in SectionsOf(f) /\ base'[s] = project.base[s]
        BY <1>1, <2>2, <3>2 DEF BasesStep
      <4>2. QED BY <1>1, <4>1
    <3>3. CASE PlacementStep
      <4>1. PICK at : PlacedAt(at)
        BY <3>3, PlacementFacts
      <4>2. s = k /\ base'[s] = at /\ offset'[s] = at /\ s \in SectionsOf(f)
        BY <1>1, <2>2, <4>1, PlacedFacts
      <4>3. ~Unbased(s)
        <5>1. pc # "failed" /\ pc \notin {"construct", "ctorSize"}
          BY <3>3, PlacementFacts DEF AfterBases, OnSection
        <5>2. project.file[s] = f /\ f \in Int
          BY <4>2, InvFacts DEF SectionsOf, TypeOK
        <5>3. QED BY <5>1, <5>2 DEF Unbased
      <4>4. project.base[s] = None
        BY <2>2, <4>3 DEF BaseInv
      <4>5. QED BY <4>2, <4>4
    <3>4. QED BY <3>1, <3>2, <3>3, StepPlaces
  <2>3. QED BY <2>1, <2>2
<1>2. ASSUME NEW s \in Section, project.base[s] # None, base'[s] = None
      PROVE  Unbased(s)'
  <2>1. base[s] = None
    BY <1>0, <1>2 DEF Kept
  <2>2. QED BY <1>2, <2>1, UnbasedStep DEF BaseInv
<1>3. QED BY <1>0, <1>1, <1>2 DEF BaseInv

LEMMA AlignedKeeps ==
  ASSUME IInv, AlignedInv, [Next]_vars
  PROVE  AlignedInv'
<1>0. Kept /\ project' = project
  BY StepKept
<1>1. ASSUME NEW s \in Section, base'[s] # None, project.align[s] # None
      PROVE  project.align[s] # 0 /\ base'[s] % project.align[s] = 0
  <2>1. CASE base[s] # None
    BY <1>0, <1>1, <2>1 DEF AlignedInv, Kept
  <2>2. CASE base[s] = None
    <3>1. ~PlacesKept /\ ~AnchorStep
      BY <1>1, <2>2 DEF PlacesKept, AnchorStep
    <3>2. CASE BasesStep
      <4>1. s \in SectionsOf(f) /\ base'[s] = project.base[s] /\ ~BadAlignment(s)
        BY <1>1, <2>2, <3>2 DEF BasesStep
      <4>2. QED BY <1>1, <4>1 DEF BadAlignment
    <3>3. CASE PlacementStep
      <4>1. PICK at : PlacedAt(at) /\ (\/ at = AlignUp(addr, project.align[k])
                                       \/ /\ at = AlignDown(Minus(addr, size[k]), project.align[k])
                                          /\ size[k] # None)
        BY <3>3 DEF PlacementStep, PlacedFrom, PlacedTo
      <4>2. s = k /\ base'[s] = at
        BY <1>1, <2>2, <4>1, PlacedFacts
      <4>3. /\ project.align[s] # 0 /\ project.align[s] \in Opt(Word) /\ addr \in SizeT
            /\ size[k] # None => size[k] \in SizeT
        BY <4>1, <4>2, InvFacts, ProjectFacts, NumberFacts DEF PlacedAt, TypeOK, Opt
      <4>4. size[k] # None => Minus(addr, size[k]) \in SizeT
        BY <4>3, SizeTArithmetic
      <4>5. at % project.align[s] = 0
        BY <1>1, <4>1, <4>2, <4>3, <4>4, AlignedFacts
      <4>6. QED BY <4>2, <4>3, <4>5
    <3>4. QED BY <3>1, <3>2, <3>3, StepPlaces
  <2>3. QED BY <2>1, <2>2
<1>2. QED BY <1>0, <1>1 DEF AlignedInv

LEMMA CodeKeeps ==
  ASSUME IInv, CodeInv, [Next]_vars
  PROVE  CodeInv'
<1>0. Kept /\ project' = project
  BY StepKept
<1>1. CASE UNCHANGED code
  BY <1>0, <1>1 DEF CodeInv, Kept
<1>2. CASE Compress
  <2>1. /\ i \in Section /\ project.compressed[i] /\ "ok" \in CompressOutcomes(i)
        /\ code' = [code EXCEPT ![i] = EmitBase(i)] /\ code \in [Section -> Opt(SizeT)]
    BY <1>2, InvFacts DEF Compress, NeedsCompression, SectionsOf, TypeOK
  <2>2. project.usesHere[i] => base[i] # None /\ EmitBase(i) = base[i]
    BY <2>1 DEF CompressOutcomes, EmitBase
  <2>3. \A s \in Section : code'[s] = IF s = i THEN EmitBase(i) ELSE code[s]
    BY <2>1
  <2>4. QED BY <1>0, <2>1, <2>2, <2>3 DEF CodeInv, Kept
<1>3. CASE EmitCode
  <2>1. /\ i \in Section /\ offset[i] # None /\ code \in [Section -> Opt(SizeT)]
        /\ code' = code \/ code' = [code EXCEPT ![i] = base[i]]
    BY <1>3, InvFacts DEF EmitCode, Placed, SectionsOf, TypeOK
  <2>2. base[i] # None
    BY <2>1, InvFacts DEF KnownInv
  <2>3. \A s \in Section : code'[s] = code[s] \/ (s = i /\ code'[s] = base[s])
    BY <2>1
  <2>4. QED BY <1>0, <2>1, <2>2, <2>3 DEF CodeInv, Kept
<1>4. Construct => UNCHANGED code
  <2>1. SectionsFrom("ctorFrom", "ctorUntil") \/ SectionsTo("ctorTo", "ctorAnchor") => UNCHANGED code
    BY DEF SectionsFrom, SectionsTo, LeaveLoop, Place, Fail, sectionVars
  <2>2. QED BY <2>1 DEF Construct, ConstructFile, CtorSize, CtorBases, CtorUntil, CtorAnchor, Fail, sectionVars
<1>5. Resolve => UNCHANGED code \/ Compress \/ EmitCode
  <2>1. SectionsTo("placeTo", "placeAfter") \/ SectionsFrom("placeFrom", "placeNext") => UNCHANGED code
    BY DEF SectionsFrom, SectionsTo, LeaveLoop, Place, Fail, sectionVars
  <2>2. QED BY <2>1 DEF Resolve, StartSweep, EndSweep, TryResolve, ResolveLabels, CalculateSize, SizesUnknown,
       SizesThrow, NextLoop, SkipCompress, CompressThrow, NotPlaced, EmitThrow,
       PlaceAfter, PlaceNext, EndResolve, Fail, sectionVars
<1>6. Generate => UNCHANGED code
  BY DEF Generate, StartFile, BadBounds, CopySection, RejectSection, EndFile, CheckSymbols, Fail, sectionVars
<1>7. UNCHANGED vars => UNCHANGED code
  BY DEF vars, sectionVars
<1>8. QED BY <1>1, <1>2, <1>3, <1>4, <1>5, <1>6, <1>7 DEF Next, Finished

LEMMA EndKeeps ==
  ASSUME IInv, EndInv, [Next]_vars
  PROVE  EndInv'
<1>0. project' = project
  BY StepKept
<1>1. SUFFICES ASSUME pc' \in AfterBases
               PROVE  AtEnd(f, i)'
  BY DEF EndInv
<1>2. AtEnd(f, i) /\ UNCHANGED <<f, i>>
  <2>1. CASE UNCHANGED vars \/ Finished
    BY <1>1, <2>1 DEF EndInv, Finished, vars
  <2>2. CASE Construct
    <3>1. CASE SectionsFrom("ctorFrom", "ctorUntil") \/ SectionsTo("ctorTo", "ctorAnchor")
      <4>1. pc \in AfterBases
        BY <3>1 DEF SectionsFrom, SectionsTo, AfterBases
      <4>2. UNCHANGED <<f, i>>
        BY <3>1 DEF SectionsFrom, SectionsTo, LeaveLoop, Place, Fail
      <4>3. QED BY <4>1, <4>2 DEF EndInv
    <3>2. QED BY <1>1, <2>2, <3>1 DEF Construct, ConstructFile, CtorSize, CtorBases, CtorUntil, CtorAnchor,
                                       Goto, Fail, EndInv, AfterBases
  <2>3. CASE Resolve
    <3>1. pc' \notin AfterBases
      <4>1. ~(SectionsTo("placeTo", "placeAfter") \/ SectionsFrom("placeFrom", "placeNext"))
        BY <1>1 DEF SectionsFrom, SectionsTo, LeaveLoop, Goto, Fail, AfterBases
      <4>2. QED BY <2>3, <4>1 DEF Resolve, StartSweep, EndSweep, TryResolve, ResolveLabels, CalculateSize,
                 SizesUnknown, SizesThrow, NextLoop, Compress, SkipCompress, CompressThrow, NotPlaced, EmitCode,
                 EmitThrow, PlaceAfter, PlaceNext, EndResolve, NextSection, Goto, Fail, AfterBases
    <3>2. QED BY <1>1, <3>1
  <2>4. CASE Generate
    BY <1>1, <2>4 DEF Generate, StartFile, BadBounds, CopySection, RejectSection, EndFile, CheckSymbols,
       Goto, Fail, AfterBases
  <2>5. QED BY <2>1, <2>2, <2>3, <2>4 DEF Next
<1>3. QED BY <1>0, <1>2 DEF AtEnd, SectionsOf

\* How a step comes to a turn of resolveSectionsFrom.
LEMMA FromEntry ==
  ASSUME IInv, [Next]_vars, pc' \in {"ctorFrom", "placeFrom"}
  PROVE  \/ BasesStep \/ PlaceAfter
         \/ PlacedFrom("ctorFrom", "ctorUntil") \/ PlacedFrom("placeFrom", "placeNext")
         \/ UNCHANGED vars
<1>1. Construct => BasesStep \/ PlacedFrom("ctorFrom", "ctorUntil")
  <2>1. SectionsFrom("ctorFrom", "ctorUntil") => PlacedFrom("ctorFrom", "ctorUntil")
    BY SectionsFromPlaces DEF LeaveLoop, Goto, Fail
  <2>2. ~SectionsTo("ctorTo", "ctorAnchor")
    BY DEF SectionsTo, LeaveLoop, Goto, Fail
  <2>3. CtorBases => BasesStep
    BY CtorBasesIsBasesStep DEF Fail
  <2>4. ~(ConstructFile \/ CtorSize \/ CtorUntil \/ CtorAnchor)
    BY DEF ConstructFile, CtorSize, CtorUntil, CtorAnchor, Goto, Fail
  <2>5. QED BY <2>1, <2>2, <2>3, <2>4 DEF Construct
<1>2. Resolve => PlaceAfter \/ PlacedFrom("placeFrom", "placeNext")
  <2>1. SectionsFrom("placeFrom", "placeNext") => PlacedFrom("placeFrom", "placeNext")
    BY SectionsFromPlaces DEF LeaveLoop, Goto, Fail
  <2>2. ~SectionsTo("placeTo", "placeAfter")
    BY DEF SectionsTo, LeaveLoop, Goto, Fail
  <2>3. ~(\/ StartSweep \/ EndSweep \/ TryResolve \/ ResolveLabels \/ CalculateSize \/ SizesUnknown
          \/ SizesThrow \/ NextLoop("sizes", "compress") \/ NextLoop("compress", "place")
          \/ Compress \/ SkipCompress \/ CompressThrow \/ NotPlaced \/ EmitCode \/ EmitThrow
          \/ PlaceNext \/ EndResolve)
    BY DEF StartSweep, EndSweep, TryResolve, ResolveLabels, CalculateSize, SizesUnknown, SizesThrow, NextLoop,
       Compress, SkipCompress, CompressThrow, NotPlaced, EmitCode, EmitThrow, PlaceNext, EndResolve,
       NextSection, Goto, Fail
  <2>4. QED BY <2>1, <2>2, <2>3 DEF Resolve
<1>3. ~Generate
  BY DEF Generate, StartFile, BadBounds, CopySection, RejectSection, EndFile, CheckSymbols, Goto, Fail
<1>4. QED BY <1>1, <1>2, <1>3 DEF Next, Finished

LEMMA FromKeeps ==
  ASSUME IInv, FromInv, [Next]_vars
  PROVE  FromInv'
<1>0. Kept /\ project' = project /\ \A g : SectionsOf(g)' = SectionsOf(g)
  BY StepKept DEF SectionsOf
<1>1. SUFFICES ASSUME pc' \in {"ctorFrom", "placeFrom"}, k' \in SectionsOf(f')
               PROVE  IF k' - 1 \in SectionsOf(f')
                      THEN /\ offset'[k' - 1] # None /\ size'[k' - 1] # None
                           /\ addr' = Plus(offset'[k' - 1], size'[k' - 1])
                      ELSE addr' = project.start[f']
  BY <1>0 DEF FromInv
<1>2. k' \in Section /\ k' \in Int /\ k' # 0
  BY <1>1 DEF SectionsOf, Section
<1>3. CASE BasesStep
  <2>1. f' = f /\ k' = First(f) /\ addr' = project.start[f]
    BY <1>2, <1>3 DEF BasesStep
  <2>2. f \in Int /\ \A s \in SectionsOf(f) : First(f) <= s
    BY InvFacts, FirstFacts DEF TypeOK
  <2>3. k' - 1 \notin SectionsOf(f)
    BY <1>2, <2>1, <2>2
  <2>4. QED BY <2>1, <2>3
<1>4. CASE PlaceAfter
  <2>1. /\ f' = f /\ k' = i + 1 /\ size[i] # None /\ addr' = Plus(offset[i], size[i])
        /\ UNCHANGED <<offset, size>> /\ pc \in OnSection
    BY <1>2, <1>4 DEF PlaceAfter, Goto, sectionVars, OnSection
  <2>2. i \in SectionsOf(f) /\ offset[i] # None /\ k' - 1 = i
    BY <2>1, InvFacts DEF CursorInv, TypeOK
  <2>3. QED BY <2>1, <2>2
<1>5. CASE PlacedFrom("ctorFrom", "ctorUntil") \/ PlacedFrom("placeFrom", "placeNext")
  <2>1. size[k] # None /\ k' = k + 1 /\ addr' = Plus(offset'[k], size[k])
    BY <1>1, <1>5 DEF PlacedFrom
  <2>2. PICK at : PlacedAt(at)
    BY <1>5 DEF PlacedFrom
  <2>3. k \in SectionsOf(f) /\ f' = f /\ offset'[k] # None /\ size' = size
    BY <2>2, PlacedFacts DEF PlacedAt
  <2>4. k \in Int
    BY InvFacts DEF TypeOK
  <2>5. QED BY <2>1, <2>3, <2>4
<1>6. CASE UNCHANGED vars
  <2>1. UNCHANGED <<pc, f, k, addr, offset, size>>
    BY <1>6 DEF vars, sectionVars
  <2>2. QED BY <1>0, <1>1, <2>1 DEF FromInv
<1>7. QED BY <1>1, <1>3, <1>4, <1>5, <1>6, FromEntry

\* How a step comes to a turn of resolveSectionsTo.
LEMMA ToEntry ==
  ASSUME IInv, [Next]_vars, pc' \in {"ctorTo", "placeTo"}
  PROVE  CtorUntil \/ EmitCode \/ PlacedTo("ctorTo") \/ PlacedTo("placeTo") \/ UNCHANGED vars
<1>1. Construct => CtorUntil \/ PlacedTo("ctorTo")
  <2>1. SectionsTo("ctorTo", "ctorAnchor") => PlacedTo("ctorTo")
    BY SectionsToPlaces DEF LeaveLoop, Goto, Fail
  <2>2. ~SectionsFrom("ctorFrom", "ctorUntil")
    BY DEF SectionsFrom, LeaveLoop, Goto, Fail
  <2>3. ~(ConstructFile \/ CtorSize \/ CtorBases \/ CtorAnchor)
    BY DEF ConstructFile, CtorSize, CtorBases, CtorAnchor, Goto, Fail
  <2>4. QED BY <2>1, <2>2, <2>3 DEF Construct
<1>2. Resolve => EmitCode \/ PlacedTo("placeTo")
  <2>1. SectionsTo("placeTo", "placeAfter") => PlacedTo("placeTo")
    BY SectionsToPlaces DEF LeaveLoop, Goto, Fail
  <2>2. ~SectionsFrom("placeFrom", "placeNext")
    BY DEF SectionsFrom, LeaveLoop, Goto, Fail
  <2>3. ~(\/ StartSweep \/ EndSweep \/ TryResolve \/ ResolveLabels \/ CalculateSize \/ SizesUnknown
          \/ SizesThrow \/ NextLoop("sizes", "compress") \/ NextLoop("compress", "place")
          \/ Compress \/ SkipCompress \/ CompressThrow \/ NotPlaced \/ EmitThrow
          \/ PlaceAfter \/ PlaceNext \/ EndResolve)
    BY DEF StartSweep, EndSweep, TryResolve, ResolveLabels, CalculateSize, SizesUnknown, SizesThrow, NextLoop,
       Compress, SkipCompress, CompressThrow, NotPlaced, EmitThrow, PlaceAfter, PlaceNext, EndResolve,
       NextSection, Goto, Fail
  <2>4. QED BY <2>1, <2>2, <2>3 DEF Resolve
<1>3. ~Generate
  BY DEF Generate, StartFile, BadBounds, CopySection, RejectSection, EndFile, CheckSymbols, Goto, Fail
<1>4. QED BY <1>1, <1>2, <1>3 DEF Next, Finished

LEMMA ToKeeps ==
  ASSUME IInv, EndInv, ToInv, [Next]_vars
  PROVE  ToInv'
<1>0. Kept /\ project' = project /\ \A g : SectionsOf(g)' = SectionsOf(g)
  BY StepKept DEF SectionsOf
<1>1. SUFFICES ASSUME pc' \in {"ctorTo", "placeTo"}, k' \in SectionsOf(f')
               PROVE  IF k' + 1 \in SectionsOf(f')
                      THEN offset'[k' + 1] # None /\ addr' = offset'[k' + 1]
                      ELSE addr' = project.until[f']
  BY <1>0 DEF ToInv
<1>2. k' \in Section /\ k' \in Int /\ k' # 0
  BY <1>1 DEF SectionsOf, Section
<1>3. CASE CtorUntil
  <2>1. f' = f /\ k' = i - 1 /\ addr' = project.until[f] /\ AtEnd(f, i)
    BY <1>2, <1>3 DEF CtorUntil, EndInv, AfterBases
  <2>2. k' + 1 = i /\ i \in Int
    BY <2>1, InvFacts DEF TypeOK
  <2>3. i \notin SectionsOf(f)
    BY <2>1, <2>2 DEF AtEnd
  <2>4. QED BY <2>1, <2>2, <2>3
<1>4. CASE EmitCode
  <2>1. /\ f' = f /\ k' = i - 1 /\ addr' = offset[i] /\ offset' = offset
        /\ i \in SectionsOf(f) /\ offset[i] # None
    BY <1>4 DEF EmitCode, Goto, Placed
  <2>2. k' + 1 = i
    BY <2>1, InvFacts DEF TypeOK
  <2>3. QED BY <2>1, <2>2
<1>5. CASE PlacedTo("ctorTo") \/ PlacedTo("placeTo")
  <2>1. k' = k - 1 /\ addr' = offset'[k]
    BY <1>5 DEF PlacedTo
  <2>2. PICK at : PlacedAt(at)
    BY <1>5 DEF PlacedTo
  <2>3. k \in SectionsOf(f) /\ f' = f /\ offset'[k] # None
    BY <2>2, PlacedFacts DEF PlacedAt
  <2>4. k \in Int
    BY InvFacts DEF TypeOK
  <2>5. QED BY <2>1, <2>3, <2>4
<1>6. CASE UNCHANGED vars
  <2>1. UNCHANGED <<pc, f, k, addr, offset>>
    BY <1>6 DEF vars, sectionVars
  <2>2. QED BY <1>0, <1>1, <2>1 DEF ToInv
<1>7. QED BY <1>1, <1>3, <1>4, <1>5, <1>6, ToEntry

\* A placed section stays attached: what its place was computed from is final.
LEMMA AttachedKept ==
  ASSUME Kept, project' = project, NEW s \in Section, Attached(s), offset[s] # None,
         attachment'[s] = attachment[s]
  PROVE  Attached(s)'
<1>1. /\ s - 1 \in SectionsOf(project.file[s]) => s - 1 \in Section
      /\ s + 1 \in SectionsOf(project.file[s]) => s + 1 \in Section
      /\ \A g : SectionsOf(g)' = SectionsOf(g)
      /\ offset'[s] = offset[s]
  BY DEF SectionsOf, Kept
<1>2. SUFFICES ASSUME project.base[s] = None
               PROVE  Attached(s)'
  BY DEF Attached
<1>3. CASE attachment[s] = "Lower"
  <2>1. s - 1 \in SectionsOf(project.file[s]) =>
          /\ offset[s - 1] # None /\ offset'[s - 1] = offset[s - 1]
          /\ size[s - 1] # None /\ size'[s - 1] = size[s - 1]
    BY <1>1, <1>2, <1>3 DEF Attached, Kept
  <2>2. QED BY <1>1, <1>2, <1>3, <2>1 DEF Attached
<1>4. CASE attachment[s] # "Lower"
  <2>1. /\ s + 1 \in SectionsOf(project.file[s]) => offset[s + 1] # None /\ offset'[s + 1] = offset[s + 1]
        /\ size[s] # None /\ size'[s] = size[s]
    BY <1>1, <1>2, <1>4 DEF Attached, Kept
  <2>2. QED BY <1>1, <1>2, <1>4, <2>1 DEF Attached
<1>5. QED BY <1>3, <1>4

\* The section a turn of resolveSectionsFrom or resolveSectionsTo places is attached.
LEMMA PlacedIsAttached ==
  ASSUME IInv, FromInv, ToInv, PlacementStep, Kept, project' = project,
         NEW s \in Section, s = k
  PROVE  Attached(s)'
<1>1. PICK at : PlacedAt(at)
  BY DEF PlacementStep, PlacedFrom, PlacedTo
<1>2. /\ k \in Section /\ k \in SectionsOf(f) /\ project.file[k] = f /\ offset'[k] = at
      /\ UNCHANGED <<attachment, size>> /\ \A g : SectionsOf(g)' = SectionsOf(g)
  BY <1>1, PlacedFacts DEF PlacedAt, SectionsOf
<1>3. /\ k - 1 \in SectionsOf(f) => k - 1 \in Section
      /\ k + 1 \in SectionsOf(f) => k + 1 \in Section
  BY DEF SectionsOf
<1>4. CASE PlacedFrom("ctorFrom", "ctorUntil") \/ PlacedFrom("placeFrom", "placeNext")
  <2>1. /\ attachment[k] = "Lower" /\ pc \in {"ctorFrom", "placeFrom"}
        /\ PlacedAt(AlignUp(addr, project.align[k]))
    BY <1>4 DEF PlacedFrom
  <2>2. offset'[k] = AlignUp(addr, project.align[k])
    BY <2>1, PlacedFacts
  <2>3. IF k - 1 \in SectionsOf(f)
        THEN /\ offset'[k - 1] # None /\ size'[k - 1] # None
             /\ addr = Plus(offset'[k - 1], size'[k - 1])
        ELSE addr = project.start[f]
    BY <1>2, <1>3, <2>1 DEF FromInv, Kept
  <2>4. QED BY <1>2, <2>1, <2>2, <2>3, s = k DEF Attached
<1>5. CASE PlacedTo("ctorTo") \/ PlacedTo("placeTo")
  <2>1. /\ attachment[k] = "Upper" /\ pc \in {"ctorTo", "placeTo"} /\ size[k] # None
        /\ PlacedAt(AlignDown(Minus(addr, size[k]), project.align[k]))
    BY <1>5 DEF PlacedTo
  <2>2. offset'[k] = AlignDown(Minus(addr, size[k]), project.align[k])
    BY <2>1, PlacedFacts
  <2>3. IF k + 1 \in SectionsOf(f) THEN offset'[k + 1] # None /\ addr = offset'[k + 1]
        ELSE addr = project.until[f]
    BY <1>2, <1>3, <2>1 DEF ToInv, Kept
  <2>4. QED BY <1>2, <2>1, <2>2, <2>3, s = k DEF Attached
<1>6. QED BY <1>4, <1>5 DEF PlacementStep

LEMMA AttachedKeeps ==
  ASSUME IInv, BaseInv, FromInv, ToInv, AttachedInv, [Next]_vars
  PROVE  AttachedInv'
<1>0. Kept /\ project' = project
  BY StepKept
<1>1. SUFFICES ASSUME NEW s \in Section, offset'[s] # None, project.base[s] = None
               PROVE  Attached(s)'
  BY <1>0 DEF AttachedInv, Attached
<1>2. CASE PlacesKept
  BY <1>0, <1>1, <1>2, AttachedKept DEF PlacesKept, AttachedInv
<1>3. CASE BasesStep
  <2>1. CASE s \in SectionsOf(f)
    <3>1. ~BadSections(f)
      BY <1>3, InvFacts DEF BasesStep, CursorInv
    <3>2. offset'[s] = CtorOffset(s)
      BY <1>3, <2>1 DEF BasesStep
    <3>3. QED BY <1>1, <2>1, <3>1, <3>2 DEF BadSections, CtorOffset
  <2>2. CASE s \notin SectionsOf(f)
    <3>1. offset'[s] = offset[s] /\ attachment'[s] = attachment[s]
      BY <1>3, <2>2 DEF BasesStep
    <3>2. QED BY <1>0, <1>1, <3>1, AttachedKept DEF AttachedInv
  <2>3. QED BY <2>1, <2>2
<1>4. CASE AnchorStep
  <2>1. offset'[s] = offset[s] /\ attachment' = attachment
    BY <1>1, <1>4 DEF AnchorStep, BaseInv
  <2>2. QED BY <1>0, <1>1, <2>1, AttachedKept DEF AttachedInv
<1>5. CASE PlacementStep
  <2>1. CASE s = k
    BY <1>0, <1>5, <2>1, PlacedIsAttached
  <2>2. CASE s # k
    <3>1. PICK at : PlacedAt(at)
      BY <1>5, PlacementFacts
    <3>2. offset'[s] = offset[s] /\ attachment' = attachment
      BY <2>2, <3>1, PlacedFacts DEF PlacedAt
    <3>3. QED BY <1>0, <1>1, <3>2, AttachedKept DEF AttachedInv
  <2>3. QED BY <2>1, <2>2
<1>6. QED BY <1>2, <1>3, <1>4, <1>5, StepPlaces

-----------------------------------------------------------------------------
(* The theorems.                                                           *)

LEMMA PlaceInit ==
  ASSUME Init
  PROVE  PlaceInv
<1>1. /\ pc = "construct" /\ f = 1 /\ base = [s \in Section |-> None]
      /\ offset = [s \in Section |-> None] /\ code = [s \in Section |-> None]
      /\ project \in Project
  BY DEF Init
<1>2. \A s \in Section : project.file[s] \in File /\ 1 <= project.file[s]
  BY <1>1, ProjectFacts DEF File
<1>3. QED BY <1>1, <1>2 DEF PlaceInv, BaseInv, AlignedInv, CodeInv, FromInv, ToInv, EndInv, AttachedInv,
           Attached, Unbased, AfterBases

\* The inductive invariant of the places, over the one of LinkerProofs.
THEOREM PlaceInvariance == Spec => []PlaceInv
<1>1. Init => PlaceInv
  BY PlaceInit
<1>2. IInv /\ PlaceInv /\ [Next]_vars => PlaceInv'
  BY BaseKeeps, AlignedKeeps, CodeKeeps, EndKeeps, FromKeeps, ToKeeps, AttachedKeeps DEF PlaceInv
<1>3. QED BY <1>1, <1>2, Invariance, PTL DEF Spec

\* Code whose bytes depend on its address was emitted for the address the section
\* runs at, in whatever order bases, labels and compression became possible.
THEOREM CodeIsWhereItRuns == Spec => []CodeRunsWhereLoaded
<1>1. PlaceInv => CodeRunsWhereLoaded
  BY DEF PlaceInv, CodeInv, BaseInv, CodeRunsWhereLoaded
<1>2. QED BY <1>1, PlaceInvariance, PTL

\* A section without an address of its own lies against the neighbour, or the end of
\* the file, that its attachment names, and every section runs at a multiple of its
\* alignment, whichever of the four placing loops came to it first.
THEOREM PlacesFollowAttachment == Spec => []KeepsAttachment
<1>1. IInv /\ PlaceInv => KeepsAttachment
  <2>1. ASSUME IInv, PlaceInv, NEW s \in Section, offset[s] # None, project.align[s] # None
        PROVE  base[s] % project.align[s] = 0
    <3>1. base[s] # None
      BY <2>1, InvFacts DEF KnownInv
    <3>2. QED BY <2>1, <3>1 DEF PlaceInv, AlignedInv
  <2>2. QED BY <2>1 DEF PlaceInv, AttachedInv, Attached, KeepsAttachment
<1>2. QED BY <1>1, Invariance, PlaceInvariance, PTL

-----------------------------------------------------------------------------
(* What can be resolved depends on what is known of the sections only.     *)

SizesDone(s) ==
  /\ ~(NeedsLabels(s) /\ LabelOutcomes(s) = {"ok"})
  /\ ~(NeedsSize(s) /\ Outcomes(project.sizeNeeds[s]) = {"ok"})
CompressDone(s) == ~(NeedsCompression(s) /\ CompressOutcomes(s) = {"ok"})
CodeDone(s) == ~(Placed(s) /\ NeedsCode(s) /\ CodeOutcomes(s, base[s]) = {"ok"})
UpperDone(s) ==
  ~(/\ Placed(s) /\ s - 1 \in SectionsOf(project.file[s]) /\ size[s - 1] # None
    /\ offset[s - 1] = None /\ attachment[s - 1] = "Upper")
LowerDone(s) ==
  ~(/\ Placed(s) /\ s + 1 \in SectionsOf(project.file[s]) /\ size[s] # None
    /\ offset[s + 1] = None /\ attachment[s + 1] = "Lower")

LEMMA DoneFacts ==
  ASSUME NEW s
  PROVE  CanResolve(s) <=> ~(SizesDone(s) /\ CompressDone(s) /\ CodeDone(s) /\ UpperDone(s) /\ LowerDone(s))
BY DEF CanResolve, CanPlaceNeighbour, SizesDone, CompressDone, CodeDone, UpperDone, LowerDone

LEMMA SameOutcomes ==
  ASSUME pc # "ctorSize", pc' # "ctorSize", UNCHANGED <<project, attachment, size, base, offset, labels, code>>
  PROVE  \A needs : Outcomes(needs)' = Outcomes(needs)
<1>1. \A fact : Answers(fact)' = Answers(fact)
  BY DEF Answers, IsOriginal
<1>2. \A fact : (Unknown(fact)' <=> Unknown(fact)) /\ (Ambiguous(fact)' <=> Ambiguous(fact))
  BY <1>1 DEF Unknown, Ambiguous
<1>3. QED BY <1>2 DEF Outcomes

LEMMA SameDone ==
  ASSUME pc # "ctorSize", pc' # "ctorSize", UNCHANGED <<project, attachment, size, base, offset, labels, code>>,
         NEW s \in Section
  PROVE  /\ SizesDone(s)' <=> SizesDone(s)
         /\ CompressDone(s)' <=> CompressDone(s)
         /\ CodeDone(s)' <=> CodeDone(s)
         /\ UpperDone(s)' <=> UpperDone(s)
         /\ LowerDone(s)' <=> LowerDone(s)
         /\ CanResolve(s)' <=> CanResolve(s)
<1>1. \A needs : Outcomes(needs)' = Outcomes(needs)
  BY SameOutcomes
<1>2. LabelNeeds(s)' = LabelNeeds(s)
  BY DEF LabelNeeds, IsOriginal
<1>3. LabelOutcomes(s)' = LabelOutcomes(s)
  BY <1>1, <1>2 DEF LabelOutcomes, Below64K
<1>4. CompressOutcomes(s)' = CompressOutcomes(s) /\ CodeOutcomes(s, base[s])' = CodeOutcomes(s, base[s])
  BY <1>1 DEF CompressOutcomes, CodeOutcomes, EmitBase, Below64K
<1>5. SizesDone(s)' <=> SizesDone(s)
  BY <1>1, <1>3 DEF SizesDone, NeedsLabels, NeedsSize
<1>6. (CompressDone(s)' <=> CompressDone(s)) /\ (CodeDone(s)' <=> CodeDone(s))
  BY <1>4 DEF CompressDone, CodeDone, NeedsCompression, NeedsCode, Placed
<1>7. (UpperDone(s)' <=> UpperDone(s)) /\ (LowerDone(s)' <=> LowerDone(s))
  BY DEF UpperDone, LowerDone, Placed, SectionsOf
<1>8. CanResolve(s)' <=> ~(SizesDone(s)' /\ CompressDone(s)' /\ CodeDone(s)' /\ UpperDone(s)' /\ LowerDone(s)')
  BY DEF CanResolve, CanPlaceNeighbour, SizesDone, CompressDone, CodeDone, UpperDone, LowerDone
<1>9. QED BY <1>5, <1>6, <1>7, <1>8, DoneFacts

\* In a file whose sections are complete nothing is left to resolve.
LEMMA CompleteIsDone ==
  ASSUME project \in Project, NEW s \in Section, \A t \in SectionsOf(project.file[s]) : Complete(t)
  PROVE  ~CanResolve(s)
<1>1. s \in SectionsOf(project.file[s])
  BY DEF SectionsOf
<1>2. Complete(s)
  BY <1>1
<1>3. SizesDone(s) /\ CompressDone(s) /\ CodeDone(s)
  BY <1>2 DEF SizesDone, CompressDone, CodeDone, NeedsLabels, NeedsSize, NeedsCompression, NeedsCode, Complete
<1>4. UpperDone(s) /\ LowerDone(s)
  BY DEF UpperDone, LowerDone, Complete
<1>5. QED BY <1>3, <1>4, DoneFacts

\* When the labels have to wait for a fact, so has the size.
LEMMA UnknownLabels ==
  ASSUME NEW s \in Section, "unknown" \in LabelOutcomes(s)
  PROVE  LabelOutcomes(s) # {"ok"} /\ Outcomes(project.sizeNeeds[s]) # {"ok"}
<1>1. LabelOutcomes(s) = Outcomes(LabelNeeds(s))
  BY DEF LabelOutcomes
<1>2. PICK fact \in LabelNeeds(s) : Unknown(fact)
  BY <1>1 DEF Outcomes
<1>3. fact \in project.sizeNeeds[s]
  BY <1>2 DEF LabelNeeds
<1>4. "unknown" \in Outcomes(project.sizeNeeds[s])
  BY <1>2, <1>3 DEF Outcomes
<1>5. QED BY <1>4

-----------------------------------------------------------------------------
(* The inductive invariant of a sweep that has resolved nothing.           *)

\* Whatever such a sweep has passed cannot be resolved, and what it decided about
\* that still holds, as nothing has changed since.
TriedInv ==
  pc \in {"file"} \cup Resolving /\ ~didResolve =>
    /\ \A s \in Section : project.file[s] < f => ~CanResolve(s)
    /\ \A s \in SectionsOf(f) :
         /\ (pc = "sizes" /\ s < i) \/ pc \in Resolving \ {"sizes"} => SizesDone(s)
         /\ (pc = "compress" /\ s < i) \/ pc \in {"place"} \cup OnSection => CompressDone(s)
         /\ pc \in {"place"} \cup OnSection /\ s < i => CodeDone(s) /\ UpperDone(s) /\ LowerDone(s)
    /\ pc \in OnSection => CodeDone(i)
    /\ pc = "placeTo" => k = i - 1
    /\ pc \in {"placeAfter", "placeFrom", "placeNext"} => UpperDone(i)
    /\ pc = "placeFrom" => k = IF size[i] = None THEN 0 ELSE i + 1
    /\ pc = "placeNext" => LowerDone(i)

\* link() throws "unresolved" when no section can be resolved.
UnresolvedInv == error = "unresolved" => pc = "failed" /\ \A s \in Section : ~CanResolve(s)

\* What a step that resolves nothing carries over to the next state.
LEMMA QuietFacts ==
  ASSUME IInv, TriedInv, pc \in {"file"} \cup Resolving, pc' \in {"file"} \cup Resolving, ~didResolve,
         UNCHANGED <<project, attachment, size, base, offset, labels, code>>
  PROVE  /\ \A g : SectionsOf(g)' = SectionsOf(g) /\ SectionsOf(g) \subseteq Section
         /\ \A s \in Section :
              /\ SizesDone(s)' <=> SizesDone(s)
              /\ CompressDone(s)' <=> CompressDone(s)
              /\ CodeDone(s)' <=> CodeDone(s)
              /\ UpperDone(s)' <=> UpperDone(s)
              /\ LowerDone(s)' <=> LowerDone(s)
              /\ CanResolve(s)' <=> CanResolve(s)
         /\ f' = f => \A s \in Section : project.file[s] < f => ~CanResolve(s)'
         /\ f \in Int /\ i \in Int /\ \A s \in Section : s \in Int /\ project.file[s] \in Int
<1>1. pc # "ctorSize" /\ pc' # "ctorSize"
  BY DEF Resolving, OnSection
<1>2. \A s \in Section :
        /\ SizesDone(s)' <=> SizesDone(s)
        /\ CompressDone(s)' <=> CompressDone(s)
        /\ CodeDone(s)' <=> CodeDone(s)
        /\ UpperDone(s)' <=> UpperDone(s)
        /\ LowerDone(s)' <=> LowerDone(s)
        /\ CanResolve(s)' <=> CanResolve(s)
  BY <1>1, SameDone
<1>3. f \in Int /\ i \in Int /\ \A s \in Section : s \in Int /\ project.file[s] \in Int
  BY InvFacts, ProjectFacts DEF TypeOK, File, Section
<1>4. QED BY <1>2, <1>3 DEF TriedInv, SectionsOf

\* The steps between two files.
LEMMA TriedBetweenFiles ==
  ASSUME IInv, TriedInv, StartSweep \/ TryResolve \/ EndResolve
  PROVE  TriedInv'
<1>1. SUFFICES ASSUME ~didResolve'
               PROVE  TriedInv'
  BY DEF TriedInv
<1>2. UNCHANGED <<project, attachment, size, base, offset, labels, code>>
      /\ pc' \in {"file"} \cup Resolving
  BY DEF StartSweep, TryResolve, EndResolve, Goto, sectionVars, Resolving
<1>3. CASE StartSweep
  <2>1. pc' = "file" /\ f' = 1
    BY <1>3 DEF StartSweep, Goto
  <2>2. \A s \in Section : ~(project.file[s] < 1)
    BY InvFacts, ProjectFacts DEF File
  <2>3. QED BY <1>2, <2>1, <2>2 DEF TriedInv, Resolving, OnSection
<1>4. CASE TryResolve
  <2>0. pc = "file" /\ ~didResolve /\ f \in File /\ pc \in {"file"} \cup Resolving
    BY <1>1, <1>4 DEF TryResolve
  <2>1. CASE isResolved[f]
    <3>1. pc' = "file" /\ f' = f + 1
      BY <1>4, <2>1 DEF TryResolve, Goto
    <3>2. \A s \in SectionsOf(f) : Complete(s)
      BY <2>0, <2>1, InvFacts DEF FileInv
    <3>3. \A s \in Section : project.file[s] = f => ~CanResolve(s)
      BY <3>2, CompleteIsDone, InvFacts
    <3>4. \A s \in Section : project.file[s] < f => ~CanResolve(s)
      BY <2>0 DEF TriedInv
    <3>5. \A s \in Section : project.file[s] < f + 1 => ~CanResolve(s)'
      BY <1>2, <2>0, <3>3, <3>4, QuietFacts
    <3>6. QED BY <1>2, <3>1, <3>5 DEF TriedInv, Resolving, OnSection
  <2>2. CASE ~isResolved[f]
    <3>1. pc' = "sizes" /\ f' = f /\ i' = First(f)
      BY <1>4, <2>2 DEF TryResolve, Goto
    <3>2. First(f) \in Int /\ \A s \in SectionsOf(f) : First(f) <= s /\ s \in Int
      BY <1>2, <2>0, InvFacts, FirstFacts, NumberFacts, QuietFacts DEF File
    <3>3. \A s \in SectionsOf(f) : ~(s < i')
      BY <3>1, <3>2
    <3>4. QED BY <1>2, <2>0, <3>1, <3>3, QuietFacts DEF TriedInv, OnSection
  <2>3. QED BY <2>1, <2>2
<1>5. CASE EndResolve
  <2>1. pc = "place" /\ pc' = "file" /\ f' = f + 1 /\ ~didResolve /\ AtEnd(f, i)
        /\ pc \in {"file"} \cup Resolving
    BY <1>1, <1>5 DEF EndResolve, Goto, Resolving
  <2>2. \A s \in SectionsOf(f) : /\ SizesDone(s) /\ CompressDone(s)
                                 /\ CodeDone(s) /\ UpperDone(s) /\ LowerDone(s)
    BY <2>1 DEF TriedInv, AtEnd, Resolving
  <2>3. \A s \in Section : project.file[s] = f => ~CanResolve(s)
    BY <2>2, DoneFacts DEF SectionsOf
  <2>4. \A s \in Section : project.file[s] < f => ~CanResolve(s)
    BY <2>1 DEF TriedInv
  <2>5. \A s \in Section : project.file[s] < f + 1 => ~CanResolve(s)'
    BY <1>2, <2>1, <2>3, <2>4, QuietFacts
  <2>6. QED BY <1>2, <2>1, <2>5 DEF TriedInv, Resolving, OnSection
<1>6. QED BY <1>3, <1>4, <1>5

\* The steps of the loops over the sections of a file.
LEMMA TriedSizes ==
  ASSUME IInv, TriedInv, SizesUnknown
  PROVE  TriedInv'
<1>1. SUFFICES ASSUME ~didResolve'
               PROVE  TriedInv'
  BY DEF TriedInv
<1>2. /\ pc = "sizes" /\ pc' = "sizes" /\ ~didResolve /\ i' = i + 1 /\ f' = f /\ i \in SectionsOf(f)
      /\ UNCHANGED <<project, attachment, size, base, offset, labels, code>>
      /\ pc \in {"file"} \cup Resolving /\ pc' \in {"file"} \cup Resolving
  BY <1>1 DEF SizesUnknown, NextSection, KeepLabels, Goto, Resolving
<1>3. SizesDone(i)
  <2>1. NeedsLabels(i) => LabelOutcomes(i) # {"ok"} /\ Outcomes(project.sizeNeeds[i]) # {"ok"}
    BY <1>2, UnknownLabels DEF SizesUnknown, SectionsOf
  <2>2. NeedsSize(i) /\ ~NeedsLabels(i) => Outcomes(project.sizeNeeds[i]) # {"ok"}
    BY DEF SizesUnknown
  <2>3. QED BY <2>1, <2>2 DEF SizesDone
<1>4. \A s \in SectionsOf(f) : s < i' => SizesDone(s)
  <2>1. \A s \in SectionsOf(f) : s < i' => s < i \/ s = i
    BY <1>2, QuietFacts
  <2>2. QED BY <1>2, <1>3, <2>1 DEF TriedInv
<1>5. QED BY <1>2, <1>4, QuietFacts DEF TriedInv, OnSection, Resolving

LEMMA TriedNextLoop ==
  ASSUME IInv, TriedInv, NextLoop("sizes", "compress") \/ NextLoop("compress", "place")
  PROVE  TriedInv'
<1>1. SUFFICES ASSUME ~didResolve'
               PROVE  TriedInv'
  BY DEF TriedInv
<1>2. /\ \/ pc = "sizes" /\ pc' = "compress"
         \/ pc = "compress" /\ pc' = "place"
      /\ ~didResolve /\ i' = First(f) /\ f' = f /\ AtEnd(f, i)
      /\ UNCHANGED <<project, attachment, size, base, offset, labels, code>>
      /\ pc \in {"file"} \cup Resolving /\ pc' \in {"file"} \cup Resolving
  BY <1>1 DEF NextLoop, Goto, sectionVars, sweepVars, Resolving
<1>3. First(f) \in Int /\ \A s \in SectionsOf(f) : First(f) <= s /\ s \in Int
  <2>1. f \in Int /\ \A s \in SectionsOf(f) : s \in Int
    BY <1>2, QuietFacts
  <2>2. QED BY <2>1, InvFacts, FirstFacts, NumberFacts
<1>4. \A s \in SectionsOf(f) : ~(s < i')
  BY <1>2, <1>3
<1>5. \A s \in SectionsOf(f) : SizesDone(s) /\ (pc = "compress" => CompressDone(s))
  BY <1>2 DEF TriedInv, AtEnd, Resolving
<1>6. QED BY <1>2, <1>4, <1>5, QuietFacts DEF TriedInv, OnSection, Resolving

LEMMA TriedCompress ==
  ASSUME IInv, TriedInv, SkipCompress
  PROVE  TriedInv'
<1>1. SUFFICES ASSUME ~didResolve'
               PROVE  TriedInv'
  BY DEF TriedInv
<1>2. /\ pc = "compress" /\ pc' = "compress" /\ ~didResolve /\ i' = i + 1 /\ f' = f /\ i \in SectionsOf(f)
      /\ UNCHANGED <<project, attachment, size, base, offset, labels, code>>
      /\ pc \in {"file"} \cup Resolving /\ pc' \in {"file"} \cup Resolving
  BY <1>1 DEF SkipCompress, NextSection, Goto, Resolving
<1>3. CompressDone(i)
  BY DEF SkipCompress, CompressDone
<1>4. \A s \in SectionsOf(f) : s < i' => CompressDone(s)
  <2>1. \A s \in SectionsOf(f) : s < i' => s < i \/ s = i
    BY <1>2, QuietFacts
  <2>2. QED BY <1>2, <1>3, <2>1 DEF TriedInv
<1>5. \A s \in SectionsOf(f) : SizesDone(s)
  BY <1>2 DEF TriedInv, Resolving
<1>6. QED BY <1>2, <1>4, <1>5, QuietFacts DEF TriedInv, OnSection, Resolving

\* The third loop leaves section i, which is done.
LEMMA TriedLeave ==
  ASSUME IInv, TriedInv, pc \in {"place"} \cup OnSection, pc' = "place", ~didResolve, i' = i + 1, f' = f,
         i \in SectionsOf(f), UNCHANGED <<project, attachment, size, base, offset, labels, code>>,
         CodeDone(i), UpperDone(i), LowerDone(i)
  PROVE  TriedInv'
<1>1. pc \in {"file"} \cup Resolving /\ pc' \in {"file"} \cup Resolving
  BY DEF Resolving
<1>2. \A s \in SectionsOf(f) : s < i' => CodeDone(s) /\ UpperDone(s) /\ LowerDone(s)
  <2>1. \A s \in SectionsOf(f) : s < i' => s < i \/ s = i
    BY <1>1, QuietFacts
  <2>2. QED BY <1>1, <2>1 DEF TriedInv
<1>3. \A s \in SectionsOf(f) : SizesDone(s) /\ CompressDone(s)
  BY <1>1 DEF TriedInv, OnSection, Resolving
<1>4. QED BY <1>1, <1>2, <1>3, QuietFacts DEF TriedInv, OnSection

LEMMA TriedNotPlaced ==
  ASSUME IInv, TriedInv, NotPlaced
  PROVE  TriedInv'
<1>1. SUFFICES ASSUME ~didResolve'
               PROVE  TriedInv'
  BY DEF TriedInv
<1>2. /\ pc = "place" /\ pc' = "place" /\ ~didResolve /\ i' = i + 1 /\ f' = f /\ i \in SectionsOf(f)
      /\ UNCHANGED <<project, attachment, size, base, offset, labels, code>> /\ ~Placed(i)
  BY <1>1 DEF NotPlaced, NextSection, Goto
<1>3. CodeDone(i) /\ UpperDone(i) /\ LowerDone(i)
  BY <1>2 DEF CodeDone, UpperDone, LowerDone
<1>4. QED BY <1>2, <1>3, TriedLeave

\* The third loop stays on section i, and goes to the next of its own loops.
LEMMA TriedStay ==
  ASSUME IInv, TriedInv, pc \in {"place"} \cup OnSection, pc' \in OnSection, ~didResolve, UNCHANGED <<f, i>>,
         i \in SectionsOf(f), UNCHANGED <<project, attachment, size, base, offset, labels, code>>,
         CodeDone(i), pc' = "placeTo" => k' = i - 1,
         pc' \in {"placeAfter", "placeFrom", "placeNext"} => UpperDone(i),
         pc' = "placeFrom" => k' = IF size[i] = None THEN 0 ELSE i + 1,
         pc' = "placeNext" => LowerDone(i)
  PROVE  TriedInv'
<1>1. pc \in {"file"} \cup Resolving /\ pc' \in {"file"} \cup Resolving
  BY DEF Resolving
<1>2. /\ i \in Section /\ i' = i
      /\ CodeDone(i)' <=> CodeDone(i)
      /\ UpperDone(i)' <=> UpperDone(i)
      /\ LowerDone(i)' <=> LowerDone(i)
  <2>1. /\ \A s \in Section : s = i =>
             /\ CodeDone(s)' <=> CodeDone(i)
             /\ UpperDone(s)' <=> UpperDone(i)
             /\ LowerDone(s)' <=> LowerDone(i)
    BY <1>1, QuietFacts
  <2>2. i \in Section /\ i' = i
    BY DEF SectionsOf
  <2>3. QED BY <2>1, <2>2
<1>3. \A s \in SectionsOf(f) : /\ SizesDone(s) /\ CompressDone(s)
                               /\ s < i => CodeDone(s) /\ UpperDone(s) /\ LowerDone(s)
  BY <1>1 DEF TriedInv, OnSection, Resolving
<1>4. QED BY <1>1, <1>2, <1>3, QuietFacts DEF TriedInv, OnSection

LEMMA TriedOnSection ==
  ASSUME IInv, TriedInv,
         \/ EmitCode \/ SectionsTo("placeTo", "placeAfter") \/ PlaceAfter
         \/ SectionsFrom("placeFrom", "placeNext") \/ PlaceNext
  PROVE  TriedInv'
<1>1. SUFFICES ASSUME ~didResolve', pc' # "failed"
               PROVE  TriedInv'
  BY DEF TriedInv, Resolving, OnSection
<1>2. CASE EmitCode
  <2>1. /\ pc = "place" /\ pc' = "placeTo" /\ k' = i - 1 /\ i \in SectionsOf(f)
        /\ ~didResolve /\ UNCHANGED <<project, f, i, attachment, size, base, offset, labels, code>>
        /\ ~NeedsCode(i) \/ "unknown" \in CodeOutcomes(i, base[i])
    BY <1>1, <1>2 DEF EmitCode, Goto
  <2>2. CodeDone(i)
    BY <2>1 DEF CodeDone
  <2>3. QED BY <2>1, <2>2, TriedStay DEF OnSection
<1>3. CASE SectionsTo("placeTo", "placeAfter")
  <2>1. /\ pc = "placeTo" /\ pc' = "placeAfter" /\ ~MayPlaceTo
        /\ ~didResolve /\ UNCHANGED <<project, f, i, attachment, size, base, offset, labels, code>>
    BY <1>1, <1>3 DEF SectionsTo, LeaveLoop, Place, Fail, Goto, sectionVars, sweepVars
  <2>2. CodeDone(i) /\ k = i - 1 /\ i \in SectionsOf(f)
    BY <2>1, InvFacts DEF TriedInv, Resolving, OnSection, CursorInv
  <2>3. UpperDone(i)
    BY <2>1, <2>2 DEF UpperDone, MayPlaceTo, SectionsOf
  <2>4. QED BY <2>1, <2>2, <2>3, TriedStay DEF OnSection
<1>4. CASE PlaceAfter
  <2>1. /\ pc = "placeAfter" /\ pc' = "placeFrom" /\ k' = IF size[i] = None THEN 0 ELSE i + 1
        /\ ~didResolve /\ UNCHANGED <<project, f, i, attachment, size, base, offset, labels, code>>
    BY <1>1, <1>4 DEF PlaceAfter, Goto, sectionVars
  <2>2. CodeDone(i) /\ UpperDone(i) /\ i \in SectionsOf(f)
    BY <2>1, InvFacts DEF TriedInv, Resolving, OnSection, CursorInv
  <2>3. QED BY <2>1, <2>2, TriedStay DEF OnSection
<1>5. CASE SectionsFrom("placeFrom", "placeNext")
  <2>1. /\ pc = "placeFrom" /\ pc' = "placeNext" /\ ~MayPlaceFrom
        /\ ~didResolve /\ UNCHANGED <<project, f, i, attachment, size, base, offset, labels, code>>
    BY <1>1, <1>5 DEF SectionsFrom, LeaveLoop, Place, Fail, Goto, sectionVars, sweepVars
  <2>2. /\ CodeDone(i) /\ UpperDone(i) /\ i \in SectionsOf(f)
        /\ k = IF size[i] = None THEN 0 ELSE i + 1
    BY <2>1, InvFacts DEF TriedInv, Resolving, OnSection, CursorInv
  <2>3. LowerDone(i)
    BY <2>1, <2>2 DEF LowerDone, MayPlaceFrom, SectionsOf
  <2>4. QED BY <2>1, <2>2, <2>3, TriedStay DEF OnSection
<1>6. CASE PlaceNext
  <2>1. /\ pc = "placeNext" /\ pc' = "place" /\ i' = i + 1
        /\ ~didResolve /\ UNCHANGED <<project, f, attachment, size, base, offset, labels, code>>
    BY <1>1, <1>6 DEF PlaceNext, NextSection, Goto
  <2>2. CodeDone(i) /\ UpperDone(i) /\ LowerDone(i) /\ i \in SectionsOf(f)
    BY <2>1, InvFacts DEF TriedInv, Resolving, OnSection, CursorInv
  <2>3. QED BY <2>1, <2>2, TriedLeave DEF OnSection
<1>7. QED BY <1>2, <1>3, <1>4, <1>5, <1>6

LEMMA TriedKeeps ==
  ASSUME IInv, TriedInv, [Next]_vars
  PROVE  TriedInv'
<1>1. CASE Construct
  <2>1. pc' \in Constructing \cup {"sweep", "failed"}
    BY <1>1 DEF Construct, ConstructFile, CtorSize, CtorBases, SectionsFrom, LeaveLoop, CtorUntil, SectionsTo,
       CtorAnchor, Goto, Fail, Constructing
  <2>2. QED BY <2>1 DEF TriedInv, Constructing, Resolving, OnSection
<1>2. CASE Generate
  <2>1. pc' \in Generated \cup {"failed"}
    BY <1>2 DEF Generate, StartFile, BadBounds, CopySection, RejectSection, EndFile, CheckSymbols,
       Goto, Fail, Generated
  <2>2. QED BY <2>1 DEF TriedInv, Generated, Resolving, OnSection
<1>3. CASE Finished \/ UNCHANGED vars
  <2>1. UNCHANGED <<project, pc, f, i, k, didResolve, attachment, size, base, offset, labels, code>>
    BY <1>3 DEF Finished, vars, sectionVars, sweepVars
  <2>2. SUFFICES ASSUME pc \in {"file"} \cup Resolving, ~didResolve
                 PROVE  TriedInv'
    BY <2>1 DEF TriedInv
  <2>3. CASE pc \in OnSection
    <3>1. CodeDone(i) /\ i \in SectionsOf(f)
      BY <2>2, <2>3, InvFacts DEF TriedInv, CursorInv
    <3>2. QED BY <2>1, <2>2, <2>3, <3>1, TriedStay DEF TriedInv
  <2>4. CASE pc \notin OnSection
    <3>1. /\ \A s \in Section : project.file[s] < f' => ~CanResolve(s)'
          /\ SectionsOf(f)' = SectionsOf(f) /\ SectionsOf(f) \subseteq Section
      BY <2>1, <2>2, QuietFacts
    <3>2. \A s \in SectionsOf(f) : (SizesDone(s)' <=> SizesDone(s)) /\ (CompressDone(s)' <=> CompressDone(s))
                                   /\ (CodeDone(s)' <=> CodeDone(s)) /\ (UpperDone(s)' <=> UpperDone(s))
                                   /\ (LowerDone(s)' <=> LowerDone(s))
      BY <2>1, <2>2, <3>1, QuietFacts
    <3>3. \A s \in SectionsOf(f) :
            /\ (pc = "sizes" /\ s < i) \/ pc \in Resolving \ {"sizes"} => SizesDone(s)
            /\ (pc = "compress" /\ s < i) \/ pc \in {"place"} \cup OnSection => CompressDone(s)
            /\ pc \in {"place"} \cup OnSection /\ s < i => CodeDone(s) /\ UpperDone(s) /\ LowerDone(s)
      BY <2>2 DEF TriedInv
    <3>4. pc \notin {"placeTo", "placeAfter", "placeFrom", "placeNext"} /\ pc' \notin OnSection
      BY <2>1, <2>4 DEF OnSection
    <3>5. QED BY <2>1, <3>1, <3>2, <3>3, <3>4 DEF TriedInv
  <2>5. QED BY <2>3, <2>4
<1>4. CASE Resolve
  <2>1. CASE \/ EndSweep \/ ResolveLabels \/ CalculateSize \/ SizesThrow \/ Compress \/ CompressThrow \/ EmitThrow
    <3>1. pc' \in {"generate", "sweep", "failed"} \/ didResolve'
      BY <2>1 DEF EndSweep, ResolveLabels, CalculateSize, SetLabels, SizesThrow, Compress, CompressThrow,
         EmitThrow, Goto, Fail
    <3>2. QED BY <3>1 DEF TriedInv, Resolving, OnSection
  <2>2. QED BY <1>4, <2>1, TriedBetweenFiles, TriedSizes, TriedNextLoop, TriedCompress, TriedNotPlaced,
            TriedOnSection DEF Resolve
<1>5. QED BY <1>1, <1>2, <1>3, <1>4 DEF Next

LEMMA UnresolvedKeeps ==
  ASSUME IInv, TriedInv, UnresolvedInv, [Next]_vars
  PROVE  UnresolvedInv'
<1>1. SUFFICES ASSUME error' = "unresolved"
               PROVE  pc' = "failed" /\ \A s \in Section : ~CanResolve(s)'
  BY DEF UnresolvedInv
<1>2. CASE error = "unresolved"
  <2>1. pc = "failed"
    BY <1>2 DEF UnresolvedInv
  <2>2. UNCHANGED vars
    BY <2>1, StepPhase DEF Next, Finished, Constructing, Resolving, OnSection
  <2>3. UNCHANGED <<project, pc, attachment, size, base, offset, labels, code>>
    BY <2>2 DEF vars, sectionVars
  <2>4. QED BY <1>2, <2>1, <2>3, SameDone DEF UnresolvedInv
<1>3. CASE error # "unresolved"
  <2>1. EndSweep /\ ~didResolve /\ Fail("unresolved")
    <3>1. ~UNCHANGED error
      BY <1>1, <1>3
    <3>2. ~(Construct \/ Generate)
      <4>1. ~(SectionsFrom("ctorFrom", "ctorUntil") \/ SectionsTo("ctorTo", "ctorAnchor"))
        BY <1>1, <3>1 DEF SectionsFrom, SectionsTo, LeaveLoop, Goto, Fail
      <4>2. ~(ConstructFile \/ CtorSize \/ CtorBases \/ CtorUntil \/ CtorAnchor \/ Generate)
        BY <1>1, <3>1 DEF ConstructFile, CtorSize, CtorBases, CtorUntil, CtorAnchor, Generate,
           StartFile, BadBounds, CopySection, RejectSection, EndFile, CheckSymbols, Goto, Fail
      <4>3. QED BY <4>1, <4>2 DEF Construct
    <3>3. ~UNCHANGED vars
      BY <3>1 DEF vars
    <3>4. Resolve
      BY <3>2, <3>3 DEF Next, Finished
    <3>5. ~(SectionsTo("placeTo", "placeAfter") \/ SectionsFrom("placeFrom", "placeNext"))
      BY <1>1, <3>1 DEF SectionsFrom, SectionsTo, LeaveLoop, Goto, Fail
    <3>6. EndSweep
      BY <1>1, <3>1, <3>4, <3>5 DEF Resolve, StartSweep, TryResolve, ResolveLabels, CalculateSize,
         SizesUnknown, SizesThrow, NextLoop, Compress, SkipCompress, CompressThrow, NotPlaced, EmitCode,
         EmitThrow, PlaceAfter, PlaceNext, EndResolve, NextSection, Goto, Fail
    <3>7. QED BY <3>1, <3>6 DEF EndSweep, Goto
  <2>2. /\ pc = "file" /\ f \notin File /\ pc' = "failed"
        /\ UNCHANGED <<project, attachment, size, base, offset, labels, code>>
    BY <2>1 DEF EndSweep, Fail, sectionVars
  <2>3. \A s \in Section : project.file[s] < f
    BY <2>2, InvFacts, ProjectFacts, NumberFacts DEF TypeOK, File
  <2>4. \A s \in Section : ~CanResolve(s)
    BY <2>1, <2>2, <2>3 DEF TriedInv
  <2>5. QED BY <2>2, <2>4, SameDone
<1>4. QED BY <1>2, <1>3

\* When link() throws because nothing is resolved any more, no rule of tryResolve
\* applies to any section: no order of the files, of their sections or of the loops
\* would have come further from where it stopped.
THEOREM GivesUpOnlyAtTheEnd == Spec => []GivesUpLast
<1>1. Init => TriedInv /\ UnresolvedInv
  BY NoneAssumption DEF Errors, Init, TriedInv, UnresolvedInv, Resolving, OnSection
<1>2. IInv /\ TriedInv /\ UnresolvedInv /\ [Next]_vars => (TriedInv /\ UnresolvedInv)'
  BY TriedKeeps, UnresolvedKeeps
<1>3. UnresolvedInv => GivesUpLast
  BY DEF UnresolvedInv, GivesUpLast
<1>4. QED BY <1>1, <1>2, <1>3, Invariance, PTL DEF Spec

-----------------------------------------------------------------------------
(* What generateCode writes.                                               *)

\* out has passed the end of a size_t: only sections that went below zero are left.
Wrapped == out < WordMax /\ \A t \in Pending : offset[t] >= SizeMod - WordMax

\* As many bytes are written as out has moved from the start of the file.
WrittenInv == pc = "copy" => out = StartOf(f) + written \/ Wrapped

LEMMA SameStart ==
  ASSUME UNCHANGED <<project, offset>>, NEW g
  PROVE  StartOf(g)' = StartOf(g)
<1>1. SectionsOf(g)' = SectionsOf(g)
  BY DEF SectionsOf
<1>2. Lowest(SectionsOf(g))' = Lowest(SectionsOf(g))
  BY <1>1 DEF Lowest
<1>3. QED BY <1>2 DEF StartOf

\* What is known while a file is generated.
LEMMA CopyFacts ==
  ASSUME IInv, pc = "copy"
  PROVE  /\ f \in File /\ StartOf(f) \in Nat /\ out \in Nat /\ out < SizeMod /\ written \in Nat
         /\ \A s \in Section : /\ size[s] \in Nat /\ size[s] <= WordMax
                               /\ offset[s] \in Nat /\ offset[s] < SizeMod
         /\ image \in [Section -> Opt(Nat)]
<1>1. f \in File /\ SectionsOf(f) # {} /\ pc \in Generated
  BY InvFacts DEF CursorInv, Generated
<1>2. StartOf(f) \in SizeT
  BY <1>1, StartOfFacts
<1>3. \A s \in Section : size[s] \in Word /\ size[s] \in Nat /\ offset[s] \in SizeT /\ offset[s] \in Nat
  BY <1>1, GeneratedFacts
<1>4. out \in SizeT /\ written \in Nat /\ image \in [Section -> Opt(Nat)]
  BY InvFacts DEF TypeOK
<1>5. QED BY <1>1, <1>2, <1>3, <1>4, BoundFacts DEF SizeT, Word

\* A section is copied behind its padding, so that it starts where its file offset
\* says; where out passes the end of a size_t, only empty sections can follow.
LEMMA CopyKeepsImage ==
  ASSUME IInv, WrittenInv, ImageMatchesOffsets, CopySection
  PROVE  WrittenInv' /\ ImageMatchesOffsets'
<1>1. PICK s \in Lowest(Pending) :
        /\ ~Overlaps(s) /\ ~PadsForever(s)
        /\ image' = [image EXCEPT ![s] = written + Padding(s)]
        /\ written' = written + Padding(s) + size[s]
        /\ out' = OutAfter(s)
  BY DEF CopySection
<1>2. pc = "copy" /\ pc' = "copy" /\ UNCHANGED <<project, f, size, offset>>
  BY DEF CopySection, Goto, sectionVars
<1>3. /\ s \in Pending /\ s \in SectionsOf(f) /\ s \in Section /\ image[s] = None /\ project.file[s] = f
      /\ \A t \in Pending : offset[s] <= offset[t]
  BY <1>1 DEF Lowest, Pending, SectionsOf
<1>4. /\ StartOf(f) \in Nat /\ out \in Nat /\ out < SizeMod /\ written \in Nat
      /\ size[s] \in Nat /\ size[s] <= WordMax /\ offset[s] \in Nat /\ offset[s] < SizeMod
      /\ image \in [Section -> Opt(Nat)]
  BY <1>2, <1>3, CopyFacts
<1>5. out <= offset[s] /\ Padding(s) = IF size[s] > 0 THEN offset[s] - out ELSE 0
  BY <1>1, <1>4 DEF Overlaps, Padding
<1>6. StartOf(f)' = StartOf(f) /\ \A g : StartOf(g)' = StartOf(g)
  BY <1>2, SameStart
<1>7. /\ image'[s] = written + Padding(s)
      /\ \A t \in Section : t # s => image'[t] = image[t]
      /\ Pending' \subseteq Pending
  <2>1. /\ image'[s] = written + Padding(s)
        /\ \A t \in Section : t # s => image'[t] = image[t]
    BY <1>1, <1>3, <1>4
  <2>2. written + Padding(s) # None
    BY <1>4, <1>5, NumberFacts
  <2>3. QED BY <1>2, <2>1, <2>2 DEF Pending, SectionsOf
<1>8. Wrapped => size[s] = 0
  <2>1. ASSUME Wrapped, size[s] > 0
        PROVE  FALSE
    <3>1. out < WordMax /\ offset[s] >= SizeMod - WordMax
      BY <1>3, <2>1 DEF Wrapped
    <3>2. Padding(s) > 2 * WordMax
      BY <1>4, <1>5, <2>1, <3>1, BoundFacts
    <3>3. QED BY <1>1, <3>2 DEF PadsForever
  <2>2. QED BY <1>4, <2>1
<1>9. CASE size[s] = 0
  <2>1. out' = out /\ written' = written
    BY <1>1, <1>4, <1>5, <1>9 DEF OutAfter, Plus
  <2>2. Wrapped => Wrapped'
    BY <1>2, <1>7, <2>1 DEF Wrapped
  <2>3. WrittenInv'
    BY <1>2, <1>6, <2>1, <2>2 DEF WrittenInv
  <2>4. ImageMatchesOffsets'
    BY <1>2, <1>6, <1>7, <1>9 DEF ImageMatchesOffsets
  <2>5. QED BY <2>3, <2>4
<1>10. CASE size[s] # 0
  <2>1. size[s] > 0 /\ out = StartOf(f) + written
    BY <1>2, <1>4, <1>8, <1>10 DEF WrittenInv
  <2>2. image'[s] = offset[s] - StartOf(f)
    BY <1>4, <1>5, <1>7, <2>1
  <2>3. ImageMatchesOffsets'
    BY <1>2, <1>3, <1>6, <1>7, <2>2 DEF ImageMatchesOffsets
  <2>4. out' = Plus(offset[s], size[s]) /\ written' = offset[s] - StartOf(f) + size[s]
    <3>1. out + Padding(s) = offset[s] /\ written + Padding(s) = offset[s] - StartOf(f)
      BY <1>4, <1>5, <2>1
    <3>2. QED BY <1>1, <3>1 DEF OutAfter
  <2>5. WrittenInv'
    <3>1. CASE offset[s] + size[s] < SizeMod
      <4>1. out' = StartOf(f) + written'
        BY <1>4, <2>4, <3>1 DEF Plus
      <4>2. QED BY <1>2, <1>6, <4>1 DEF WrittenInv
    <3>2. CASE ~(offset[s] + size[s] < SizeMod)
      <4>1. out' < WordMax /\ offset[s] >= SizeMod - WordMax
        BY <1>4, <2>4, <3>2, BoundFacts DEF Plus
      <4>2. \A t \in Pending : offset[t] \in Nat
        BY <1>2, CopyFacts DEF Pending, SectionsOf
      <4>3. \A t \in Pending : offset[t] >= SizeMod - WordMax
        BY <1>3, <1>4, <4>1, <4>2, BoundFacts
      <4>4. Wrapped'
        BY <1>2, <1>7, <4>1, <4>3 DEF Wrapped
      <4>5. QED BY <4>4 DEF WrittenInv
    <3>3. QED BY <3>1, <3>2
  <2>6. QED BY <2>3, <2>5
<1>11. QED BY <1>9, <1>10

LEMMA ImageKeeps ==
  ASSUME IInv, WrittenInv, ImageMatchesOffsets, [Next]_vars
  PROVE  WrittenInv' /\ ImageMatchesOffsets'
<1>1. CASE Construct \/ Resolve
  <2>1. /\ pc \notin Generated /\ pc # "failed" /\ pc' # "copy" /\ image' = image
    <3>1. pc \notin Generated /\ pc # "failed"
      BY <1>1, StepPhase DEF Constructing, Resolving, OnSection, Generated
    <3>2. SectionsFrom("ctorFrom", "ctorUntil") \/ SectionsTo("ctorTo", "ctorAnchor")
          \/ SectionsTo("placeTo", "placeAfter") \/ SectionsFrom("placeFrom", "placeNext")
          => pc' # "copy" /\ image' = image
      BY DEF SectionsFrom, SectionsTo, LeaveLoop, Place, Goto, Fail, outputVars
    <3>3. Construct => pc' # "copy" /\ image' = image
      BY <3>2 DEF Construct, ConstructFile, CtorSize, CtorBases, CtorUntil, CtorAnchor, Goto, Fail, outputVars
    <3>4. Resolve => pc' # "copy" /\ image' = image
      BY <3>2 DEF Resolve, StartSweep, EndSweep, TryResolve, ResolveLabels, CalculateSize, SizesUnknown,
         SizesThrow, NextLoop, Compress, SkipCompress, CompressThrow, NotPlaced, EmitCode, EmitThrow,
         PlaceAfter, PlaceNext, EndResolve, NextSection, Goto, Fail, outputVars
    <3>5. QED BY <1>1, <3>1, <3>3, <3>4
  <2>2. \A s \in Section : image'[s] = None
    BY <2>1, InvFacts DEF GenerateInv
  <2>3. QED BY <2>1, <2>2 DEF WrittenInv, ImageMatchesOffsets
<1>2. CASE Generate /\ ~CopySection
  <2>1. UNCHANGED <<project, size, offset, image>>
        /\ \/ pc' # "copy"
           \/ pc' = "copy" /\ f' = f /\ f \in File /\ SectionsOf(f) # {} /\ out' = StartOf(f) /\ written' = 0
              /\ pc = "generate"
    BY <1>2 DEF Generate, StartFile, BadBounds, RejectSection, EndFile, CheckSymbols, Goto, Fail,
       sectionVars, outputVars
  <2>2. \A g : StartOf(g)' = StartOf(g)
    BY <2>1, SameStart
  <2>3. ImageMatchesOffsets'
    BY <2>1, <2>2 DEF ImageMatchesOffsets
  <2>4. CASE pc' # "copy"
    BY <2>3, <2>4 DEF WrittenInv
  <2>5. CASE pc' = "copy"
    <3>1. f' = f /\ f \in File /\ SectionsOf(f) # {} /\ out' = StartOf(f) /\ written' = 0 /\ pc \in Generated
      BY <2>1, <2>5 DEF Generated
    <3>2. StartOf(f) \in Nat
      <4>1. StartOf(f) \in SizeT
        BY <3>1, StartOfFacts
      <4>2. QED BY <4>1, NumberFacts
    <3>3. StartOf(f)' = StartOf(f)
      BY <2>1, <3>1, SameStart
    <3>4. out' = StartOf(f)' + written'
      BY <3>1, <3>2, <3>3
    <3>5. QED BY <2>3, <3>4 DEF WrittenInv
  <2>6. QED BY <2>4, <2>5
<1>3. CASE Finished \/ UNCHANGED vars
  <2>1. UNCHANGED <<project, pc, f, size, offset, image, out, written>>
    BY <1>3 DEF Finished, vars, sectionVars, outputVars
  <2>2. (\A g : StartOf(g)' = StartOf(g)) /\ StartOf(f)' = StartOf(f)
    BY <2>1, SameStart
  <2>3. Wrapped => Wrapped'
    BY <2>1 DEF Wrapped, Pending, SectionsOf
  <2>4. QED BY <2>1, <2>2, <2>3 DEF WrittenInv, ImageMatchesOffsets
<1>4. QED BY <1>1, <1>2, <1>3, CopyKeepsImage DEF Next

\* The bytes of a section are in the generated file at its file offset, counted from
\* the load address: padding, overlaps and addresses below zero never shift it
\* (Linker.cpp:459-541).
THEOREM ImageIsWhereOffsetsSay == Spec => []ImageMatchesOffsets
<1>1. Init => WrittenInv /\ ImageMatchesOffsets
  BY DEF Init, WrittenInv, ImageMatchesOffsets
<1>2. IInv /\ (WrittenInv /\ ImageMatchesOffsets) /\ [Next]_vars => (WrittenInv /\ ImageMatchesOffsets)'
  BY ImageKeeps
<1>3. QED BY <1>1, <1>2, Invariance, PTL DEF Spec
=============================================================================
