------------------------------- MODULE Linker -------------------------------
(***************************************************************************)
(* The linker of the toolchain (Compiler/Linker/Linker.cpp).               *)
(*                                                                         *)
(* A project lists output files, every file lists program sections.  The   *)
(* linker decides, for every section, its size, the address it runs at     *)
(* (base), the address it is stored at (file offset), the addresses of its *)
(* labels, and its code.  Any of these may need another one, of the same   *)
(* section or of another, so link() sweeps over the files until a sweep    *)
(* resolves nothing new, and then copies the sections into the output.     *)
(*                                                                         *)
(* Everything runs in one thread.  Each loop iteration of the source is a  *)
(* step here, and pc names the loop the linker is in.                      *)
(***************************************************************************)
EXTENDS Integers, FiniteSets

CONSTANTS
  N,          (* number of sections listed by the project, over all files  *)
  F,          (* number of output files                                    *)
  Name,       (* names of sections                                         *)
  WordMax,    (* largest 16-bit value, 0xffff                              *)
  SizeMod,    (* number of values of a size_t, 2^64                        *)
  Project,    (* the projects considered                                   *)
  None        (* an empty std::optional or a null Expr*                    *)

Section == 1..N
File == 1..F
Word == 0..WordMax
SizeT == 0..(SizeMod - 1)
Opt(S) == S \cup {None}

\* What an expression may refer to: sizeof, baseof or addressof of a section
\* name, or a label defined in the section of that name.
Fact == {"size", "base", "address", "label"} \X Name

(***************************************************************************)
(* A project.  Sections are numbered in the order of the project file, the *)
(* sections of a file being consecutive.  length and packed are the sizes  *)
(* of the code before and after compression; sizeNeeds and codeNeeds are   *)
(* the facts used by the expressions that decide the size (#if, #repeat,   *)
(* defs) and by the other operands; usesHere says that an operand uses $.  *)
(* Sections whose condition is false are not listed.                       *)
(***************************************************************************)
ProjectType ==
  [fileName : [File -> Name], start : [File -> Opt(Word)], until : [File -> Opt(Word)],
   file : [Section -> File], name : [Section -> Name],
   attachment : [Section -> {"Lower", "Upper"}], compressed : [Section -> BOOLEAN],
   base : [Section -> Opt(Word)], offset : [Section -> Opt(Word)],
   auto : [Section -> {"no", "auto", "packed"}], align : [Section -> Opt(Word)],
   length : [Section -> Word], packed : [Section -> Word],
   sizeNeeds : [Section -> SUBSET Fact], codeNeeds : [Section -> SUBSET Fact],
   usesHere : [Section -> BOOLEAN], constNeeds : SUBSET Fact]

ASSUME LinkerAssumption ==
  /\ N \in Nat /\ F \in Nat
  /\ WordMax \in Nat /\ SizeMod \in Nat
  /\ 4 * WordMax < SizeMod
  /\ None \notin Int
  /\ Project \subseteq ProjectType
  /\ \A p \in Project : \A s, t \in Section : s <= t => p.file[s] <= p.file[t]

VARIABLES
  project,       \* the project being linked; never changes
  pc,            \* the loop the linker is in, or how link() ended
  error,         \* why link() threw a CompilerError, None before
  f,             \* the file being constructed, resolved or generated
  i,             \* index of the section the loop of that file is at
  k, addr,       \* index and address of the loops of resolveSectionsFrom/To
  attachment,    \* LinkerSection::attachment
  size, base, offset, labels,  \* resolvedSize, resolvedBase, resolvedFileOffset, labelsResolved
  code,          \* LinkerSection::code: the base the code was emitted for, None if there is none
  isResolved,    \* LinkerFile::mIsResolved
  hasUnresolved, \* local of tryResolve
  didResolve, resolvedAll,     \* locals of link, per sweep
  image,         \* where in its file the code of a section was copied, None before
  out, written,  \* offset of generateCode, and number of bytes in the CompiledFile
  load           \* CompiledFile::mLoadAddress

sectionVars == <<attachment, size, base, offset, labels, code>>
sweepVars == <<isResolved, hasUnresolved, didResolve, resolvedAll>>
outputVars == <<image, out, written, load>>
vars == <<project, pc, error, f, i, k, addr, sectionVars, sweepVars, outputVars>>

-----------------------------------------------------------------------------
SectionsOf(g) == {s \in Section : project.file[s] = g}
First(g) == 1 + Cardinality({s \in Section : project.file[s] < g})
AtEnd(g, j) == \A s \in SectionsOf(g) : s < j

\* size_t arithmetic.  (Definitions named after a slip, like the next but one, are
\* mutants: wrong variants of the definition that follows them, used by no action.)
Plus(a, b) == IF a + b < SizeMod THEN a + b ELSE a + b - SizeMod
MinusUnwrapped(a, b) == a - b
Minus(a, b) == IF a >= b THEN a - b ELSE a - b + SizeMod
AlignUp(a, n) == IF n = None THEN a ELSE Plus(a, n - 1) - (Plus(a, n - 1) % n)
AlignDown(a, n) == IF n = None THEN a ELSE a - (a % n)

\* The label symbols of a name belong to the first section that got it; a later
\* file that lists the same section links a clone.
IsOriginal(s) == \A t \in Section : project.name[t] = project.name[s] => s <= t

\* The sections that answer to a fact.  The file under construction is not in
\* mFiles yet.
Answers(fact) ==
  {s \in Section :
     /\ project.name[s] = fact[2]
     /\ pc = "ctorSize" => project.file[s] < f
     /\ \/ fact[1] = "size"    /\ size[s] # None
        \/ fact[1] = "base"    /\ base[s] # None
        \/ fact[1] = "address" /\ offset[s] # None
        \/ fact[1] = "label"   /\ labels[s] /\ IsOriginal(s)}
Unknown(fact) == Answers(fact) = {}
Ambiguous(fact) == \E s, t \in Answers(fact) : s # t

\* How evaluating expressions over these facts may end.  The order in which a
\* section's expressions are evaluated is not modelled: when one fact is not known
\* yet and another is ambiguous, either may be met first.
Outcomes(needs) ==
  {o \in {"ok", "unknown", "throw"} :
     \/ o = "ok"      /\ \A fact \in needs : ~Unknown(fact) /\ ~Ambiguous(fact)
     \/ o = "unknown" /\ \E fact \in needs : Unknown(fact)
     \/ o = "throw"   /\ \E fact \in needs : Ambiguous(fact)}

\* Every instruction starts below 64K.
Below64K(s, at) == project.length[s] = 0 \/ at + project.length[s] - 1 <= WordMax

\* resolveLabels sets the labels of the section as it goes, so that what follows a
\* label may already use it.
LabelNeeds(s) ==
  project.sizeNeeds[s] \ {fact \in {<<"label", project.name[s]>>} : IsOriginal(s)}
LabelOutcomes(s) == IF Below64K(s, base[s]) THEN Outcomes(LabelNeeds(s)) ELSE {"throw"}
CodeOutcomes(s, at) ==
  IF Below64K(s, at) THEN Outcomes(project.sizeNeeds[s] \cup project.codeNeeds[s]) ELSE {"unknown"}

Complete(s) == offset[s] # None /\ size[s] # None /\ labels[s] /\ code[s] # None

Fail(why) ==
  /\ pc' = "failed"
  /\ error' = why
  /\ UNCHANGED <<project, f, i, k, addr, sectionVars, sweepVars, outputVars>>

Goto(label) == pc' = label /\ UNCHANGED <<project, error>>

-----------------------------------------------------------------------------
(* resolveSectionsFrom and resolveSectionsTo, called from the constructor  *)
(* (here = "ctorFrom", "ctorTo") and from tryResolve ("placeFrom",         *)
(* "placeTo").  One step handles section k or leaves the loop for `next'.  *)

Place(s, at) ==
  /\ offset' = [offset EXCEPT ![s] = at]
  /\ base' = [base EXCEPT ![s] = IF @ = None THEN at ELSE @]
  /\ didResolve' = TRUE
  /\ UNCHANGED <<f, i, attachment, size, labels, code, isResolved, hasUnresolved, resolvedAll, outputVars>>

LeaveLoop(next) ==
  /\ Goto(next)
  /\ UNCHANGED <<f, i, k, addr, sectionVars, sweepVars, outputVars>>

MayPlaceFromAnySide == k \in SectionsOf(f) /\ offset[k] = None
MayPlaceFrom == k \in SectionsOf(f) /\ attachment[k] = "Lower" /\ offset[k] = None
MayPlaceTo == k \in SectionsOf(f) /\ attachment[k] = "Upper" /\ offset[k] = None /\ size[k] # None

SectionsFrom(here, next) ==
  /\ pc = here
  /\ \/ ~MayPlaceFrom /\ LeaveLoop(next)
     \/ MayPlaceFrom /\ project.align[k] = 0 /\ Fail("alignment")
     \/ /\ MayPlaceFrom /\ project.align[k] # 0
        /\ Place(k, AlignUp(addr, project.align[k]))
        /\ IF size[k] = None
             THEN Goto(next) /\ UNCHANGED <<k, addr>>
             ELSE /\ Goto(here)
                  /\ k' = k + 1
                  /\ addr' = Plus(AlignUp(addr, project.align[k]), size[k])

SectionsTo(here, next) ==
  /\ pc = here
  /\ \/ ~MayPlaceTo /\ LeaveLoop(next)
     \/ MayPlaceTo /\ project.align[k] = 0 /\ Fail("alignment")
     \/ /\ MayPlaceTo /\ project.align[k] # 0
        /\ Goto(here)
        /\ k' = k - 1
        /\ addr' = AlignDown(Minus(addr, size[k]), project.align[k])
        /\ Place(k, addr')

-----------------------------------------------------------------------------
(* Linker::link, first loop: constructing the LinkerFiles.                 *)

BadSections(g) ==
  \E s \in SectionsOf(g) :
    \/ \E t \in SectionsOf(g) \ {s} : project.name[s] = project.name[t]
    \/ project.offset[s] # None /\ project.base[s] = None

ConstructFile ==
  /\ pc = "construct"
  /\ \/ /\ f \notin File
        /\ Goto("sweep")
        /\ UNCHANGED <<f, i, k, addr, sectionVars, sweepVars, outputVars>>
     \/ /\ f \in File
        /\ BadSections(f) \/ \E g \in 1..(f - 1) : project.fileName[g] = project.fileName[f]
        /\ Fail("invalid")
     \/ /\ f \in File
        /\ ~BadSections(f) /\ \A g \in 1..(f - 1) : project.fileName[g] # project.fileName[f]
        /\ Goto("ctorSize")
        /\ i' = First(f)
        /\ UNCHANGED <<f, k, addr, sectionVars, sweepVars, outputVars>>

\* "try calculate size for all uncompressed sections"; no base is known yet.
CtorSize ==
  /\ pc = "ctorSize" /\ i \in SectionsOf(f)
  /\ LET o == IF project.compressed[i] THEN {"unknown"} ELSE Outcomes(project.sizeNeeds[i])
     IN \/ "throw" \in o /\ Fail("ambiguous")
        \/ /\ o \cap {"ok", "unknown"} # {}
           /\ size' = IF "ok" \in o THEN [size EXCEPT ![i] = project.length[i]] ELSE size
           /\ Goto("ctorSize")
           /\ i' = i + 1
           /\ UNCHANGED <<f, k, addr, attachment, base, offset, labels, code, sweepVars, outputVars>>

BadAlignment(s) ==
  /\ project.base[s] # None /\ project.align[s] # None
  /\ project.align[s] # 0 => project.base[s] % project.align[s] # 0

\* File offset of a section with a known base.
CtorOffset(s) ==
  IF project.offset[s] # None THEN project.offset[s]
  ELSE IF project.auto[s] # "packed" /\ ~project.compressed[s] THEN project.base[s]
  ELSE None

\* Sections at the beginning of the file that are attached to side and not placed.
Leading(side, att, off) ==
  {s \in SectionsOf(f) : \A t \in SectionsOf(f) : t <= s => off[t] = None /\ att[t] = side}

\* "convert all lower sections at the beginning of file to upper if file start is
\* unspecified", then the loop over the upper sections, which also starts at the
\* beginning.
ConvertLower(off) ==
  [s \in Section |-> IF project.start[f] = None /\ s \in Leading("Lower", attachment, off)
                       THEN "Upper" ELSE attachment[s]]
ConvertUpper(att, off) ==
  [s \in Section |-> IF project.until[f] = None /\ s \in Leading("Upper", att, off)
                       THEN "Lower" ELSE att[s]]

CtorBases ==
  /\ pc = "ctorSize" /\ AtEnd(f, i)
  /\ \/ (\E s \in SectionsOf(f) : BadAlignment(s)) /\ Fail("alignment")
     \/ /\ \A s \in SectionsOf(f) : ~BadAlignment(s)
        /\ base' = [s \in Section |-> IF s \in SectionsOf(f) THEN project.base[s] ELSE base[s]]
        /\ offset' = [s \in Section |-> IF s \in SectionsOf(f) THEN CtorOffset(s) ELSE offset[s]]
        /\ attachment' = ConvertUpper(ConvertLower(offset'), offset')
        /\ Goto("ctorFrom")
        /\ k' = IF project.start[f] = None THEN 0 ELSE First(f)
        /\ addr' = IF project.start[f] = None THEN 0 ELSE project.start[f]
        /\ UNCHANGED <<f, i, size, labels, code, sweepVars, outputVars>>

CtorUntil ==
  /\ pc = "ctorUntil"
  /\ Goto("ctorTo")
  /\ k' = IF project.until[f] = None THEN 0 ELSE i - 1
  /\ addr' = IF project.until[f] = None THEN 0 ELSE project.until[f]
  /\ UNCHANGED <<f, i, sectionVars, sweepVars, outputVars>>

\* "if neither start, nor end of file is specified, there should be at least one
\* section with known base"
NeedsAnchor ==
  /\ project.start[f] = None /\ project.until[f] = None
  /\ \A s \in SectionsOf(f) : offset[s] = None
Anchors ==
  LET based == {s \in SectionsOf(f) : base[s] # None}
      plain == {s \in based : project.auto[s] = "no" /\ project.offset[s] = None}
  IN IF plain # {} THEN plain ELSE {s \in based : project.auto[s] # "no"}

CtorAnchor ==
  /\ pc = "ctorAnchor"
  /\ \/ NeedsAnchor /\ Anchors = {} /\ Fail("anchor")
     \/ /\ NeedsAnchor => Anchors # {}
        /\ offset' = [s \in Section |->
                        IF NeedsAnchor /\ s \in Anchors /\ \A t \in Anchors : s <= t
                          THEN base[s] ELSE offset[s]]
        /\ Goto("construct")
        /\ f' = f + 1
        /\ UNCHANGED <<i, k, addr, attachment, size, base, labels, code, sweepVars, outputVars>>

-----------------------------------------------------------------------------
(* Linker::link, second loop: one sweep calls tryResolve of every file.    *)

ResetSweepPartly == resolvedAll' = TRUE /\ UNCHANGED didResolve
ResetSweep == resolvedAll' = TRUE /\ didResolve' = FALSE

StartSweep ==
  /\ pc = "sweep"
  /\ Goto("file")
  /\ f' = 1
  /\ ResetSweep
  /\ UNCHANGED <<i, k, addr, sectionVars, isResolved, hasUnresolved, outputVars>>

EndSweep ==
  /\ pc = "file" /\ f \notin File
  /\ \/ /\ resolvedAll
        /\ Goto("generate")
        /\ f' = 1
        /\ UNCHANGED <<i, k, addr, sectionVars, sweepVars, outputVars>>
     \/ /\ ~resolvedAll /\ didResolve
        /\ Goto("sweep")
        /\ UNCHANGED <<f, i, k, addr, sectionVars, sweepVars, outputVars>>
     \/ ~resolvedAll /\ ~didResolve /\ Fail("unresolved")

TryResolve ==
  /\ pc = "file" /\ f \in File
  /\ IF isResolved[f]
       THEN Goto("file") /\ f' = f + 1 /\ UNCHANGED <<i, hasUnresolved>>
       ELSE Goto("sizes") /\ i' = First(f) /\ hasUnresolved' = FALSE /\ UNCHANGED f
  /\ UNCHANGED <<k, addr, sectionVars, isResolved, didResolve, resolvedAll, outputVars>>

(* First loop of tryResolve: sizes and labels.                             *)

NeedsSize(s) == ~project.compressed[s] /\ size[s] = None
NeedsLabels(s) == ~labels[s] /\ base[s] # None

NextSection(here) ==
  /\ Goto(here)
  /\ i' = i + 1
  /\ UNCHANGED <<f, k, addr, attachment, base, offset, isResolved, resolvedAll, outputVars>>

SetLabelsUnreported == labels' = [labels EXCEPT ![i] = TRUE] /\ UNCHANGED didResolve
SetLabels == labels' = [labels EXCEPT ![i] = TRUE] /\ didResolve' = TRUE

ResolveLabels ==
  /\ pc = "sizes" /\ i \in SectionsOf(f)
  /\ NeedsLabels(i) /\ "ok" \in LabelOutcomes(i)
  /\ SetLabels
  /\ size' = IF NeedsSize(i) THEN [size EXCEPT ![i] = project.length[i]] ELSE size
  /\ NextSection("sizes")
  /\ UNCHANGED <<code, hasUnresolved>>

CalculateSize ==
  /\ pc = "sizes" /\ i \in SectionsOf(f)
  /\ NeedsSize(i) /\ ~NeedsLabels(i) /\ "ok" \in Outcomes(project.sizeNeeds[i])
  /\ size' = [size EXCEPT ![i] = project.length[i]]
  /\ didResolve' = TRUE
  /\ NextSection("sizes")
  /\ UNCHANGED <<labels, code, hasUnresolved>>

KeepLabelsUnset == labels' = [labels EXCEPT ![i] = FALSE]
KeepLabels == UNCHANGED labels

\* Nothing to do, or not yet possible: the labels set so far are unset again.
SizesUnknown ==
  /\ pc = "sizes" /\ i \in SectionsOf(f)
  /\ NeedsLabels(i) => "unknown" \in LabelOutcomes(i)
  /\ NeedsSize(i) /\ ~NeedsLabels(i) => "unknown" \in Outcomes(project.sizeNeeds[i])
  /\ hasUnresolved' = (hasUnresolved \/ NeedsSize(i) \/ NeedsLabels(i))
  /\ NextSection("sizes")
  /\ KeepLabels
  /\ UNCHANGED <<size, code, didResolve>>

SizesThrow ==
  /\ pc = "sizes" /\ i \in SectionsOf(f)
  /\ \/ NeedsLabels(i) /\ "throw" \in LabelOutcomes(i)
     \/ NeedsSize(i) /\ ~NeedsLabels(i) /\ "throw" \in Outcomes(project.sizeNeeds[i])
  /\ Fail("evaluation")

NextLoop(here, next) ==
  /\ pc = here /\ AtEnd(f, i)
  /\ Goto(next)
  /\ i' = First(f)
  /\ UNCHANGED <<f, k, addr, sectionVars, sweepVars, outputVars>>

(* Second loop: compression.  Code that uses neither $ nor its own labels  *)
(* can be emitted, for address 0, before the base is known.                *)

NeedsCompressionAgain(s) == project.compressed[s]
NeedsCompression(s) == project.compressed[s] /\ size[s] = None
EmitBase(s) == IF base[s] # None THEN base[s] ELSE 0
CompressOutcomesAnywhere(s) == CodeOutcomes(s, EmitBase(s))
CompressOutcomes(s) ==
  IF base[s] = None /\ project.usesHere[s] THEN {"unknown"} ELSE CodeOutcomes(s, EmitBase(s))

Compress ==
  /\ pc = "compress" /\ i \in SectionsOf(f)
  /\ NeedsCompression(i) /\ "ok" \in CompressOutcomes(i)
  /\ size' = [size EXCEPT ![i] = project.packed[i]]
  /\ code' = [code EXCEPT ![i] = EmitBase(i)]
  /\ didResolve' = TRUE
  /\ NextSection("compress")
  /\ UNCHANGED <<labels, hasUnresolved>>

SkipCompress ==
  /\ pc = "compress" /\ i \in SectionsOf(f)
  /\ NeedsCompression(i) => "unknown" \in CompressOutcomes(i)
  /\ NextSection("compress")
  /\ UNCHANGED <<size, labels, code, hasUnresolved, didResolve>>

CompressThrow ==
  /\ pc = "compress" /\ i \in SectionsOf(f)
  /\ NeedsCompression(i) /\ "throw" \in CompressOutcomes(i)
  /\ Fail("evaluation")

(* Third loop: code, and the places of the neighbours of placed sections.  *)

Placed(s) == offset[s] # None /\ labels[s]
NeedsCode(s) == ~project.compressed[s] /\ code[s] = None

NotPlaced ==
  /\ pc = "place" /\ i \in SectionsOf(f) /\ ~Placed(i)
  /\ hasUnresolved' = TRUE
  /\ NextSection("place")
  /\ UNCHANGED <<size, labels, code, didResolve>>

EmitCode ==
  /\ pc = "place" /\ i \in SectionsOf(f) /\ Placed(i)
  /\ \/ ~NeedsCode(i) /\ UNCHANGED <<size, code, didResolve, hasUnresolved>>
     \/ /\ NeedsCode(i) /\ "ok" \in CodeOutcomes(i, base[i])
        /\ code' = [code EXCEPT ![i] = base[i]]
        /\ size' = [size EXCEPT ![i] = project.length[i]]
        /\ didResolve' = TRUE
        /\ UNCHANGED hasUnresolved
     \/ /\ NeedsCode(i) /\ "unknown" \in CodeOutcomes(i, base[i])
        /\ hasUnresolved' = TRUE
        /\ UNCHANGED <<size, code, didResolve>>
  /\ Goto("placeTo")
  /\ k' = i - 1
  /\ addr' = offset[i]
  /\ UNCHANGED <<f, i, attachment, base, offset, labels, isResolved, resolvedAll, outputVars>>

EmitThrow ==
  /\ pc = "place" /\ i \in SectionsOf(f) /\ Placed(i)
  /\ NeedsCode(i) /\ "throw" \in CodeOutcomes(i, base[i])
  /\ Fail("evaluation")

PlaceAfterUnsized ==
  /\ pc = "placeAfter"
  /\ Goto("placeFrom")
  /\ k' = IF size[i] = None THEN 0 ELSE i + 1
  /\ addr' = IF size[i] = None THEN 0 ELSE Plus(offset[i], size[i])
  /\ UNCHANGED <<f, i, sectionVars, sweepVars, outputVars>>

PlaceAfter ==
  /\ pc = "placeAfter"
  /\ Goto("placeFrom")
  /\ k' = IF size[i] = None THEN 0 ELSE i + 1
  /\ addr' = IF size[i] = None THEN 0 ELSE Plus(offset[i], size[i])
  /\ hasUnresolved' = (hasUnresolved \/ size[i] = None)
  /\ UNCHANGED <<f, i, sectionVars, isResolved, didResolve, resolvedAll, outputVars>>

PlaceNext ==
  /\ pc = "placeNext"
  /\ NextSection("place")
  /\ UNCHANGED <<size, labels, code, hasUnresolved, didResolve>>

EndResolve ==
  /\ pc = "place" /\ AtEnd(f, i)
  /\ isResolved' = [isResolved EXCEPT ![f] = ~hasUnresolved]
  /\ resolvedAll' = (resolvedAll /\ ~hasUnresolved)
  /\ Goto("file")
  /\ f' = f + 1
  /\ UNCHANGED <<i, k, addr, sectionVars, hasUnresolved, didResolve, outputVars>>

-----------------------------------------------------------------------------
(* Linker::link, third loop: generateCode of every file.  std::sort gives  *)
(* no order to sections with the same file offset: any of them may be next.*)

Pending == {s \in SectionsOf(f) : image[s] = None}
Lowest(S) == {s \in S : \A t \in S : offset[s] <= offset[t]}
StartOf(g) ==
  IF project.start[g] # None THEN project.start[g]
  ELSE offset[CHOOSE s \in Lowest(SectionsOf(g)) : TRUE]

StartFile ==
  /\ pc = "generate"
  /\ \/ /\ f \notin File
        /\ Goto("symbols") /\ UNCHANGED <<f, out, written>>
     \/ /\ f \in File /\ SectionsOf(f) = {}
        /\ Goto("generate") /\ f' = f + 1 /\ UNCHANGED <<out, written>>
     \/ /\ f \in File /\ SectionsOf(f) # {}
        /\ project.start[f] # None /\ project.until[f] # None => project.start[f] < project.until[f]
        /\ Goto("copy")
        /\ out' = StartOf(f) /\ written' = 0
        /\ UNCHANGED f
  /\ UNCHANGED <<i, k, addr, sectionVars, sweepVars, image, load>>

BadBounds ==
  /\ pc = "generate" /\ f \in File /\ SectionsOf(f) # {}
  /\ project.start[f] # None /\ project.until[f] # None
  /\ project.start[f] >= project.until[f]
  /\ Fail("bounds")

\* Zero bytes written before section s.
Padding(s) == IF size[s] > 0 /\ offset[s] > out THEN offset[s] - out ELSE 0
OutAfterUnpadded(s) == Plus(out, size[s])
OutAfter(s) == Plus(out + Padding(s), size[s])
\* Only an offset that went below zero is that far away: memory runs out.
PadsForever(s) == Padding(s) > 2 * WordMax
BeyondEnd(s) == project.until[f] # None /\ size[s] > 0 /\ OutAfter(s) > project.until[f]

OverlapsUnchecked(s) == FALSE
Overlaps(s) == offset[s] < out

CopySection ==
  /\ pc = "copy"
  /\ \E s \in Lowest(Pending) :
       /\ offset[s] >= StartOf(f) /\ ~Overlaps(s) /\ ~PadsForever(s) /\ ~BeyondEnd(s)
       /\ image' = [image EXCEPT ![s] = written + Padding(s)]
       /\ written' = written + Padding(s) + size[s]
       /\ out' = OutAfter(s)
  /\ Goto("copy")
  /\ UNCHANGED <<f, i, k, addr, sectionVars, sweepVars, load>>

RejectSection ==
  /\ pc = "copy"
  /\ \E s \in Lowest(Pending) :
       \/ (offset[s] < StartOf(f) \/ BeyondEnd(s)) /\ ~PadsForever(s) /\ Fail("bounds")
       \/ PadsForever(s) /\ Fail("memory")
       \/ offset[s] >= StartOf(f) /\ Overlaps(s) /\ Fail("overlap")

EndFile ==
  /\ pc = "copy" /\ Pending = {}
  /\ load' = [load EXCEPT ![f] = StartOf(f)]
  /\ Goto("generate")
  /\ f' = f + 1
  /\ UNCHANGED <<i, k, addr, sectionVars, sweepVars, image, out, written>>

\* The constants of the program are evaluated once more.
CheckSymbols ==
  /\ pc = "symbols"
  /\ IF \A fact \in project.constNeeds :
          IF fact[1] = "label" THEN ~Unknown(fact) ELSE \E s \in Section : project.name[s] = fact[2]
       THEN Goto("linked") /\ UNCHANGED <<f, i, k, addr, sectionVars, sweepVars, outputVars>>
       ELSE Fail("constant")

-----------------------------------------------------------------------------
Init ==
  /\ project \in Project
  /\ pc = "construct" /\ error = None
  /\ f = 1 /\ i = 0 /\ k = 0 /\ addr = 0
  /\ attachment = project.attachment
  /\ size = [s \in Section |-> None] /\ base = size /\ offset = size /\ code = size
  /\ labels = [s \in Section |-> FALSE]
  /\ isResolved = [g \in File |-> FALSE] /\ hasUnresolved = FALSE
  /\ didResolve = FALSE /\ resolvedAll = TRUE
  /\ image = [s \in Section |-> None] /\ out = 0 /\ written = 0
  /\ load = [g \in File |-> None]

Construct ==
  \/ ConstructFile \/ CtorSize \/ CtorBases
  \/ SectionsFrom("ctorFrom", "ctorUntil") \/ CtorUntil \/ SectionsTo("ctorTo", "ctorAnchor")
  \/ CtorAnchor
Resolve ==
  \/ StartSweep \/ EndSweep \/ TryResolve
  \/ ResolveLabels \/ CalculateSize \/ SizesUnknown \/ SizesThrow \/ NextLoop("sizes", "compress")
  \/ Compress \/ SkipCompress \/ CompressThrow \/ NextLoop("compress", "place")
  \/ NotPlaced \/ EmitCode \/ EmitThrow
  \/ SectionsTo("placeTo", "placeAfter") \/ PlaceAfter
  \/ SectionsFrom("placeFrom", "placeNext") \/ PlaceNext
  \/ EndResolve
Generate == StartFile \/ BadBounds \/ CopySection \/ RejectSection \/ EndFile \/ CheckSymbols

\* link() has returned or thrown.
Finished == pc \in {"linked", "failed"} /\ UNCHANGED vars

Next == Construct \/ Resolve \/ Generate \/ Finished

\* link() is one thread that never waits.
Spec == Init /\ [][Next]_vars /\ WF_vars(Next)

-----------------------------------------------------------------------------
Loops == {"construct", "ctorSize", "ctorFrom", "ctorUntil", "ctorTo", "ctorAnchor", "sweep", "file",
          "sizes", "compress", "place", "placeTo", "placeAfter", "placeFrom", "placeNext",
          "generate", "copy", "symbols"}
Errors == {"invalid", "ambiguous", "alignment", "anchor", "evaluation", "unresolved", "bounds",
           "overlap", "constant", "memory"}

ASSUME NoneAssumption == None \notin Errors

\* Every variable has the type of the field or local it stands for.
TypeOK ==
  /\ project \in ProjectType
  /\ pc \in Loops \cup {"linked", "failed"}
  /\ error \in Opt(Errors)
  /\ f \in 1..(F + 1) /\ i \in 0..(N + 1) /\ k \in 0..(N + 1) /\ addr \in SizeT
  /\ attachment \in [Section -> {"Lower", "Upper"}]
  /\ size \in [Section -> Opt(Word)]
  /\ base \in [Section -> Opt(SizeT)]
  /\ offset \in [Section -> Opt(SizeT)]
  /\ labels \in [Section -> BOOLEAN]
  /\ code \in [Section -> Opt(SizeT)]
  /\ isResolved \in [File -> BOOLEAN]
  /\ hasUnresolved \in BOOLEAN /\ didResolve \in BOOLEAN /\ resolvedAll \in BOOLEAN
  /\ image \in [Section -> Opt(Nat)]
  /\ out \in SizeT /\ written \in Nat
  /\ load \in [File -> Opt(SizeT)]

\* What tryResolve decided is never revised: other sections may already have used
\* it for their sizes, places or code (Linker.cpp:270-442 only fills empty fields).
ResolvedOnce ==
  [][\A s \in Section :
       /\ size[s] # None => size'[s] = size[s]
       /\ base[s] # None => base'[s] = base[s]
       /\ offset[s] # None => offset'[s] = offset[s]
       /\ code[s] # None => code'[s] = code[s]
       /\ labels[s] => labels'[s]]_vars

\* generateCode reads resolvedFileOffset, resolvedSize and code of every section
\* unconditionally (Linker.cpp:460, 481, 495, 504): a sweep reports that all is
\* resolved only when they are all there.
LinkedIsComplete ==
  pc \in {"generate", "copy", "symbols", "linked"} => \A s \in Section : Complete(s)

\* Two sections stored below 64K never share a byte of a file that is generated.
NoOverlap ==
  \A s, t \in Section :
    /\ s # t /\ project.file[s] = project.file[t]
    /\ image[s] # None /\ image[t] # None
    /\ size[s] > 0 /\ size[t] > 0
    /\ offset[s] <= WordMax /\ offset[t] <= WordMax
    => offset[s] + size[s] <= offset[t] \/ offset[t] + size[t] <= offset[s]

\* The code of a section is found in the file at its file offset, counted from the
\* load address.
ImageMatchesOffsets ==
  \A s \in Section :
    image[s] # None /\ size[s] > 0 => image[s] = offset[s] - StartOf(project.file[s])

\* Code that depends on its address was emitted for the address it is to run at:
\* the base the project gives or else the place the section is stored.
CodeRunsWhereLoaded ==
  \A s \in Section :
    /\ code[s] # None
    /\ project.usesHere[s] \/ ~project.compressed[s]
    => code[s] = IF project.base[s] # None THEN project.base[s] ELSE offset[s]

\* A section with an alignment runs at a multiple of it, and one the project gives no
\* base is stored as near to its neighbour as that allows: behind the previous one (or
\* the start of the file) when it is attached to lower addresses, before the next one
\* (or the end) when attached to upper ones.
KeepsAttachment ==
  \A s \in Section :
    /\ offset[s] # None /\ project.align[s] # None => base[s] % project.align[s] = 0
    /\ offset[s] # None /\ project.base[s] = None =>
         LET g == project.file[s]
             lower == IF s - 1 \in SectionsOf(g) THEN Plus(offset[s - 1], size[s - 1]) ELSE project.start[g]
             upper == IF s + 1 \in SectionsOf(g) THEN offset[s + 1] ELSE project.until[g]
         IN IF attachment[s] = "Lower"
            THEN /\ s - 1 \in SectionsOf(g) => offset[s - 1] # None /\ size[s - 1] # None
                 /\ offset[s] = AlignUp(lower, project.align[s])
            ELSE /\ s + 1 \in SectionsOf(g) => offset[s + 1] # None
                 /\ size[s] # None
                 /\ offset[s] = AlignDown(Minus(upper, size[s]), project.align[s])

\* A rule of tryResolve that could still resolve something.
CanPlaceNeighbour(s) ==
  /\ Placed(s)
  /\ \/ /\ s + 1 \in SectionsOf(project.file[s]) /\ size[s] # None
        /\ offset[s + 1] = None /\ attachment[s + 1] = "Lower"
     \/ /\ s - 1 \in SectionsOf(project.file[s]) /\ size[s - 1] # None
        /\ offset[s - 1] = None /\ attachment[s - 1] = "Upper"
CanResolve(s) ==
  \/ NeedsLabels(s) /\ LabelOutcomes(s) = {"ok"}
  \/ NeedsSize(s) /\ Outcomes(project.sizeNeeds[s]) = {"ok"}
  \/ NeedsCompression(s) /\ CompressOutcomes(s) = {"ok"}
  \/ Placed(s) /\ NeedsCode(s) /\ CodeOutcomes(s, base[s]) = {"ok"}
  \/ CanPlaceNeighbour(s)

\* link() gives up only when nothing can be resolved any more, whatever the order
\* of the files, of their sections and of the loops of tryResolve.
GivesUpLast == error = "unresolved" => \A s \in Section : ~CanResolve(s)

\* link() returns or throws: a sweep that resolves nothing is the last one.
LinkEnds == <>(pc \in {"linked", "failed"})

-----------------------------------------------------------------------------
\* link() as LinkPromise states it: the decisions of all the loops together are
\* final, and a project is linked only when all are taken and nothing overlaps.
Outcome == IF pc \in {"linked", "failed"} THEN pc ELSE "linking"
Promise == INSTANCE LinkPromise WITH
  fileOf <- project.file, outcome <- Outcome, Addressable <- WordMax
KeepsPromise == Promise!Spec

-----------------------------------------------------------------------------
(* A claim of the source that the linker does not keep.                    *)

\* Linker.cpp:186: "convert all upper sections at the end of file to lower if file
\* end is unspecified".  Nothing can place an upper section at the end of a file
\* that has no end address.
UpperAtEndBecomesLower ==
  pc = "sweep" => \A s \in Section :
    LET g == project.file[s]
    IN project.until[g] = None /\ AtEnd(g, s + 1) /\ offset[s] = None => attachment[s] = "Lower"
=============================================================================
