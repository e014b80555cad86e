--------------------------- MODULE ProgramSection ---------------------------
(***************************************************************************)
(* The instructions of one section (Linker/ProgramSection.cpp, Assembler): *)
(* three passes walk them, to find the size, the addresses of the labels,  *)
(* and the code.  A label in a #repeat has one address per iteration, kept *)
(* in a list; the passes move a read and a write position along it.        *)
(*                                                                         *)
(* A program is flat: a block is opened by "repeat" or "if" and closed by  *)
(* "endrepeat" or "endif", with an optional "else" between.  A pass may    *)
(* stop in the middle, at an expression that has no value yet, and leaves  *)
(* the positions and the repeat variables where they are.                  *)
(*                                                                         *)
(* The linker runs the passes for a single section (the sweeps over all    *)
(* sections are in module Linker): the constructor of LinkerFile tries to  *)
(* find the size before there is any base, and LinkerFile::tryResolve the  *)
(* rest.  A section that two files list is copied for the second.  The     *)
(* copy has labels and repeats of its own, but its expressions still name  *)
(* those of the original, whatever position a pass has left them at.       *)
(***************************************************************************)
EXTENDS Integers, Sequences

CONSTANTS
  Programs,   (* the programs, each of ProgramType                         *)
  Bases,      (* the addresses a section may get                           *)
  WordMax,    (* the highest address                                       *)
  None        (* no value                                                  *)

Instruction == {"label", "data", "use", "ext", "here", "defs", "ensure", "repeat", "if"}
Closer == {"else", "endif", "endrepeat"}

\* data: a byte.  use: the word of a label.  here: the word of $.  ext: the word of a
\* label of another section.  defs: arg zero bytes.  ensure: an error unless arg # 0.
\* repeat: arg times.  if: arg # 0.  An argument is a number, the variable of the repeat around it, or the label of
\* another section, whose value is arg.
ProgramType ==
  [op : Seq(Instruction \cup Closer),
   kind : Seq({"number", "var", "ext"}), arg : Seq(Nat),
   label : Seq(Nat),     (* the label a "use" names                         *)
   within : Seq(Nat),    (* the repeat around the instruction, or 0         *)
   outer : Seq(Nat),     (* the block around it, or 0                       *)
   to : Seq(Nat),        (* where the block, or its first branch, ends      *)
   under : Seq(SUBSET (Nat \X BOOLEAN)),  (* the ifs around it, and the branch *)
   packed : BOOLEAN,     (* the section is compressed                       *)
   twice : BOOLEAN]      (* a second file lists the section                 *)

\* A program is a tree of blocks: an #if or #repeat is closed inside of what it is opened in.
WellNested(P) ==
  LET Contains(q, p) == P.op[q] = "repeat" /\ q < p /\ p <= P.to[q] IN
  /\ \A part \in {"kind", "arg", "label", "within", "outer", "to"} : DOMAIN P[part] = DOMAIN P.op
  /\ \A p \in DOMAIN P.op :
       /\ P.op[p] \in {"repeat", "if", "else"} => P.to[p] \in DOMAIN P.op /\ p < P.to[p]
       /\ P.op[p] = "repeat" => P.op[P.to[p]] = "endrepeat" /\ P.within[P.to[p]] = p
       /\ P.op[p] \in {"if", "else"} => P.op[P.to[p]] \in {"else", "endif"}
       /\ P.op[p] = "endrepeat" \/ P.kind[p] = "var" => P.within[p] # 0
       /\ P.op[p] = "endrepeat" => P.to[P.within[p]] = p
       /\ P.within[p] # 0 => P.within[p] \in DOMAIN P.op /\ Contains(P.within[p], p)
       /\ \A q \in DOMAIN P.op : Contains(q, p) => q <= P.within[p]
       /\ \A q \in DOMAIN P.op :
            {P.op[q], P.op[p]} \subseteq {"repeat", "if", "else"} /\ q < p /\ p < P.to[q] => P.to[p] < P.to[q]

\* What others tell: the labels in arguments, and those whose words are data.
Outside == {"argument", "word"}

Errors == {"64K", "assert", "ensure", "mismatch", "no size"}

ASSUME ProgramSectionAssumption ==
  /\ Programs \subseteq ProgramType /\ \A P \in Programs : WellNested(P)
  /\ Bases \subseteq Nat /\ WordMax \in Nat /\ None \notin Nat /\ None \notin Errors

VARIABLES
  program,
  known,             \* which labels of other sections have values
  base,              \* resolvedBase, of each listing of the section
  sec, at,           \* where tryResolve is
  pos,               \* the instruction a pass is at, 0 when no pass runs
  address,           \* address, nextAddress or outSize of the pass
  start,             \* where the pass began
  mValue,            \* MacroRepeat::mValue
  cells,             \* Label::mFirstAddress and what follows: one address per iteration
  read, write,       \* mCurrentReadAddress, mCurrentWriteAddress: positions in cells
  saved,             \* mSavedReadAddresses
  mSize,             \* DEFS::mSize
  mCalculatedSize,   \* ProgramSection::mCalculatedSize
  size, labels, code,\* resolvedSize; labelsResolved; the base code was emitted for
  error              \* how linking failed, None if it did not

counterVars == <<read, write, saved>>
passVars == <<pos, address, start, mValue, cells, counterVars, mSize>>
resultVars == <<mCalculatedSize, size, labels, code>>
vars == <<program, known, base, sec, at, passVars, resultVars, error>>

-----------------------------------------------------------------------------
Op(p) == program.op[p]
Position == 1..Len(program.op)
Labels == {p \in Position : Op(p) = "label"}
\* The labels MacroRepeat reaches with saveReadCounter and the like: through MacroIf,
\* but not into a repeat of its own.
LabelsOf(r) == {l \in Labels : program.within[l] = r}

\* The section as the first file lists it, and its copy.
Original == 1
Section == {s \in {Original, 2} : s = 2 => program.twice}

\* Expressions name the repeats and labels of the original.
HasValue(p) == program.kind[p] = "ext" => "argument" \in known
ValueOf(p) ==
  IF program.kind[p] = "var" THEN mValue[Original][program.within[p]] ELSE program.arg[p]
Holds(p) == ValueOf(p) # 0

Chosen(p, blocks) == \A c \in program.under[p] : c[1] \in blocks => HasValue(c[1]) /\ Holds(c[1]) = c[2]
\* ConditionalLabelSymbol: a label in an #if counts while its condition holds.  The
\* condition ends at a #repeat: AssemblerContextRepeat has none.
Declared(l) == Chosen(l, {c \in Position : program.within[c] = program.within[l]})
HasAddressWritten(l) == Declared(l) /\ cells[Original][l][write[Original][l]] # None
HasAddress(l) == Declared(l) /\ cells[Original][l][read[Original][l]] # None

Emitting == at \in {"compress", "emit"}
Resolving == at \in {"labels1", "labels2"}
Here(ops) == error = None /\ pos \in Position /\ Op(pos) \in ops
\* Instruction::resolveLabel and ProgramSection::emitCode check the address.
InRange ==
  /\ Resolving => address <= WordMax
  /\ Emitting /\ program.outer[pos] = 0 => address <= WordMax

outsideVars == <<program, known, base>>
Throw(e) == error' = e /\ UNCHANGED <<outsideVars, sec, at, passVars, resultVars>>

-----------------------------------------------------------------------------
(* The start and the end of a pass.                                        *)

AllLabels(x) == [l \in Labels |-> x]
ResetReadCounters ==
  /\ read' = [read EXCEPT ![sec] = AllLabels(1)] /\ UNCHANGED write
  /\ saved' = [saved EXCEPT ![sec] = AllLabels(<<>>)]
ResetCounters ==
  /\ read' = [read EXCEPT ![sec] = AllLabels(1)] /\ write' = [write EXCEPT ![sec] = AllLabels(1)]
  /\ saved' = [saved EXCEPT ![sec] = AllLabels(<<>>)]

Begin(pass, from) ==
  /\ at' = pass /\ UNCHANGED sec
  /\ pos' = 1 /\ address' = from /\ start' = from
  /\ ResetCounters
  /\ UNCHANGED <<mValue, mSize>>

\* The loops of tryResolve, for this section and then for the copy in the next file,
\* after the constructors of both.
GoTo(step) ==
  /\ at' = step
  /\ sec' = IF step \in {"new", "try"} /\ program.twice THEN 3 - sec ELSE sec
NextFile == IF sec = Original /\ program.twice THEN "new" ELSE "try"

NoAddresses(s) == [l \in Labels |-> [i \in DOMAIN cells[s][l] |-> None]]
ForgetLabels == cells' = [cells EXCEPT ![sec] = NoAddresses(sec)]

\* A pass returned false.  The constructor goes on, tryResolve tries the size after the
\* labels.
FailPass ==
  \/ /\ at = "labels1"
     /\ ForgetLabels
     /\ Begin("size", 0)
     /\ UNCHANGED resultVars
  \/ /\ at # "labels1"
     /\ GoTo(CASE at = "first" -> NextFile [] at = "size" -> "again" [] at = "labels2" -> "pack"
               [] at = "compress" -> "place" [] at = "emit" -> "try")
     /\ pos' = 0
     /\ IF at = "labels2" THEN ForgetLabels ELSE UNCHANGED cells
     /\ UNCHANGED <<address, start, mValue, counterVars, mSize, resultVars>>

AtEnd == error = None /\ pos = Len(program.op) + 1
Length == address - start
AsCalculated == mCalculatedSize[sec] # None => Length = mCalculatedSize[sec]
AsResolved == at = "emit" /\ size[sec] # None => Length = size[sec]

EndPass(step) ==
  /\ GoTo(step) /\ pos' = 0
  /\ UNCHANGED <<address, start, mValue, cells, counterVars, mSize>>
  /\ UNCHANGED <<outsideVars, error>>

EndSize ==
  /\ AtEnd /\ at \in {"first", "size"}
  /\ mCalculatedSize' = [mCalculatedSize EXCEPT ![sec] = Length]
  /\ size' = [size EXCEPT ![sec] = Length]
  /\ UNCHANGED <<labels, code>>
  /\ EndPass(IF at = "first" THEN NextFile ELSE "again")

EndLabels ==
  /\ AtEnd /\ Resolving
  /\ labels' = [labels EXCEPT ![sec] = TRUE]
  /\ size' = IF at = "labels1" THEN [size EXCEPT ![sec] = Length] ELSE size
  /\ UNCHANGED <<mCalculatedSize, code>>
  /\ EndPass(IF at = "labels1" THEN "again" ELSE "pack")

\* (The size of compressed code is not what it is before.)
EndEmit ==
  /\ AtEnd /\ Emitting /\ address <= WordMax + 1 /\ AsCalculated /\ AsResolved
  /\ code' = [code EXCEPT ![sec] = start] /\ size' = [size EXCEPT ![sec] = Length]
  /\ UNCHANGED <<mCalculatedSize, labels>>
  /\ EndPass(IF at = "emit" THEN "try" ELSE "place")

RejectEmit ==
  /\ AtEnd /\ Emitting
  /\ \/ ~(address <= WordMax + 1 /\ AsCalculated) /\ FailPass /\ UNCHANGED <<outsideVars, error>>
     \/ address <= WordMax + 1 /\ AsCalculated /\ ~AsResolved /\ Throw("mismatch")

-----------------------------------------------------------------------------
(* The instructions.                                                       *)

StepOn == pos' = pos + 1
Stay == UNCHANGED <<outsideVars, sec, at, resultVars>>
OutOfRange ==
  /\ Here(Instruction) /\ ~InRange
  /\ IF Resolving THEN Throw("64K") ELSE FailPass /\ UNCHANGED <<outsideVars, error>>

SetsOriginal(l) == Original
\* A copy has labels of its own.
SetsOwn(l) == sec

AtLabel ==
  /\ Here({"label"}) /\ InRange
  /\ LET s == SetsOwn(pos) IN
     \/ /\ Resolving /\ cells[s][pos][write[s][pos]] # None
        /\ Throw("assert")
     \/ /\ Resolving /\ cells[s][pos][write[s][pos]] = None
        /\ cells' = [cells EXCEPT ![s][pos][write[s][pos]] = address]
        /\ StepOn /\ Stay
        /\ UNCHANGED <<address, start, mValue, counterVars, mSize, error>>
     \/ /\ ~Resolving
        /\ StepOn /\ Stay
        /\ UNCHANGED <<address, start, mValue, cells, counterVars, mSize, error>>

Bytes(p) == IF Op(p) = "data" THEN 1 ELSE 2
Emittable(p) == (Op(p) = "use" => HasAddress(program.label[p])) /\ (Op(p) = "ext" => "word" \in known)

AtData ==
  /\ Here({"data", "use", "ext", "here"}) /\ InRange
  /\ IF Emitting /\ ~Emittable(pos) THEN FailPass
     ELSE /\ StepOn /\ address' = address + Bytes(pos)
          /\ UNCHANGED <<sec, at, start, mValue, cells, counterVars, mSize, resultVars>>
  /\ UNCHANGED <<outsideVars, error>>

AtDefs ==
  /\ Here({"defs"}) /\ InRange
  /\ \/ Emitting /\ mSize[sec][pos] = None /\ Throw("no size")
     \/ /\ IF Emitting
             THEN /\ mSize[sec][pos] # None
                  /\ address' = address + mSize[sec][pos] /\ UNCHANGED mSize
             ELSE /\ HasValue(pos)
                  /\ address' = address + ValueOf(pos)
                  /\ mSize' = [mSize EXCEPT ![sec][pos] = ValueOf(pos)]
        /\ StepOn /\ Stay
        /\ UNCHANGED <<start, mValue, cells, counterVars, error>>
     \/ /\ ~Emitting /\ ~HasValue(pos)
        /\ FailPass
        /\ UNCHANGED <<outsideVars, error>>

\* #ensure: takes no room, and waits for its value with the code only.
AtEnsure ==
  /\ Here({"ensure"}) /\ InRange
  /\ \/ Emitting /\ HasValue(pos) /\ ~Holds(pos) /\ Throw("ensure")
     \/ Emitting /\ ~HasValue(pos) /\ FailPass /\ UNCHANGED <<outsideVars, error>>
     \/ /\ Emitting => HasValue(pos) /\ Holds(pos)
        /\ StepOn /\ Stay
        /\ UNCHANGED <<address, start, mValue, cells, counterVars, mSize, error>>

\* What happens to the labels of a repeat happens to those of this section.
InRepeat(f, new) == [f EXCEPT ![sec] = [l \in Labels |-> IF l \in DOMAIN new THEN new[l] ELSE @[l]]]

\* #repeat: the labels in it save where they write, and read from there.
SaveReadOnly(r) ==
  /\ saved' = InRepeat(saved, [l \in LabelsOf(r) |-> <<read[sec][l]>> \o saved[sec][l]])
  /\ UNCHANGED <<read, write>>
SaveReadCounters(r) ==
  /\ read' = InRepeat(read, [l \in LabelsOf(r) |-> write[sec][l]])
  /\ saved' = InRepeat(saved, [l \in LabelsOf(r) |-> <<write[sec][l]>> \o saved[sec][l]])
  /\ UNCHANGED write

RestartStale(r) == UNCHANGED mValue
Restart(r) == mValue' = [mValue EXCEPT ![sec][r] = 0]

AtRepeat ==
  /\ Here({"repeat"}) /\ InRange
  /\ IF ~HasValue(pos) THEN FailPass
     ELSE /\ IF ValueOf(pos) = 0
               THEN pos' = program.to[pos] + 1 /\ UNCHANGED <<mValue, counterVars>>
               ELSE StepOn /\ Restart(pos) /\ SaveReadCounters(pos)
          /\ UNCHANGED <<sec, at, address, start, cells, mSize, resultVars>>
  /\ UNCHANGED <<outsideVars, error>>

\* The labels move to their next addresses, which are new the first time.
AtLast(l) == write[sec][l] = Len(cells[sec][l])
AdvanceRead(r) == read' = InRepeat(read, [l \in LabelsOf(r) |-> read[sec][l] + 1])
AdvanceCells(r) ==
  cells' = InRepeat(cells, [l \in LabelsOf(r) |-> IF AtLast(l) THEN Append(cells[sec][l], None) ELSE cells[sec][l]])
AdvanceWrite(r) == write' = InRepeat(write, [l \in LabelsOf(r) |-> write[sec][l] + 1])
CanAdvance(r) == \A l \in LabelsOf(r) : read[sec][l] < Len(cells[sec][l]) \/ AtLast(l)
CanRestore(r) == \A l \in LabelsOf(r) : saved[sec][l] # <<>>

RestoreReadCounters(r) ==
  /\ read' = InRepeat(read, [l \in LabelsOf(r) |-> Head(saved[sec][l])])
  /\ saved' = InRepeat(saved, [l \in LabelsOf(r) |-> Tail(saved[sec][l])])

AtEndRepeat ==
  /\ Here({"endrepeat"})
  /\ LET r == program.within[pos] IN
     \/ ~(CanAdvance(r) /\ CanRestore(r)) /\ Throw("assert")
     \/ /\ CanAdvance(r) /\ CanRestore(r)
        /\ AdvanceCells(r) /\ AdvanceWrite(r)
        /\ IF mValue[sec][r] + 1 < ValueOf(r)
             THEN /\ mValue' = [mValue EXCEPT ![sec][r] = @ + 1]
                  /\ pos' = r + 1
                  /\ AdvanceRead(r) /\ UNCHANGED saved
             ELSE /\ mValue' = [mValue EXCEPT ![sec][r] = 0]
                  /\ StepOn
                  /\ RestoreReadCounters(r)
        /\ Stay
        /\ UNCHANGED <<address, start, mSize, error>>

AtIf ==
  /\ Here({"if"}) /\ InRange
  /\ IF ~HasValue(pos) THEN FailPass
     ELSE /\ IF Holds(pos) THEN StepOn ELSE pos' = program.to[pos] + 1
          /\ UNCHANGED <<sec, at, address, start, mValue, cells, counterVars, mSize, resultVars>>
  /\ UNCHANGED <<outsideVars, error>>

AtElse ==
  /\ Here({"else", "endif"})
  /\ pos' = IF Op(pos) = "else" THEN program.to[pos] + 1 ELSE pos + 1
  /\ Stay
  /\ UNCHANGED <<address, start, mValue, cells, counterVars, mSize, error>>

-----------------------------------------------------------------------------
(* LinkerFile, for this section and its copy: the constructor, tryResolve. *)

Idle(step) == error = None /\ pos = 0 /\ at = step
Skip(next) == GoTo(next) /\ UNCHANGED passVars

\* The first size pass: no section has a base or an address then, of any file.
Construct ==
  /\ Idle("new")
  /\ IF program.packed THEN Skip(NextFile) ELSE Begin("first", 0) /\ UNCHANGED cells
  /\ UNCHANGED <<outsideVars, resultVars, error>>

Try ==
  /\ Idle("try")
  /\ \/ /\ ~program.packed /\ size[sec] = None
        /\ IF ~labels[sec] /\ base[sec] # None THEN Begin("labels1", base[sec]) ELSE Begin("size", 0)
        /\ UNCHANGED cells
     \/ (program.packed \/ size[sec] # None) /\ Skip("again")
  /\ UNCHANGED <<outsideVars, resultVars, error>>

TryLabels ==
  /\ Idle("again")
  /\ IF ~labels[sec] /\ base[sec] # None
       THEN Begin("labels2", base[sec]) /\ UNCHANGED cells
       ELSE Skip("pack")
  /\ UNCHANGED <<outsideVars, resultVars, error>>

\* What canEmitCodeWithoutBaseAddress looks at: the branches that hold now.
Inspected(p) ==
  /\ Chosen(p, Position)
  /\ \A r \in Position : Op(r) = "repeat" /\ r < p /\ p < program.to[r] => ValueOf(r) # 0
CanEmitWithoutBase ==
  \A p \in Position : Inspected(p) =>
    /\ Op(p) # "here"
    /\ Op(p) \in {"use", "ext"} => Emittable(p)
    /\ Op(p) \in {"repeat", "if"} => HasValue(p)
    /\ Op(p) = "defs" => mSize[sec][p] # None \/ HasValue(p)

NeedsPackingAgain == program.packed
NeedsPacking == program.packed /\ size[sec] = None

Pack ==
  /\ Idle("pack")
  /\ IF NeedsPacking /\ (base[sec] # None \/ CanEmitWithoutBase)
       THEN Begin("compress", IF base[sec] # None THEN base[sec] ELSE 0) /\ UNCHANGED cells
       ELSE Skip("place")
  /\ UNCHANGED <<outsideVars, resultVars, error>>

Emit ==
  /\ Idle("place")
  /\ IF base[sec] # None /\ labels[sec] /\ code[sec] = None /\ ~program.packed
       THEN Begin("emit", base[sec]) /\ UNCHANGED cells
       ELSE Skip("try")
  /\ UNCHANGED <<outsideVars, resultVars, error>>

\* The constructor of a file gives bases when it has tried all sizes.  Other sections
\* get sizes, labels and places between the loops of tryResolve.
BetweenLoops == pos = 0 /\ at \in {"try", "pack", "place"}
Constructed(s) == at = "new" => s < sec
GetBase ==
  /\ BetweenLoops \/ Idle("new")
  /\ \E s \in Section, b \in Bases :
       Constructed(s) /\ base[s] = None /\ base' = [base EXCEPT ![s] = b]
  /\ UNCHANGED <<program, known, sec, at, passVars, resultVars, error>>

GetKnown ==
  /\ BetweenLoops
  /\ \E fact \in Outside \ known : known' = known \cup {fact}
  /\ UNCHANGED <<program, base, sec, at, passVars, resultVars, error>>

-----------------------------------------------------------------------------
Each(x) == [s \in Section |-> x]

Init ==
  /\ program \in Programs
  /\ base = Each(None) /\ known = {}
  /\ sec = Original /\ at = "new" /\ pos = 0 /\ address = 0 /\ start = 0
  /\ mValue = Each([p \in Position |-> 0]) /\ mSize = Each([p \in Position |-> None])
  /\ cells = Each(AllLabels(<<None>>))
  /\ read = Each(AllLabels(1)) /\ write = Each(AllLabels(1)) /\ saved = Each(AllLabels(<<>>))
  /\ mCalculatedSize = Each(None) /\ size = Each(None) /\ labels = Each(FALSE) /\ code = Each(None)
  /\ error = None

Pass ==
  \/ AtLabel \/ AtData \/ AtDefs \/ AtEnsure \/ AtRepeat \/ AtEndRepeat \/ AtIf \/ AtElse \/ OutOfRange
  \/ EndSize \/ EndLabels \/ EndEmit \/ RejectEmit
TryResolve == Construct \/ Try \/ TryLabels \/ Pack \/ Emit
Finished == error # None /\ UNCHANGED vars
Next == Pass \/ TryResolve \/ GetBase \/ GetKnown \/ Finished

\* The linker, one thread, goes on.  Nothing is assumed of the other sections.
Spec == Init /\ [][Next]_vars /\ WF_vars(Pass \/ TryResolve)
-----------------------------------------------------------------------------
Outermost(l) == program.within[l] # 0 => program.within[program.within[l]] = 0

\* Code in a #repeat sees the labels of its own iteration, in every pass, in nested
\* repeats, after passes that stopped in the middle; once the code and the labels are
\* there, code of other sections sees those of the first one (RepeatTests.cpp:779).
\* A copy that is linked in between moves none of them.
OwnIteration ==
  \A l \in Labels :
    LET r == program.within[l] IN
    /\ error = None /\ sec = Original /\ r # 0 /\ pos > r /\ pos <= program.to[r] =>
         read[Original][l] = write[Original][l]
    /\ code[Original] # None /\ labels[Original] /\ (pos = 0 \/ sec # Original) /\ Outermost(l) =>
         read[Original][l] = 1

\* No DEFS is as long as the variable of a #repeat says.  (It would keep the length of
\* the iteration that was sized last: DataDirectives.cpp:203.)
FixedSizes == \A P \in Programs : \A p \in DOMAIN P.op : P.op[p] = "defs" => P.kind[p] # "var"

\* A copy whose #repeats mention no variable of theirs is like the original.
Faithful(s) == s = Original \/ \A p \in Position : program.kind[p] # "var"

\* What the second pass wrote down as the address of a label is the address the third
\* pass reaches it at, iteration by iteration; on the way the assertions of Label
\* (Label.cpp:46, 188, 228) hold: an address is set once per labels pass, no position
\* runs off the list, the stack is not popped empty.  What others may read of a label
\* is never an address from a pass that failed.
LabelsAgree ==
  /\ Emitting /\ labels[sec] /\ Faithful(sec) /\ Here({"label"}) => cells[sec][pos][write[sec][pos]] = address
  /\ error # "assert"
  /\ \A s \in Section : ~labels[s] /\ ~(Resolving /\ sec = s) /\ error = None => cells[s] = NoAddresses(s)

\* The code is as long as the first pass said (ProgramSection.cpp:94, Linker.cpp:421).
SizesAgree == AtEnd /\ Emitting /\ Faithful(sec) => AsCalculated /\ AsResolved

\* ProgramSection.cpp:94, Linker.cpp:421: another size is an internal compiler error, of
\* a copy too.  (Once the original has its code no pass is left that could change it.)
CopySizesAgree ==
  AtEnd /\ Emitting /\ sec # Original /\ code[Original] # None => AsCalculated /\ AsResolved

\* Passes that fail do no harm: once a listing of the section has a base, the original
\* too, and the other labels are known, a retry gets to the end of the code, or an
\* address is too large.
Emitted ==
  \A s \in {Original, 2} :
    <>[](s \in Section /\ Faithful(s) /\ known = Outside /\ base[Original] # None /\ base[s] # None) =>
      <>((s \in Section /\ code[s] # None) \/ error # None \/ address > WordMax)

\* What the linker counts on: size, addresses and code of a listing are decided from
\* what is decided already and never revised, whichever passes fail in between.
Written(s) == [l \in Labels |-> {<<i, cells[s][l][i]>> : i \in {j \in DOMAIN cells[s][l] : cells[s][l][j] # None}}]
Promise == INSTANCE SectionPromise WITH
  Listing <- {Original, 2}, packed <- program.packed,
  base <- [s \in {Original, 2} |-> IF s \in Section THEN base[s] ELSE None],
  size <- [s \in {Original, 2} |-> IF s \in Section THEN size[s] ELSE None],
  address <- [s \in {Original, 2} |-> IF s \in Section /\ labels[s] THEN Written(s) ELSE None],
  code <- [s \in {Original, 2} |-> IF s \in Section THEN code[s] ELSE None]
KeepsPromise == Promise!Spec
=============================================================================
