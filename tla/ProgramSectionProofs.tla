------------------------ MODULE ProgramSectionProofs ------------------------
(***************************************************************************)
(* Proofs about ProgramSection, for every program, however its blocks are  *)
(* nested, and any order in which bases and other labels become known.     *)
(***************************************************************************)
EXTENDS ProgramSection, SequenceTheorems, TLAPS

-----------------------------------------------------------------------------
(* Programs.                                                               *)

\* Instruction p is in the repeat r, or closes it.
Inside(r, p) == r \in Position /\ Op(r) = "repeat" /\ r < p /\ p <= program.to[r]

LEMMA ProgramFacts ==
  ASSUME program \in Programs
  PROVE  /\ Len(program.op) \in Nat /\ Position = 1..Len(program.op) /\ Position = DOMAIN program.op
         /\ program.packed \in BOOLEAN /\ program.twice \in BOOLEAN
         /\ \A p \in Position :
              /\ Op(p) \in Instruction \cup Closer /\ program.kind[p] \in {"number", "var", "ext"}
              /\ program.arg[p] \in Nat /\ program.within[p] \in Nat /\ program.to[p] \in Nat
<1>1. program \in ProgramType /\ WellNested(program)
  BY ProgramSectionAssumption
<1>2. \A part \in {"kind", "arg", "label", "within", "outer", "to"} : DOMAIN program[part] = DOMAIN program.op
  BY <1>1 DEF WellNested
<1>3. DOMAIN program.kind = DOMAIN program.op /\ DOMAIN program.arg = DOMAIN program.op
      /\ DOMAIN program.within = DOMAIN program.op /\ DOMAIN program.to = DOMAIN program.op
  BY <1>2
<1>4. /\ program.op \in Seq(Instruction \cup Closer) /\ program.kind \in Seq({"number", "var", "ext"})
      /\ program.arg \in Seq(Nat) /\ program.within \in Seq(Nat) /\ program.to \in Seq(Nat)
      /\ program.packed \in BOOLEAN /\ program.twice \in BOOLEAN
  BY <1>1 DEF ProgramType
<1>5. Len(program.op) \in Nat /\ DOMAIN program.op = 1..Len(program.op)
  BY <1>4, LenProperties
<1>6. \A p \in Position : /\ program.op[p] \in Instruction \cup Closer /\ program.kind[p] \in {"number", "var", "ext"}
                          /\ program.arg[p] \in Nat /\ program.within[p] \in Nat /\ program.to[p] \in Nat
  <2>1. \A S : \A seq \in Seq(S) : \A p \in DOMAIN seq : seq[p] \in S
    BY ElementOfSeq, LenProperties
  <2>2. Position = DOMAIN program.op
    BY <1>5 DEF Position
  <2> QED BY <1>3, <1>4, <2>1, <2>2
<1> QED BY <1>4, <1>5, <1>6 DEF Position, Op

\* Where blocks end.
LEMMA BlockFacts ==
  ASSUME program \in Programs, NEW p \in Position
  PROVE  /\ Op(p) \in {"repeat", "if", "else"} => program.to[p] \in Position /\ p < program.to[p]
         /\ Op(p) = "repeat" => Op(program.to[p]) = "endrepeat" /\ program.within[program.to[p]] = p
         /\ Op(p) \in {"if", "else"} => Op(program.to[p]) \in {"else", "endif"}
         /\ Op(p) = "endrepeat" => Inside(program.within[p], p) /\ program.to[program.within[p]] = p
         /\ program.kind[p] = "var" => Inside(program.within[p], p)
         /\ program.within[p] # 0 => Inside(program.within[p], p)
         /\ \A q : Inside(q, p) => q <= program.within[p]
         /\ \A q \in Position : /\ Op(q) \in {"repeat", "if", "else"} /\ Op(p) \in {"repeat", "if", "else"}
                                /\ q < p /\ p < program.to[q]
                                => program.to[p] < program.to[q]
BY ProgramFacts, ProgramSectionAssumption DEF WellNested, Op, Inside

\* Which repeats are around an instruction and the one that comes after it.
LEMMA AroundNext ==
  ASSUME program \in Programs, NEW p \in Position, NEW q
  PROVE  /\ Op(p) \notin {"repeat", "endrepeat"} => (Inside(q, p + 1) <=> Inside(q, p))
         /\ Op(p) = "repeat" => (Inside(q, p + 1) <=> Inside(q, p) \/ q = p)
         /\ Op(p) = "endrepeat" => (Inside(q, p + 1) <=> Inside(q, p) /\ q # program.within[p])
<1> USE ProgramFacts
<1>1. CASE Inside(q, p + 1) \/ Inside(q, p)
  <2>1. q \in Position /\ Op(q) = "repeat" /\ program.to[q] \in Position /\ Op(program.to[q]) = "endrepeat"
        /\ program.within[program.to[q]] = q /\ q < program.to[q]
    BY <1>1, BlockFacts DEF Inside
  <2>2. Op(p) = "endrepeat" => program.to[program.within[p]] = p
    BY BlockFacts
  <2>3. Op(p) = "endrepeat" /\ Inside(q, p) /\ q # program.within[p] => program.to[q] # p
    BY <2>1
  <2> QED BY <2>1, <2>2, <2>3 DEF Inside
<1>2. CASE ~(Inside(q, p + 1) \/ Inside(q, p))
  <2>1. Op(p) = "repeat" => p < program.to[p] /\ program.to[p] \in Position
    BY BlockFacts
  <2> QED BY <1>2, <2>1 DEF Inside
<1> QED BY <1>1, <1>2

\* The same where a branch or a repeat is left out, and where a repeat starts again.
LEMMA AroundJump ==
  ASSUME program \in Programs, NEW p \in Position, NEW q
  PROVE  /\ Op(p) \in {"repeat", "if", "else"} => (Inside(q, program.to[p] + 1) <=> Inside(q, p))
         /\ Op(p) = "endrepeat" => (Inside(q, program.within[p] + 1) <=> Inside(q, p))
<1> USE ProgramFacts
<1>1. ASSUME Op(p) \in {"repeat", "if", "else"}
      PROVE  Inside(q, program.to[p] + 1) <=> Inside(q, p)
  <2>0. program.to[p] \in Position /\ p < program.to[p] /\ Op(program.to[p]) \in {"endrepeat", "else", "endif"}
    BY <1>1, BlockFacts
  <2>1. ASSUME Inside(q, p)
        PROVE  Inside(q, program.to[p] + 1)
    <3>1. q \in Position /\ Op(q) = "repeat" /\ q < p /\ Op(program.to[q]) = "endrepeat"
      BY <2>1, BlockFacts DEF Inside
    <3>2. p < program.to[q]
      BY <2>1, <3>1, <1>1 DEF Inside
    <3>3. program.to[p] < program.to[q]
      BY <1>1, <3>1, <3>2, BlockFacts
    <3> QED BY <2>0, <3>1, <3>3 DEF Inside
  <2>2. ASSUME Inside(q, program.to[p] + 1)
        PROVE  Inside(q, p)
    <3>1. q \in Position /\ Op(q) = "repeat" /\ q <= program.to[p] /\ program.to[p] < program.to[q]
      BY <2>0, <2>2 DEF Inside
    <3>2. q < program.to[p] /\ q # p
      BY <2>0, <3>1
    <3>3. ~(p < q)
      BY <1>1, <2>0, <3>1, <3>2, BlockFacts
    <3> QED BY <2>0, <3>1, <3>2, <3>3 DEF Inside
  <2> QED BY <2>1, <2>2
<1>2. ASSUME Op(p) = "endrepeat"
      PROVE  Inside(q, program.within[p] + 1) <=> Inside(q, p)
  <2> DEFINE r == program.within[p]
  <2>0. r \in Position /\ Op(r) = "repeat" /\ r < p /\ program.to[r] = p
    BY <1>2, BlockFacts DEF Inside
  <2>1. ASSUME Inside(q, p)
        PROVE  Inside(q, r + 1)
    <3>1. q \in Position /\ Op(q) = "repeat" /\ q < p /\ p <= program.to[q]
      BY <2>1 DEF Inside
    <3>2. ~(r < q)
      BY <2>0, <3>1, BlockFacts
    <3> QED BY <2>0, <3>1, <3>2 DEF Inside
  <2>2. ASSUME Inside(q, r + 1)
        PROVE  Inside(q, p)
    <3>1. q \in Position /\ Op(q) = "repeat" /\ q <= r /\ r < program.to[q]
      BY <2>0, <2>2 DEF Inside
    <3>2. q = r \/ p < program.to[q]
      BY <2>0, <3>1, BlockFacts
    <3> QED BY <2>0, <3>1, <3>2 DEF Inside
  <2> QED BY <2>1, <2>2
<1> QED BY <1>1, <1>2

-----------------------------------------------------------------------------
(* The type invariant.                                                     *)

Passes == {"first", "size", "labels1", "labels2", "compress", "emit"}
Loops == {"new", "try", "again", "pack", "place"}
Opt(S) == S \cup {None}

TypeOK ==
  /\ program \in Programs /\ known \in SUBSET Outside /\ base \in [Section -> Opt(Bases)]
  /\ sec \in Section /\ at \in Passes \cup Loops /\ (pos # 0 <=> at \in Passes)
  /\ pos \in 0..(Len(program.op) + 1) /\ address \in Nat /\ start \in Nat /\ start <= address
  /\ mValue \in [Section -> [Position -> Nat]] /\ mSize \in [Section -> [Position -> Opt(Nat)]]
  /\ cells \in [Section -> [Labels -> Seq(Opt(Nat))]]
  /\ read \in [Section -> [Labels -> Nat]] /\ write \in [Section -> [Labels -> Nat]]
  /\ saved \in [Section -> [Labels -> Seq(Nat)]]
  /\ mCalculatedSize \in [Section -> Opt(Nat)] /\ size \in [Section -> Opt(Nat)]
  /\ labels \in [Section -> BOOLEAN] /\ code \in [Section -> Opt(Nat)]

-----------------------------------------------------------------------------
(* The kinds of steps.                                                     *)

\* Linking failed, or nothing happens.
Still == UNCHANGED <<outsideVars, sec, at, passVars, resultVars>>

\* Other sections get their bases and labels.
Learning == (BetweenLoops \/ Idle("new")) /\ (GetBase \/ GetKnown)

Starts(pass, from) == Begin(pass, from) /\ error = None /\ UNCHANGED <<outsideVars, resultVars, error>>
Starting ==
  \/ /\ pos = 0 /\ UNCHANGED cells
     /\ \/ at = "new" /\ ~program.packed /\ Starts("first", 0)
        \/ /\ at = "try" /\ ~program.packed /\ size[sec] = None
           /\ \/ ~labels[sec] /\ base[sec] # None /\ Starts("labels1", base[sec])
              \/ Starts("size", 0)
        \/ at = "again" /\ ~labels[sec] /\ base[sec] # None /\ Starts("labels2", base[sec])
        \/ at = "pack" /\ NeedsPacking /\ Starts("compress", IF base[sec] # None THEN base[sec] ELSE 0)
        \/ /\ at = "place" /\ base[sec] # None /\ labels[sec] /\ code[sec] = None /\ ~program.packed
           /\ Starts("emit", base[sec])
  \/ at = "labels1" /\ pos # 0 /\ ForgetLabels /\ Starts("size", 0)

Skipping ==
  /\ pos = 0 /\ error = None /\ UNCHANGED <<outsideVars, passVars, resultVars, error>>
  /\ \/ at = "new" /\ program.packed /\ GoTo(NextFile)
     \/ at = "try" /\ (program.packed \/ size[sec] # None) /\ GoTo("again")
     \/ at = "again" /\ GoTo("pack")
     \/ at = "pack" /\ GoTo("place")
     \/ at = "place" /\ GoTo("try")

Stuck(p) == p \in Position /\ Op(p) \in {"defs", "repeat", "if"} /\ ~HasValue(p)

Failing ==
  /\ pos # 0 /\ pos' = 0 /\ error = None
  /\ \/ at = "first" /\ GoTo(NextFile) /\ UNCHANGED cells
     \/ at = "size" /\ Stuck(pos) /\ GoTo("again") /\ UNCHANGED cells
     \/ at = "labels2" /\ ForgetLabels /\ GoTo("pack")
     \/ at = "compress" /\ UNCHANGED cells /\ GoTo("place")
     \/ at = "emit" /\ UNCHANGED cells /\ GoTo("try")
  /\ UNCHANGED <<outsideVars, address, start, mValue, counterVars, mSize, resultVars, error>>

Ending == EndSize \/ EndLabels \/ EndEmit

\* What an instruction takes in this pass.
Room ==
  IF Op(pos) \in {"data", "use", "ext", "here"} THEN Bytes(pos)
  ELSE IF Op(pos) # "defs" THEN 0
  ELSE IF Emitting THEN mSize[sec][pos] ELSE ValueOf(pos)

Writing == Op(pos) = "label" /\ Resolving
PlainMove ==
  /\ Op(pos) \notin {"repeat", "endrepeat"}
  /\ pos' = IF Op(pos) = "else" \/ (Op(pos) = "if" /\ ~Holds(pos)) THEN program.to[pos] + 1 ELSE pos + 1
  /\ Op(pos) \in {"if", "defs"} /\ ~Emitting => HasValue(pos)
  /\ Op(pos) = "defs" /\ Emitting => mSize[sec][pos] # None
  /\ address' = address + Room
  /\ Writing => cells[sec][pos][write[sec][pos]] = None
  /\ cells' = IF Writing THEN [cells EXCEPT ![sec][pos][write[sec][pos]] = address] ELSE cells
  /\ mSize' = IF Op(pos) = "defs" /\ ~Emitting THEN [mSize EXCEPT ![sec][pos] = ValueOf(pos)] ELSE mSize
  /\ UNCHANGED <<mValue, counterVars>>
SkipRepeat ==
  /\ Op(pos) = "repeat" /\ HasValue(pos) /\ ValueOf(pos) = 0 /\ pos' = program.to[pos] + 1
  /\ UNCHANGED <<address, mValue, cells, counterVars, mSize>>
EnterRepeat ==
  /\ Op(pos) = "repeat" /\ HasValue(pos) /\ ValueOf(pos) # 0 /\ StepOn
  /\ Restart(pos) /\ SaveReadCounters(pos)
  /\ UNCHANGED <<address, cells, mSize>>
NextIteration ==
  /\ Op(pos) = "endrepeat" /\ CanAdvance(program.within[pos]) /\ CanRestore(program.within[pos])
  /\ AdvanceCells(program.within[pos]) /\ AdvanceWrite(program.within[pos])
  /\ mValue[sec][program.within[pos]] + 1 < ValueOf(program.within[pos])
  /\ mValue' = [mValue EXCEPT ![sec][program.within[pos]] = @ + 1]
  /\ pos' = program.within[pos] + 1
  /\ AdvanceRead(program.within[pos])
  /\ UNCHANGED <<address, saved, mSize>>
LeaveRepeat ==
  /\ Op(pos) = "endrepeat" /\ CanAdvance(program.within[pos]) /\ CanRestore(program.within[pos])
  /\ AdvanceCells(program.within[pos]) /\ AdvanceWrite(program.within[pos])
  /\ ~(mValue[sec][program.within[pos]] + 1 < ValueOf(program.within[pos]))
  /\ mValue' = [mValue EXCEPT ![sec][program.within[pos]] = 0]
  /\ StepOn
  /\ RestoreReadCounters(program.within[pos])
  /\ UNCHANGED <<address, mSize>>

Moving ==
  /\ pos \in Position /\ error = None /\ UNCHANGED <<outsideVars, sec, at, start, resultVars, error>>
  /\ PlainMove \/ SkipRepeat \/ EnterRepeat \/ NextIteration \/ LeaveRepeat

LEMMA FailCases ==
  ASSUME TypeOK, error = None, FailPass, UNCHANGED <<outsideVars, error>>, pos # 0, at = "size" => Stuck(pos)
  PROVE  Starting \/ Failing
<1>1. CASE at = "labels1"
  BY <1>1 DEF FailPass, Starting, Starts
<1>2. CASE at # "labels1"
  <2>1. at \in {"first", "size", "labels2", "compress", "emit"}
    BY <1>2 DEF TypeOK, Passes
  <2> QED BY <1>2, <2>1 DEF FailPass, Failing
<1> QED BY <1>1, <1>2

LEMMA LoopCases ==
  ASSUME TypeOK, TryResolve
  PROVE  Starting \/ Skipping
<1>0. CASE Construct
  BY <1>0 DEF Construct, Idle, Skip, Starting, Starts, Skipping
<1>1. CASE Try
  BY <1>1 DEF Try, Idle, Skip, Starting, Starts, Skipping
<1>2. CASE TryLabels
  BY <1>2 DEF TryLabels, Idle, Skip, Starting, Starts, Skipping
<1>3. CASE Pack
  BY <1>3 DEF Pack, Idle, Skip, Starting, Starts, Skipping
<1>4. CASE Emit
  BY <1>4 DEF Emit, Idle, Skip, Starting, Starts, Skipping
<1> QED BY <1>0, <1>1, <1>2, <1>3, <1>4 DEF TryResolve

LEMMA MoveCases ==
  ASSUME TypeOK, Pass
  PROVE  Starting \/ Failing \/ Ending \/ Moving \/ Still
<1>0. 0 \notin Position
  BY ProgramFacts DEF TypeOK
<1>1. CASE AtLabel
  <2>1. address' = address + 0 \/ Throw("assert")
    BY <1>1 DEF AtLabel, TypeOK
  <2> QED BY <1>1, <2>1 DEF AtLabel, Here, StepOn, Stay, Moving, PlainMove, Still, Throw, SetsOwn, Writing, Room
<1>2. CASE AtData
  <2>1. pos # 0 /\ error = None /\ Op(pos) \in {"data", "use", "ext", "here"} /\ pos \in Position
    BY <1>0, <1>2, ProgramFacts DEF AtData, Here, TypeOK
  <2>2. CASE Emitting /\ ~Emittable(pos)
    <3>1. at # "size" /\ FailPass /\ UNCHANGED <<outsideVars, error>>
      BY <1>2, <2>2 DEF AtData, Emitting
    <3> QED BY <2>1, <3>1, FailCases
  <2>3. CASE ~(Emitting /\ ~Emittable(pos))
    BY <1>2, <2>1, <2>3 DEF AtData, Moving, PlainMove, StepOn, Writing, Room, resultVars, outsideVars
  <2> QED BY <2>2, <2>3
<1>3. CASE AtDefs
  <2>1. pos # 0 /\ error = None /\ Op(pos) = "defs" /\ pos \in Position
    <3>1. Here({"defs"})
      BY <1>3 DEF AtDefs
    <3> QED BY <1>0, <3>1 DEF Here
  <2>2. CASE ~Emitting /\ ~HasValue(pos) /\ FailPass /\ UNCHANGED <<outsideVars, error>>
    BY <2>1, <2>2, FailCases DEF Stuck
  <2>3. CASE Throw("no size")
    BY <2>3 DEF Throw, Still
  <2>4. CASE Emitting /\ mSize[sec][pos] # None /\ address' = address + mSize[sec][pos] /\ UNCHANGED mSize
             /\ StepOn /\ Stay /\ UNCHANGED <<start, mValue, cells, counterVars, error>>
    BY <2>1, <2>4 DEF Moving, PlainMove, StepOn, Stay, Writing, Room
  <2>5. CASE ~Emitting /\ HasValue(pos) /\ address' = address + ValueOf(pos)
             /\ mSize' = [mSize EXCEPT ![sec][pos] = ValueOf(pos)]
             /\ StepOn /\ Stay /\ UNCHANGED <<start, mValue, cells, counterVars, error>>
    BY <2>1, <2>5 DEF Moving, PlainMove, StepOn, Stay, Writing, Room
  <2> QED BY <1>3, <2>2, <2>3, <2>4, <2>5 DEF AtDefs
<1>4. CASE AtEnsure
  <2>1. pos # 0 /\ error = None /\ Op(pos) = "ensure" /\ pos \in Position
    BY <1>0, <1>4, ProgramFacts DEF AtEnsure, Here, TypeOK
  <2>2. CASE Emitting /\ FailPass /\ UNCHANGED <<outsideVars, error>>
    BY <2>1, <2>2, FailCases DEF Emitting
  <2>3. CASE Throw("ensure")
    BY <2>3 DEF Throw, Still
  <2>4. CASE StepOn /\ Stay /\ UNCHANGED <<address, start, mValue, cells, counterVars, mSize, error>>
    <3>1. address' = address + 0
      BY <2>4 DEF TypeOK
    <3> QED BY <2>1, <2>4, <3>1 DEF Moving, PlainMove, StepOn, Stay, Writing, Room
  <2> QED BY <1>4, <2>2, <2>3, <2>4 DEF AtEnsure
<1>5. CASE AtRepeat
  <2>1. pos # 0 /\ error = None /\ Op(pos) = "repeat" /\ pos \in Position
    BY <1>0, <1>5, ProgramFacts DEF AtRepeat, Here, TypeOK
  <2>2. CASE ~HasValue(pos)
    BY <1>5, <2>1, <2>2, FailCases DEF AtRepeat, Stuck
  <2>3. CASE HasValue(pos) /\ ValueOf(pos) = 0
    BY <1>5, <2>1, <2>3 DEF AtRepeat, Moving, SkipRepeat, resultVars, outsideVars
  <2>4. CASE HasValue(pos) /\ ValueOf(pos) # 0
    BY <1>5, <2>1, <2>4 DEF AtRepeat, Moving, EnterRepeat, resultVars, outsideVars
  <2> QED BY <2>2, <2>3, <2>4
<1>6. CASE AtEndRepeat
  <2>1. pos # 0 /\ error = None /\ Op(pos) = "endrepeat" /\ pos \in Position
    BY <1>0, <1>6, ProgramFacts DEF AtEndRepeat, Here, TypeOK
  <2>2. CASE Throw("assert")
    BY <2>2 DEF Throw, Still
  <2>3. CASE ~Throw("assert")
    BY <1>6, <2>1, <2>3 DEF AtEndRepeat, Moving, NextIteration, LeaveRepeat, Stay
  <2> QED BY <2>2, <2>3
<1>7. CASE AtIf
  <2>1. pos # 0 /\ error = None /\ Op(pos) = "if" /\ pos \in Position
    BY <1>0, <1>7, ProgramFacts DEF AtIf, Here, TypeOK
  <2>2. CASE ~HasValue(pos)
    BY <1>7, <2>1, <2>2, FailCases DEF AtIf, Stuck
  <2>3. CASE HasValue(pos)
    <3>1. address' = address + 0
      BY <1>7, <2>3 DEF AtIf, TypeOK
    <3> QED BY <1>7, <2>1, <2>3, <3>1 DEF AtIf, Moving, PlainMove, StepOn, Writing, Room, resultVars, outsideVars
  <2> QED BY <2>2, <2>3
<1>8. CASE AtElse
  <2>1. pos # 0 /\ error = None /\ Op(pos) \in {"else", "endif"} /\ pos \in Position
    BY <1>0, <1>8, ProgramFacts DEF AtElse, Here, TypeOK
  <2>2. address' = address + 0
    BY <1>8 DEF AtElse, TypeOK
  <2> QED BY <1>8, <2>1, <2>2 DEF AtElse, Stay, Moving, PlainMove, StepOn, Writing, Room
<1>9. CASE OutOfRange
  <2>1. pos # 0 /\ error = None /\ pos \in Position
    BY <1>0, <1>9, ProgramFacts DEF OutOfRange, Here, TypeOK
  <2>2. CASE Resolving
    BY <1>9, <2>2 DEF OutOfRange, Throw, Still
  <2>3. CASE ~Resolving
    <3>1. at # "size" /\ FailPass /\ UNCHANGED <<outsideVars, error>>
      BY <1>9, <2>3 DEF OutOfRange, InRange, Emitting
    <3> QED BY <2>1, <3>1, FailCases
  <2> QED BY <2>2, <2>3
<1>10. CASE RejectEmit
  <2>1. pos # 0 /\ error = None /\ at # "size"
    BY <1>0, <1>10, ProgramFacts DEF RejectEmit, AtEnd, Emitting, TypeOK
  <2>2. CASE FailPass /\ UNCHANGED <<outsideVars, error>>
    BY <2>1, <2>2, FailCases
  <2>3. CASE Throw("mismatch")
    BY <2>3 DEF Throw, Still
  <2> QED BY <1>10, <2>2, <2>3 DEF RejectEmit
<1> QED BY <1>1, <1>2, <1>3, <1>4, <1>5, <1>6, <1>7, <1>8, <1>9, <1>10 DEF Pass, Ending

LEMMA StepCases ==
  ASSUME TypeOK, [Next]_vars
  PROVE  Starting \/ Skipping \/ Failing \/ Ending \/ Moving \/ Learning \/ Still
<1>1. CASE Pass
  BY <1>1, MoveCases
<1>2. CASE TryResolve
  BY <1>2, LoopCases
<1>3. CASE GetBase \/ GetKnown
  BY <1>3 DEF Learning, GetBase, GetKnown
<1>4. CASE Finished \/ UNCHANGED vars
  BY <1>4 DEF Finished, vars, outsideVars, passVars, resultVars, Still
<1> QED BY <1>1, <1>2, <1>3, <1>4 DEF Next

-----------------------------------------------------------------------------
(* Types are kept.                                                         *)

LEMMA SameProgram ==
  ASSUME program' = program
  PROVE  /\ Position' = Position /\ Labels' = Labels /\ Section' = Section
         /\ \A p : Op(p)' = Op(p) /\ LabelsOf(p)' = LabelsOf(p)
         /\ \A q, p : Inside(q, p)' <=> Inside(q, p)
<1>1. Position' = Position /\ \A p : Op(p)' = Op(p)
  BY DEF Position, Op
<1>2. Labels' = Labels /\ Section' = Section
  BY <1>1 DEF Labels, Section
<1> QED BY <1>1, <1>2 DEF LabelsOf, Inside

LEMMA ProgramStays ==
  ASSUME TypeOK, [Next]_vars
  PROVE  program' = program
BY StepCases DEF Starting, Starts, Skipping, Failing, Ending, EndSize, EndLabels, EndEmit, EndPass, Moving,
   Learning, GetBase, GetKnown, Still, outsideVars

LEMMA SectionFacts == Original \in Section /\ Section \subseteq {1, 2} /\ (2 \in Section <=> program.twice)
BY DEF Section, Original

\* A label, a label's repeat, and numbers of an instruction.
LEMMA LabelFacts ==
  ASSUME TypeOK
  PROVE  /\ Labels \subseteq Position
         /\ \A l \in Labels : Op(l) = "label" /\ program.within[l] \in Nat
         /\ \A r : LabelsOf(r) = {l \in Labels : program.within[l] = r}
         /\ \A p \in Position : ValueOf(p) \in Nat /\ Bytes(p) \in Nat
<1>1. Labels \subseteq Position /\ \A l \in Labels : Op(l) = "label" /\ program.within[l] \in Nat
  BY ProgramFacts DEF Labels, TypeOK
<1>2. ASSUME NEW p \in Position
      PROVE  ValueOf(p) \in Nat
  <2>1. CASE program.kind[p] = "var"
    <3>1. program.within[p] \in Position
      BY <2>1, BlockFacts DEF TypeOK, Inside
    <3> QED BY <2>1, <3>1, SectionFacts DEF TypeOK, ValueOf
  <2>2. CASE program.kind[p] # "var"
    BY <2>2, ProgramFacts DEF TypeOK, ValueOf
  <2> QED BY <2>1, <2>2
<1> QED BY <1>1, <1>2 DEF LabelsOf, Bytes

\* What happens to the labels of a repeat.
LEMMA ReadFacts ==
  ASSUME TypeOK, NEW r
  PROVE  /\ AdvanceRead(r) => /\ read' \in [Section -> [Labels -> Nat]]
              /\ \A s \in Section, l \in Labels :
                   read'[s][l] = IF s = sec /\ program.within[l] = r THEN read[s][l] + 1 ELSE read[s][l]
         /\ AdvanceWrite(r) => /\ write' \in [Section -> [Labels -> Nat]]
              /\ \A s \in Section, l \in Labels :
                   write'[s][l] = IF s = sec /\ program.within[l] = r THEN write[s][l] + 1 ELSE write[s][l]
<1>1. sec \in Section /\ read \in [Section -> [Labels -> Nat]] /\ write \in [Section -> [Labels -> Nat]]
      /\ saved \in [Section -> [Labels -> Seq(Nat)]] /\ cells \in [Section -> [Labels -> Seq(Opt(Nat))]]
      /\ LabelsOf(r) \subseteq Labels
  BY DEF TypeOK, LabelsOf
<1>2. \A l \in Labels : (l \in LabelsOf(r) <=> program.within[l] = r)
  BY DEF LabelsOf
<1>3. ASSUME AdvanceRead(r)
      PROVE  /\ read' \in [Section -> [Labels -> Nat]]
             /\ \A s \in Section, l \in Labels :
                  read'[s][l] = IF s = sec /\ program.within[l] = r THEN read[s][l] + 1 ELSE read[s][l]
  <2> DEFINE new == [l \in LabelsOf(r) |-> read[sec][l] + 1]
  <2>1. read' = InRepeat(read, new)
    BY <1>3 DEF AdvanceRead
  <2>2. new \in [LabelsOf(r) -> Nat] /\ \A l \in Labels : program.within[l] = r => new[l] = read[sec][l] + 1
    BY <1>1, <1>2
  <2> HIDE DEF new
  <2>3. /\ InRepeat(read, new) \in [Section -> [Labels -> Nat]]
        /\ \A s \in Section, l \in Labels :
             InRepeat(read, new)[s][l] = IF s = sec /\ program.within[l] = r THEN new[l] ELSE read[s][l]
    BY <1>1, <1>2, <2>2 DEF InRepeat
  <2> QED BY <2>1, <2>2, <2>3
<1>4. ASSUME AdvanceWrite(r)
      PROVE  /\ write' \in [Section -> [Labels -> Nat]]
             /\ \A s \in Section, l \in Labels :
                  write'[s][l] = IF s = sec /\ program.within[l] = r THEN write[s][l] + 1 ELSE write[s][l]
  <2> DEFINE new == [l \in LabelsOf(r) |-> write[sec][l] + 1]
  <2>1. write' = InRepeat(write, new)
    BY <1>4 DEF AdvanceWrite
  <2>2. new \in [LabelsOf(r) -> Nat] /\ \A l \in Labels : program.within[l] = r => new[l] = write[sec][l] + 1
    BY <1>1, <1>2
  <2> HIDE DEF new
  <2>3. /\ InRepeat(write, new) \in [Section -> [Labels -> Nat]]
        /\ \A s \in Section, l \in Labels :
             InRepeat(write, new)[s][l] = IF s = sec /\ program.within[l] = r THEN new[l] ELSE write[s][l]
    BY <1>1, <1>2, <2>2 DEF InRepeat
  <2> QED BY <2>1, <2>2, <2>3
<1> QED BY <1>3, <1>4

LEMMA SaveFacts ==
  ASSUME TypeOK, NEW r
  PROVE  /\ SaveReadCounters(r) => /\ read' \in [Section -> [Labels -> Nat]]
              /\ \A s \in Section, l \in Labels :
                   read'[s][l] = IF s = sec /\ program.within[l] = r THEN write[s][l] ELSE read[s][l]
         /\ SaveReadCounters(r) => /\ saved' \in [Section -> [Labels -> Seq(Nat)]]
              /\ \A s \in Section, l \in Labels :
                   saved'[s][l] = IF s = sec /\ program.within[l] = r THEN <<write[s][l]>> \o saved[s][l] ELSE saved[s][l]
<1>1. sec \in Section /\ read \in [Section -> [Labels -> Nat]] /\ write \in [Section -> [Labels -> Nat]]
      /\ saved \in [Section -> [Labels -> Seq(Nat)]] /\ cells \in [Section -> [Labels -> Seq(Opt(Nat))]]
      /\ LabelsOf(r) \subseteq Labels
  BY DEF TypeOK, LabelsOf
<1>2. \A l \in Labels : (l \in LabelsOf(r) <=> program.within[l] = r)
  BY DEF LabelsOf
<1>3. ASSUME SaveReadCounters(r)
      PROVE  /\ read' \in [Section -> [Labels -> Nat]]
             /\ \A s \in Section, l \in Labels :
                  read'[s][l] = IF s = sec /\ program.within[l] = r THEN write[s][l] ELSE read[s][l]
  <2> DEFINE new == [l \in LabelsOf(r) |-> write[sec][l]]
  <2>1. read' = InRepeat(read, new)
    BY <1>3 DEF SaveReadCounters
  <2>2. new \in [LabelsOf(r) -> Nat] /\ \A l \in Labels : program.within[l] = r => new[l] = write[sec][l]
    BY <1>1, <1>2
  <2> HIDE DEF new
  <2>3. /\ InRepeat(read, new) \in [Section -> [Labels -> Nat]]
        /\ \A s \in Section, l \in Labels :
             InRepeat(read, new)[s][l] = IF s = sec /\ program.within[l] = r THEN new[l] ELSE read[s][l]
    BY <1>1, <1>2, <2>2 DEF InRepeat
  <2> QED BY <2>1, <2>2, <2>3
<1>4. ASSUME SaveReadCounters(r)
      PROVE  /\ saved' \in [Section -> [Labels -> Seq(Nat)]]
             /\ \A s \in Section, l \in Labels :
                  saved'[s][l] = IF s = sec /\ program.within[l] = r THEN <<write[s][l]>> \o saved[s][l] ELSE saved[s][l]
  <2> DEFINE new == [l \in LabelsOf(r) |-> <<write[sec][l]>> \o saved[sec][l]]
  <2>1. saved' = InRepeat(saved, new)
    BY <1>4 DEF SaveReadCounters
  <2>2. new \in [LabelsOf(r) -> Seq(Nat)] /\ \A l \in Labels : program.within[l] = r => new[l] = <<write[sec][l]>> \o saved[sec][l]
    BY <1>1, <1>2
  <2> HIDE DEF new
  <2>3. /\ InRepeat(saved, new) \in [Section -> [Labels -> Seq(Nat)]]
        /\ \A s \in Section, l \in Labels :
             InRepeat(saved, new)[s][l] = IF s = sec /\ program.within[l] = r THEN new[l] ELSE saved[s][l]
    BY <1>1, <1>2, <2>2 DEF InRepeat
  <2> QED BY <2>1, <2>2, <2>3
<1> QED BY <1>3, <1>4

LEMMA RestoreFacts ==
  ASSUME TypeOK, NEW r
  PROVE  /\ RestoreReadCounters(r) /\ CanRestore(r) => /\ read' \in [Section -> [Labels -> Nat]]
              /\ \A s \in Section, l \in Labels :
                   read'[s][l] = IF s = sec /\ program.within[l] = r THEN Head(saved[s][l]) ELSE read[s][l]
         /\ RestoreReadCounters(r) /\ CanRestore(r) => /\ saved' \in [Section -> [Labels -> Seq(Nat)]]
              /\ \A s \in Section, l \in Labels :
                   saved'[s][l] = IF s = sec /\ program.within[l] = r THEN Tail(saved[s][l]) ELSE saved[s][l]
<1>1. sec \in Section /\ read \in [Section -> [Labels -> Nat]] /\ write \in [Section -> [Labels -> Nat]]
      /\ saved \in [Section -> [Labels -> Seq(Nat)]] /\ cells \in [Section -> [Labels -> Seq(Opt(Nat))]]
      /\ LabelsOf(r) \subseteq Labels
  BY DEF TypeOK, LabelsOf
<1>2. \A l \in Labels : (l \in LabelsOf(r) <=> program.within[l] = r)
  BY DEF LabelsOf
<1>3. ASSUME RestoreReadCounters(r) /\ CanRestore(r)
      PROVE  /\ read' \in [Section -> [Labels -> Nat]]
             /\ \A s \in Section, l \in Labels :
                  read'[s][l] = IF s = sec /\ program.within[l] = r THEN Head(saved[s][l]) ELSE read[s][l]
  <2> DEFINE new == [l \in LabelsOf(r) |-> Head(saved[sec][l])]
  <2>1. read' = InRepeat(read, new)
    BY <1>3 DEF RestoreReadCounters, CanRestore
  <2>2. new \in [LabelsOf(r) -> Nat] /\ \A l \in Labels : program.within[l] = r => new[l] = Head(saved[sec][l])
    BY <1>1, <1>2, <1>3, HeadTailProperties DEF CanRestore
  <2> HIDE DEF new
  <2>3. /\ InRepeat(read, new) \in [Section -> [Labels -> Nat]]
        /\ \A s \in Section, l \in Labels :
             InRepeat(read, new)[s][l] = IF s = sec /\ program.within[l] = r THEN new[l] ELSE read[s][l]
    BY <1>1, <1>2, <2>2 DEF InRepeat
  <2> QED BY <2>1, <2>2, <2>3
<1>4. ASSUME RestoreReadCounters(r) /\ CanRestore(r)
      PROVE  /\ saved' \in [Section -> [Labels -> Seq(Nat)]]
             /\ \A s \in Section, l \in Labels :
                  saved'[s][l] = IF s = sec /\ program.within[l] = r THEN Tail(saved[s][l]) ELSE saved[s][l]
  <2> DEFINE new == [l \in LabelsOf(r) |-> Tail(saved[sec][l])]
  <2>1. saved' = InRepeat(saved, new)
    BY <1>4 DEF RestoreReadCounters, CanRestore
  <2>2. new \in [LabelsOf(r) -> Seq(Nat)] /\ \A l \in Labels : program.within[l] = r => new[l] = Tail(saved[sec][l])
    BY <1>1, <1>2, <1>4, HeadTailProperties DEF CanRestore
  <2> HIDE DEF new
  <2>3. /\ InRepeat(saved, new) \in [Section -> [Labels -> Seq(Nat)]]
        /\ \A s \in Section, l \in Labels :
             InRepeat(saved, new)[s][l] = IF s = sec /\ program.within[l] = r THEN new[l] ELSE saved[s][l]
    BY <1>1, <1>2, <2>2 DEF InRepeat
  <2> QED BY <2>1, <2>2, <2>3
<1> QED BY <1>3, <1>4

LEMMA CellsFacts ==
  ASSUME TypeOK, NEW r, AdvanceCells(r)
  PROVE  /\ cells' \in [Section -> [Labels -> Seq(Opt(Nat))]]
         /\ \A s \in Section, l \in Labels :
              cells'[s][l] = IF s = sec /\ program.within[l] = r /\ AtLast(l) THEN Append(cells[s][l], None)
                             ELSE cells[s][l]
<1>1. sec \in Section /\ read \in [Section -> [Labels -> Nat]] /\ write \in [Section -> [Labels -> Nat]]
      /\ saved \in [Section -> [Labels -> Seq(Nat)]] /\ cells \in [Section -> [Labels -> Seq(Opt(Nat))]]
      /\ LabelsOf(r) \subseteq Labels
  BY DEF TypeOK, LabelsOf
<1>2. \A l \in Labels : (l \in LabelsOf(r) <=> program.within[l] = r)
  BY DEF LabelsOf
<1> DEFINE new == [l \in LabelsOf(r) |-> IF AtLast(l) THEN Append(cells[sec][l], None) ELSE cells[sec][l]]
<1>3. cells' = InRepeat(cells, new)
  BY DEF AdvanceCells
<1>4. /\ new \in [LabelsOf(r) -> Seq(Opt(Nat))]
      /\ \A l \in Labels : program.within[l] = r => new[l] = IF AtLast(l) THEN Append(cells[sec][l], None) ELSE cells[sec][l]
  BY <1>1, <1>2 DEF Opt
<1> HIDE DEF new
<1>5. /\ InRepeat(cells, new) \in [Section -> [Labels -> Seq(Opt(Nat))]]
      /\ \A s \in Section, l \in Labels :
           InRepeat(cells, new)[s][l] = IF s = sec /\ program.within[l] = r THEN new[l] ELSE cells[s][l]
  BY <1>1, <1>2, <1>4 DEF InRepeat
<1> QED BY <1>3, <1>4, <1>5

\* A move goes to another instruction or to the end.
LEMMA MoveFacts ==
  ASSUME TypeOK, Moving
  PROVE  /\ pos' \in 1..(Len(program.op) + 1) /\ sec \in Section /\ pos \in Position
         /\ Op(pos) = "endrepeat" => /\ program.within[pos] \in Position /\ Op(program.within[pos]) = "repeat"
                                     /\ Inside(program.within[pos], pos) /\ program.to[program.within[pos]] = pos
<1>1. /\ pos \in Position /\ Position = 1..Len(program.op) /\ Len(program.op) \in Nat
      /\ program \in Programs /\ sec \in Section
  BY ProgramFacts DEF Moving, TypeOK
<1>2. /\ Op(pos) = "endrepeat" => /\ program.within[pos] \in Position /\ Op(program.within[pos]) = "repeat"
                                  /\ Inside(program.within[pos], pos) /\ program.to[program.within[pos]] = pos
      /\ Op(pos) \in {"repeat", "if", "else"} => program.to[pos] \in Position
  BY <1>1, BlockFacts DEF Inside
<1>3. pos' \in {pos + 1} \cup {program.to[pos] + 1 : x \in {y \in {0} : Op(pos) \in {"repeat", "if", "else"}}}
               \cup {program.within[pos] + 1 : x \in {y \in {0} : Op(pos) = "endrepeat"}}
  BY DEF Moving, PlainMove, SkipRepeat, EnterRepeat, NextIteration, LeaveRepeat, StepOn
<1> QED BY <1>1, <1>2, <1>3

LEMMA TypeInit == Init => TypeOK
<1> SUFFICES ASSUME Init PROVE TypeOK
  OBVIOUS
<1>1. program \in Programs /\ Len(program.op) \in Nat
  BY ProgramFacts DEF Init
<1> QED BY <1>1, SectionFacts DEF Init, TypeOK, Each, AllLabels, Opt, Passes, Loops, Original

LEMMA ForgetTypes ==
  ASSUME TypeOK, ForgetLabels
  PROVE  cells' \in [Section -> [Labels -> Seq(Opt(Nat))]]
<1>1. ASSUME NEW l \in Labels
      PROVE  [i \in DOMAIN cells[sec][l] |-> None] \in Seq(Opt(Nat))
  BY <1>1, IsASeq DEF TypeOK, Opt
<1>2. NoAddresses(sec) \in [Labels -> Seq(Opt(Nat))]
  BY <1>1 DEF NoAddresses
<1> QED BY <1>2 DEF ForgetLabels, TypeOK

\* A pass begins.
LEMMA StartingTypes ==
  ASSUME TypeOK, Starting
  PROVE  TypeOK'
<1>1. program' = program /\ \E pass \in Passes, from \in Nat : Starts(pass, from)
  BY ProgramSectionAssumption DEF Starting, Starts, outsideVars, Passes, TypeOK, Opt
<1>2. PICK pass \in Passes, from \in Nat : Starts(pass, from)
  BY <1>1
<1>3. at' = pass /\ sec' = sec /\ pos' = 1 /\ address' = from /\ start' = from
      /\ UNCHANGED <<program, known, base, mValue, mSize, mCalculatedSize, size, labels, code>>
  BY <1>2 DEF Starts, Begin, outsideVars, resultVars
<1>4. Len(program.op) \in Nat
  BY ProgramFacts DEF TypeOK
<1>5. /\ read' \in [Section -> [Labels -> Nat]] /\ write' \in [Section -> [Labels -> Nat]]
      /\ saved' \in [Section -> [Labels -> Seq(Nat)]]
  BY <1>2 DEF Starts, Begin, ResetCounters, AllLabels, TypeOK
<1>6. cells' \in [Section -> [Labels -> Seq(Opt(Nat))]]
  <2>1. CASE UNCHANGED cells
    BY <2>1 DEF TypeOK
  <2>2. CASE ForgetLabels
    BY <2>2, ForgetTypes
  <2> QED BY <2>1, <2>2 DEF Starting
<1>7. pos' \in 0..(Len(program.op) + 1) /\ (pos' # 0 <=> at' \in Passes)
  BY <1>3, <1>4
<1> QED BY <1>1, <1>3, <1>5, <1>6, <1>7, SameProgram DEF TypeOK

LEMMA GoToTypes ==
  ASSUME TypeOK, NEW step \in Loops, GoTo(step)
  PROVE  sec' \in Section /\ at' \in Passes \cup Loops /\ at' \notin Passes
BY SectionFacts DEF TypeOK, GoTo, Loops, Passes, Original

\* From the constructor of the first file to that of the second.
LEMMA NextFileFacts ==
  ASSUME TypeOK, at' = "new", Skipping \/ Failing \/ Ending
  PROVE  /\ at \in {"new", "first"} /\ sec = Original /\ sec' \in Section /\ sec' # sec
         /\ size' = size \/ size' = [size EXCEPT ![sec] = Length]
<1>1. CASE Skipping
  BY <1>1 DEF Skipping, GoTo, NextFile, Original, Section, resultVars
<1>2. CASE Failing
  BY <1>2 DEF Failing, GoTo, NextFile, Original, Section, resultVars
<1>3. CASE Ending
  BY <1>3 DEF Ending, EndSize, EndLabels, EndEmit, EndPass, GoTo, NextFile, Original, Section
<1> QED BY <1>1, <1>2, <1>3

\* A loop of tryResolve passes, or a pass ends.
LEMMA ReturningTypes ==
  ASSUME TypeOK, Skipping \/ Failing \/ Ending
  PROVE  TypeOK'
<1>1. CASE Skipping
  <2>1. sec' \in Section /\ at' \in Passes \cup Loops /\ at' \notin Passes
    BY <1>1, GoToTypes DEF Skipping, Loops, NextFile
  <2> QED BY <1>1, <2>1, SameProgram DEF Skipping, TypeOK, outsideVars, passVars, counterVars, resultVars
<1>2. CASE Failing
  <2>1. sec' \in Section /\ at' \in Passes \cup Loops /\ at' \notin Passes
    BY <1>2, GoToTypes DEF Failing, Loops, NextFile
  <2>2. cells' \in [Section -> [Labels -> Seq(Opt(Nat))]]
    BY <1>2, ForgetTypes DEF Failing, TypeOK
  <2>3. pos' = 0 /\ Len(program.op) \in Nat
    BY <1>2, ProgramFacts DEF Failing, TypeOK
  <2> QED BY <1>2, <2>1, <2>2, <2>3, SameProgram DEF Failing, TypeOK, outsideVars, counterVars, resultVars
<1>3. CASE Ending
  <2>1. pos' = 0 /\ Len(program.op) \in Nat
        /\ UNCHANGED <<outsideVars, address, start, mValue, cells, counterVars, mSize>>
        /\ error = None /\ pos = Len(program.op) + 1
    BY <1>3, ProgramFacts DEF Ending, EndSize, EndLabels, EndEmit, EndPass, AtEnd, TypeOK
  <2>2. sec' \in Section /\ at' \in Passes \cup Loops /\ at' \notin Passes
    BY <1>3, GoToTypes DEF Ending, EndSize, EndLabels, EndEmit, EndPass, Loops, NextFile
  <2>3. Length \in Opt(Nat) /\ start \in Opt(Nat)
    BY DEF Length, TypeOK, Opt
  <2>4. /\ mCalculatedSize' \in [Section -> Opt(Nat)] /\ size' \in [Section -> Opt(Nat)]
        /\ labels' \in [Section -> BOOLEAN] /\ code' \in [Section -> Opt(Nat)]
    <3>1. CASE EndSize
      BY <2>3, <3>1 DEF EndSize, TypeOK
    <3>2. CASE EndLabels
      BY <2>3, <3>2 DEF EndLabels, TypeOK
    <3>3. CASE EndEmit
      BY <2>3, <3>3 DEF EndEmit, TypeOK
    <3> QED BY <1>3, <3>1, <3>2, <3>3 DEF Ending
  <2>5. program' = program /\ Section' = Section /\ Labels' = Labels /\ Position' = Position
    BY <2>1, SameProgram DEF outsideVars
  <2>6. pos' \in 0..(Len(program.op) + 1) /\ (pos' # 0 <=> at' \in Passes)
    BY <2>1, <2>2
  <2>7. UNCHANGED <<known, base, address, start, mValue, mSize, cells, read, write, saved>>
    BY <2>1 DEF outsideVars, counterVars
  <2> QED BY <2>2, <2>4, <2>5, <2>6, <2>7 DEF TypeOK
<1> QED BY <1>1, <1>2, <1>3

LEMMA SetInSeq ==
  ASSUME NEW S, NEW q \in Seq(S), NEW i, NEW x \in S
  PROVE  [q EXCEPT ![i] = x] \in Seq(S)
<1>1. CASE i \in 1..Len(q)
  BY <1>1, ExceptSeq
<1>2. CASE i \notin 1..Len(q)
  <2>1. q \in [1..Len(q) -> S]
    BY LenProperties
  <2>2. [q EXCEPT ![i] = x] = q
    BY <1>2, <2>1
  <2> QED BY <2>2
<1> QED BY <1>1, <1>2

LEMMA RoomFacts ==
  ASSUME TypeOK, Moving, PlainMove
  PROVE  Room \in Nat
<1>1. Op(pos) = "defs" /\ Emitting => mSize[sec][pos] \in Nat
  BY DEF PlainMove, TypeOK, Opt, Moving
<1>2. ValueOf(pos) \in Nat /\ Bytes(pos) \in Nat
  BY LabelFacts DEF Moving
<1> QED BY <1>1, <1>2 DEF Room

\* An instruction is passed.
LEMMA MovingTypes ==
  ASSUME TypeOK, Moving
  PROVE  TypeOK'
<1>1. /\ pos' \in 0..(Len(program.op) + 1) /\ pos' # 0 /\ pos # 0 /\ pos \in Position /\ sec \in Section
      /\ UNCHANGED <<program, known, base, sec, at, start, mCalculatedSize, size, labels, code>>
  BY MoveFacts, ProgramFacts DEF Moving, outsideVars, resultVars, TypeOK
<1>2. SUFFICES /\ address' \in Nat /\ start <= address'
               /\ mValue' \in [Section -> [Position -> Nat]] /\ mSize' \in [Section -> [Position -> Opt(Nat)]]
               /\ cells' \in [Section -> [Labels -> Seq(Opt(Nat))]]
               /\ read' \in [Section -> [Labels -> Nat]] /\ write' \in [Section -> [Labels -> Nat]]
               /\ saved' \in [Section -> [Labels -> Seq(Nat)]]
  BY <1>1, SameProgram DEF TypeOK
<1>3. CASE PlainMove
  <2>1. address' \in Nat /\ start <= address'
    BY <1>3, RoomFacts DEF PlainMove, TypeOK
  <2>2. ValueOf(pos) \in Opt(Nat)
    BY <1>1, LabelFacts DEF Opt
  <2>3. mSize' \in [Section -> [Position -> Opt(Nat)]]
    BY <1>1, <1>3, <2>2 DEF PlainMove, TypeOK
  <2>4. cells' \in [Section -> [Labels -> Seq(Opt(Nat))]]
    <3>1. CASE Writing
      <4>1. pos \in Labels /\ cells[sec][pos] \in Seq(Opt(Nat)) /\ address \in Opt(Nat)
        BY <1>1, <3>1 DEF Writing, Labels, TypeOK, Opt
      <4>2. [cells[sec][pos] EXCEPT ![write[sec][pos]] = address] \in Seq(Opt(Nat))
        BY <4>1, SetInSeq
      <4> QED BY <1>1, <1>3, <3>1, <4>1, <4>2 DEF PlainMove, TypeOK
    <3>2. CASE ~Writing
      BY <1>3, <3>2 DEF PlainMove, TypeOK
    <3> QED BY <3>1, <3>2
  <2> QED BY <1>3, <2>1, <2>3, <2>4 DEF PlainMove, TypeOK, counterVars
<1>4. CASE SkipRepeat
  BY <1>4 DEF SkipRepeat, TypeOK, counterVars
<1>5. CASE EnterRepeat
  <2>1. mValue' \in [Section -> [Position -> Nat]]
    BY <1>1, <1>5 DEF EnterRepeat, Restart, TypeOK
  <2> QED BY <1>5, <2>1, SaveFacts DEF EnterRepeat, TypeOK, SaveReadCounters
<1>6. CASE NextIteration
  <2>1. mValue' \in [Section -> [Position -> Nat]]
    BY <1>1, <1>6, MoveFacts DEF NextIteration, TypeOK
  <2> QED BY <1>6, <2>1, ReadFacts, CellsFacts DEF NextIteration, TypeOK
<1>7. CASE LeaveRepeat
  <2>1. mValue' \in [Section -> [Position -> Nat]]
    BY <1>1, <1>7, MoveFacts DEF LeaveRepeat, TypeOK
  <2> QED BY <1>7, <2>1, ReadFacts, RestoreFacts, CellsFacts DEF LeaveRepeat, TypeOK
<1> QED BY <1>3, <1>4, <1>5, <1>6, <1>7 DEF Moving

LEMMA TypeKeeps ==
  ASSUME TypeOK, [Next]_vars
  PROVE  TypeOK'
<1>1. CASE Learning
  BY <1>1, SameProgram DEF Learning, GetBase, GetKnown, TypeOK, Opt, passVars, counterVars, resultVars
<1>2. CASE Still
  BY <1>2, SameProgram DEF Still, TypeOK, outsideVars, passVars, counterVars, resultVars
<1> QED BY <1>1, <1>2, StepCases, StartingTypes, ReturningTypes, MovingTypes

\* Every variable has the type of the field it stands for.
THEOREM TypeCorrect == Spec => []TypeOK
<1>1. TypeOK /\ [Next]_vars => TypeOK'
  BY TypeKeeps
<1> QED BY TypeInit, <1>1, PTL DEF Spec

-----------------------------------------------------------------------------
(* When a pass runs.                                                       *)

\* What a pass is run for is not known yet, what it needs is, and it starts at the base.
PassInv ==
  /\ at = "new" => size[sec] = None
  /\ at = "first" => ~program.packed /\ size[sec] = None
  /\ at \in {"new", "first"} /\ sec = Original => \A s \in Section : size[s] = None
  /\ at = "size" => ~program.packed /\ size[sec] = None
  /\ at = "labels1" => ~program.packed /\ size[sec] = None
  /\ Resolving => ~labels[sec] /\ base[sec] # None /\ start = base[sec]
  /\ at = "compress" => program.packed /\ size[sec] = None /\ start = IF base[sec] # None THEN base[sec] ELSE 0
  /\ at = "emit" => ~program.packed /\ base[sec] # None /\ start = base[sec] /\ labels[sec] /\ code[sec] = None

ResultInv ==
  \A s \in Section : /\ code[s] # None => size[s] # None
                     /\ labels[s] => base[s] # None

LEMMA PassKeeps ==
  ASSUME TypeOK, PassInv, ResultInv, [Next]_vars
  PROVE  PassInv' /\ ResultInv'
<1>1. sec \in Section /\ (pos # 0 <=> at \in Passes) /\ TypeOK' /\ program' = program /\ Section' = Section
      /\ None \notin Nat
  BY TypeKeeps, ProgramStays, SameProgram, ProgramSectionAssumption DEF TypeOK
<1>2. CASE Starting
  <2>1. ResultInv'
    BY <1>1, <1>2 DEF Starting, Starts, ResultInv, outsideVars, resultVars
  <2>2. PassInv'
    BY <1>1, <1>2 DEF Starting, Starts, Begin, PassInv, Resolving, outsideVars, resultVars, Passes, NeedsPacking
  <2> QED BY <2>1, <2>2
<1>3. CASE Skipping \/ Failing
  <2>1. ResultInv'
    BY <1>1, <1>3 DEF Skipping, Failing, ResultInv, outsideVars, resultVars
  <2>2. at' \notin Passes
    BY <1>3 DEF Skipping, Failing, GoTo, NextFile, Passes
  <2>3. at' = "new" => sec' # Original /\ size'[sec'] = None
    BY <1>1, <1>3, NextFileFacts DEF PassInv, TypeOK
  <2> QED BY <2>1, <2>2, <2>3 DEF PassInv, Passes, Resolving
<1>4. CASE Ending
  <2>1. ResultInv'
    <3>1. Length \in Nat /\ start \in Nat
      BY DEF TypeOK, Length
    <3> QED BY <1>1, <1>4, <3>1 DEF Ending, EndSize, EndLabels, EndEmit, EndPass, PassInv, ResultInv, outsideVars, TypeOK
  <2>2. at' \notin Passes
    BY <1>4 DEF Ending, EndSize, EndLabels, EndEmit, EndPass, GoTo, NextFile, Passes
  <2>3. at' = "new" => sec' # Original /\ size'[sec'] = None
    BY <1>1, <1>4, NextFileFacts DEF PassInv, TypeOK
  <2> QED BY <2>1, <2>2, <2>3 DEF PassInv, Passes, Resolving
<1>5. CASE Moving
  BY <1>1, <1>5 DEF Moving, PassInv, ResultInv, Resolving, outsideVars, resultVars
<1>6. CASE Learning
  <2>1. at \notin Passes /\ at' = at /\ sec' = sec /\ UNCHANGED resultVars
    BY <1>6 DEF Learning, BetweenLoops, Idle, GetBase, GetKnown, Passes
  <2>2. PassInv'
    BY <1>1, <2>1 DEF PassInv, Passes, Resolving, resultVars
  <2>3. \A s \in Section : base[s] # None => base'[s] # None
    BY <1>1, <1>6, ProgramSectionAssumption DEF Learning, GetBase, GetKnown, TypeOK
  <2> QED BY <1>1, <2>1, <2>2, <2>3 DEF ResultInv, resultVars
<1>7. CASE Still
  BY <1>1, <1>7 DEF Still, PassInv, ResultInv, Resolving, outsideVars, passVars, resultVars
<1> QED BY <1>2, <1>3, <1>4, <1>5, <1>6, <1>7, StepCases

-----------------------------------------------------------------------------
(* Labels in repeats.                                                      *)

\* In a repeat, a label is read where it is written, and it has saved one position:
\* the first, if the repeat is outermost and so is entered once in a pass.
CounterInv ==
  /\ \A s \in Section, l \in Labels : write[s][l] \in 1..Len(cells[s][l])
  /\ pos # 0 => \A l \in Labels :
       IF Inside(program.within[l], pos)
       THEN /\ read[sec][l] = write[sec][l]
            /\ \E w \in Nat : saved[sec][l] = <<w>> /\ (Outermost(l) => w = 1)
       ELSE /\ saved[sec][l] = <<>>
            /\ Outermost(l) => read[sec][l] = 1
            /\ Outermost(l) /\ pos <= program.within[l] => write[sec][l] = 1

\* A move keeps what a label has for the positions before and behind its repeat.
LEMMA PlainCounters ==
  ASSUME TypeOK, Moving, CounterInv, UNCHANGED <<counterVars>>, \A l \in Labels : Len(cells'[sec][l]) = Len(cells[sec][l]),
         \A s \in Section : s # sec => cells'[s] = cells[s],
         \A q : Inside(q, pos') <=> Inside(q, pos), pos' > pos
  PROVE  CounterInv'
<1>1. pos \in Nat /\ pos' \in Nat /\ pos # 0 /\ sec' = sec /\ program' = program /\ pos' # 0
  BY MoveFacts, ProgramFacts DEF Moving, TypeOK, outsideVars
<1>2. \A s \in Section, l \in Labels : write'[s][l] \in 1..Len(cells'[s][l])
  BY DEF CounterInv, counterVars
<1>3. \A q : Inside(q, pos)' <=> Inside(q, pos)
  BY <1>1, SameProgram DEF Inside
<1>4. \A l \in Labels : program.within[l] \in Nat /\ (Outermost(l)' <=> Outermost(l))
  BY <1>1, LabelFacts DEF Outermost
<1> QED BY <1>1, <1>2, <1>3, <1>4, SameProgram DEF CounterInv, counterVars

LEMMA AppendFacts ==
  ASSUME NEW S, NEW q \in Seq(S), NEW x \in S
  PROVE  Append(q, x) \in Seq(S) /\ Len(Append(q, x)) = Len(q) + 1
BY AppendProperties

\* The labels of the repeat that ends move on, and their lists are long enough.
LEMMA AdvanceLengths ==
  ASSUME TypeOK, CounterInv, NEW r, AdvanceCells(r), AdvanceWrite(r)
  PROVE  \A s \in Section, l \in Labels : write'[s][l] \in 1..Len(cells'[s][l])
<1> SUFFICES ASSUME NEW s \in Section, NEW l \in Labels
             PROVE  write'[s][l] \in 1..Len(cells'[s][l])
  OBVIOUS
<1>1. write[s][l] \in 1..Len(cells[s][l]) /\ cells[s][l] \in Seq(Opt(Nat)) /\ None \in Opt(Nat)
      /\ Len(cells[s][l]) \in Nat
  BY LenProperties DEF CounterInv, TypeOK, Opt
<1>2. write'[s][l] = IF s = sec /\ program.within[l] = r THEN write[s][l] + 1 ELSE write[s][l]
  BY ReadFacts
<1>3. cells'[s][l] = IF s = sec /\ program.within[l] = r /\ AtLast(l) THEN Append(cells[s][l], None) ELSE cells[s][l]
  BY CellsFacts
<1>4. Len(Append(cells[s][l], None)) = Len(cells[s][l]) + 1
  BY <1>1, AppendFacts
<1> QED BY <1>1, <1>2, <1>3, <1>4 DEF AtLast

\* What a label that is in no open repeat has.
LEMMA OutermostFacts ==
  ASSUME TypeOK, NEW l \in Labels, NEW r, Inside(r, program.within[l])
  PROVE  ~Outermost(l)
<1>1. r \in Position /\ program.within[l] \in Position /\ Position \subseteq Nat \ {0}
  <2>1. Position = 1..Len(program.op) /\ program.within[l] \in Nat /\ Len(program.op) \in Nat
    BY ProgramFacts, LabelFacts DEF TypeOK
  <2>2. r \in Position /\ program.to[r] \in Position /\ r < program.within[l] /\ program.within[l] <= program.to[r]
    BY BlockFacts DEF Inside, TypeOK
  <2> QED BY <2>1, <2>2
<1>2. r <= program.within[program.within[l]]
  BY <1>1, BlockFacts DEF TypeOK
<1>3. program.within[program.within[l]] \in Nat
  BY <1>1, ProgramFacts DEF TypeOK
<1>4. program.within[l] # 0 /\ r \in Nat \ {0}
  BY <1>1
<1>5. program.within[program.within[l]] # 0
  BY <1>2, <1>3, <1>4
<1> QED BY <1>4, <1>5 DEF Outermost

LEMMA MovingCounters ==
  ASSUME TypeOK, Moving, CounterInv
  PROVE  CounterInv'
<1>1. /\ pos \in Nat /\ pos' \in Nat /\ pos # 0 /\ pos' # 0 /\ pos \in Position /\ sec' = sec /\ sec \in Section
      /\ program' = program /\ program \in Programs /\ Position = 1..Len(program.op) /\ Len(program.op) \in Nat
  BY MoveFacts, ProgramFacts DEF Moving, TypeOK, outsideVars
<1>2. \A q : Inside(q, pos)' <=> Inside(q, pos')
  BY <1>1, SameProgram DEF Inside
<1>3. \A l \in Labels : program.within[l] \in Nat /\ (Outermost(l)' <=> Outermost(l)) /\ program'.within[l] = program.within[l]
  BY <1>1, LabelFacts DEF Outermost
<1>4. CASE PlainMove
  <2>1. pos' > pos /\ \A q : Inside(q, pos') <=> Inside(q, pos)
    <3>1. Op(pos) \in {"if", "else"} => program.to[pos] \in Position /\ program.to[pos] > pos
      BY <1>1, BlockFacts
    <3> QED BY <1>1, <1>4, <3>1, AroundNext, AroundJump DEF PlainMove
  <2>2. \A s \in Section, l \in Labels : Len(cells'[s][l]) = Len(cells[s][l])
    <3>1. CASE Writing
      <4>1. pos \in Labels /\ cells[sec][pos] \in Seq(Opt(Nat)) /\ address \in Opt(Nat)
            /\ write[sec][pos] \in 1..Len(cells[sec][pos])
        BY <1>1, <3>1 DEF Writing, Labels, TypeOK, Opt, CounterInv
      <4>2. Len([cells[sec][pos] EXCEPT ![write[sec][pos]] = address]) = Len(cells[sec][pos])
        BY <4>1, ExceptSeq
      <4> QED BY <1>1, <1>4, <3>1, <4>1, <4>2 DEF PlainMove, TypeOK
    <3>2. CASE ~Writing
      BY <1>4, <3>2 DEF PlainMove
    <3> QED BY <3>1, <3>2
  <2>3. \A s \in Section : s # sec => cells'[s] = cells[s]
    BY <1>1, <1>4 DEF PlainMove, TypeOK
  <2>4. UNCHANGED counterVars
    BY <1>4 DEF PlainMove
  <2> QED BY <1>1, <2>1, <2>2, <2>3, <2>4, PlainCounters
<1>5. CASE SkipRepeat
  <2>1. pos' > pos /\ \A q : Inside(q, pos') <=> Inside(q, pos)
    <3>1. program.to[pos] \in Position /\ program.to[pos] > pos
      BY <1>1, <1>5, BlockFacts DEF SkipRepeat
    <3> QED BY <1>1, <1>5, <3>1, AroundJump DEF SkipRepeat
  <2> QED BY <1>1, <1>5, <2>1, PlainCounters DEF SkipRepeat
<1>6. CASE EnterRepeat
  <2>1. /\ Op(pos) = "repeat" /\ pos' = pos + 1 /\ UNCHANGED <<write, cells>> /\ SaveReadCounters(pos)
    BY <1>6 DEF EnterRepeat, StepOn, SaveReadCounters
  <2>2. \A q : Inside(q, pos') <=> Inside(q, pos) \/ q = pos
    BY <1>1, <2>1, AroundNext
  <2>3. \A s \in Section, l \in Labels : write'[s][l] \in 1..Len(cells'[s][l])
    BY <2>1 DEF CounterInv
  <2>4. ~Inside(pos, pos) /\ \A l \in Labels : write[sec][l] \in Nat /\ saved[sec][l] \in Seq(Nat)
    BY <1>1 DEF Inside, TypeOK
  <2>9. \A l \in Labels :
          /\ read'[sec][l] = IF program.within[l] = pos THEN write[sec][l] ELSE read[sec][l]
          /\ saved'[sec][l] = IF program.within[l] = pos THEN <<write[sec][l]>> \o saved[sec][l] ELSE saved[sec][l]
    <3> DEFINE r == pos
    <3>1. SaveReadCounters(r)
      BY <2>1
    <3> HIDE DEF r
    <3>2. \A l \in Labels :
            /\ read'[sec][l] = IF program.within[l] = r THEN write[sec][l] ELSE read[sec][l]
            /\ saved'[sec][l] = IF program.within[l] = r THEN <<write[sec][l]>> \o saved[sec][l] ELSE saved[sec][l]
      BY <1>1, <3>1, SaveFacts
    <3> QED BY <3>2 DEF r
  <2>5. ASSUME NEW l \in Labels, program.within[l] = pos
        PROVE  /\ read'[sec][l] = write'[sec][l]
               /\ \E w \in Nat : saved'[sec][l] = <<w>> /\ (Outermost(l) => w = 1)
    <3>1. saved[sec][l] = <<>> /\ (Outermost(l) => write[sec][l] = 1)
      BY <1>1, <2>4, <2>5 DEF CounterInv
    <3>2. write[sec][l] \in Nat /\ read'[sec][l] = write[sec][l] /\ saved'[sec][l] = <<write[sec][l]>> \o saved[sec][l]
      BY <2>4, <2>5, <2>9
    <3>3. saved'[sec][l] = <<write[sec][l]>>
      BY <3>1, <3>2
    <3> QED BY <2>1, <3>1, <3>2, <3>3
  <2>6. ASSUME NEW l \in Labels, program.within[l] # pos
        PROVE  read'[sec][l] = read[sec][l] /\ saved'[sec][l] = saved[sec][l]
    BY <2>6, <2>9
  <2> HIDE DEF Inside, Outermost
  <2> SUFFICES ASSUME NEW l \in Labels
               PROVE  IF Inside(program.within[l], pos')
                      THEN /\ read'[sec][l] = write'[sec][l]
                           /\ \E w \in Nat : saved'[sec][l] = <<w>> /\ (Outermost(l) => w = 1)
                      ELSE /\ saved'[sec][l] = <<>>
                           /\ Outermost(l) => read'[sec][l] = 1
                           /\ Outermost(l) /\ pos' <= program.within[l] => write'[sec][l] = 1
    BY <1>1, <1>2, <1>3, <2>3, SameProgram DEF CounterInv
  <2>7. CASE program.within[l] = pos
    BY <2>2, <2>5, <2>7
  <2>8. CASE program.within[l] # pos
    BY <1>1, <1>3, <2>1, <2>2, <2>6, <2>8 DEF CounterInv
  <2> QED BY <2>7, <2>8
<1>7. ASSUME NextIteration \/ LeaveRepeat
      PROVE  CounterInv'
  <2> DEFINE r == program.within[pos]
  <2>1. /\ Op(pos) = "endrepeat" /\ AdvanceCells(r) /\ AdvanceWrite(r) /\ CanRestore(r)
        /\ \/ NextIteration /\ pos' = r + 1 /\ AdvanceRead(r) /\ UNCHANGED saved
           \/ LeaveRepeat /\ pos' = pos + 1 /\ RestoreReadCounters(r)
    BY <1>7 DEF NextIteration, LeaveRepeat, StepOn
  <2>2. r \in Position /\ Op(r) = "repeat" /\ Inside(r, pos) /\ program.to[r] = pos /\ r < pos
    BY <2>1, MoveFacts DEF Inside
  <2> HIDE DEF r
  <2>3. \A s \in Section, l \in Labels : write'[s][l] \in 1..Len(cells'[s][l])
    BY <2>1, AdvanceLengths
  <2>4. \A l \in Labels : write'[sec][l] = IF program.within[l] = r THEN write[sec][l] + 1 ELSE write[sec][l]
    BY <1>1, <2>1, ReadFacts
  <2> SUFFICES ASSUME NEW l \in Labels
               PROVE  IF Inside(program.within[l], pos')
                      THEN /\ read'[sec][l] = write'[sec][l]
                           /\ \E w \in Nat : saved'[sec][l] = <<w>> /\ (Outermost(l) => w = 1)
                      ELSE /\ saved'[sec][l] = <<>>
                           /\ Outermost(l) => read'[sec][l] = 1
                           /\ Outermost(l) /\ pos' <= program.within[l] => write'[sec][l] = 1
    BY <1>1, <1>2, <1>3, <2>3, SameProgram DEF CounterInv
  <2>5. CASE NextIteration /\ pos' = r + 1 /\ AdvanceRead(r) /\ UNCHANGED saved
    <3>1. read'[sec][l] = IF program.within[l] = r THEN read[sec][l] + 1 ELSE read[sec][l]
      BY <1>1, <2>5, ReadFacts
    <3>2. Inside(program.within[l], pos') <=> Inside(program.within[l], pos)
      BY <1>1, <2>1, <2>5, AroundJump DEF r
    <3>3. CASE Inside(program.within[l], pos)
      BY <1>1, <2>4, <2>5, <3>1, <3>2, <3>3 DEF CounterInv
    <3>4. CASE ~Inside(program.within[l], pos)
      <4>1. program.within[l] # r
        BY <2>2, <3>4
      <4>2. Outermost(l) /\ r + 1 <= program.within[l] => pos <= program.within[l]
        <5>1. SUFFICES ASSUME Outermost(l), r + 1 <= program.within[l], ~(pos <= program.within[l]) PROVE FALSE
          OBVIOUS
        <5>2. Inside(r, program.within[l])
          BY <1>1, <1>3, <2>2, <5>1 DEF Inside
        <5> QED BY <5>1, <5>2, OutermostFacts
      <4> QED BY <1>1, <2>4, <2>5, <3>1, <3>2, <3>4, <4>1, <4>2 DEF CounterInv
    <3> QED BY <3>3, <3>4
  <2>6. CASE LeaveRepeat /\ pos' = pos + 1 /\ RestoreReadCounters(r)
    <3>1. /\ read'[sec][l] = IF program.within[l] = r THEN Head(saved[sec][l]) ELSE read[sec][l]
          /\ saved'[sec][l] = IF program.within[l] = r THEN Tail(saved[sec][l]) ELSE saved[sec][l]
      BY <1>1, <2>1, <2>6, RestoreFacts
    <3>2. Inside(program.within[l], pos') <=> Inside(program.within[l], pos) /\ program.within[l] # r
      BY <1>1, <2>1, <2>6, AroundNext DEF r
    <3>3. CASE program.within[l] = r
      <4>1. PICK w \in Nat : saved[sec][l] = <<w>> /\ (Outermost(l) => w = 1)
        BY <1>1, <2>2, <3>3 DEF CounterInv
      <4>2. Head(<<w>>) = w /\ Tail(<<w>>) = <<>>
        OBVIOUS
      <4>3. ~(pos' <= program.within[l])
        BY <1>1, <2>2, <2>6, <3>3
      <4> QED BY <3>1, <3>2, <3>3, <4>1, <4>2, <4>3
    <3>4. CASE program.within[l] # r
      BY <1>1, <1>3, <2>4, <2>6, <3>1, <3>2, <3>4 DEF CounterInv
    <3> QED BY <3>3, <3>4
  <2> QED BY <2>1, <2>5, <2>6
<1> QED BY <1>4, <1>5, <1>6, <1>7 DEF Moving

\* At the end of a program no repeat is open.
LEMMA EndFacts ==
  ASSUME TypeOK, CounterInv, pos = Len(program.op) + 1
  PROVE  \A l \in Labels : Outermost(l) => read[sec][l] = 1
<1>1. Len(program.op) \in Nat /\ Position = 1..Len(program.op) /\ pos # 0
  BY ProgramFacts DEF TypeOK
<1>2. \A q : ~Inside(q, pos)
  <2>1. ASSUME NEW q, Inside(q, pos)
        PROVE  FALSE
    <3>1. q \in Position /\ program.to[q] \in Position /\ pos <= program.to[q]
      BY <2>1, BlockFacts DEF Inside, TypeOK
    <3> QED BY <1>1, <3>1
  <2> QED BY <2>1
<1> QED BY <1>1, <1>2 DEF CounterInv

LEMMA CounterKeeps ==
  ASSUME TypeOK, CounterInv, [Next]_vars
  PROVE  CounterInv'
<1>1. program' = program /\ sec \in Section /\ TypeOK'
  BY ProgramStays, TypeKeeps DEF TypeOK
<1>2. \A l : Outermost(l)' <=> Outermost(l)
  BY <1>1 DEF Outermost
<1>3. ASSUME ForgetLabels
      PROVE  \A s \in Section, l \in Labels : Len(cells'[s][l]) = Len(cells[s][l])
  <2>1. ASSUME NEW l \in Labels
        PROVE  Len([i \in DOMAIN cells[sec][l] |-> None]) = Len(cells[sec][l])
    <3>1. cells[sec][l] \in Seq(Opt(Nat))
      BY <1>1 DEF TypeOK
    <3> QED BY <3>1, LenProperties
  <2>2. \A l \in Labels : Len(NoAddresses(sec)[l]) = Len(cells[sec][l])
    BY <2>1 DEF NoAddresses
  <2> QED BY <1>1, <1>3, <2>2 DEF ForgetLabels, TypeOK
<1>4. CASE Starting
  <2>1. /\ pos' = 1 /\ sec' = sec /\ write' = [write EXCEPT ![sec] = AllLabels(1)]
        /\ read' = [read EXCEPT ![sec] = AllLabels(1)] /\ saved' = [saved EXCEPT ![sec] = AllLabels(<<>>)]
    BY <1>4 DEF Starting, Starts, Begin, ResetCounters
  <2>2. \A s \in Section, l \in Labels : Len(cells'[s][l]) = Len(cells[s][l]) /\ Len(cells[s][l]) \in Nat
    <3>1. \A s \in Section, l \in Labels : cells[s][l] \in Seq(Opt(Nat))
      BY DEF TypeOK
    <3> QED BY <1>3, <1>4, <3>1, LenProperties DEF Starting
  <2>3. \A s \in Section, l \in Labels : write'[s][l] \in 1..Len(cells'[s][l])
    <3>1. \A s \in Section, l \in Labels : write[s][l] \in 1..Len(cells'[s][l]) /\ 1 \in 1..Len(cells'[s][l])
      BY <2>2 DEF CounterInv
    <3> QED BY <1>1, <2>1, <3>1 DEF AllLabels, TypeOK
  <2>4. \A l \in Labels : read'[sec][l] = 1 /\ write'[sec][l] = 1 /\ saved'[sec][l] = <<>>
    BY <1>1, <2>1 DEF AllLabels, TypeOK
  <2>5. \A q : ~Inside(q, 1)
    <3>1. Position = 1..Len(program.op) /\ Len(program.op) \in Nat
      BY ProgramFacts DEF TypeOK
    <3> QED BY <3>1 DEF Inside
  <2> QED BY <1>1, <1>2, <2>1, <2>3, <2>4, <2>5, SameProgram DEF CounterInv
<1>5. CASE Skipping \/ Failing \/ Ending
  <2>1. pos' = 0 /\ UNCHANGED counterVars
    BY <1>5 DEF Skipping, Failing, Ending, EndSize, EndLabels, EndEmit, EndPass, passVars
  <2>2. \A s \in Section, l \in Labels : Len(cells'[s][l]) = Len(cells[s][l])
    BY <1>3, <1>5 DEF Skipping, Failing, Ending, EndSize, EndLabels, EndEmit, EndPass, passVars
  <2> QED BY <1>1, <2>1, <2>2, SameProgram DEF CounterInv, counterVars
<1>6. CASE Learning \/ Still
  <2>1. UNCHANGED <<sec, pos, cells, counterVars>>
    BY <1>6 DEF Learning, GetBase, GetKnown, Still, passVars
  <2> QED BY <1>1, <1>2, <2>1, SameProgram DEF CounterInv, counterVars
<1> QED BY <1>4, <1>5, <1>6, StepCases, MovingCounters

\* When the original has its code and its addresses, the passes left are those of the copy.
RestInv ==
  code[Original] # None /\ labels[Original] /\ (pos = 0 \/ sec # Original) =>
    \A l \in Labels : Outermost(l) => read[Original][l] = 1

LEMMA RestKeeps ==
  ASSUME TypeOK, PassInv, ResultInv, CounterInv, RestInv, [Next]_vars
  PROVE  RestInv'
<1>1. program' = program /\ sec \in Section /\ Original \in Section /\ Labels' = Labels /\ (pos # 0 <=> at \in Passes)
  BY ProgramStays, SameProgram, SectionFacts DEF TypeOK
<1>2. \A l : Outermost(l)' <=> Outermost(l)
  BY <1>1 DEF Outermost
<1>3. pos # 0 /\ sec = Original => ~(code[Original] # None /\ labels[Original])
  BY <1>1 DEF PassInv, ResultInv, Passes, Resolving
<1> SUFFICES ASSUME code'[Original] # None, labels'[Original], pos' = 0 \/ sec' # Original,
                    NEW l \in Labels, Outermost(l)
             PROVE  read'[Original][l] = 1
  BY <1>1, <1>2 DEF RestInv
<1>4. CASE Starting
  <2>1. /\ pos' = 1 /\ sec' = sec /\ read' = [read EXCEPT ![sec] = AllLabels(1)]
        /\ UNCHANGED <<code, labels>>
    BY <1>4 DEF Starting, Starts, Begin, ResetCounters, resultVars
  <2> QED BY <1>1, <2>1 DEF RestInv, TypeOK, AllLabels
<1>5. CASE Skipping \/ Failing
  <2>1. UNCHANGED <<code, labels, read>> /\ (pos = 0 \/ pos # 0)
    BY <1>5 DEF Skipping, Failing, passVars, counterVars, resultVars
  <2> QED BY <1>3, <2>1 DEF RestInv
<1>6. CASE Ending
  <2>1. pos = Len(program.op) + 1 /\ UNCHANGED read /\ pos # 0
        /\ \A s \in Section : s # sec => code'[s] = code[s] /\ labels'[s] = labels[s]
    <3>1. pos = Len(program.op) + 1 /\ Len(program.op) \in Nat
      BY <1>6, ProgramFacts DEF Ending, EndSize, EndLabels, EndEmit, AtEnd, TypeOK
    <3> QED BY <1>1, <1>6, <3>1 DEF Ending, EndSize, EndLabels, EndEmit, EndPass, counterVars, TypeOK
  <2>2. CASE sec = Original
    BY <2>1, <2>2, EndFacts
  <2>3. CASE sec # Original
    BY <1>1, <2>1, <2>3 DEF RestInv
  <2> QED BY <2>2, <2>3
<1>7. CASE Moving
  <2>1. pos' # 0 /\ sec' = sec /\ UNCHANGED <<code, labels>>
    <3>1. Len(program.op) \in Nat
      BY ProgramFacts DEF TypeOK
    <3> QED BY <1>7, <3>1, MoveFacts DEF Moving, resultVars
  <2>2. sec # Original
    BY <2>1
  <2>3. read'[Original][l] = read[Original][l]
    <3>1. CASE UNCHANGED counterVars
      BY <3>1 DEF counterVars
    <3>2. CASE SaveReadCounters(pos)
      <4> DEFINE r == pos
      <4>1. SaveReadCounters(r)
        BY <3>2
      <4> HIDE DEF r
      <4> QED BY <1>1, <2>2, <4>1, SaveFacts
    <3>3. CASE AdvanceRead(program.within[pos])
      BY <1>1, <2>2, <3>3, ReadFacts
    <3>4. CASE RestoreReadCounters(program.within[pos]) /\ CanRestore(program.within[pos])
      BY <1>1, <2>2, <3>4, RestoreFacts
    <3> QED BY <1>7, <3>1, <3>2, <3>3, <3>4
         DEF Moving, PlainMove, SkipRepeat, EnterRepeat, NextIteration, LeaveRepeat
  <2> QED BY <2>1, <2>2, <2>3 DEF RestInv
<1>8. CASE Learning \/ Still
  <2>1. UNCHANGED <<sec, pos, read, code, labels>>
    BY <1>8 DEF Learning, GetBase, GetKnown, Still, passVars, counterVars, resultVars
  <2> QED BY <2>1 DEF RestInv
<1> QED BY <1>4, <1>5, <1>6, <1>7, <1>8, StepCases

SectionInv == TypeOK /\ PassInv /\ ResultInv /\ CounterInv /\ RestInv

\* Every reachable state satisfies the invariant that OwnIteration needs: when which
\* pass runs, how far the positions of the labels are, and where they rest.
THEOREM SectionInvariance == Spec => []SectionInv
<1>1. Init => SectionInv
  <2> SUFFICES ASSUME Init PROVE SectionInv
    OBVIOUS
  <2>1. TypeOK
    BY TypeInit
  <2>2. PassInv /\ ResultInv
    BY SectionFacts DEF Init, PassInv, ResultInv, Resolving, Each
  <2>3. CounterInv /\ RestInv
    BY SectionFacts DEF Init, CounterInv, RestInv, Each, AllLabels
  <2> QED BY <2>1, <2>2, <2>3 DEF SectionInv
<1>2. SectionInv /\ [Next]_vars => SectionInv'
  BY TypeKeeps, PassKeeps, CounterKeeps, RestKeeps DEF SectionInv
<1> QED BY <1>1, <1>2, PTL DEF Spec

\* The code in a repeat reads a label where this iteration writes it, and after the code
\* the labels of outermost repeats read the first address again, in every program and
\* whatever failed before (MacroRepeat.cpp, Label.cpp).
THEOREM RepeatsReadTheirOwn == Spec => []OwnIteration
<1>1. SectionInv => OwnIteration
  <2> SUFFICES ASSUME SectionInv, NEW l \in Labels
               PROVE  /\ error = None /\ sec = Original /\ program.within[l] # 0 /\ pos > program.within[l]
                         /\ pos <= program.to[program.within[l]] =>
                           read[Original][l] = write[Original][l]
                      /\ code[Original] # None /\ labels[Original] /\ (pos = 0 \/ sec # Original) /\ Outermost(l) =>
                           read[Original][l] = 1
    BY DEF OwnIteration
  <2>1. ASSUME sec = Original, program.within[l] # 0, pos > program.within[l], pos <= program.to[program.within[l]]
        PROVE  read[Original][l] = write[Original][l]
    <3>1. l \in Position /\ program.within[l] \in Nat /\ program \in Programs /\ pos \in Nat
      BY LabelFacts, ProgramFacts DEF SectionInv, TypeOK
    <3>2. Inside(program.within[l], pos)
      BY <2>1, <3>1, BlockFacts DEF Inside
    <3>3. pos # 0
      BY <2>1, <3>1
    <3> QED BY <2>1, <3>2, <3>3 DEF SectionInv, CounterInv
  <2> QED BY <2>1 DEF SectionInv, RestInv
<1> QED BY <1>1, SectionInvariance, PTL

-----------------------------------------------------------------------------
(* An address is written once.                                             *)

\* At instruction p, the pass has been at the label in the open iteration of its repeat.
Passed(l, p) == p > l /\ (program.within[l] = 0 \/ Inside(program.within[l], p))

\* While the addresses are written, what a label has not reached yet is free.
FreshInv ==
  Resolving => \A l \in Labels, i \in Nat \ {0} :
    i <= Len(cells[sec][l]) /\ (i > write[sec][l] \/ (i = write[sec][l] /\ ~Passed(l, pos))) =>
      cells[sec][l][i] = None

\* What no pass has finished has no addresses.
BlankInv == \A s \in Section : ~labels[s] /\ ~(Resolving /\ sec = s) => cells[s] = NoAddresses(s)

NoAsserts == error # "assert"

LEMMA BlankFacts ==
  ASSUME NEW L, NEW f \in [L -> Seq(Opt(Nat))]
  PROVE  f = [l \in L |-> [i \in DOMAIN f[l] |-> None]] <=>
           \A l \in L, i \in Nat \ {0} : i <= Len(f[l]) => f[l][i] = None
<1>1. \A l \in L : DOMAIN f[l] = 1..Len(f[l]) /\ Len(f[l]) \in Nat /\ f[l] = [i \in DOMAIN f[l] |-> f[l][i]]
  BY LenProperties
<1>2. ASSUME f = [l \in L |-> [i \in DOMAIN f[l] |-> None]], NEW l \in L, NEW i \in Nat \ {0}, i <= Len(f[l])
      PROVE  f[l][i] = None
  <2>1. f[l] = [j \in DOMAIN f[l] |-> None] /\ i \in DOMAIN f[l]
    BY <1>1, <1>2
  <2> QED BY <2>1
<1>3. ASSUME \A l \in L, i \in Nat \ {0} : i <= Len(f[l]) => f[l][i] = None
      PROVE  f = [l \in L |-> [i \in DOMAIN f[l] |-> None]]
  <2>1. \A l \in L : \A i \in DOMAIN f[l] : f[l][i] = None
    BY <1>1, <1>3
  <2>2. \A l \in L : f[l] = [i \in DOMAIN f[l] |-> None]
    BY <1>1, <2>1
  <2> QED BY <2>2
<1> QED BY <1>2, <1>3

LEMMA ForgetFacts ==
  ASSUME TypeOK, ForgetLabels
  PROVE  /\ \A l \in Labels, i \in Nat \ {0} : i <= Len(cells'[sec][l]) => cells'[sec][l][i] = None
         /\ \A s \in Section : s # sec => cells'[s] = cells[s]
<1>1. sec \in Section /\ cells \in [Section -> [Labels -> Seq(Opt(Nat))]]
  BY DEF TypeOK
<1>2. cells'[sec] = NoAddresses(sec) /\ \A s \in Section : s # sec => cells'[s] = cells[s]
  BY <1>1 DEF ForgetLabels
<1>3. ASSUME NEW l \in Labels, NEW i \in Nat \ {0}, i <= Len(cells'[sec][l])
      PROVE  cells'[sec][l][i] = None
  <2>1. cells'[sec][l] = [j \in DOMAIN cells[sec][l] |-> None]
    BY <1>2 DEF NoAddresses
  <2>2. DOMAIN cells[sec][l] = 1..Len(cells[sec][l]) /\ Len(cells[sec][l]) \in Nat
    BY <1>1, LenProperties
  <2>3. Len(cells'[sec][l]) = Len(cells[sec][l])
    BY <2>1, <2>2
  <2> QED BY <1>3, <2>1, <2>2, <2>3
<1> QED BY <1>2, <1>3

\* What is in a label's list after an instruction: what was, a new end of it, or the
\* address that a labels pass wrote.
LEMMA MovedCells ==
  ASSUME TypeOK, CounterInv, Moving
  PROVE  /\ \A s \in Section : s # sec => cells'[s] = cells[s]
         /\ \A l \in Labels :
              /\ Len(cells[sec][l]) \in Nat /\ Len(cells'[sec][l]) \in Nat /\ Len(cells'[sec][l]) >= Len(cells[sec][l])
              /\ \A i \in Nat \ {0} : i <= Len(cells'[sec][l]) =>
                   cells'[sec][l][i] =
                     IF i > Len(cells[sec][l]) THEN None
                     ELSE IF Writing /\ l = pos /\ i = write[sec][l] THEN address ELSE cells[sec][l][i]
<1>1. sec \in Section /\ cells \in [Section -> [Labels -> Seq(Opt(Nat))]]
  BY DEF TypeOK
<1>2. \A l \in Labels : Len(cells[sec][l]) \in Nat /\ cells[sec][l] \in Seq(Opt(Nat))
  BY <1>1, LenProperties
<1>3. CASE UNCHANGED cells /\ ~Writing
  BY <1>2, <1>3
<1>4. CASE Writing
  <2>1. Op(pos) = "label" /\ pos \in Labels /\ cells' = [cells EXCEPT ![sec][pos][write[sec][pos]] = address]
        /\ write[sec][pos] \in 1..Len(cells[sec][pos]) /\ address \in Opt(Nat)
    BY <1>4 DEF Writing, Moving, PlainMove, SkipRepeat, EnterRepeat, NextIteration, LeaveRepeat, Labels, CounterInv,
                TypeOK, Opt
  <2>2. cells'[sec][pos] = [cells[sec][pos] EXCEPT ![write[sec][pos]] = address]
        /\ \A l \in Labels : l # pos => cells'[sec][l] = cells[sec][l]
    BY <1>1, <2>1
  <2>3. \A s \in Section : s # sec => cells'[s] = cells[s]
    BY <1>1, <2>1
  <2>4. Len(cells'[sec][pos]) = Len(cells[sec][pos])
        /\ \A i \in 1..Len(cells[sec][pos]) :
             cells'[sec][pos][i] = IF i = write[sec][pos] THEN address ELSE cells[sec][pos][i]
    BY <1>2, <2>1, <2>2, ExceptSeq
  <2> QED BY <1>2, <1>4, <2>2, <2>3, <2>4
<1>5. CASE AdvanceCells(program.within[pos]) /\ ~Writing
  <2>1. \A s \in Section, l \in Labels :
          \/ cells'[s][l] = cells[s][l]
          \/ s = sec /\ cells'[s][l] = Append(cells[s][l], None)
    BY <1>5, CellsFacts
  <2>2. ASSUME NEW l \in Labels
        PROVE  /\ Len(Append(cells[sec][l], None)) = Len(cells[sec][l]) + 1
               /\ \A i \in 1..(Len(cells[sec][l]) + 1) :
                    Append(cells[sec][l], None)[i] = IF i > Len(cells[sec][l]) THEN None ELSE cells[sec][l][i]
    <3>1. None \in Opt(Nat)
      BY DEF Opt
    <3> QED BY <1>2, <3>1, AppendProperties
  <2>3. \A s \in Section : s # sec => cells'[s] = cells[s]
    <3>1. cells' \in [Section -> [Labels -> Seq(Opt(Nat))]]
      BY <1>5, CellsFacts
    <3> QED BY <1>1, <2>1, <3>1
  <2>4. ASSUME NEW l \in Labels
        PROVE  /\ Len(cells[sec][l]) \in Nat /\ Len(cells'[sec][l]) \in Nat /\ Len(cells'[sec][l]) >= Len(cells[sec][l])
               /\ \A i \in Nat \ {0} : i <= Len(cells'[sec][l]) =>
                   cells'[sec][l][i] = IF i > Len(cells[sec][l]) THEN None ELSE cells[sec][l][i]
    <3>1. CASE cells'[sec][l] = cells[sec][l]
      BY <1>2, <3>1
    <3>2. CASE cells'[sec][l] = Append(cells[sec][l], None)
      BY <1>2, <2>2, <3>2
    <3> QED BY <1>1, <2>1, <3>1, <3>2
  <2> QED BY <1>5, <2>3, <2>4
<1>6. (UNCHANGED cells /\ ~Writing) \/ Writing \/ (AdvanceCells(program.within[pos]) /\ ~Writing)
  BY DEF Moving, PlainMove, SkipRepeat, EnterRepeat, NextIteration, LeaveRepeat, Writing
<1> QED BY <1>3, <1>4, <1>5, <1>6

\* How far the labels write after an instruction.
LEMMA MovedWrites ==
  ASSUME TypeOK, Moving
  PROVE  /\ write' \in [Section -> [Labels -> Nat]]
         /\ \A s \in Section : s # sec => write'[s] = write[s]
         /\ \A l \in Labels :
              write'[sec][l] = IF Op(pos) = "endrepeat" /\ program.within[l] = program.within[pos]
                               THEN write[sec][l] + 1 ELSE write[sec][l]
<1>1. sec \in Section /\ write \in [Section -> [Labels -> Nat]]
  BY DEF TypeOK
<1>2. CASE UNCHANGED write /\ Op(pos) # "endrepeat"
  BY <1>1, <1>2
<1>3. CASE AdvanceWrite(program.within[pos]) /\ Op(pos) = "endrepeat"
  <2> DEFINE r == program.within[pos]
  <2>1. AdvanceWrite(r)
    BY <1>3
  <2> HIDE DEF r
  <2>2. /\ write' \in [Section -> [Labels -> Nat]]
        /\ \A s \in Section, l \in Labels :
             write'[s][l] = IF s = sec /\ program.within[l] = r THEN write[s][l] + 1 ELSE write[s][l]
    BY <2>1, ReadFacts
  <2>3. \A s \in Section : s # sec => write'[s] = write[s]
    BY <1>1, <2>2
  <2> QED BY <1>1, <1>3, <2>2, <2>3 DEF r
<1> QED BY <1>2, <1>3
    DEF Moving, PlainMove, SkipRepeat, EnterRepeat, NextIteration, LeaveRepeat, counterVars, SaveReadCounters

LEMMA PassedMove ==
  ASSUME TypeOK, Moving, NEW l \in Labels, Passed(l, pos)
  PROVE  Passed(l, pos') \/ (Op(pos) = "endrepeat" /\ program.within[l] = program.within[pos])
<1>1. /\ pos \in Position /\ Position = 1..Len(program.op) /\ Len(program.op) \in Nat /\ l \in Position
      /\ program \in Programs /\ program.within[l] \in Nat /\ Op(l) = "label"
  BY MoveFacts, ProgramFacts, LabelFacts DEF TypeOK
<1>2. l < pos /\ (program.within[l] = 0 \/ Inside(program.within[l], pos))
  BY DEF Passed
<1>3. CASE NextIteration
  <2> DEFINE r == program.within[pos]
  <2>1. Op(pos) = "endrepeat" /\ pos' = r + 1 /\ r \in Position /\ program.to[r] = pos /\ Op(r) = "repeat"
    BY <1>3, MoveFacts DEF NextIteration
  <2>2. Inside(program.within[l], pos') <=> Inside(program.within[l], pos)
    BY <1>1, <2>1, AroundJump
  <2>3. CASE l <= r
    BY <1>1, <1>2, <2>1, <2>2, <2>3 DEF Passed
  <2>4. CASE ~(l <= r)
    <3>1. Inside(r, l)
      BY <1>1, <1>2, <2>1, <2>4 DEF Inside
    <3>2. r <= program.within[l]
      BY <1>1, <3>1, BlockFacts
    <3>3. program.within[l] # 0
      BY <1>1, <2>1, <3>2
    <3>4. program.within[l] <= r
      BY <1>1, <1>2, <3>3, BlockFacts
    <3> QED BY <1>1, <2>1, <3>2, <3>4
  <2> QED BY <2>3, <2>4
<1>4. CASE ~NextIteration
  <2>1. /\ Op(pos) \in {"repeat", "if", "else"} => program.to[pos] \in Position /\ program.to[pos] > pos
        /\ pos' = pos + 1 \/ (Op(pos) \in {"repeat", "if", "else"} /\ pos' = program.to[pos] + 1)
    BY <1>1, <1>4, BlockFacts DEF Moving, PlainMove, SkipRepeat, EnterRepeat, LeaveRepeat, StepOn
  <2>2. pos' > l
    BY <1>1, <1>2, <2>1
  <2>3. Inside(program.within[l], pos) => Inside(program.within[l], pos')
                                          \/ (Op(pos) = "endrepeat" /\ program.within[l] = program.within[pos])
    BY <1>1, <2>1, AroundNext, AroundJump
  <2> QED BY <1>2, <2>2, <2>3 DEF Passed
<1> QED BY <1>3, <1>4

LEMMA FreshMove ==
  ASSUME TypeOK, CounterInv, FreshInv, Moving, Resolving
  PROVE  FreshInv'
<1>1. program' = program /\ sec' = sec /\ sec \in Section /\ Labels' = Labels /\ write \in [Section -> [Labels -> Nat]]
      /\ \A l, p : Passed(l, p)' <=> Passed(l, p')
  BY SameProgram DEF Moving, outsideVars, TypeOK, Passed
<1> SUFFICES ASSUME NEW l \in Labels, NEW i \in Nat \ {0}, i <= Len(cells'[sec][l]),
                    i > write'[sec][l] \/ (i = write'[sec][l] /\ ~Passed(l, pos'))
             PROVE  cells'[sec][l][i] = None
  BY <1>1 DEF FreshInv
<1>2. write[sec][l] \in Nat /\ Len(cells[sec][l]) \in Nat
  BY <1>1, LenProperties DEF TypeOK
<1>3. CASE i > Len(cells[sec][l])
  BY <1>3, MovedCells
<1>4. CASE i <= Len(cells[sec][l]) /\ Writing /\ l = pos /\ i = write[sec][l]
  <2>1. write'[sec][l] = write[sec][l]
    BY <1>4, MovedWrites DEF Writing
  <2>2. pos' = pos + 1 /\ pos \in Position /\ program \in Programs /\ pos \in Nat
    BY <1>4, ProgramFacts DEF Writing, Moving, PlainMove, SkipRepeat, EnterRepeat, NextIteration, LeaveRepeat, TypeOK
  <2>3. Passed(l, pos')
    BY <1>4, <2>2, AroundNext, BlockFacts DEF Passed, Writing
  <2> QED BY <1>2, <1>4, <2>1, <2>3
<1>5. CASE i <= Len(cells[sec][l]) /\ ~(Writing /\ l = pos /\ i = write[sec][l])
  <2>1. cells'[sec][l][i] = cells[sec][l][i]
    BY <1>2, <1>5, MovedCells
  <2>2. i > write[sec][l] \/ (i = write[sec][l] /\ ~Passed(l, pos))
    BY <1>2, MovedWrites, PassedMove
  <2> QED BY <1>5, <2>1, <2>2 DEF FreshInv
<1> QED BY <1>2, <1>3, <1>4, <1>5

LEMMA FreshKeeps ==
  ASSUME TypeOK, PassInv, CounterInv, FreshInv, BlankInv, [Next]_vars
  PROVE  FreshInv' /\ BlankInv'
<1>1. program' = program /\ sec \in Section /\ Labels' = Labels /\ Section' = Section /\ (pos # 0 <=> at \in Passes)
      /\ TypeOK' /\ \A l, p : Passed(l, p)' <=> Passed(l, p')
  BY ProgramStays, SameProgram, TypeKeeps DEF TypeOK, Passed
<1>2. \A s \in Section : cells[s] = NoAddresses(s) <=>
        \A l \in Labels, i \in Nat \ {0} : i <= Len(cells[s][l]) => cells[s][l][i] = None
  <2>1. \A s \in Section : cells[s] \in [Labels -> Seq(Opt(Nat))]
    BY DEF TypeOK
  <2> QED BY <2>1, BlankFacts DEF NoAddresses
<1>3. \A s \in Section : (cells[s] = NoAddresses(s))' <=>
        \A l \in Labels, i \in Nat \ {0} : i <= Len(cells'[s][l]) => cells'[s][l][i] = None
  <2> SUFFICES ASSUME NEW s \in Section
               PROVE  (cells[s] = NoAddresses(s))' <=>
                        \A l \in Labels, i \in Nat \ {0} : i <= Len(cells'[s][l]) => cells'[s][l][i] = None
    OBVIOUS
  <2> DEFINE f == cells'[s]
  <2>1. f \in [Labels -> Seq(Opt(Nat))]
    BY <1>1 DEF TypeOK
  <2>2. NoAddresses(s)' = [l \in Labels |-> [i \in DOMAIN f[l] |-> None]]
    BY <1>1 DEF NoAddresses
  <2>3. (cells[s] = NoAddresses(s))' <=> f = [l \in Labels |-> [i \in DOMAIN f[l] |-> None]]
    BY <2>2
  <2> HIDE DEF f
  <2>4. f = [l \in Labels |-> [i \in DOMAIN f[l] |-> None]] <=>
          \A l \in Labels, i \in Nat \ {0} : i <= Len(f[l]) => f[l][i] = None
    BY <2>1, BlankFacts
  <2> QED BY <2>3, <2>4 DEF f
<1>4. CASE Starting
  <2>1. /\ sec' = sec /\ UNCHANGED labels
        /\ \/ UNCHANGED cells /\ pos = 0 /\ (Resolving' => ~labels[sec])
           \/ ForgetLabels /\ ~Resolving'
    BY <1>4 DEF Starting, Starts, Begin, resultVars, Resolving
  <2>2. pos = 0 => ~Resolving
    BY <1>1 DEF Resolving, Passes
  <2>3. CASE UNCHANGED cells /\ pos = 0 /\ (Resolving' => ~labels[sec])
    BY <1>1, <1>2, <1>3, <2>1, <2>2, <2>3 DEF FreshInv, BlankInv
  <2>4. CASE ForgetLabels /\ ~Resolving'
    BY <1>1, <1>2, <1>3, <2>1, <2>4, ForgetFacts DEF FreshInv, BlankInv
  <2> QED BY <2>1, <2>3, <2>4
<1>5. CASE Skipping \/ Failing \/ Ending
  <2>1. ~Resolving'
    BY <1>5 DEF Skipping, Failing, Ending, EndSize, EndLabels, EndEmit, EndPass, GoTo, NextFile, Resolving
  <2>2. CASE Resolving /\ Failing
    <3>1. ForgetLabels /\ UNCHANGED labels
      BY <2>2 DEF Failing, Resolving, resultVars
    <3> QED BY <1>1, <1>2, <1>3, <2>1, <3>1, ForgetFacts DEF FreshInv, BlankInv
  <2>3. CASE Resolving /\ Ending
    <3>1. UNCHANGED cells /\ labels'[sec] /\ \A s \in Section : labels[s] => labels'[s]
      BY <1>1, <2>3 DEF Ending, EndSize, EndLabels, EndEmit, EndPass, Resolving, Emitting, TypeOK
    <3> QED BY <1>1, <1>2, <1>3, <2>1, <3>1 DEF FreshInv, BlankInv
  <2>4. CASE ~Resolving
    <3>1. UNCHANGED cells /\ \A s \in Section : labels[s] => labels'[s]
      BY <1>1, <1>5, <2>4
         DEF Skipping, Failing, Ending, EndSize, EndLabels, EndEmit, EndPass, Resolving, passVars, resultVars, TypeOK
    <3> QED BY <1>1, <1>2, <1>3, <2>1, <2>4, <3>1 DEF FreshInv, BlankInv
  <2>5. ~(Resolving /\ Skipping)
    BY <1>1 DEF Resolving, Passes, Skipping
  <2> QED BY <1>5, <2>2, <2>3, <2>4, <2>5
<1>6. CASE Moving
  <2>1. sec' = sec /\ UNCHANGED <<at, labels>>
    BY <1>6 DEF Moving, resultVars
  <2>2. FreshInv'
    <3>1. CASE Resolving
      BY <1>6, <3>1, FreshMove
    <3>2. CASE ~Resolving
      BY <2>1, <3>2 DEF FreshInv, Resolving
    <3> QED BY <3>1, <3>2
  <2>3. BlankInv'
    <3> SUFFICES ASSUME NEW s \in Section, ~labels[s], ~(Resolving /\ sec = s)
                 PROVE  (cells[s] = NoAddresses(s))'
      BY <1>1, <2>1 DEF BlankInv, Resolving
    <3>1. CASE s # sec
      BY <1>2, <1>3, <1>6, <3>1, MovedCells DEF BlankInv
    <3>2. CASE s = sec
      <4>1. ~Writing
        BY <3>2 DEF Writing
      <4> QED BY <1>2, <1>3, <1>6, <3>2, <4>1, MovedCells DEF BlankInv
    <3> QED BY <3>1, <3>2
  <2> QED BY <2>2, <2>3
<1>7. CASE Learning \/ Still
  <2>1. UNCHANGED <<sec, at, pos, cells, write, labels>>
    BY <1>7 DEF Learning, GetBase, GetKnown, Still, passVars, counterVars, resultVars
  <2> QED BY <1>1, <1>2, <1>3, <2>1 DEF FreshInv, BlankInv, Resolving
<1> QED BY <1>4, <1>5, <1>6, <1>7, StepCases

\* The assertions of Label hold: Label.cpp:46, 188 and 228.
LEMMA AssertsKeep ==
  ASSUME TypeOK, CounterInv, FreshInv, NoAsserts, [Next]_vars
  PROVE  NoAsserts'
<1>1. ~(AtLabel /\ Throw("assert"))
  <2> SUFFICES ASSUME AtLabel, Throw("assert") PROVE FALSE
    OBVIOUS
  <2>1. pos \in Position /\ Op(pos) = "label" /\ error = None /\ error' = "assert"
    BY DEF AtLabel, Here, Throw
  <2>2. Resolving /\ cells[sec][pos][write[sec][pos]] # None
    BY <2>1, ProgramSectionAssumption DEF AtLabel, SetsOwn, Errors
  <2>3. pos \in Labels /\ write[sec][pos] \in 1..Len(cells[sec][pos]) /\ Len(cells[sec][pos]) \in Nat
    BY <2>1, LenProperties DEF Labels, CounterInv, TypeOK
  <2>4. ~Passed(pos, pos)
    BY ProgramFacts DEF Passed, TypeOK
  <2> QED BY <2>2, <2>3, <2>4 DEF FreshInv
<1>2. ~(AtEndRepeat /\ Throw("assert"))
  <2> SUFFICES ASSUME AtEndRepeat, Throw("assert") PROVE FALSE
    OBVIOUS
  <2>1. pos \in Position /\ Op(pos) = "endrepeat" /\ error = None /\ error' = "assert"
    BY DEF AtEndRepeat, Here, Throw
  <2>2. ~(CanAdvance(program.within[pos]) /\ CanRestore(program.within[pos]))
    BY <2>1, ProgramSectionAssumption DEF AtEndRepeat, Errors
  <2>3. Inside(program.within[pos], pos) /\ pos # 0
    BY <2>1, BlockFacts, ProgramFacts DEF TypeOK
  <2>4. ASSUME NEW l \in LabelsOf(program.within[pos])
        PROVE  (read[sec][l] < Len(cells[sec][l]) \/ AtLast(l)) /\ saved[sec][l] # <<>>
    <3>1. l \in Labels /\ program.within[l] = program.within[pos]
      BY DEF LabelsOf
    <3>2. /\ read[sec][l] = write[sec][l] /\ \E w \in Nat : saved[sec][l] = <<w>>
      BY <2>3, <3>1 DEF CounterInv
    <3>3. write[sec][l] \in 1..Len(cells[sec][l]) /\ Len(cells[sec][l]) \in Nat
      BY <3>1, LenProperties DEF CounterInv, TypeOK
    <3> QED BY <3>2, <3>3 DEF AtLast
  <2> QED BY <2>2, <2>4 DEF CanAdvance, CanRestore
<1>3. /\ error' = error \/ error' \in {"64K", "mismatch", "no size", "ensure"}
         \/ (AtLabel /\ Throw("assert")) \/ (AtEndRepeat /\ Throw("assert"))
  <2>1. CASE AtLabel \/ AtEndRepeat
    BY <2>1 DEF AtLabel, AtEndRepeat
  <2>2. CASE AtData \/ AtDefs \/ AtEnsure \/ AtRepeat \/ AtIf \/ AtElse \/ OutOfRange
    BY <2>2 DEF AtData, AtDefs, AtEnsure, AtRepeat, AtIf, AtElse, OutOfRange, Throw
  <2>3. CASE EndSize \/ EndLabels \/ EndEmit \/ RejectEmit
    BY <2>3 DEF EndSize, EndLabels, EndEmit, RejectEmit, EndPass, Throw
  <2>4. CASE TryResolve \/ GetBase \/ GetKnown \/ Finished \/ UNCHANGED vars
    BY <2>4 DEF TryResolve, Construct, Try, TryLabels, Pack, Emit, GetBase, GetKnown, Finished, vars
  <2> QED BY <2>1, <2>2, <2>3, <2>4 DEF Next, Pass
<1> QED BY <1>1, <1>2, <1>3 DEF NoAsserts

-----------------------------------------------------------------------------
(* What every pass goes through.                                           *)

\* DEFS keeps the length that its expression has.
DefsInv == \A s \in Section, p \in Position : Op(p) = "defs" /\ mSize[s][p] # None => mSize[s][p] = program.arg[p]

\* How far a pass is: the instruction, the variables of the open repeats, the positions
\* the labels write at, and the length so far.
Values == [q \in Position |-> IF Inside(q, pos) THEN mValue[sec][q] ELSE 0]
NoValues == [q \in Position |-> 0]
Cur == [pos |-> pos, val |-> Values, write |-> write[sec], len |-> address - start]
Beginning == [pos |-> 1, val |-> NoValues, write |-> AllLabels(1), len |-> 0]

\* A copy sees the variables m of another listing: they stand still while it is passed.
Own == <<>>
Seen == IF sec = Original THEN Own ELSE mValue[Original]
ValueAt(m, c, p) ==
  IF program.kind[p] # "var" THEN program.arg[p]
  ELSE IF m = Own THEN c.val[program.within[p]] ELSE m[program.within[p]]
Again(m, c) == c.val[program.within[c.pos]] + 1 < ValueAt(m, c, program.within[c.pos])

\* Which instruction comes next, and the variables there.
NextPos(m, c) ==
  IF Op(c.pos) = "else" \/ (Op(c.pos) \in {"if", "repeat"} /\ ValueAt(m, c, c.pos) = 0) THEN program.to[c.pos] + 1
  ELSE IF Op(c.pos) = "endrepeat" /\ Again(m, c) THEN program.within[c.pos] + 1 ELSE c.pos + 1
NextVal(m, c) ==
  [q \in Position |-> IF Op(c.pos) = "endrepeat" /\ q = program.within[c.pos]
                      THEN (IF Again(m, c) THEN c.val[q] + 1 ELSE 0) ELSE c.val[q]]

\* In a faithful listing what comes next does not depend on the pass, on what is known
\* of other sections, or on what earlier passes left behind.
Follow(c) ==
  [pos |-> NextPos(Own, c), val |-> NextVal(Own, c),
   write |-> [l \in Labels |-> IF Op(c.pos) = "endrepeat" /\ program.within[l] = program.within[c.pos]
                               THEN c.write[l] + 1 ELSE c.write[l]],
   len |-> c.len + (IF Op(c.pos) \in {"data", "use", "ext", "here"} THEN Bytes(c.pos)
                    ELSE IF Op(c.pos) = "defs" THEN ValueAt(Own, c, c.pos) ELSE 0)]

\* C has all that a pass that goes on goes through.
Closed(C) == Beginning \in C /\ \A c \in C : c.pos \in Position => Follow(c) \in C

\* The variables of open repeats are all that an instruction names.
LEMMA CurValue ==
  ASSUME TypeOK, NEW m, m = Seen \/ (Faithful(sec) /\ m = Own), NEW c, c.pos = pos, c.val = Values,
         NEW p \in Position, pos \in Position, p = pos \/ (Op(pos) = "endrepeat" /\ p = program.within[pos])
  PROVE  ValueAt(m, c, p) = ValueOf(p)
<1>1. CASE program.kind[p] # "var"
  BY <1>1 DEF ValueAt, ValueOf
<1>2. CASE program.kind[p] = "var"
  <2>2. Inside(program.within[p], p) /\ program \in Programs
    BY <1>2, BlockFacts DEF TypeOK
  <2>3. Inside(program.within[p], pos)
    <3>1. CASE p = pos
      BY <2>2, <3>1
    <3>2. CASE Op(pos) = "endrepeat" /\ p = program.within[pos]
      <4>1. Op(p) = "repeat" /\ program.to[p] = pos
        BY <2>2, <3>2, BlockFacts DEF Inside
      <4>2. Inside(program.within[p], pos + 1)
        BY <2>2, <4>1, AroundJump
      <4> QED BY <2>2, <3>2, <4>2, AroundNext
    <3> QED BY <3>1, <3>2
  <2>4. program.within[p] \in Position
    BY <2>2 DEF Inside
  <2>5. c.val[program.within[p]] = mValue[sec][program.within[p]]
    BY <2>3, <2>4 DEF Values
  <2>6. sec = Original => m = Own
    BY DEF Seen
  <2>7. sec # Original => m = mValue[Original] /\ m # Own
    <3> SUFFICES ASSUME sec # Original PROVE m = mValue[Original] /\ m # Own
      OBVIOUS
    <3>1. m = mValue[Original]
      BY <1>2 DEF Faithful, Seen
    <3>2. program.within[p] \in DOMAIN mValue[Original]
      BY <2>4, SectionFacts DEF TypeOK
    <3> QED BY <3>1, <3>2 DEF Own
  <2> QED BY <1>2, <2>5, <2>6, <2>7 DEF ValueAt, ValueOf
<1> QED BY <1>1, <1>2

\* A move goes where the instruction and the variables say.
LEMMA MoveNext ==
  ASSUME TypeOK, Moving, NEW m, m = Seen \/ (Faithful(sec) /\ m = Own), NEW c, c.pos = pos, c.val = Values
  PROVE  pos' = NextPos(m, c) /\ Values' = NextVal(m, c)
<1>1. /\ program' = program /\ sec' = sec /\ sec \in Section /\ pos \in Position /\ program \in Programs
      /\ Position' = Position /\ mValue \in [Section -> [Position -> Nat]]
      /\ Position = 1..Len(program.op) /\ Len(program.op) \in Nat /\ pos \in Nat
      /\ \A q : Inside(q, pos)' <=> Inside(q, pos')
  BY SameProgram, ProgramFacts DEF Moving, TypeOK, outsideVars, Inside
<1>2. ValueAt(m, c, pos) = ValueOf(pos)
  BY <1>1, CurValue
<1>3. Op(pos) = "endrepeat" => (Again(m, c) <=> mValue[sec][program.within[pos]] + 1 < ValueOf(program.within[pos]))
  <2> SUFFICES ASSUME Op(pos) = "endrepeat"
               PROVE  Again(m, c) <=> mValue[sec][program.within[pos]] + 1 < ValueOf(program.within[pos])
    OBVIOUS
  <2> DEFINE r == program.within[pos]
  <2>1. r \in Position /\ Inside(r, pos)
    BY MoveFacts
  <2>2. ValueAt(m, c, r) = ValueOf(r)
    BY <1>1, <2>1, CurValue
  <2>3. c.val[r] = mValue[sec][r]
    BY <2>1 DEF Values
  <2> QED BY <2>2, <2>3 DEF Again
<1>4. pos' = NextPos(m, c)
  <2>1. NextPos(m, c) =
           IF Op(pos) = "else" \/ (Op(pos) \in {"if", "repeat"} /\ ValueOf(pos) = 0) THEN program.to[pos] + 1
           ELSE IF Op(pos) = "endrepeat" /\ Again(m, c) THEN program.within[pos] + 1 ELSE pos + 1
    BY <1>2 DEF NextPos
  <2>2. CASE PlainMove
    BY <2>1, <2>2 DEF PlainMove, Holds
  <2>3. CASE SkipRepeat \/ EnterRepeat
    BY <2>1, <2>3 DEF SkipRepeat, EnterRepeat, StepOn
  <2>4. CASE NextIteration \/ LeaveRepeat
    BY <1>3, <2>1, <2>4 DEF NextIteration, LeaveRepeat, StepOn
  <2> QED BY <2>2, <2>3, <2>4 DEF Moving
<1>5. Values' = NextVal(m, c)
  <2>1. Values' = [q \in Position |-> IF Inside(q, pos') THEN mValue'[sec][q] ELSE 0]
    BY <1>1 DEF Values
  <2> SUFFICES ASSUME NEW q \in Position
               PROVE  (IF Inside(q, pos') THEN mValue'[sec][q] ELSE 0) =
                      (IF Op(pos) = "endrepeat" /\ q = program.within[pos]
                       THEN (IF Again(m, c) THEN c.val[q] + 1 ELSE 0) ELSE c.val[q])
    BY <2>1 DEF NextVal
  <2>2. c.val[q] = IF Inside(q, pos) THEN mValue[sec][q] ELSE 0
    BY DEF Values
  <2>3. CASE PlainMove \/ SkipRepeat
    <3>1. Inside(q, pos') <=> Inside(q, pos)
      <4>1. Op(pos) \in {"if", "else", "repeat"} => program.to[pos] \in Position /\ program.to[pos] > pos
        BY <1>1, BlockFacts
      <4> QED BY <1>1, <2>3, <4>1, AroundNext, AroundJump DEF PlainMove, SkipRepeat
    <3>2. mValue' = mValue /\ Op(pos) # "endrepeat"
      BY <2>3 DEF PlainMove, SkipRepeat
    <3> QED BY <2>2, <3>1, <3>2
  <2>4. CASE EnterRepeat
    <3>1. ~Inside(pos, pos)
      BY <1>1 DEF Inside
    <3>2. (Inside(q, pos') <=> Inside(q, pos) \/ q = pos) /\ Op(pos) = "repeat"
      BY <1>1, <2>4, AroundNext DEF EnterRepeat, StepOn
    <3>3. mValue'[sec][q] = IF q = pos THEN 0 ELSE mValue[sec][q]
      BY <1>1, <2>4 DEF EnterRepeat, Restart
    <3> QED BY <2>2, <3>1, <3>2, <3>3
  <2>5. CASE NextIteration
    <3>1. Op(pos) = "endrepeat" /\ Inside(program.within[pos], pos) /\ Again(m, c)
          /\ (Inside(q, pos') <=> Inside(q, pos))
      BY <1>1, <1>3, <2>5, AroundJump, MoveFacts DEF NextIteration
    <3>2. mValue'[sec][q] = IF q = program.within[pos] THEN mValue[sec][q] + 1 ELSE mValue[sec][q]
      BY <1>1, <2>5, MoveFacts DEF NextIteration
    <3> QED BY <2>2, <3>1, <3>2
  <2>6. CASE LeaveRepeat
    <3>1. Op(pos) = "endrepeat" /\ ~Again(m, c) /\ (Inside(q, pos') <=> Inside(q, pos) /\ q # program.within[pos])
      BY <1>1, <1>3, <2>6, AroundNext, MoveFacts DEF LeaveRepeat, StepOn
    <3>2. q # program.within[pos] => mValue'[sec][q] = mValue[sec][q]
      BY <1>1, <2>6, MoveFacts DEF LeaveRepeat
    <3> QED BY <2>2, <3>1, <3>2
  <2> QED BY <2>3, <2>4, <2>5, <2>6 DEF Moving
<1> QED BY <1>4, <1>5

LEMMA MoveFollows ==
  ASSUME TypeOK, Moving, DefsInv, FixedSizes, Faithful(sec)
  PROVE  Cur' = Follow(Cur)
<1>1. /\ program' = program /\ sec' = sec /\ sec \in Section /\ pos \in Position /\ program \in Programs
      /\ start' = start /\ address \in Nat /\ start \in Nat
      /\ write \in [Section -> [Labels -> Nat]]
  BY ProgramFacts DEF Moving, TypeOK, outsideVars
<1>2. Cur.pos = pos /\ Cur.len = address - start /\ Cur.write = write[sec] /\ Cur.val = Values
  BY DEF Cur
<1>3. ValueAt(Own, Cur, pos) = ValueOf(pos)
  <2> HIDE DEF Cur
  <2> QED BY <1>1, <1>2, CurValue
<1>4. pos' = Follow(Cur).pos /\ Values' = Follow(Cur).val
  <2> HIDE DEF Cur
  <2> QED BY <1>2, MoveNext DEF Follow
<1>5. write'[sec] = Follow(Cur).write
  <2>1. write'[sec] = [l \in Labels |-> write'[sec][l]]
    BY <1>1, MovedWrites
  <2>2. Follow(Cur).write = [l \in Labels |-> IF Op(pos) = "endrepeat" /\ program.within[l] = program.within[pos]
                                              THEN write[sec][l] + 1 ELSE write[sec][l]]
    BY <1>2 DEF Follow
  <2> QED BY <2>1, <2>2, MovedWrites
<1>6. address' - start = Follow(Cur).len
  <2>1. Follow(Cur).len = (address - start) + (IF Op(pos) \in {"data", "use", "ext", "here"} THEN Bytes(pos)
                                               ELSE IF Op(pos) = "defs" THEN ValueOf(pos) ELSE 0)
    BY <1>2, <1>3 DEF Follow
  <2>2. CASE PlainMove
    <3>1. Op(pos) = "defs" => program.kind[pos] # "var" /\ ValueOf(pos) = program.arg[pos]
      BY <1>1, ProgramFacts DEF FixedSizes, Op, ValueOf
    <3>2. Op(pos) = "defs" /\ Emitting => mSize[sec][pos] = ValueOf(pos)
      BY <1>1, <2>2, <3>1 DEF PlainMove, DefsInv
    <3>3. address' = address + (IF Op(pos) \in {"data", "use", "ext", "here"} THEN Bytes(pos)
                                               ELSE IF Op(pos) = "defs" THEN ValueOf(pos) ELSE 0)
      BY <2>2, <3>2 DEF PlainMove, Room
    <3>4. ValueOf(pos) \in Nat /\ Bytes(pos) \in Nat
      BY <1>1, LabelFacts
    <3> QED BY <1>1, <2>1, <3>3, <3>4
  <2>3. CASE ~PlainMove
    <3>1. address' = address /\ Op(pos) \in {"repeat", "endrepeat"}
      BY <2>3 DEF Moving, SkipRepeat, EnterRepeat, NextIteration, LeaveRepeat
    <3> QED BY <1>1, <2>1, <3>1
  <2> QED BY <2>2, <2>3
<1>7. Cur' = [pos |-> pos', val |-> Values', write |-> write'[sec], len |-> address' - start]
  BY <1>1 DEF Cur
<1>8. Follow(Cur) = [pos |-> Follow(Cur).pos, val |-> Follow(Cur).val, write |-> Follow(Cur).write, len |-> Follow(Cur).len]
  BY DEF Follow
<1> HIDE DEF Cur, Follow
<1> QED BY <1>4, <1>5, <1>6, <1>7, <1>8

\* Label addresses f of a listing at base b are right where c is.
Right(c, b, f) ==
  c.pos \in Labels =>
    /\ c.write[c.pos] \in 1..Len(f[c.pos]) /\ f[c.pos][c.write[c.pos]] # None
    /\ f[c.pos][c.write[c.pos]] = b + c.len

\* What this pass has gone through so far; a labels pass wrote down the addresses.
Trail(C) ==
  /\ Beginning \in C /\ Cur \in C
  /\ \A c \in C : c = Cur \/ (c.pos \in Position /\ Follow(c) \in C /\ (Resolving => Right(c, base[sec], cells[sec])))

PathInv == pos # 0 /\ Faithful(sec) => (\E C : Trail(C)) /\ \A C : Closed(C) => Cur \in C

\* A listing with labels has them right wherever a pass can be.
LabelledInv ==
  \A s \in Section : labels[s] /\ Faithful(s) => \E C : Closed(C) /\ \A c \in C : Right(c, base[s], cells[s])

\* Whatever gets to the end is n bytes long.
Takes(n) == \E C : Closed(C) /\ \A c \in C : c.pos \notin Position => c.len = n
SizedInv ==
  \A s \in Section : Faithful(s) =>
    /\ mCalculatedSize[s] # None => Takes(mCalculatedSize[s])
    /\ ~program.packed /\ size[s] # None => Takes(size[s])

LEMMA SameFollow ==
  ASSUME program' = program
  PROVE  /\ Beginning' = Beginning
         /\ \A c : Follow(c)' = Follow(c)
         /\ \A C : Closed(C)' <=> Closed(C)
         /\ \A s : Faithful(s)' <=> Faithful(s)
         /\ \A n : Takes(n)' <=> Takes(n)
         /\ \A c, b, f : Right(c, b, f)' <=> Right(c, b, f)
<1>1. Position' = Position /\ Labels' = Labels
  BY SameProgram
<1>2. Beginning' = Beginning
  BY <1>1 DEF Beginning, NoValues, AllLabels
<1>3. \A c : Follow(c)' = Follow(c)
  BY <1>1 DEF Follow, NextPos, NextVal, ValueAt, Again, Own, Op, Bytes
<1>4. \A C : Closed(C)' <=> Closed(C)
  <2> HIDE DEF Follow, Beginning
  <2> QED BY <1>1, <1>2, <1>3 DEF Closed
<1>5. \A s : Faithful(s)' <=> Faithful(s)
  BY <1>1 DEF Faithful
<1>6. \A n : Takes(n)' <=> Takes(n)
  <2> HIDE DEF Closed
  <2> QED BY <1>1, <1>4 DEF Takes
<1>7. \A c, b, f : Right(c, b, f)' <=> Right(c, b, f)
  BY <1>1 DEF Right
<1> QED BY <1>2, <1>3, <1>4, <1>5, <1>6, <1>7

\* Right addresses stay where they are: they are not written over.
LEMMA RightStays ==
  ASSUME TypeOK, CounterInv, Moving, NEW CONSTANT c, NEW CONSTANT s \in Section, Right(c, base[s], cells[s])
  PROVE  Right(c, base[s], cells'[s])
<1>1. CASE s # sec
  BY <1>1, MovedCells
<1>2. CASE s = sec
  <2> SUFFICES ASSUME c.pos \in Labels
               PROVE  /\ c.write[c.pos] \in 1..Len(cells'[s][c.pos])
                      /\ cells'[s][c.pos][c.write[c.pos]] = cells[s][c.pos][c.write[c.pos]]
    BY DEF Right
  <2> DEFINE l == c.pos
             i == c.write[c.pos]
  <2>1. /\ l \in Labels /\ i \in 1..Len(cells[sec][l]) /\ cells[sec][l][i] # None
    BY <1>2 DEF Right
  <2> HIDE DEF l, i
  <2>2. /\ Len(cells[sec][l]) \in Nat /\ Len(cells'[sec][l]) \in Nat /\ Len(cells'[sec][l]) >= Len(cells[sec][l])
    BY <2>1, MovedCells
  <2>3. i \in Nat \ {0} /\ i <= Len(cells[sec][l]) /\ i <= Len(cells'[sec][l])
    BY <2>1, <2>2
  <2>4. ~(Writing /\ l = pos /\ i = write[sec][l])
    BY <2>1 DEF Moving, PlainMove, SkipRepeat, EnterRepeat, NextIteration, LeaveRepeat, Writing
  <2>5. cells'[sec][l][i] = cells[sec][l][i]
    BY <2>1, <2>2, <2>3, <2>4, MovedCells
  <2> QED BY <1>2, <2>2, <2>3, <2>5 DEF l, i
<1> QED BY <1>1, <1>2

\* An address that a labels pass has just written is right.
LEMMA RightNow ==
  ASSUME TypeOK, PassInv, CounterInv, Moving, Resolving, NEW CONSTANT c, c = Cur
  PROVE  Right(c, base[sec], cells'[sec])
<1> SUFFICES ASSUME pos \in Labels
             PROVE  /\ write[sec][pos] \in 1..Len(cells'[sec][pos])
                    /\ cells'[sec][pos][write[sec][pos]] = address
                    /\ address # None /\ address = base[sec] + (address - start)
  BY DEF Right, Cur
<1>1. Writing
  BY LabelFacts DEF Writing
<1>2. write[sec][pos] \in 1..Len(cells[sec][pos])
  BY DEF CounterInv, TypeOK
<1>3. /\ Len(cells[sec][pos]) \in Nat /\ Len(cells'[sec][pos]) \in Nat /\ Len(cells'[sec][pos]) >= Len(cells[sec][pos])
  BY MovedCells
<1>4. write[sec][pos] \in Nat \ {0} /\ write[sec][pos] <= Len(cells[sec][pos])
      /\ write[sec][pos] <= Len(cells'[sec][pos])
  BY <1>2, <1>3
<1>5. cells'[sec][pos][write[sec][pos]] = address
  BY <1>1, <1>3, <1>4, MovedCells
<1>6. address # None /\ address = base[sec] + (address - start)
  BY ProgramSectionAssumption DEF TypeOK, PassInv
<1> QED BY <1>3, <1>4, <1>5, <1>6

LEMMA PathMove ==
  ASSUME TypeOK, PassInv, CounterInv, DefsInv, FixedSizes, PathInv, Moving
  PROVE  PathInv'
<1>1. program' = program /\ sec' = sec /\ sec \in Section /\ pos \in Position /\ pos # 0 /\ base' = base /\ at' = at
  BY ProgramFacts DEF Moving, TypeOK, outsideVars
<1>2. /\ Position' = Position /\ Labels' = Labels /\ (Faithful(sec)' <=> Faithful(sec)) /\ Beginning' = Beginning
      /\ \A c : Follow(c)' = Follow(c)
      /\ \A C : Closed(C)' <=> Closed(C)
      /\ \A c, b, f : Right(c, b, f)' <=> Right(c, b, f)
  BY <1>1, SameProgram, SameFollow
<1> SUFFICES ASSUME Faithful(sec)
             PROVE  (\E C : Trail(C))' /\ \A C : Closed(C) => Cur' \in C
  BY <1>1, <1>2 DEF PathInv
<1>3. Cur' = Follow(Cur)
  BY MoveFollows
<1>4. ASSUME NEW CONSTANT C, Closed(C)
      PROVE  Cur' \in C
  <2>1. Cur \in C /\ Cur.pos = pos
    BY <1>1, <1>4 DEF PathInv, Cur
  <2> HIDE DEF Cur, Follow
  <2> QED BY <1>1, <1>3, <1>4, <2>1 DEF Closed
<1>5. PICK C : Trail(C)
  BY <1>1 DEF PathInv
<1>6. \A D : Trail(D)' <=>
        /\ Beginning \in D /\ Cur' \in D
        /\ \A c \in D : c = Cur' \/ /\ c.pos \in Position /\ Follow(c) \in D
                                    /\ Resolving => Right(c, base[sec], cells'[sec])
  <2> HIDE DEF Cur, Follow, Right, Beginning
  <2>1. Resolving' <=> Resolving
    BY <1>1 DEF Resolving
  <2> QED BY <1>1, <1>2, <2>1 DEF Trail
<1>7. PICK D : D = C \cup {Cur'}
  OBVIOUS
<1>8. ASSUME NEW CONSTANT c \in D, c # Cur'
      PROVE  c.pos \in Position /\ Follow(c) \in D /\ (Resolving => Right(c, base[sec], cells'[sec]))
  <2>1. c \in C
    BY <1>7, <1>8
  <2>2. CASE c = Cur
    <3>1. Cur.pos = pos
      BY DEF Cur
    <3>2. Resolving => Right(c, base[sec], cells'[sec])
      BY <2>2, RightNow
    <3> HIDE DEF Cur, Follow, Right
    <3> QED BY <1>1, <1>3, <1>7, <2>2, <3>1, <3>2
  <2>3. CASE c # Cur
    <3>1. c.pos \in Position /\ Follow(c) \in C /\ (Resolving => Right(c, base[sec], cells[sec]))
      BY <1>5, <2>1, <2>3 DEF Trail
    <3>2. PICK s \in Section : s = sec
      BY <1>1
    <3>3. Resolving => Right(c, base[s], cells'[s])
      BY <3>1, <3>2, RightStays
    <3> HIDE DEF Cur, Follow, Right
    <3> QED BY <1>7, <3>1, <3>2, <3>3
  <2> QED BY <2>2, <2>3
<1>9. Beginning \in D /\ Cur' \in D
  BY <1>5, <1>7 DEF Trail
<1> HIDE DEF Cur, Follow, Right, Beginning
<1>10. Trail(D)'
  BY <1>6, <1>8, <1>9
<1> QED BY <1>4, <1>10

LEMMA PathStart ==
  ASSUME TypeOK, Starting
  PROVE  PathInv'
<1>1. /\ program' = program /\ sec' = sec /\ sec \in Section /\ pos' = 1 /\ address' = start' /\ start' \in Nat
      /\ write' = [write EXCEPT ![sec] = AllLabels(1)] /\ Labels' = Labels /\ Position' = Position
      /\ write \in [Section -> [Labels -> Nat]]
  <2>1. TypeOK'
    BY StartingTypes
  <2>2. program' = program /\ sec' = sec /\ pos' = 1 /\ address' = start' /\ write' = [write EXCEPT ![sec] = AllLabels(1)]
    BY DEF Starting, Starts, Begin, ResetCounters, outsideVars
  <2> QED BY <2>1, <2>2, SameProgram DEF TypeOK
<1>2. Cur' = Beginning
  <2>1. \A q : ~Inside(q, pos)'
    <3>1. Position = 1..Len(program.op) /\ Len(program.op) \in Nat
      BY ProgramFacts DEF TypeOK
    <3>2. \A q : ~Inside(q, 1)
      BY <3>1 DEF Inside
    <3> QED BY <1>1, <3>2, SameProgram DEF Inside
  <2>2. write'[sec] = AllLabels(1)
    BY <1>1
  <2>3. address' - start' = 0
    <3>1. \A n \in Nat : n - n = 0
      OBVIOUS
    <3> QED BY <1>1, <3>1
  <2> QED BY <1>1, <2>1, <2>2, <2>3 DEF Cur, Values, Beginning, NoValues
<1>3. \A C : Closed(C)' => Cur' \in C
  <2> HIDE DEF Cur, Beginning
  <2> QED BY <1>1, <1>2, SameFollow DEF Closed
<1>4. PICK C : C = {Cur'}
  OBVIOUS
<1>5. Trail(C)'
  <2> HIDE DEF Cur, Beginning
  <2> QED BY <1>1, <1>2, <1>4, SameFollow DEF Trail
<1> QED BY <1>3, <1>5 DEF PathInv

\* What a pass that got to the end went through is all that any pass can go through.
LEMMA EndTrail ==
  ASSUME TypeOK, pos = Len(program.op) + 1, NEW CONSTANT C, Trail(C)
  PROVE  /\ Closed(C) /\ \A c \in C : c.pos \notin Position => c.len = Length
         /\ Resolving => \A c \in C : Right(c, base[sec], cells[sec])
<1>1. Position = 1..Len(program.op) /\ Len(program.op) \in Nat /\ pos \notin Position /\ Labels \subseteq Position
  BY ProgramFacts, LabelFacts DEF TypeOK
<1>2. Cur.pos = pos /\ Cur.len = Length
  BY DEF Cur, Length
<1>3. \A c \in C : c.pos \in Position => c # Cur
  BY <1>1, <1>2
<1>4. \A c \in C : c = Cur \/ (c.pos \in Position /\ Follow(c) \in C /\ (Resolving => Right(c, base[sec], cells[sec])))
  BY DEF Trail
<1>5. \A c \in C : c.pos \notin Position => Right(c, base[sec], cells[sec])
  BY <1>1 DEF Right
<1>6. Beginning \in C
  BY DEF Trail
<1> HIDE DEF Cur, Follow, Right, Beginning
<1> QED BY <1>2, <1>3, <1>4, <1>5, <1>6 DEF Closed

LEMMA PathKeeps ==
  ASSUME TypeOK, PassInv, CounterInv, DefsInv, FixedSizes, PathInv, [Next]_vars
  PROVE  PathInv'
<1>1. CASE Skipping \/ Failing \/ Ending \/ Learning
  <2>1. pos' = 0
    BY <1>1 DEF Skipping, Failing, Ending, EndSize, EndLabels, EndEmit, EndPass, Learning, BetweenLoops, Idle, GetBase, GetKnown,
                passVars
  <2> QED BY <2>1 DEF PathInv
<1>2. CASE Still
  <2>1. program' = program /\ UNCHANGED <<sec, at, pos, address, start, mValue, cells, write, base>>
    BY <1>2 DEF Still, outsideVars, passVars, counterVars
  <2>2. Cur' = Cur
    BY <2>1, SameProgram DEF Cur, Values
  <2>3. (Resolving' <=> Resolving) /\ Position' = Position
    BY <2>1, SameProgram DEF Resolving
  <2>4. \A C : Trail(C)' <=> Trail(C)
    <3> HIDE DEF Cur, Follow, Right, Beginning
    <3> QED BY <2>1, <2>2, <2>3, SameFollow DEF Trail
  <2> HIDE DEF Cur, Trail, Closed
  <2> QED BY <2>1, <2>2, <2>4, SameFollow DEF PathInv
<1> QED BY <1>1, <1>2, StepCases, PathStart, PathMove

LEMMA DefsKeeps ==
  ASSUME TypeOK, FixedSizes, DefsInv, [Next]_vars
  PROVE  DefsInv'
<1>1. program' = program /\ Section' = Section /\ Position' = Position /\ \A p : Op(p)' = Op(p)
  BY ProgramStays, SameProgram
<1>2. CASE UNCHANGED mSize
  BY <1>1, <1>2 DEF DefsInv
<1>3. CASE Moving /\ Op(pos) = "defs" /\ mSize' = [mSize EXCEPT ![sec][pos] = ValueOf(pos)]
  <2>1. ValueOf(pos) = program.arg[pos]
    BY <1>3, ProgramFacts DEF FixedSizes, Op, ValueOf, Moving, TypeOK
  <2> QED BY <1>1, <1>3, <2>1 DEF DefsInv, TypeOK
<1>4. UNCHANGED mSize \/ Moving
  BY StepCases DEF Starting, Starts, Begin, Skipping, Failing, Ending, EndSize, EndLabels, EndEmit, EndPass, Learning,
     GetBase, GetKnown, Still, passVars
<1> QED BY <1>2, <1>3, <1>4 DEF Moving, PlainMove, SkipRepeat, EnterRepeat, NextIteration, LeaveRepeat

LEMMA LabelledKeeps ==
  ASSUME TypeOK, PassInv, ResultInv, CounterInv, PathInv, LabelledInv, [Next]_vars
  PROVE  LabelledInv'
<1>1. program' = program /\ Section' = Section /\ sec \in Section /\ (pos # 0 <=> at \in Passes)
  BY ProgramStays, SameProgram DEF TypeOK
<1>2. SUFFICES ASSUME NEW CONSTANT s \in Section, labels'[s], Faithful(s)
               PROVE  \E C : Closed(C) /\ \A c \in C : Right(c, base'[s], cells'[s])
  <2> HIDE DEF Right, Closed, Faithful
  <2> QED BY <1>1, SameFollow DEF LabelledInv
<1> HIDE DEF Right, Closed, Faithful
<1>3. CASE labels[s] /\ base'[s] = base[s] /\ cells'[s] = cells[s]
  BY <1>2, <1>3 DEF LabelledInv
<1>4. CASE Starting \/ Failing
  <2>1. UNCHANGED <<base, labels>>
        /\ (UNCHANGED cells \/ (ForgetLabels /\ Resolving))
    BY <1>4 DEF Starting, Starts, Failing, Resolving, outsideVars, resultVars
  <2>2. CASE ForgetLabels /\ Resolving
    <3>1. s # sec
      BY <1>2, <2>1, <2>2 DEF PassInv
    <3> QED BY <1>2, <1>3, <2>1, <2>2, <3>1, ForgetFacts
  <2> QED BY <1>2, <1>3, <2>1, <2>2
<1>5. CASE Skipping \/ Still
  BY <1>2, <1>3, <1>5 DEF Skipping, Still, outsideVars, passVars, resultVars
<1>6. CASE Learning
  <2>1. UNCHANGED <<labels, cells>> /\ \A t \in Section : base[t] # None => base'[t] = base[t]
    BY <1>1, <1>6, ProgramSectionAssumption DEF Learning, GetBase, GetKnown, passVars, resultVars, TypeOK
  <2> QED BY <1>2, <1>3, <2>1 DEF ResultInv
<1>7. CASE Ending
  <2>1. UNCHANGED <<base, cells>> /\ pos = Len(program.op) + 1 /\ pos # 0
        /\ (labels'[s] => labels[s] \/ (s = sec /\ Resolving))
    <3>1. pos = Len(program.op) + 1 /\ Len(program.op) \in Nat
      BY <1>7, ProgramFacts DEF Ending, EndSize, EndLabels, EndEmit, AtEnd, TypeOK
    <3> QED BY <1>1, <1>7, <3>1 DEF Ending, EndSize, EndLabels, EndEmit, EndPass, outsideVars, TypeOK
  <2>2. CASE s = sec /\ Resolving
    <3>1. PICK C : Trail(C)
      BY <1>2, <2>1, <2>2 DEF PathInv
    <3> QED BY <2>1, <2>2, <3>1, EndTrail
  <2> QED BY <1>2, <1>3, <2>1, <2>2
<1>8. CASE Moving
  <2>1. UNCHANGED <<base, labels>>
    BY <1>8 DEF Moving, outsideVars, resultVars
  <2>2. PICK C : Closed(C) /\ \A c \in C : Right(c, base[s], cells[s])
    BY <1>2, <2>1 DEF LabelledInv
  <2>3. \A c \in C : Right(c, base[s], cells'[s])
    BY <1>8, <2>2, RightStays
  <2> QED BY <2>1, <2>2, <2>3
<1> QED BY <1>4, <1>5, <1>6, <1>7, <1>8, StepCases

LEMMA SizedKeeps ==
  ASSUME TypeOK, PathInv, SizedInv, [Next]_vars
  PROVE  SizedInv'
<1>1. program' = program /\ Section' = Section /\ sec \in Section
  BY ProgramStays, SameProgram DEF TypeOK
<1>2. \A n : Takes(n)' <=> Takes(n)
  BY <1>1, SameFollow
<1>3. \A s : Faithful(s)' <=> Faithful(s)
  BY <1>1, SameFollow
<1> HIDE DEF Takes, Faithful
<1>4. CASE UNCHANGED <<mCalculatedSize, size>>
  BY <1>1, <1>2, <1>3, <1>4 DEF SizedInv
<1>5. CASE Ending
  <2>1. pos = Len(program.op) + 1 /\ pos # 0
        /\ \A s \in Section : /\ mCalculatedSize'[s] \in {mCalculatedSize[s]} \cup {Length : x \in {y \in {0} : s = sec}}
                              /\ size'[s] \in {size[s]} \cup {Length : x \in {y \in {0} : s = sec}}
    <3>1. pos = Len(program.op) + 1 /\ Len(program.op) \in Nat
      BY <1>5, ProgramFacts DEF Ending, EndSize, EndLabels, EndEmit, AtEnd, TypeOK
    <3> QED BY <1>1, <1>5, <3>1 DEF Ending, EndSize, EndLabels, EndEmit, TypeOK
  <2>2. Faithful(sec) => Takes(Length)
    <3> SUFFICES ASSUME Faithful(sec) PROVE Takes(Length)
      OBVIOUS
    <3>1. PICK C : Trail(C)
      BY <2>1 DEF PathInv
    <3>2. Closed(C) /\ \A c \in C : c.pos \notin Position => c.len = Length
      BY <2>1, <3>1, EndTrail
    <3> HIDE DEF Closed
    <3> QED BY <3>2 DEF Takes
  <2> QED BY <1>1, <1>2, <1>3, <2>1, <2>2 DEF SizedInv
<1>6. UNCHANGED <<mCalculatedSize, size>> \/ Ending
  BY StepCases DEF Starting, Starts, Skipping, Failing, Moving, Learning, GetBase, GetKnown, Still, resultVars
<1> QED BY <1>4, <1>5, <1>6

\* A pass ends where what was sized ended.
LEMMA SizeFound ==
  ASSUME TypeOK, PathInv, Faithful(sec), pos = Len(program.op) + 1, NEW n, Takes(n)
  PROVE  Length = n
<1>1. Position = 1..Len(program.op) /\ Len(program.op) \in Nat /\ pos \notin Position /\ pos # 0
  BY ProgramFacts DEF TypeOK
<1>2. Cur.pos = pos /\ Cur.len = Length
  BY DEF Cur, Length
<1> HIDE DEF Cur, Closed
<1>3. PICK C : Closed(C) /\ \A c \in C : c.pos \notin Position => c.len = n
  BY DEF Takes
<1> QED BY <1>1, <1>2, <1>3 DEF PathInv

-----------------------------------------------------------------------------

\* An address is set once per labels pass, no position runs off its list and no saved
\* position is missing (the assertions of Label.cpp:46, 188, 228); what no pass has
\* finished has no address that others could read.
THEOREM AddressesAreSetOnce == Spec => [](NoAsserts /\ BlankInv)
<1> DEFINE Inv == TypeOK /\ PassInv /\ ResultInv /\ CounterInv /\ FreshInv /\ BlankInv /\ NoAsserts
<1>1. Init => Inv
  <2> SUFFICES ASSUME Init PROVE Inv
    OBVIOUS
  <2>1. TypeOK
    BY TypeInit
  <2>2. PassInv /\ ResultInv
    BY SectionFacts DEF Init, PassInv, ResultInv, Resolving, Each
  <2>3. CounterInv
    BY SectionFacts DEF Init, CounterInv, Each, AllLabels
  <2>4. FreshInv
    BY DEF Init, FreshInv, Resolving
  <2>5. BlankInv
    <3>1. \A s \in Section : cells[s] = [l \in Labels |-> <<None>>]
      BY DEF Init, Each, AllLabels
    <3>2. <<None>> = [i \in DOMAIN <<None>> |-> None]
      OBVIOUS
    <3> QED BY <3>1, <3>2 DEF BlankInv, NoAddresses
  <2>6. NoAsserts
    BY ProgramSectionAssumption DEF Init, NoAsserts, Errors
  <2> QED BY <2>1, <2>2, <2>3, <2>4, <2>5, <2>6
<1>2. Inv /\ [Next]_vars => Inv'
  BY TypeKeeps, PassKeeps, CounterKeeps, FreshKeeps, AssertsKeep
<1>3. Inv => NoAsserts /\ BlankInv
  OBVIOUS
<1> HIDE DEF Inv
<1> QED BY <1>1, <1>2, <1>3, PTL DEF Spec

AgreeInv == SectionInv /\ FreshInv /\ BlankInv /\ NoAsserts /\ DefsInv /\ PathInv /\ LabelledInv /\ SizedInv

\* Every reachable state satisfies the invariant that the agreement of the passes needs:
\* what a pass goes through is the same each time, and what an earlier one wrote down of
\* it, its addresses and its length, stands.
THEOREM AgreementInvariance == FixedSizes => (Spec => []AgreeInv)
<1> SUFFICES ASSUME FixedSizes PROVE Spec => []AgreeInv
  OBVIOUS
<1>1. Init => AgreeInv
  <2> SUFFICES ASSUME Init PROVE AgreeInv
    OBVIOUS
  <2>1. TypeOK
    BY TypeInit
  <2>2. PassInv /\ ResultInv
    BY SectionFacts DEF Init, PassInv, ResultInv, Resolving, Each
  <2>3. CounterInv /\ RestInv
    BY SectionFacts DEF Init, CounterInv, RestInv, Each, AllLabels
  <2>4. FreshInv
    BY DEF Init, FreshInv, Resolving
  <2>5. BlankInv
    <3>1. \A s \in Section : cells[s] = [l \in Labels |-> <<None>>]
      BY DEF Init, Each, AllLabels
    <3>2. <<None>> = [i \in DOMAIN <<None>> |-> None]
      OBVIOUS
    <3> QED BY <3>1, <3>2 DEF BlankInv, NoAddresses
  <2>6. NoAsserts
    BY ProgramSectionAssumption DEF Init, NoAsserts, Errors
  <2>7. DefsInv /\ LabelledInv /\ SizedInv
    BY DEF Init, DefsInv, LabelledInv, SizedInv, Each
  <2>8. PathInv
    BY DEF Init, PathInv
  <2> QED BY <2>1, <2>2, <2>3, <2>4, <2>5, <2>6, <2>7, <2>8 DEF AgreeInv, SectionInv
<1>2. AgreeInv /\ [Next]_vars => AgreeInv'
  BY TypeKeeps, PassKeeps, CounterKeeps, RestKeeps, FreshKeeps, AssertsKeep, DefsKeeps, PathKeeps, LabelledKeeps, SizedKeeps
     DEF AgreeInv, SectionInv
<1> QED BY <1>1, <1>2, PTL DEF Spec

\* The address a labels pass wrote down is the one the code pass reaches the label at,
\* iteration by iteration and whatever passes failed in between; an address is set once,
\* no position runs off its list, and a failed pass leaves no address (Label.cpp:46, 188, 228).
THEOREM LabelsAreWhereTheCodeIs == FixedSizes => (Spec => []LabelsAgree)
<1> SUFFICES ASSUME FixedSizes PROVE Spec => []LabelsAgree
  OBVIOUS
<1>1. AgreeInv => LabelsAgree
  <2> SUFFICES ASSUME AgreeInv PROVE LabelsAgree
    OBVIOUS
  <2>0. TypeOK /\ PassInv /\ ResultInv /\ sec \in Section
    BY DEF AgreeInv, SectionInv, TypeOK
  <2>1. ASSUME Emitting, labels[sec], Faithful(sec), Here({"label"})
        PROVE  cells[sec][pos][write[sec][pos]] = address
    <3>1. pos \in Labels /\ pos # 0
      BY <2>0, <2>1, ProgramFacts DEF Here, Labels, TypeOK
    <3>2. PICK C : Closed(C) /\ \A c \in C : Right(c, base[sec], cells[sec])
      BY <2>0, <2>1 DEF AgreeInv, LabelledInv
    <3>3. Cur \in C
      BY <2>1, <3>1, <3>2 DEF AgreeInv, PathInv
    <3>4. Cur.pos = pos /\ Cur.write = write[sec] /\ Cur.len = address - start
      BY DEF Cur
    <3>5. cells[sec][pos][write[sec][pos]] = base[sec] + (address - start)
      <4>1. Right(Cur, base[sec], cells[sec])
        BY <3>2, <3>3
      <4> HIDE DEF Cur
      <4> QED BY <3>1, <3>4, <4>1 DEF Right
    <3>6. start = base[sec]
      BY <2>0, <2>1 DEF PassInv, ResultInv, Emitting
    <3> QED BY <2>0, <3>5, <3>6 DEF TypeOK
  <2>2. error # "assert"
    BY DEF AgreeInv, NoAsserts
  <2> QED BY <2>1, <2>2 DEF LabelsAgree, AgreeInv, BlankInv
<1> QED BY <1>1, AgreementInvariance, PTL

\* The code gets as long as the size pass said: neither internal compiler error about
\* sizes is reached (ProgramSection.cpp:94, Linker.cpp:421).
THEOREM SizesStand == FixedSizes => (Spec => []SizesAgree)
<1> SUFFICES ASSUME FixedSizes PROVE Spec => []SizesAgree
  OBVIOUS
<1>1. AgreeInv => SizesAgree
  <2> SUFFICES ASSUME AgreeInv, AtEnd, Emitting, Faithful(sec) PROVE AsCalculated /\ AsResolved
    BY DEF SizesAgree
  <2>1. TypeOK /\ PassInv /\ PathInv /\ SizedInv /\ sec \in Section /\ pos = Len(program.op) + 1
    BY DEF AgreeInv, SectionInv, TypeOK, AtEnd
  <2>2. mCalculatedSize[sec] # None => Takes(mCalculatedSize[sec])
    BY <2>1 DEF SizedInv
  <2>3. at = "emit" /\ size[sec] # None => Takes(size[sec])
    BY <2>1 DEF SizedInv, PassInv
  <2> HIDE DEF Takes
  <2> QED BY <2>1, <2>2, <2>3, SizeFound DEF AsCalculated, AsResolved
<1> QED BY <1>1, AgreementInvariance, PTL

-----------------------------------------------------------------------------
(* What the linker counts on.                                              *)

\* The labels after a size that was not found: that pass stops at the same instruction.
Walk(m, c) == [pos |-> NextPos(m, c), val |-> NextVal(m, c)]
Spot == [pos |-> pos, val |-> Values]
First == [pos |-> 1, val |-> NoValues]
SizeTrail(C) == First \in C /\ Spot \in C /\ \A c \in C : c = Spot \/ (c.pos \in Position /\ Walk(Seen, c) \in C)
Blocked(C) == First \in C /\ \A c \in C : c.pos \in Position /\ (Walk(Seen, c) \in C \/ Stuck(c.pos))

StuckInv ==
  /\ at = "size" => \E C : SizeTrail(C)
  /\ at \in {"again", "labels2"} /\ ~program.packed /\ size[sec] = None => \E C : Blocked(C)
  /\ at = "labels2" => \A C : Blocked(C) => Spot \in C

\* Who has labels has a size.
LabelSizeInv == \A s \in Section : ~program.packed /\ labels[s] => size[s] # None

LEMMA SameWalk ==
  ASSUME program' = program, known' = known, Seen' = Seen
  PROVE  /\ \A c : Walk(Seen, c)' = Walk(Seen, c)
         /\ \A p : Stuck(p)' <=> Stuck(p)
         /\ \A C : Blocked(C)' <=> Blocked(C)
         /\ First' = First /\ Position' = Position
<1>1. Position' = Position
  BY SameProgram
<1>2. First' = First
  BY <1>1 DEF First, NoValues
<1>3. \A p : Stuck(p)' <=> Stuck(p)
  BY <1>1 DEF Stuck, Op, HasValue
<1>4. \A c : Walk(Seen, c)' = Walk(Seen, c)
  <2> HIDE DEF Seen
  <2>1. \A c : NextPos(Seen, c)' = NextPos(Seen, c)
    BY <1>1 DEF NextPos, ValueAt, Again, Own, Op
  <2>2. \A c : NextVal(Seen, c)' = NextVal(Seen, c)
    BY <1>1 DEF NextVal, ValueAt, Again, Own, Op
  <2> QED BY <2>1, <2>2 DEF Walk
<1> HIDE DEF Walk, First, Stuck, Seen
<1> QED BY <1>1, <1>2, <1>3, <1>4 DEF Blocked

LEMMA SeenStays ==
  ASSUME TypeOK, sec' = sec, UNCHANGED mValue \/ Moving
  PROVE  Seen' = Seen
<1>1. CASE sec = Original
  BY <1>1 DEF Seen, Own
<1>2. CASE sec # Original
  <2>1. mValue'[Original] = mValue[Original]
    <3>1. mValue \in [Section -> [Position -> Nat]] /\ Original \in Section /\ sec \in Section
      BY SectionFacts DEF TypeOK
    <3> QED BY <1>2, <3>1 DEF Moving, PlainMove, SkipRepeat, EnterRepeat, NextIteration, LeaveRepeat, Restart
  <2> QED BY <1>2, <2>1 DEF Seen, Own
<1> QED BY <1>1, <1>2

LEMMA StuckMove ==
  ASSUME TypeOK, StuckInv, Moving
  PROVE  StuckInv'
<1>1. /\ program' = program /\ known' = known /\ sec' = sec /\ at' = at /\ size' = size /\ pos \in Position /\ pos # 0
      /\ sec \in Section /\ Seen' = Seen
  BY ProgramFacts, SeenStays DEF Moving, TypeOK, outsideVars, resultVars
<1>2. Spot' = Walk(Seen, Spot)
  <2>1. Spot.pos = pos /\ Spot.val = Values /\ Spot' = [pos |-> pos', val |-> Values']
    BY DEF Spot
  <2> HIDE DEF Spot
  <2>2. pos' = NextPos(Seen, Spot) /\ Values' = NextVal(Seen, Spot)
    BY <2>1, MoveNext
  <2> QED BY <2>1, <2>2 DEF Walk
<1>3. Spot.pos = pos
  BY DEF Spot
<1>4. at = "labels2" => ~Stuck(pos)
  BY DEF Moving, PlainMove, SkipRepeat, EnterRepeat, NextIteration, LeaveRepeat, Stuck, Emitting
<1> HIDE DEF Spot, Walk, First, Stuck, Seen
<1>5. ASSUME at = "size"
      PROVE  (\E C : SizeTrail(C))'
  <2>1. PICK C : SizeTrail(C)
    BY <1>5 DEF StuckInv
  <2>2. PICK D : D = C \cup {Spot'}
    OBVIOUS
  <2>3. First \in D /\ Spot' \in D
    BY <2>1, <2>2 DEF SizeTrail
  <2>4. \A c \in D : c = Spot' \/ (c.pos \in Position /\ Walk(Seen, c) \in D)
    BY <1>1, <1>2, <1>3, <2>1, <2>2 DEF SizeTrail
  <2>5. SizeTrail(D)'
    BY <1>1, <2>3, <2>4, SameWalk DEF SizeTrail
  <2> QED BY <2>5
<1>6. ASSUME at = "labels2", NEW CONSTANT C, Blocked(C)
      PROVE  Spot' \in C
  <2>1. Spot \in C
    BY <1>6 DEF StuckInv
  <2>2. Walk(Seen, Spot) \in C \/ Stuck(Spot.pos)
    BY <1>6, <2>1 DEF Blocked
  <2> QED BY <1>2, <1>3, <1>4, <1>6, <2>2
<1>7. \A C : Blocked(C)' <=> Blocked(C)
  BY <1>1, SameWalk
<1> HIDE DEF Blocked
<1> QED BY <1>1, <1>5, <1>6, <1>7 DEF StuckInv

LEMMA StuckKeeps ==
  ASSUME TypeOK, StuckInv, [Next]_vars
  PROVE  StuckInv'
<1>1. program' = program /\ sec \in Section /\ (pos # 0 <=> at \in Passes) /\ None \notin Nat
  BY ProgramStays, ProgramSectionAssumption DEF TypeOK
<1>2. CASE Starting
  <2>1. /\ sec' = sec /\ known' = known /\ UNCHANGED <<mValue, size>> /\ pos' = 1
        /\ (at' = "labels2" => at = "again") /\ at' \in Passes
    BY <1>2 DEF Starting, Starts, Begin, outsideVars, resultVars, Passes
  <2>2. Seen' = Seen
    BY <2>1, SeenStays
  <2>3. Spot' = First
    <3>1. \A q : ~Inside(q, pos)'
      <4>1. Position = 1..Len(program.op) /\ Len(program.op) \in Nat
        BY ProgramFacts DEF TypeOK
      <4>2. \A q : ~Inside(q, 1)
        BY <4>1 DEF Inside
      <4> QED BY <1>1, <2>1, <4>2, SameProgram DEF Inside
    <3> QED BY <1>1, <2>1, <3>1, SameProgram DEF Spot, Values, First, NoValues
  <2>4. First' = First /\ \A C : Blocked(C)' <=> Blocked(C)
    BY <1>1, <2>1, <2>2, SameWalk
  <2> HIDE DEF Spot, Walk, First, Stuck, Seen
  <2>5. (\E C : SizeTrail(C))'
    <3>1. PICK C : C = {Spot'}
      OBVIOUS
    <3>2. SizeTrail(C)'
      BY <2>3, <2>4, <3>1 DEF SizeTrail
    <3> QED BY <3>2
  <2>6. \A C : Blocked(C) => Spot' \in C
    BY <2>3 DEF Blocked
  <2> HIDE DEF Blocked
  <2> QED BY <1>1, <2>1, <2>4, <2>5, <2>6 DEF StuckInv, Passes
<1>3. CASE Skipping
  BY <1>1, <1>3 DEF Skipping, GoTo, NextFile, StuckInv, passVars, resultVars
<1>4. CASE Failing
  <2>1. CASE at # "size"
    BY <1>4, <2>1 DEF Failing, GoTo, NextFile, StuckInv
  <2>2. CASE at = "size"
    <3>1. /\ at' = "again" /\ sec' = sec /\ known' = known /\ UNCHANGED mValue /\ Stuck(pos)
      BY <1>4, <2>2 DEF Failing, GoTo, outsideVars
    <3>2. Seen' = Seen
      BY <3>1, SeenStays
    <3>3. PICK C : SizeTrail(C)
      BY <2>2 DEF StuckInv
    <3>4. Spot.pos = pos /\ pos \in Position
      BY <3>1 DEF Spot, Stuck
    <3> HIDE DEF Spot, Walk, First, Stuck, Seen
    <3>5. Blocked(C)
      BY <3>1, <3>3, <3>4 DEF SizeTrail, Blocked
    <3>6. Blocked(C)'
      BY <1>1, <3>1, <3>2, <3>5, SameWalk
    <3> QED BY <3>1, <3>6 DEF StuckInv
  <2> QED BY <2>1, <2>2
<1>5. CASE Ending
  <2>1. \/ at' \notin {"size", "again", "labels2"}
        \/ at' = "again" /\ sec' = sec /\ size' = [size EXCEPT ![sec] = Length]
    BY <1>5 DEF Ending, EndSize, EndLabels, EndEmit, EndPass, GoTo, NextFile
  <2>2. Length \in Nat
    BY DEF Length, TypeOK
  <2> QED BY <1>1, <2>1, <2>2 DEF StuckInv, TypeOK
<1>6. CASE Learning
  BY <1>6 DEF Learning, BetweenLoops, Idle, GetBase, GetKnown, StuckInv
<1>7. CASE Still
  <2>1. /\ sec' = sec /\ known' = known /\ UNCHANGED <<at, pos, mValue, size>>
    BY <1>7 DEF Still, outsideVars, passVars, resultVars
  <2>2. Seen' = Seen
    BY <2>1, SeenStays
  <2>3. Spot' = Spot
    BY <1>1, <2>1, SameProgram DEF Spot, Values
  <2>4. \A c : Walk(Seen, c)' = Walk(Seen, c)
    BY <1>1, <2>1, <2>2, SameWalk
  <2>5. First' = First /\ Position' = Position /\ \A C : Blocked(C)' <=> Blocked(C)
    BY <1>1, <2>1, <2>2, SameWalk
  <2> HIDE DEF Spot, Walk, First, Stuck, Seen
  <2>6. \A C : SizeTrail(C)' <=> SizeTrail(C)
    BY <2>3, <2>4, <2>5 DEF SizeTrail
  <2> HIDE DEF Blocked, SizeTrail
  <2> QED BY <1>1, <2>1, <2>3, <2>5, <2>6 DEF StuckInv
<1> QED BY <1>2, <1>3, <1>4, <1>5, <1>6, <1>7, StepCases, StuckMove

LEMMA LabelSizeKeeps ==
  ASSUME TypeOK, PassInv, StuckInv, LabelSizeInv, [Next]_vars
  PROVE  LabelSizeInv'
<1>1. program' = program /\ Section' = Section /\ sec \in Section /\ None \notin Nat
  BY ProgramStays, SameProgram, ProgramSectionAssumption DEF TypeOK
<1>2. CASE UNCHANGED resultVars
  BY <1>1, <1>2 DEF LabelSizeInv, resultVars
<1>3. CASE Ending
  <2>1. Length \in Nat
    BY DEF Length, TypeOK
  <2>2. CASE at = "labels2" /\ EndLabels
    <3>1. program.packed \/ size[sec] # None
      <4> SUFFICES ASSUME ~program.packed, size[sec] = None PROVE FALSE
        OBVIOUS
      <4>1. PICK C : Blocked(C)
        BY <2>2 DEF StuckInv
      <4>2. Spot \in C /\ Spot.pos = pos
        BY <2>2, <4>1 DEF StuckInv, Spot
      <4>3. pos \in Position
        BY <4>1, <4>2 DEF Blocked
      <4>4. pos = Len(program.op) + 1 /\ Len(program.op) \in Nat /\ Position = 1..Len(program.op)
        BY <2>2, ProgramFacts DEF EndLabels, AtEnd, TypeOK
      <4> QED BY <4>3, <4>4
    <3>2. size' = size /\ labels' = [labels EXCEPT ![sec] = TRUE]
      BY <2>2 DEF EndLabels
    <3> QED BY <1>1, <3>1, <3>2 DEF LabelSizeInv, TypeOK
  <2>3. CASE ~(at = "labels2" /\ EndLabels)
    <3>1. size' = [size EXCEPT ![sec] = Length] /\ (labels' = labels \/ labels' = [labels EXCEPT ![sec] = TRUE])
      BY <1>3, <2>3 DEF Ending, EndSize, EndLabels, EndEmit, Resolving
    <3> QED BY <1>1, <2>1, <3>1 DEF LabelSizeInv, TypeOK
  <2> QED BY <2>2, <2>3
<1> QED BY <1>2, <1>3, StepCases DEF Starting, Starts, Skipping, Failing, Moving, Learning, GetBase, GetKnown, Still

\* What is written down of a listing that has its labels stays.
LEMMA WrittenStays ==
  ASSUME TypeOK, PassInv, CounterInv, [Next]_vars, NEW CONSTANT s \in Section, labels[s]
  PROVE  Written(s)' = Written(s)
<1>1. program' = program /\ Labels' = Labels /\ sec \in Section
  BY ProgramStays, SameProgram DEF TypeOK
<1>2. CASE cells'[s] = cells[s]
  BY <1>1, <1>2 DEF Written
<1>3. CASE Moving
  <2>1. s = sec => ~Writing
    BY DEF PassInv, Writing
  <2>2. ASSUME NEW l \in Labels
        PROVE  \A i : (i \in DOMAIN cells'[s][l] /\ cells'[s][l][i] # None) <=> (i \in DOMAIN cells[s][l] /\ cells[s][l][i] # None)
    <3>1. CASE s # sec
      BY <1>3, <3>1, MovedCells
    <3>2. CASE s = sec
      <4>1. cells[sec][l] \in Seq(Opt(Nat)) /\ cells'[sec][l] \in Seq(Opt(Nat))
        <5>1. TypeOK /\ TypeOK'
          BY TypeKeeps
        <5>2. cells \in [Section -> [Labels -> Seq(Opt(Nat))]] /\ cells' \in [Section' -> [Labels' -> Seq(Opt(Nat))]]
          BY <5>1 DEF TypeOK, Opt
        <5> QED BY <1>1, <5>2, SameProgram
      <4>2. DOMAIN cells[sec][l] = 1..Len(cells[sec][l]) /\ DOMAIN cells'[sec][l] = 1..Len(cells'[sec][l])
        BY <4>1, LenProperties
      <4>3. /\ Len(cells[sec][l]) \in Nat /\ Len(cells'[sec][l]) \in Nat /\ Len(cells'[sec][l]) >= Len(cells[sec][l])
            /\ \A i \in Nat \ {0} : i <= Len(cells'[sec][l]) =>
                 cells'[sec][l][i] = IF i > Len(cells[sec][l]) THEN None ELSE cells[sec][l][i]
        BY <1>3, <2>1, <3>2, MovedCells
      <4> QED BY <3>2, <4>2, <4>3
    <3> QED BY <3>1, <3>2
  <2>3. ASSUME NEW l \in Labels, NEW i \in DOMAIN cells[s][l], cells[s][l][i] # None
        PROVE  cells'[s][l][i] = cells[s][l][i]
    <3>1. CASE s # sec
      BY <1>3, <3>1, MovedCells
    <3>2. CASE s = sec
      <4>1. cells[sec][l] \in Seq(Opt(Nat))
        BY <1>1 DEF TypeOK
      <4>2. i \in 1..Len(cells[sec][l])
        BY <2>3, <3>2, <4>1, LenProperties
      <4> QED BY <1>3, <2>1, <3>2, <4>2, MovedCells
    <3> QED BY <3>1, <3>2
  <2>4. ASSUME NEW l \in Labels
        PROVE  {<<i, cells'[s][l][i]>> : i \in {j \in DOMAIN cells'[s][l] : cells'[s][l][j] # None}}
                 = {<<i, cells[s][l][i]>> : i \in {j \in DOMAIN cells[s][l] : cells[s][l][j] # None}}
    BY <2>2, <2>3
  <2>5. Written(s)' = [l \in Labels |-> {<<i, cells'[s][l][i]>> : i \in {j \in DOMAIN cells'[s][l] : cells'[s][l][j] # None}}]
    BY <1>1 DEF Written
  <2> QED BY <2>4, <2>5 DEF Written
<1>4. ~Moving => cells'[s] = cells[s]
  <2> SUFFICES ASSUME ~Moving PROVE cells'[s] = cells[s]
    OBVIOUS
  <2>1. UNCHANGED cells \/ (ForgetLabels /\ Resolving)
    BY StepCases DEF Starting, Starts, Skipping, Failing, Ending, EndSize, EndLabels, EndEmit, EndPass, Learning,
       GetBase, GetKnown, Still, passVars, Resolving
  <2>2. CASE ForgetLabels /\ Resolving
    <3>1. s # sec
      BY <2>2 DEF PassInv
    <3> QED BY <2>2, <3>1, ForgetFacts
  <2> QED BY <2>1, <2>2
<1> QED BY <1>2, <1>3, <1>4

\* No list of addresses is mistaken for "no value".
NoneIsNoFunction == \A L, f : f = [l \in L |-> f[l]] => f # None

\* What the promise sees of a listing.
Listings == {Original, 2}
Shown(f) == [s \in Listings |-> IF s \in Section THEN f[s] ELSE None]
Told == [s \in Listings |-> IF s \in Section /\ labels[s] THEN Written(s) ELSE None]

PromiseInv == TypeOK /\ PassInv /\ ResultInv /\ CounterInv /\ StuckInv /\ LabelSizeInv

LEMMA PromiseStep ==
  ASSUME PromiseInv, NoneIsNoFunction, [Next]_vars
  PROVE  [Promise!Next]_(Promise!promiseVars)
<1> USE DEF PromiseInv
<1>1. /\ program' = program /\ Section' = Section /\ sec \in Section /\ Section \subseteq Listings
      /\ None \notin Nat /\ (pos # 0 <=> at \in Passes)
  BY ProgramStays, SameProgram, SectionFacts, ProgramSectionAssumption DEF TypeOK, Listings, Original
<1>2. \A s \in Section : labels[s] => Written(s)' = Written(s)
  BY WrittenStays
<1>3. SUFFICES ASSUME base' = base \/ UNCHANGED resultVars
               PROVE  [Promise!Next]_(Promise!promiseVars)
  BY StepCases DEF Starting, Starts, Skipping, Failing, Ending, EndSize, EndLabels, EndEmit, EndPass, Moving, Learning,
     GetBase, GetKnown, Still, outsideVars
<1>4. CASE UNCHANGED resultVars
  <2>1. UNCHANGED <<size, labels, code>>
    BY <1>4 DEF resultVars
  <2>2. Told' = Told
    BY <1>1, <1>2, <2>1 DEF Told, Listings
  <2>3. \A s \in Section : base[s] # None => base'[s] = base[s]
    BY <1>1, StepCases DEF Starting, Starts, Skipping, Failing, Ending, EndSize, EndLabels, EndEmit, EndPass, Moving,
       Learning, GetBase, GetKnown, Still, outsideVars, TypeOK
  <2>4. Shown(size)' = Shown(size) /\ Shown(code)' = Shown(code)
    BY <1>1, <2>1 DEF Shown, Listings
  <2>5. Promise!Place
    BY <1>1, <2>2, <2>3, <2>4 DEF Promise!Place, Promise!found, Promise!Kept, Told, Shown, Listings
  <2> QED BY <2>5 DEF Promise!Next
<1>5. CASE base' = base /\ ~UNCHANGED resultVars
  <2>1. Ending /\ Length \in Nat /\ start \in Nat
    <3>1. Ending
      BY <1>5, StepCases DEF Starting, Starts, Skipping, Failing, Moving, Learning, GetBase, GetKnown, Still
    <3>2. Length \in Nat /\ start \in Nat
      BY DEF Length, TypeOK
    <3> QED BY <3>1, <3>2
  <2>2. /\ \A s \in Section : s # sec => size'[s] = size[s] /\ labels'[s] = labels[s] /\ code'[s] = code[s]
        /\ size[sec] # None => size'[sec] = size[sec]
        /\ labels[sec] => labels'[sec]
        /\ code[sec] # None => code'[sec] = code[sec]
    BY <1>1, <2>1
       DEF Ending, EndSize, EndLabels, EndEmit, PassInv, ResultInv, TypeOK, Emitting, Resolving, AsResolved
  <2>3. labels'[sec] /\ ~labels[sec] => base[sec] # None
    BY <2>1 DEF Ending, EndSize, EndLabels, EndEmit, PassInv
  <2>4. code'[sec] # code[sec] =>
          /\ size'[sec] # None
          /\ code'[sec] = base[sec] \/ (program.packed /\ base[sec] = None /\ code'[sec] = 0)
          /\ ~program.packed => size[sec] # None /\ labels[sec]
    BY <1>1, <2>1 DEF Ending, EndSize, EndLabels, EndEmit, PassInv, LabelSizeInv, TypeOK, Emitting
  <2>5. \A s \in Section : Written(s) # None
    BY DEF NoneIsNoFunction, Written
  <2>6. \A s \in Listings :
          /\ Told[s] = IF s \in Section /\ labels[s] THEN Written(s) ELSE None
          /\ Told'[s] = IF s \in Section /\ labels'[s] THEN Written(s)' ELSE None
    BY <1>1 DEF Told, Listings
  <2>7. \A s \in Listings : Told[s] # None => Told'[s] = Told[s]
    BY <1>2, <2>2, <2>6
  <2>8. \A s \in Listings : Told[s] = None /\ Told'[s] # None => s \in Section /\ base[s] # None
    BY <1>1, <2>2, <2>3, <2>5, <2>6
  <2>9. \A s \in Section : labels[s] => Told[s] # None
    BY <1>1, <2>5, <2>6
  <2>10. Promise!Find
    <3>1. program'.packed = program.packed /\ Shown(base)' = Shown(base)
      BY <1>1, <1>5 DEF Shown, Listings
    <3>2. Promise!Kept(Shown(size), Shown(size)') /\ Promise!Kept(Shown(code), Shown(code)')
      BY <1>1, <2>2 DEF Promise!Kept, Shown, Listings
    <3>3. Promise!Kept(Told, Told')
      BY <2>7 DEF Promise!Kept, Listings
    <3>4. \A s \in Promise!New(Told, Told') : Shown(base)[s] # None
      BY <1>1, <2>8 DEF Promise!New, Shown, Listings
    <3>5. \A s \in Promise!New(Shown(code), Shown(code)') :
            /\ Shown(size)'[s] # None
            /\ Shown(code)'[s] = Shown(base)[s] \/ (program.packed /\ Shown(base)[s] = None /\ Shown(code)'[s] = 0)
            /\ ~program.packed => Shown(size)[s] # None /\ Told[s] # None
      <4> SUFFICES ASSUME NEW s \in Promise!New(Shown(code), Shown(code)')
                   PROVE  /\ Shown(size)'[s] # None
                          /\ Shown(code)'[s] = Shown(base)[s] \/ (program.packed /\ Shown(base)[s] = None /\ Shown(code)'[s] = 0)
                          /\ ~program.packed => Shown(size)[s] # None /\ Told[s] # None
        OBVIOUS
      <4>1. s \in Listings /\ s \in Section /\ code[s] = None /\ code'[s] # None
        BY <1>1 DEF Promise!New, Shown, Listings
      <4>2. s = sec
        BY <2>2, <4>1
      <4> QED BY <1>1, <2>4, <2>9, <4>1, <4>2 DEF Shown
    <3> QED BY <3>1, <3>2, <3>3, <3>4, <3>5 DEF Promise!Find, Shown, Told, Listings
  <2> QED BY <2>10 DEF Promise!Next
<1> QED BY <1>3, <1>4, <1>5

\* ProgramSection refines SectionPromise: the size, the addresses and the code of a listing
\* are found at most once, from what is known already, and no later pass revises them.
THEOREM SectionRefinement == NoneIsNoFunction => (Spec => KeepsPromise)
<1> SUFFICES ASSUME NoneIsNoFunction PROVE Spec => KeepsPromise
  OBVIOUS
<1>1. Init => PromiseInv /\ Promise!Init
  <2> SUFFICES ASSUME Init PROVE PromiseInv /\ Promise!Init
    OBVIOUS
  <2>1. TypeOK
    BY TypeInit
  <2>2. PassInv /\ ResultInv
    BY SectionFacts DEF Init, PassInv, ResultInv, Resolving, Each
  <2>3. CounterInv
    BY SectionFacts DEF Init, CounterInv, Each, AllLabels
  <2>4. StuckInv /\ LabelSizeInv
    BY DEF Init, StuckInv, LabelSizeInv, Each
  <2>5. Promise!Init
    BY DEF Init, Promise!Init, Each
  <2> QED BY <2>1, <2>2, <2>3, <2>4, <2>5 DEF PromiseInv
<1>2. PromiseInv /\ [Next]_vars => PromiseInv'
  BY TypeKeeps, PassKeeps, CounterKeeps, StuckKeeps, LabelSizeKeeps DEF PromiseInv
<1>3. PromiseInv /\ [Next]_vars => [Promise!Next]_(Promise!promiseVars)
  BY PromiseStep
<1> QED BY <1>1, <1>2, <1>3, PTL DEF Spec, KeepsPromise, Promise!Spec
=============================================================================
