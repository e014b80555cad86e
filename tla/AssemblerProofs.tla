-------------------------- MODULE AssemblerProofs --------------------------
(***************************************************************************)
(* Theorems about Assembler, for any programs, conditions and variables of *)
(* a project.                                                              *)
(***************************************************************************)
EXTENDS Assembler, SequenceTheorems, FiniteSetTheorems, WellFoundedInduction, TLAPS

-----------------------------------------------------------------------------
(* Facts about numbers and about the text of a program.                    *)

\* A set of naturals with a bound has a greatest one.
LEMMA LastIs ==
  ASSUME NEW S \in SUBSET Nat, NEW b \in Nat, \A t \in S : t <= b, S # {}
  PROVE  Last(S) \in S /\ Last(S) \in Nat /\ \A u \in S : u <= Last(S)
<1> DEFINE R == OpToRel(<, Nat)
           T == {n \in Nat : n <= b /\ b - n \in S}
<1>1. PICK t \in S : TRUE
  OBVIOUS
<1>2. b - t \in T
  <2> b - t \in Nat /\ b - (b - t) = t  BY <1>1
  <2> QED BY <1>1
<1>3. PICK m \in T : \A k \in T : ~(<<k, m>> \in R)
  <2>1. IsWellFoundedOn(R, Nat)
    BY NatLessThanWellFounded, Zenon
  <2>2. T \subseteq Nat /\ T # {}
    BY <1>2
  <2> HIDE DEF R, T
  <2> QED BY <2>1, <2>2, WFMin
<1>4. \A k \in T : ~(k < m)
  BY <1>3 DEF OpToRel
<1>5. \A u \in S : u <= b - m
  <2> TAKE u \in S
  <2>1. u \in Nat /\ u <= b /\ b - u \in Nat
    OBVIOUS
  <2>2. b - (b - u) = u /\ b - u <= b
    BY <2>1
  <2>3. b - u \in T
    BY <2>1, <2>2
  <2>4. ~(b - u < m) /\ m \in Nat
    BY <2>3, <1>4
  <2> HIDE DEF T
  <2> QED BY <2>1, <2>4
<1>6. \E x \in S : \A y \in S : y <= x
  BY <1>3, <1>5
<1> QED BY <1>6 DEF Last

\* Whoever is the greatest is Last.
LEMMA LastUnique ==
  ASSUME NEW S \in SUBSET Nat, NEW x \in S, \A y \in S : y <= x
  PROVE  Last(S) = x
<1>1. \A z \in S : (\A y \in S : y <= z) => z = x
  <2> TAKE z \in S
  <2> HAVE \A y \in S : y <= z
  <2>1. x <= z /\ z <= x /\ x \in Nat /\ z \in Nat
    OBVIOUS
  <2> QED BY <2>1
<1>2. Last(S) \in S /\ \A y \in S : y <= Last(S)
  BY DEF Last
<1> QED BY <1>1, <1>2

LineNumbers == 1..Len(program)
Closing == {"endrepeat", "endif"}

LEMMA ProgramFacts ==
  ASSUME program \in Programs
  PROVE  /\ Len(program) \in Nat /\ DOMAIN program = LineNumbers /\ LineNumbers \subseteq Nat
         /\ \A l \in LineNumbers :
              IsLine(program[l])
<1>1. program \in Seq({program[l] : l \in DOMAIN program}) /\ \A l \in DOMAIN program : IsLine(program[l])
  BY AssemblerAssumption
<1>2. Len(program) \in Nat /\ DOMAIN program = LineNumbers /\ LineNumbers \subseteq Nat
  BY <1>1, LenProperties DEF LineNumbers
<1> QED BY <1>1, <1>2

\* Counting the lines of some kinds, from one line to another.
LEMMA CountFacts ==
  ASSUME NEW ops, NEW b \in Nat, NEW m \in Nat
  PROVE  /\ OpsIn(ops, b, m) \in Nat
         /\ b <= m + 1 => OpsIn(ops, b, m + 1) = OpsIn(ops, b, m) + IF program[m + 1].op \in ops THEN 1 ELSE 0
         /\ b > m => OpsIn(ops, b, m) = 0
<1> DEFINE C(n) == {l \in b..n : program[l].op \in ops}
<1>1. IsFiniteSet(C(m))
  <2>1. IsFiniteSet(b..m) /\ C(m) \in SUBSET (b..m)
    BY FS_Interval
  <2> QED BY <2>1, FS_Subset
<1>2. OpsIn(ops, b, m) = Cardinality(C(m)) /\ OpsIn(ops, b, m + 1) = Cardinality(C(m + 1))
  BY DEF OpsIn
<1>3. b > m => C(m) = {}
  OBVIOUS
<1>4. b <= m + 1 => C(m + 1) = IF program[m + 1].op \in ops THEN C(m) \cup {m + 1} ELSE C(m)
  OBVIOUS
<1>5. m + 1 \notin C(m)
  OBVIOUS
<1> HIDE DEF C
<1>6. Cardinality(C(m)) \in Nat
  BY <1>1, FS_CardinalityType
<1>7. Cardinality(C(m) \cup {m + 1}) = Cardinality(C(m)) + 1
  BY <1>1, <1>5, FS_AddElement
<1> QED BY <1>2, <1>3, <1>4, <1>6, <1>7, FS_EmptySet

\* The blocks that are open behind a line.
Standing(p) ==
  {b \in 1..p : /\ program[b].op \in Opening
                /\ \A m \in b..p : OpsIn(Opening, b, m) > OpsIn(Closing, b, m)}

LEMMA BlocksAreStanding ==
  ASSUME NEW l \in Nat
  PROVE  /\ Blocks(l) = Standing(l) \ {l} /\ Blocks(l) \subseteq 1..l - 1 /\ Standing(l) \subseteq 1..l
         /\ \A b \in Standing(l) : program[b].op \in Opening
BY DEF Blocks, Standing, Closing

\* A block that is open was open all the time.
LEMMA StandingBefore ==
  ASSUME NEW p \in Nat, NEW b \in Standing(p), NEW g \in b..p
  PROVE  b \in Standing(g) /\ (b # g => b \in Blocks(g))
<1>1. b \in Standing(g)
  BY DEF Standing
<1>2. g \in Nat /\ Blocks(g) = Standing(g) \ {g}
  BY BlocksAreStanding DEF Standing
<1> QED BY <1>1, <1>2

\* What one more line does to them.
LEMMA StandingNext ==
  ASSUME NEW p \in Nat
  PROVE  /\ program[p + 1].op \notin Closing => Blocks(p + 1) = Standing(p)
         /\ program[p + 1].op \notin Closing \cup Opening => Standing(p + 1) = Standing(p)
         /\ program[p + 1].op \in Opening => Standing(p + 1) = Standing(p) \cup {p + 1}
         /\ program[p + 1].op \in Closing =>
              Standing(p + 1) = {b \in Standing(p) : OpsIn(Opening, b, p) > OpsIn(Closing, b, p) + 1}
<1>1. \A b \in 1..p : /\ OpsIn(Opening, b, p) \in Nat /\ OpsIn(Closing, b, p) \in Nat
                      /\ OpsIn(Opening, b, p + 1) = OpsIn(Opening, b, p) + IF program[p + 1].op \in Opening THEN 1 ELSE 0
                      /\ OpsIn(Closing, b, p + 1) = OpsIn(Closing, b, p) + IF program[p + 1].op \in Closing THEN 1 ELSE 0
  BY CountFacts
<1>2. ~(program[p + 1].op \in Opening /\ program[p + 1].op \in Closing)
  BY DEF Opening, Closing
<1>3. \A b \in 1..p : b \in Standing(p) <=> program[b].op \in Opening /\ \A m \in b..p : OpsIn(Opening, b, m) > OpsIn(Closing, b, m)
  BY DEF Standing
<1>4. \A b \in 1..p : b \in Standing(p + 1) <=>
        b \in Standing(p) /\ OpsIn(Opening, b, p + 1) > OpsIn(Closing, b, p + 1)
  <2> TAKE b \in 1..p
  <2>1. b..(p + 1) = (b..p) \cup {p + 1} /\ b \in 1..p + 1
    OBVIOUS
  <2> QED BY <2>1, <1>3 DEF Standing
<1>5. p + 1 \in Standing(p + 1) <=> program[p + 1].op \in Opening
  <2>1. (p + 1)..(p + 1) = {p + 1} /\ p + 1 \in 1..p + 1
    OBVIOUS
  <2>2. /\ OpsIn(Opening, p + 1, p + 1) = OpsIn(Opening, p + 1, p) + IF program[p + 1].op \in Opening THEN 1 ELSE 0
        /\ OpsIn(Closing, p + 1, p + 1) = OpsIn(Closing, p + 1, p) + IF program[p + 1].op \in Closing THEN 1 ELSE 0
        /\ OpsIn(Opening, p + 1, p) = 0 /\ OpsIn(Closing, p + 1, p) = 0
    BY CountFacts
  <2>3. program[p + 1].op \in Opening => OpsIn(Opening, p + 1, p + 1) > OpsIn(Closing, p + 1, p + 1)
    BY <2>2, <1>2
  <2> QED BY <2>1, <2>3 DEF Standing
<1>6. Standing(p) \subseteq 1..p /\ Standing(p + 1) \subseteq 1..p + 1 /\ Blocks(p + 1) = Standing(p + 1) \ {p + 1}
  BY BlocksAreStanding
<1>7. \A b \in Standing(p) : OpsIn(Opening, b, p) > OpsIn(Closing, b, p)
  BY DEF Standing
<1>8. \A b \in 1..p : b \in Standing(p + 1) <=>
        b \in Standing(p) /\ OpsIn(Opening, b, p) + (IF program[p + 1].op \in Opening THEN 1 ELSE 0)
                           > OpsIn(Closing, b, p) + (IF program[p + 1].op \in Closing THEN 1 ELSE 0)
  BY <1>1, <1>4
<1>9. program[p + 1].op \notin Closing => \A b \in 1..p : b \in Standing(p + 1) <=> b \in Standing(p)
  BY <1>1, <1>6, <1>7, <1>8
<1>10. program[p + 1].op \in Closing => \A b \in 1..p : b \in Standing(p + 1) <=> b \in Standing(p) /\ OpsIn(Opening, b, p) > OpsIn(Closing, b, p) + 1
  BY <1>2, <1>1, <1>6, <1>8
<1>11. \A b \in 1..p + 1 : b \in 1..p \/ b = p + 1
  OBVIOUS
<1>12. p + 1 \notin 1..p
  OBVIOUS
<1> QED BY <1>2, <1>5, <1>6, <1>9, <1>10, <1>11, <1>12

-----------------------------------------------------------------------------
(* The types of the variables.                                             *)

DeclaredAs == {"label", "constant", "conditional label", "conditional constant", "variable"}
GlobalLines == {g \in LineNumbers : program[g].op = "global"}
SectionNames == {program[l].name : l \in LineNumbers} \cup {None}
Prefixes == {program[g].name[1] : g \in GlobalLines} \cup {"", None}
Names ==
  {program[l].name : l \in LineNumbers} \cup (UNION {{program[g].name \o program[l].name : l \in LineNumbers} : g \in LineNumbers}) \cup ProjectVariables
ContextType ==
  [kind : {"root", "if", "repeat"}, line : 0..Len(program), section : SectionNames, cond : Conditions \cup {None},
   macro : Nat \cup {None}, hasElse : BOOLEAN, prefix : Prefixes, thenPrefix : Prefixes, elsePrefix : Prefixes]
TableType == [parent : Nat, entries : SUBSET (Names \X Nat)]
SymbolType ==
  [type : DeclaredAs, name : Names, entries : SUBSET [cond : SUBSET (Conditions \X BOOLEAN), def : 0..Len(program)]]
ItemType ==
  [kind : {"if", "repeat", "label", "ephemeral", "use"}, line : LineNumbers, section : SectionNames,
   path : SUBSET (Nat \X BOOLEAN), cond : Conditions \cup {None}]
UseType == [line : LineNumbers, name : Names, table : Nat]
TypeOK ==
  /\ program \in Programs /\ pos \in 1..Len(program) + 1 /\ error \in Errors \cup {None}
  /\ contexts \in Seq(ContextType) /\ Len(contexts) >= 1
  /\ tables \in Seq(TableType) /\ Len(tables) >= 2 /\ table \in 2..Len(tables)
  /\ symbols \in Seq(SymbolType) /\ items \in Seq(ItemType) /\ uses \subseteq UseType

\* The instruction of an #if is made with the first one inside: a context without one
\* has none behind it.
WithMacro(c, m) == [c EXCEPT !.macro = m]
FirstMacroless(cs, f) == f \in 1..Len(cs) /\ Macroless(cs) = f + 1..Len(cs)

IsAdded(kind, cs, its, f) ==
  LET a == AddInstruction(kind, cs, its)
      last == Len(its) + (Len(cs) - f) + 1
  IN /\ a.contexts = [k \in 1..Len(cs) |-> IF k > f THEN WithMacro(cs[k], Len(its) + k - f) ELSE cs[k]]
     /\ a.contexts \in Seq(ContextType) /\ Len(a.contexts) = Len(cs)
     /\ Len(a.items) = last /\ DOMAIN a.items = 1..last /\ \E S : a.items \in Seq(S)
     /\ \A i \in 1..Len(its) : a.items[i] = its[i]
     /\ \A j \in 1..Len(cs) - f : a.items[Len(its) + j] = Item("if", cs[f + j].line, a.contexts, f + j - 1)
     /\ a.items[last] = Item(kind, pos, a.contexts, Len(cs))
     /\ \A i \in 1..last : i \in 1..Len(its) \/ (\E j \in 1..Len(cs) - f : i = Len(its) + j) \/ i = last

LEMMA AddInstructionIs ==
  ASSUME NEW kind, NEW cs \in Seq(ContextType), NEW its \in Seq(ItemType), NEW f, FirstMacroless(cs, f)
  PROVE  IsAdded(kind, cs, its, f)
<1> DEFINE a == AddInstruction(kind, cs, its)
           n == Len(cs)
           c == Len(its)
           with == WithMacros(cs, c)
           macros == [j \in 1..n - f |-> Item("if", with[f + j].line, with, f + j - 1)]
<1>1. n \in Nat /\ c \in Nat /\ f \in Nat /\ f >= 1 /\ f <= n /\ DOMAIN cs = 1..n
  BY LenProperties DEF FirstMacroless
<1>2. Cardinality(Macroless(cs)) = n - f
  <2>1. Cardinality(f + 1..n) = IF f + 1 > n THEN 0 ELSE n - (f + 1) + 1
    <3>1. f + 1 \in Int /\ n \in Int
      BY <1>1
    <3> HIDE DEF n
    <3> QED BY <3>1, FS_Interval
  <2>2. (f + 1 > n => n - f = 0) /\ n - (f + 1) + 1 = n - f
    <3> HIDE DEF n
    <3> QED BY <1>1
  <2> QED BY <2>1, <2>2 DEF FirstMacroless
<1> DEFINE E(k) == WithMacro(cs[k], c + k - f)
<1>3. with = [k \in 1..n |-> IF k > f THEN WithMacro(cs[k], c + k - f) ELSE cs[k]]
  <2>1. \A k \in 1..n : k \in Macroless(cs) <=> k > f
    BY <1>1 DEF FirstMacroless
  <2>2. n - Cardinality(Macroless(cs)) = f
    BY <1>1, <1>2
  <2>3. with = [k \in 1..n |-> IF k \in Macroless(cs) THEN [cs[k] EXCEPT !.macro = c + k - (n - Cardinality(Macroless(cs)))] ELSE cs[k]]
    BY <1>1 DEF WithMacros
  <2>4. with = [k \in 1..n |-> IF k \in Macroless(cs) THEN E(k) ELSE cs[k]]
    BY <2>2, <2>3, Zenon DEF WithMacro
  <2> HIDE DEF E, with
  <2>5. with = [k \in 1..n |-> IF k > f THEN E(k) ELSE cs[k]]
    BY <2>1, <2>4
  <2> QED BY <2>5 DEF E
<1>4. a = [contexts |-> with, items |-> its \o macros \o <<Item(kind, pos, with, Len(with))>>]
  <2>1. n - (n - f) = f
    BY <1>1
  <2> QED BY <1>1, <1>2, <2>1 DEF AddInstruction
<1>5. \A k \in 1..n : with[k] \in ContextType /\ with[k].line = cs[k].line
  <2> TAKE k \in 1..n
  <2>1. cs[k] \in ContextType
    BY <1>1
  <2>2. k > f => c + k - f \in Nat
    BY <1>1
  <2>3. k > f => E(k) \in ContextType /\ E(k).line = cs[k].line
    BY <2>1, <2>2 DEF ContextType, WithMacro
  <2>4. with[k] = IF k > f THEN E(k) ELSE cs[k]
    BY <1>3
  <2> HIDE DEF E, with
  <2> QED BY <2>1, <2>3, <2>4
<1>6. with \in Seq(ContextType) /\ Len(with) = n
  <2>1. with = [k \in 1..n |-> with[k]]
    BY <1>3
  <2> HIDE DEF with
  <2> QED BY <1>1, <1>5, <2>1
<1>7. \A k \in 1..n : with[k].line = cs[k].line
  BY <1>5
<1> HIDE DEF with
<1>8. \E S : its \in Seq(S) /\ macros \in Seq(S) /\ <<Item(kind, pos, with, n)>> \in Seq(S)
  <2> DEFINE S == ItemType \cup {macros[j] : j \in 1..n - f} \cup {Item(kind, pos, with, n)}
  <2>1. its \in Seq(S)
    BY SeqMonotonic
  <2>2. macros \in Seq(S)
    <3>1. n - f \in Nat
      BY <1>1
    <3>2. \A j \in 1..n - f : macros[j] \in S
      OBVIOUS
    <3>3. macros = [j \in 1..n - f |-> macros[j]]
      OBVIOUS
    <3> HIDE DEF macros, n, S
    <3> QED BY <3>1, <3>2, <3>3
  <2>3. <<Item(kind, pos, with, n)>> \in Seq(S)
    OBVIOUS
  <2> QED BY <2>1, <2>2, <2>3
<1>9. Len(macros) = n - f /\ DOMAIN macros = 1..n - f
  BY <1>1
<1> DEFINE last == <<Item(kind, pos, with, n)>>
           all == its \o macros \o last
<1>10. Len(last) = 1 /\ last[1] = Item(kind, pos, with, n)
  OBVIOUS
<1> HIDE DEF macros, last
<1>11. /\ Len(its \o macros) = c + (n - f) /\ \A i \in 1..c : (its \o macros)[i] = its[i]
       /\ \A j \in 1..n - f : (its \o macros)[c + j] = macros[j]
  <2> PICK S : its \in Seq(S) /\ macros \in Seq(S)
    BY <1>8
  <2>1. /\ Len(its \o macros) = Len(its) + Len(macros)
        /\ \A i \in 1..Len(its) + Len(macros) :
             (its \o macros)[i] = IF i <= Len(its) THEN its[i] ELSE macros[i - Len(its)]
    BY ConcatProperties
  <2>2. \A j \in 1..n - f : c + j \in 1..c + (n - f) /\ ~(c + j <= c) /\ c + j - c = j
    BY <1>1
  <2> QED BY <1>1, <1>9, <2>1, <2>2
<1>12. /\ Len(all) = c + (n - f) + 1 /\ DOMAIN all = 1..c + (n - f) + 1 /\ \E S : all \in Seq(S)
       /\ \A i \in 1..c + (n - f) : all[i] = (its \o macros)[i]
       /\ all[c + (n - f) + 1] = Item(kind, pos, with, n)
  <2> PICK S : its \in Seq(S) /\ macros \in Seq(S) /\ last \in Seq(S)
    BY <1>8 DEF last
  <2>1. its \o macros \in Seq(S)
    BY ConcatProperties
  <2> DEFINE both == its \o macros
  <2>2. /\ both \o last \in Seq(S) /\ Len(both \o last) = Len(both) + Len(last)
        /\ \A i \in 1..Len(both) + Len(last) :
             (both \o last)[i] = IF i <= Len(both) THEN both[i] ELSE last[i - Len(both)]
    BY <2>1, ConcatProperties
  <2>3. DOMAIN (both \o last) = 1..Len(both \o last)
    BY <2>2, LenProperties
  <2>4. c + (n - f) + 1 - (c + (n - f)) = 1 /\ ~(c + (n - f) + 1 <= c + (n - f)) /\ c + (n - f) \in Nat
    BY <1>1
  <2>5. Len(both) = c + (n - f)
    BY <1>11
  <2>6. all = both \o last
    OBVIOUS
  <2>12. \E S1 : all \in Seq(S1)
    BY <2>2, <2>6
  <2> HIDE DEF both, all, n, c
  <2>7. Len(all) = c + (n - f) + 1 /\ DOMAIN all = 1..c + (n - f) + 1
    BY <1>10, <2>2, <2>3, <2>5, <2>6
  <2>8. \A i \in 1..c + (n - f) : i \in 1..Len(both) + Len(last) /\ i <= Len(both)
    BY <1>1, <1>10, <2>5
  <2>9. \A i \in 1..Len(both) + Len(last) : i = Len(both) + 1 => all[i] = last[1]
    <3> TAKE i \in 1..Len(both) + Len(last)
    <3> HAVE i = Len(both) + 1
    <3>1. ~(i <= Len(both)) /\ i - Len(both) = 1
      BY <1>1, <2>5
    <3> QED BY <2>2, <2>6, <3>1
  <2>11. c + (n - f) + 1 \in 1..Len(both) + Len(last) /\ c + (n - f) + 1 = Len(both) + 1
    BY <1>1, <1>10, <2>5
  <2>10. \A i \in 1..c + (n - f) : all[i] = both[i]
    BY <2>2, <2>6, <2>8
  <2> QED BY <1>10, <2>7, <2>9, <2>10, <2>11, <2>12 DEF both
<1>13. \A j \in 1..n - f : f + j \in 1..n /\ c + j \in 1..c + (n - f)
  BY <1>1
<1>14. \A j \in 1..n - f : macros[j] = Item("if", cs[f + j].line, with, f + j - 1)
  <2> TAKE j \in 1..n - f
  <2>1. macros[j] = Item("if", with[f + j].line, with, f + j - 1)
    BY DEF macros
  <2>2. with[f + j].line = cs[f + j].line
    BY <1>7, <1>13
  <2> QED BY <2>1, <2>2
<1>15. \A i \in 1..c : i \in 1..c + (n - f)
  BY <1>1
<1>16. a.contexts = with /\ a.items = all
  BY <1>4, <1>6 DEF last
<1>17. \A i \in 1..c + (n - f) + 1 : i \in 1..c \/ (\E j \in 1..n - f : i = c + j) \/ i = c + (n - f) + 1
  <2> TAKE i \in 1..c + (n - f) + 1
  <2>1. CASE i <= c
    BY <1>1, <2>1
  <2>2. CASE i > c /\ i <= c + (n - f)
    <3>1. i - c \in 1..n - f /\ i = c + (i - c)
      BY <1>1, <2>2
    <3> QED BY <3>1
  <2> QED BY <1>1, <2>1, <2>2
<1> HIDE DEF all
<1> QED BY <1>3, <1>6, <1>11, <1>12, <1>13, <1>14, <1>15, <1>16, <1>17 DEF IsAdded

-----------------------------------------------------------------------------
(* The invariant.                                                          *)

\* The contexts are the blocks that are open, each opened inside the one before it.
Inner == 2..Len(contexts)
LineOf(k) == contexts[k].line
StackInv ==
  /\ contexts[1].kind = "root" /\ contexts[1].line = 0 /\ ~contexts[1].hasElse
  /\ \A k \in Inner :
       /\ contexts[k].kind \in Opening /\ LineOf(k) \in 1..pos - 1 /\ program[LineOf(k)].op = contexts[k].kind
       /\ contexts[k].kind = "if" => contexts[k].cond = program[LineOf(k)].name
       /\ contexts[k].kind = "repeat" => ~contexts[k].hasElse
       /\ Blocks(LineOf(k)) = {LineOf(j) : j \in 2..k - 1}
       /\ OpsIn(Opening, LineOf(k), pos - 1) = OpsIn(Closing, LineOf(k), pos - 1) + (Len(contexts) - k + 1)
  /\ \A j, k \in Inner : j < k => LineOf(j) < LineOf(k)
  /\ Standing(pos - 1) = {LineOf(k) : k \in Inner}

\* Line e is the #else of the #if at line b.
IsElse(b, e) == program[e].op = "else" /\ b \in Blocks(e) /\ \A d \in Blocks(e) : d <= b
ElseInv ==
  \A k \in Inner :
    /\ contexts[k].hasElse <=> \E e \in 1..pos - 1 : IsElse(LineOf(k), e)
    /\ \A e \in 1..pos - 1 : IsElse(LineOf(k), e) =>
         /\ \A d \in 1..pos - 1 : IsElse(LineOf(k), d) => d = e
         /\ \A j \in Inner : k < j => e < LineOf(j)

\* Sections and files begin outside of all blocks, and all contexts are in the section of the root.
Sections == {m \in 1..pos - 1 : program[m].op = "section"}
Outside == {m \in 1..pos - 1 : program[m].op \in {"section", "file"}}
SectionInv ==
  /\ \A k \in Inner : contexts[k].section = contexts[1].section /\ \A m \in Outside : m < LineOf(k)
  /\ contexts[1].section # None => Sections # {} /\ contexts[1].section = program[Last(Sections)].name

\* The global labels that a line behind line p can refer to: as in GlobalOf.
Later(b, g, p) ==
  InElse(b, g) /\ \E h \in 1..p : program[h].op = "global" /\ SameFile(h, p) /\ b \in Blocks(h) /\ ~InElse(b, h)
Alive(p) ==
  {g \in 1..p : program[g].op = "global" /\ SameFile(g, p) /\ \A b \in Blocks(g) \ Standing(p) : ~Later(b, g, p)}
GlobalsIn(from, to) == {g \in from..to : program[g].op = "global"}
\* The prefix p is the last of them, and lies behind line b.
NamesLast(p, l, b) == Alive(l) # {} /\ b < Last(Alive(l)) /\ p = program[Last(Alive(l))].name[1]
IsPrefix(q, l) == (q = "" /\ Alive(l) = {}) \/ NamesLast(q, l, 0)
\* A branch from line b to line l has no global label, or its own prefix is q, the last one.
Labelled(own, q, b, l) == (own = None /\ GlobalsIn(b, l) = {}) \/ (own = q /\ NamesLast(q, l, b))
OwnPrefix(c, q, b, l, around) ==
  /\ ~c.hasElse => c.elsePrefix = None /\ Labelled(c.thenPrefix, q, b, l)
  /\ c.hasElse =>
       \E e \in 1..l : /\ IsElse(b, e) /\ Standing(e) = around
                       /\ Labelled(c.thenPrefix, c.thenPrefix, b, e) /\ Labelled(c.elsePrefix, q, e, l)
\* The blocks that are open from the outermost to the k-th.
LinesTo(k) == {LineOf(j) : j \in 2..k}
PrefixInv ==
  /\ IsPrefix(Prefix, pos - 1)
  /\ \A k \in Inner : contexts[k].kind = "if" =>
       OwnPrefix(contexts[k], Prefix, LineOf(k), pos - 1, LinesTo(k))

\* The instruction of a block that has one is that of its line.
MacroInv ==
  \E f : /\ FirstMacroless(contexts, f)
         /\ \A k \in 2..f : contexts[k].macro \in DOMAIN items /\ items[contexts[k].macro].line = LineOf(k)

-----------------------------------------------------------------------------
(* What a step does to the contexts.                                       *)

Advance == pos \in LineNumbers /\ pos' = pos + 1 /\ program' = program /\ error = None /\ error' = None
SameBlocks(n) ==
  \A k \in 1..n :
    /\ contexts'[k].kind = contexts[k].kind /\ contexts'[k].line = contexts[k].line
    /\ contexts[k].kind = "if" => contexts'[k].cond = contexts[k].cond
    /\ contexts'[k].hasElse = (contexts[k].hasElse \/ (Line.op = "else" /\ k = n))
SameSections(n) ==
  \A k \in 1..n : contexts'[k].section = IF Line.op = "section" THEN Line.name ELSE IF Line.op = "file" THEN None ELSE contexts[k].section
Stays ==
  /\ Advance /\ Line.op \notin Opening \cup Closing
  /\ Line.op \in {"section", "file"} => Len(contexts) = 1
  /\ Line.op = "else" => Top.kind = "if" /\ ~Top.hasElse
  /\ Len(contexts') = Len(contexts) /\ SameBlocks(Len(contexts)) /\ SameSections(Len(contexts))
Opens ==
  /\ Advance /\ Line.op \in Opening
  /\ Len(contexts') = Len(contexts) + 1 /\ SameBlocks(Len(contexts)) /\ SameSections(Len(contexts))
  /\ LET new == contexts'[Len(contexts) + 1]
     IN /\ new.kind = Line.op /\ new.line = pos /\ ~new.hasElse /\ new.section = Top.section
        /\ Line.op = "if" => new.cond = Line.name
Closes ==
  /\ Advance /\ Line.op \in Closing
  /\ Len(contexts) >= 2 /\ Top.kind = (IF Line.op = "endif" THEN "if" ELSE "repeat")
  /\ Len(contexts') = Len(contexts) - 1 /\ SameBlocks(Len(contexts) - 1) /\ SameSections(Len(contexts) - 1)
Stands == UNCHANGED <<program, pos, parserVars>>

\* The fields of a context other than macro, and other than those of prefixes.
SameBut(cs, ds) ==
  \A k \in 1..Len(cs) :
    /\ ds[k].kind = cs[k].kind /\ ds[k].line = cs[k].line /\ ds[k].section = cs[k].section
    /\ ds[k].cond = cs[k].cond /\ ds[k].hasElse = cs[k].hasElse
SamePrefixes(cs, ds) ==
  \A k \in 1..Len(cs) :
    ds[k].prefix = cs[k].prefix /\ ds[k].thenPrefix = cs[k].thenPrefix /\ ds[k].elsePrefix = cs[k].elsePrefix

LEMMA WithPrefixIs ==
  ASSUME NEW cs \in Seq(ContextType), NEW p \in Prefixes
  PROVE  LET ds == WithPrefix(cs, p)
         IN /\ ds \in Seq(ContextType) /\ Len(ds) = Len(cs) /\ SameBut(cs, ds)
            /\ \A k \in 1..Len(cs) : ds[k].macro = cs[k].macro
            /\ \A f : FirstMacroless(ds, f) <=> FirstMacroless(cs, f)
            /\ \A k \in 1..Len(cs) :
                 /\ ds[k].prefix = IF cs[k].kind = "root" THEN p ELSE cs[k].prefix
                 /\ ds[k].thenPrefix = IF cs[k].kind = "if" /\ ~cs[k].hasElse THEN p ELSE cs[k].thenPrefix
                 /\ ds[k].elsePrefix = IF cs[k].kind = "if" /\ cs[k].hasElse THEN p ELSE cs[k].elsePrefix
<1> DEFINE R(c) == IF c.kind = "root" THEN [c EXCEPT !.prefix = p]
                   ELSE IF c.kind = "repeat" THEN c
                   ELSE IF c.hasElse THEN [c EXCEPT !.elsePrefix = p] ELSE [c EXCEPT !.thenPrefix = p]
           ds == [k \in 1..Len(cs) |-> R(cs[k])]
<1>1. DOMAIN cs = 1..Len(cs) /\ Len(cs) \in Nat /\ \A k \in 1..Len(cs) : cs[k] \in ContextType
  BY LenProperties
<1>2. WithPrefix(cs, p) = ds
  BY <1>1 DEF WithPrefix
<1>3. \A c \in ContextType :
        /\ R(c) \in ContextType
        /\ R(c).kind = c.kind /\ R(c).line = c.line /\ R(c).section = c.section /\ R(c).cond = c.cond
        /\ R(c).hasElse = c.hasElse /\ R(c).macro = c.macro
        /\ R(c).prefix = IF c.kind = "root" THEN p ELSE c.prefix
        /\ R(c).thenPrefix = IF c.kind = "if" /\ ~c.hasElse THEN p ELSE c.thenPrefix
        /\ R(c).elsePrefix = IF c.kind = "if" /\ c.hasElse THEN p ELSE c.elsePrefix
  <2> TAKE c \in ContextType
  <2>1. c.kind \in {"root", "if", "repeat"} /\ c.hasElse \in BOOLEAN
    BY DEF ContextType
  <2>2. CASE c.kind = "root"
    BY <2>2 DEF ContextType
  <2>3. CASE c.kind = "repeat"
    BY <2>3 DEF ContextType
  <2>4. CASE c.kind = "if" /\ c.hasElse
    BY <2>4 DEF ContextType
  <2>5. CASE c.kind = "if" /\ ~c.hasElse
    BY <2>5 DEF ContextType
  <2> QED BY <2>1, <2>2, <2>3, <2>4, <2>5
<1> HIDE DEF R
<1>4. ds \in Seq(ContextType) /\ Len(ds) = Len(cs) /\ DOMAIN ds = 1..Len(cs) /\ \A k \in 1..Len(cs) : ds[k] = R(cs[k])
  BY <1>1, <1>3
<1> HIDE DEF ds
<1>5. Macroless(ds) = Macroless(cs)
  BY <1>1, <1>3, <1>4 DEF Macroless
<1>6. \A f : FirstMacroless(ds, f) <=> FirstMacroless(cs, f)
  BY <1>4, <1>5 DEF FirstMacroless
<1>7. /\ SameBut(cs, ds) /\ \A k \in 1..Len(cs) : ds[k].macro = cs[k].macro
      /\ \A k \in 1..Len(cs) :
           /\ ds[k].prefix = IF cs[k].kind = "root" THEN p ELSE cs[k].prefix
           /\ ds[k].thenPrefix = IF cs[k].kind = "if" /\ ~cs[k].hasElse THEN p ELSE cs[k].thenPrefix
           /\ ds[k].elsePrefix = IF cs[k].kind = "if" /\ cs[k].hasElse THEN p ELSE cs[k].elsePrefix
  BY <1>1, <1>3, <1>4 DEF SameBut
<1> QED BY <1>2, <1>4, <1>6, <1>7

\* An instruction that is added changes nothing in the contexts but who has a macro.
OnlyMacros(cs, ds, count, f) ==
  /\ ds \in Seq(ContextType) /\ Len(ds) = Len(cs) /\ SameBut(cs, ds) /\ SamePrefixes(cs, ds)
  /\ \A k \in 1..f : ds[k].macro = cs[k].macro
  /\ \A k \in f + 1..Len(cs) : ds[k].macro = count + k - f
LEMMA AddedContexts ==
  ASSUME NEW kind, NEW cs \in Seq(ContextType), NEW its \in Seq(ItemType), NEW f, FirstMacroless(cs, f)
  PROVE  OnlyMacros(cs, AddInstruction(kind, cs, its).contexts, Len(its), f)
<1> DEFINE a == AddInstruction(kind, cs, its)
           ds == a.contexts
           E(k) == WithMacro(cs[k], Len(its) + k - f)
<1>1. /\ ds = [k \in 1..Len(cs) |-> IF k > f THEN E(k) ELSE cs[k]]
      /\ ds \in Seq(ContextType) /\ Len(ds) = Len(cs)
  <2>1. IsAdded(kind, cs, its, f)
    BY AddInstructionIs
  <2>2. /\ a.contexts = [k \in 1..Len(cs) |-> IF k > f THEN WithMacro(cs[k], Len(its) + k - f) ELSE cs[k]]
        /\ a.contexts \in Seq(ContextType) /\ Len(a.contexts) = Len(cs)
    BY <2>1 DEF IsAdded
  <2> QED BY <2>2
<1>2. DOMAIN cs = 1..Len(cs) /\ Len(cs) \in Nat /\ f \in 1..Len(cs) /\ \A k \in 1..Len(cs) : cs[k] \in ContextType
  BY LenProperties DEF FirstMacroless
<1>3. \A k \in 1..Len(cs) :
        /\ E(k).kind = cs[k].kind /\ E(k).line = cs[k].line /\ E(k).section = cs[k].section
        /\ E(k).cond = cs[k].cond /\ E(k).hasElse = cs[k].hasElse /\ E(k).macro = Len(its) + k - f
        /\ E(k).prefix = cs[k].prefix /\ E(k).thenPrefix = cs[k].thenPrefix /\ E(k).elsePrefix = cs[k].elsePrefix
  BY <1>2 DEF ContextType, WithMacro
<1> HIDE DEF E
<1>4. \A k \in 1..Len(cs) : ds[k] = IF k > f THEN E(k) ELSE cs[k]
  <2> HIDE DEF ds
  <2> QED BY <1>1
<1>5. (\A k \in 1..f : k \in 1..Len(cs) /\ ~(k > f)) /\ (\A k \in f + 1..Len(cs) : k \in 1..Len(cs) /\ k > f)
  BY <1>2
<1> HIDE DEF ds
<1>6. SameBut(cs, ds) /\ SamePrefixes(cs, ds)
  BY <1>3, <1>4 DEF SameBut, SamePrefixes
<1> QED BY <1>1, <1>3, <1>4, <1>5, <1>6 DEF ds, OnlyMacros

LEMMA LineFacts ==
  ASSUME TypeOK, pos <= Len(program)
  PROVE  /\ pos \in LineNumbers /\ pos \in Nat /\ IsLine(Line) /\ Line = program[pos] /\ Line.op \in Ops
         /\ Line.name \in SectionNames
         /\ Line.op = "global" => Line.name[1] \in Prefixes \ {None, ""}
<1>1. pos \in LineNumbers /\ pos \in Nat
  BY ProgramFacts DEF TypeOK, LineNumbers
<1> QED BY <1>1, ProgramFacts DEF TypeOK, Line, IsLine, SectionNames, Prefixes, GlobalLines

LEMMA ContextFacts ==
  ASSUME TypeOK
  PROVE  /\ Len(contexts) \in Nat /\ Len(contexts) >= 1 /\ DOMAIN contexts = 1..Len(contexts)
         /\ \A k \in 1..Len(contexts) : contexts[k] \in ContextType
         /\ 1 \in 1..Len(contexts) /\ Len(contexts) \in 1..Len(contexts) /\ Top \in ContextType /\ Prefix \in Prefixes
         /\ Len(items) \in Nat
<1>1. Len(contexts) \in Nat /\ Len(contexts) >= 1 /\ DOMAIN contexts = 1..Len(contexts) /\ contexts \in Seq(ContextType)
  BY LenProperties DEF TypeOK
<1>2. \A k \in 1..Len(contexts) : contexts[k] \in ContextType
  BY <1>1
<1>3. 1 \in 1..Len(contexts) /\ Len(contexts) \in 1..Len(contexts)
  BY <1>1
<1>4. Prefix \in Prefixes
  BY <1>2, <1>3 DEF Prefix, ContextType
<1> QED BY <1>1, <1>2, <1>3, <1>4, LenProperties DEF Top, TypeOK

\* The names the contexts give for the line at hand.
LEMMA AddedStays ==
  ASSUME TypeOK, NEW kind, NEW cs, cs = contexts \/ (Line.op = "global" /\ cs = WithPrefix(contexts, Line.name[1])),
         pos <= Len(program), NEW f, FirstMacroless(contexts, f)
  PROVE  LET ds == AddInstruction(kind, cs, items).contexts
         IN /\ cs \in Seq(ContextType) /\ FirstMacroless(cs, f)
            /\ ds \in Seq(ContextType) /\ Len(ds) = Len(contexts) /\ SameBut(contexts, ds)
            /\ \A k \in 1..f : ds[k].macro = contexts[k].macro
            /\ \A k \in f + 1..Len(cs) : ds[k].macro = Len(items) + k - f
            /\ SamePrefixes(cs, ds) /\ SameBut(contexts, cs) /\ Len(cs) = Len(contexts)
<1>1. /\ cs \in Seq(ContextType) /\ Len(cs) = Len(contexts) /\ SameBut(contexts, cs) /\ FirstMacroless(cs, f)
      /\ \A k \in 1..Len(contexts) : cs[k].macro = contexts[k].macro
  <2>1. CASE cs = contexts
    BY <2>1 DEF SameBut, TypeOK
  <2>2. CASE Line.op = "global" /\ cs = WithPrefix(contexts, Line.name[1])
    <3>1. Line.name[1] \in Prefixes /\ contexts \in Seq(ContextType)
      BY <2>2, LineFacts DEF TypeOK
    <3> QED BY <2>2, <3>1, WithPrefixIs
  <2> QED BY <2>1, <2>2
<1>2. items \in Seq(ItemType)
  BY DEF TypeOK
<1> DEFINE ds == AddInstruction(kind, cs, items).contexts
<1>7. OnlyMacros(cs, ds, Len(items), f)
  BY <1>1, <1>2, AddedContexts
<1>3. /\ ds \in Seq(ContextType) /\ Len(ds) = Len(cs) /\ SameBut(cs, ds) /\ SamePrefixes(cs, ds)
      /\ \A k \in 1..f : ds[k].macro = cs[k].macro
      /\ \A k \in f + 1..Len(cs) : ds[k].macro = Len(items) + k - f
  BY <1>7 DEF OnlyMacros
<1> HIDE DEF ds
<1>4. f \in 1..Len(contexts) /\ Len(contexts) \in Nat
  BY ContextFacts DEF FirstMacroless
<1>5. SameBut(contexts, ds)
  BY <1>1, <1>3 DEF SameBut
<1>6. \A k \in 1..f : ds[k].macro = contexts[k].macro
  BY <1>1, <1>3, <1>4
<1> QED BY <1>1, <1>3, <1>5, <1>6 DEF ds

LEMMA AddsStay ==
  ASSUME TypeOK, StackInv, MacroInv, AddLabel \/ AddConstant \/ AddUse
  PROVE  Stays /\ contexts' \in Seq(ContextType)
<1>1. /\ Advance /\ Line.op \in {"global", "label", "equ", "equhere", "use"} /\ pos <= Len(program)
      /\ \/ contexts' = contexts
         \/ \E kind : contexts' = AddInstruction(kind, contexts, items).contexts
         \/ \E kind : contexts' = AddInstruction(kind, NewPrefix, items).contexts
  <2>1. ASSUME AddLabel \/ AddConstant \/ AddUse
        PROVE  /\ pos <= Len(program) /\ Line.op \in {"global", "label", "equ", "equhere", "use"}
               /\ pos' = pos + 1 /\ program' = program /\ error = None /\ error' = None
    BY <2>1 DEF AddLabel, AddConstant, AddUse, At, NextLine
  <2>2. ASSUME AddLabel PROVE \E kind : contexts' = AddInstruction(kind, NewPrefix, items).contexts
    BY <2>2 DEF AddLabel
  <2>3. ASSUME AddConstant PROVE contexts' = contexts \/ \E kind : contexts' = AddInstruction(kind, contexts, items).contexts
    BY <2>3 DEF AddConstant
  <2>4. ASSUME AddUse PROVE \E kind : contexts' = AddInstruction(kind, contexts, items).contexts
    BY <2>4 DEF AddUse
  <2> QED BY <2>1, <2>2, <2>3, <2>4, LineFacts DEF Advance
<1>2. PICK f : FirstMacroless(contexts, f)
  BY DEF MacroInv
<1>3. NewPrefix = contexts \/ (Line.op = "global" /\ NewPrefix = WithPrefix(contexts, Line.name[1]))
  BY DEF NewPrefix
<1>4. contexts' \in Seq(ContextType) /\ Len(contexts') = Len(contexts) /\ SameBut(contexts, contexts')
  <2>1. CASE contexts' = contexts
    BY <2>1 DEF SameBut, TypeOK
  <2>2. CASE \E kind : contexts' = AddInstruction(kind, contexts, items).contexts
    BY <1>1, <1>2, <2>2, AddedStays
  <2>3. CASE \E kind : contexts' = AddInstruction(kind, NewPrefix, items).contexts
    BY <1>1, <1>2, <1>3, <2>3, AddedStays
  <2> QED BY <1>1, <2>1, <2>2, <2>3
<1>5. Line.op \notin {"section", "file", "else"} \cup Opening \cup Closing
  BY <1>1 DEF Opening, Closing
<1> QED BY <1>1, <1>4, <1>5, ContextFacts DEF Stays, SameBlocks, SameSections, SameBut, ContextType

\* The context of a block that begins.
IsNew(kind, cond, macro) ==
  LET c == Context(kind, Top.section, cond, macro)
  IN /\ c \in ContextType /\ c.kind = kind /\ c.line = pos /\ c.section = Top.section /\ c.cond = cond
     /\ c.macro = macro /\ c.hasElse = FALSE /\ c.thenPrefix = None /\ c.elsePrefix = None
LEMMA NewContext ==
  ASSUME TypeOK, pos <= Len(program), NEW kind \in {"if", "repeat"}, NEW cond \in Conditions \cup {None}, NEW macro \in Nat \cup {None}
  PROVE  IsNew(kind, cond, macro)
<1>3. pos \in 1..Len(program) /\ Len(program) \in Nat
  BY LineFacts, ProgramFacts DEF TypeOK, LineNumbers
<1>4. "" \in Prefixes /\ None \in Prefixes
  BY DEF Prefixes
<1>1. pos \in 0..Len(program)
  BY <1>3
<1>2. Top.section \in SectionNames
  BY ContextFacts DEF ContextType
<1> QED BY <1>1, <1>2, <1>4 DEF IsNew, Context, ContextType

LEMMA RootIs ==
  ASSUME program \in Programs
  PROVE  /\ Root \in ContextType /\ Root.kind = "root" /\ Root.line = 0 /\ ~Root.hasElse /\ Root.section = None
         /\ Root.macro = None /\ Root.prefix = ""
<1>1. 0 \in 0..Len(program) /\ None \in SectionNames /\ {"", None} \subseteq Prefixes
  BY ProgramFacts DEF SectionNames, Prefixes
<1> QED BY <1>1 DEF Root, Context, ContextType

\* The root is the only context of its kind.
LEMMA RootFacts ==
  ASSUME TypeOK, StackInv
  PROVE  /\ Top.kind = "root" <=> Len(contexts) = 1
         /\ Top.kind # "root" => Len(contexts) \in Inner /\ Len(contexts) >= 2
<1>1. Len(contexts) = 1 \/ Len(contexts) \in Inner
  BY ContextFacts DEF Inner
<1>2. \A k \in Inner : contexts[k].kind # "root"
  BY DEF StackInv, Opening
<1> QED BY <1>1, <1>2, ContextFacts DEF StackInv, Top, Inner

LEMMA SectionStays ==
  ASSUME TypeOK, StackInv, Section \/ Else \/ File
  PROVE  (Stays /\ contexts' \in Seq(ContextType)) \/ Stands
<1>1. pos <= Len(program)
  BY DEF Section, Else, File, At
<1>2. CASE Section
  <2>1. CASE Stands
    BY <2>1
  <2>2. CASE Top.kind = "root" /\ contexts' = [contexts EXCEPT ![1].section = Line.name] /\ NextLine
    <3> DEFINE c == [contexts[1] EXCEPT !.section = Line.name]
    <3>1. c \in ContextType /\ c.kind = contexts[1].kind /\ c.line = contexts[1].line /\ c.cond = contexts[1].cond
          /\ c.hasElse = contexts[1].hasElse /\ c.section = Line.name
      BY <1>1, ContextFacts, LineFacts DEF ContextType
    <3>2. contexts' = [contexts EXCEPT ![1] = c]
      BY <2>2
    <3> HIDE DEF c
    <3>3. Len(contexts) = 1 /\ contexts \in Seq(ContextType) /\ c \in ContextType /\ contexts[1] \in ContextType
      BY <2>2, <3>1, ContextFacts, RootFacts DEF TypeOK
    <3>4. contexts' \in Seq(ContextType) /\ Len(contexts') = 1 /\ contexts'[1] = c
      <4>1. 1 \in 1..Len(contexts)
        BY <3>3
      <4>2. contexts' \in Seq(ContextType)
        BY <3>2, <3>3, <4>1, ExceptSeq
      <4>3. Len(contexts') = Len(contexts) /\ contexts'[1] = c
        BY <3>2, <3>3, <4>1, ExceptSeq
      <4> QED BY <3>3, <4>2, <4>3
    <3>5. Advance /\ Line.op = "section"
      BY <1>2, <2>2, <1>1, LineFacts DEF Section, At, NextLine, Advance
    <3>6. SameBlocks(1) /\ SameSections(1)
      BY <3>1, <3>3, <3>4, <3>5 DEF SameBlocks, SameSections, ContextType
    <3> QED BY <3>3, <3>4, <3>5, <3>6 DEF Stays, Opening, Closing
  <2> QED BY <1>2, <2>1, <2>2 DEF Section, Reject, Stands
<1>3. CASE Else
  <2>1. CASE Stands
    BY <2>1
  <2>2. CASE Top.kind = "if" /\ ~Top.hasElse /\ contexts' = [contexts EXCEPT ![Len(contexts)].hasElse = TRUE] /\ NextLine
    <3> DEFINE c == [Top EXCEPT !.hasElse = TRUE]
               n == Len(contexts)
    <3>1. c \in ContextType /\ c.kind = Top.kind /\ c.line = Top.line /\ c.cond = Top.cond
          /\ c.hasElse /\ c.section = Top.section
      BY <1>1, ContextFacts, LineFacts DEF ContextType
    <3>2. contexts' = [contexts EXCEPT ![n] = c]
      BY <2>2 DEF Top
    <3> HIDE DEF c
    <3>9. n \in Nat /\ n >= 1 /\ contexts \in Seq(ContextType) /\ Len(contexts) = n
      BY ContextFacts DEF TypeOK
    <3>3. contexts' \in Seq(ContextType) /\ Len(contexts') = n /\ contexts'[n] = c /\ \A k \in 1..n : k # n => contexts'[k] = contexts[k]
      <4> HIDE DEF n
      <4> QED BY <3>1, <3>2, <3>9
    <3>4. Advance /\ Line.op = "else"
      BY <1>3, <2>2, <1>1, LineFacts DEF Else, At, NextLine, Advance
    <3>5. Top = contexts[n]
      BY DEF Top
    <3>6. \A k \in 1..n : contexts[k].hasElse \in BOOLEAN
      BY ContextFacts DEF ContextType
    <3> HIDE DEF n
    <3>7. SameBlocks(n)
      BY <3>1, <3>3, <3>4, <3>5, <3>6 DEF SameBlocks
    <3>8. SameSections(n)
      BY <3>1, <3>3, <3>4, <3>5 DEF SameSections
    <3> QED BY <2>2, <3>3, <3>4, <3>7, <3>8 DEF Stays, Opening, Closing, n
  <2> QED BY <1>3, <2>1, <2>2 DEF Else, Reject, Stands
<1>4. CASE File
  <2>1. CASE Stands
    BY <2>1
  <2>2. CASE Top.kind = "root" /\ contexts' = <<Root>> /\ NextLine
    <3>1. contexts' \in Seq(ContextType) /\ Len(contexts') = 1 /\ contexts'[1] = Root /\ Len(contexts) = 1
      <4>1. Root \in ContextType /\ Len(contexts) = 1
        BY <2>2, RootIs, RootFacts DEF TypeOK
      <4> HIDE DEF Root
      <4> QED BY <2>2, <4>1
    <3>2. Advance /\ Line.op = "file"
      BY <1>4, <2>2, <1>1, LineFacts DEF File, At, NextLine, Advance
    <3>3. /\ contexts[1].kind = "root" /\ contexts[1].line = 0 /\ ~contexts[1].hasElse
          /\ contexts[1].hasElse \in BOOLEAN
      BY ContextFacts DEF StackInv, ContextType
    <3>4. Root.kind = "root" /\ Root.line = 0 /\ Root.hasElse = FALSE /\ Root.section = None
      BY DEF Root, Context
    <3>5. SameBlocks(1) /\ SameSections(1)
      <4> HIDE DEF Root
      <4>1. \A k \in 1..1 : k = 1
        OBVIOUS
      <4>2. contexts'[1].hasElse = contexts[1].hasElse
        BY <3>1, <3>3, <3>4
      <4> QED BY <3>1, <3>2, <3>3, <3>4, <4>1, <4>2 DEF SameBlocks, SameSections
    <3> QED BY <3>1, <3>2, <3>5 DEF Stays, Opening, Closing
  <2> QED BY <1>4, <2>1, <2>2 DEF File, Reject, Stands
<1> QED BY <1>2, <1>3, <1>4

LEMMA EndsClose ==
  ASSUME TypeOK, StackInv, EndRepeat \/ EndIf
  PROVE  (Closes /\ contexts' \in Seq(ContextType)) \/ Stands
<1>1. pos <= Len(program)
  BY DEF EndRepeat, EndIf, At
<1> DEFINE n == Len(contexts) - 1
<1>2. ASSUME n \in Nat, n >= 1
      PROVE  /\ Enclosing \in Seq(ContextType) /\ Len(Enclosing) = n /\ \A k \in 1..n : Enclosing[k] = contexts[k]
  BY <1>2, SubSeqProperties, ContextFacts DEF Enclosing, TypeOK
<1>3. Top.kind # "root" => n \in Nat /\ n >= 1
  BY RootFacts, ContextFacts
<1>4. ASSUME Line.op = "endif", Top.kind = "if"
      PROVE  /\ PrefixAtPop \in Seq(ContextType) /\ Len(PrefixAtPop) = n /\ SameBut(Enclosing, PrefixAtPop)
  <2>1. Top.thenPrefix \in Prefixes /\ Top.elsePrefix \in Prefixes
    BY ContextFacts DEF ContextType
  <2>2. Enclosing \in Seq(ContextType) /\ Len(Enclosing) = n
    BY <1>2, <1>3, <1>4
  <2>3. \A p \in Prefixes : WithPrefix(Enclosing, p) \in Seq(ContextType) /\ Len(WithPrefix(Enclosing, p)) = n /\ SameBut(Enclosing, WithPrefix(Enclosing, p))
    BY <2>2, WithPrefixIs
  <2>4. SameBut(Enclosing, Enclosing)
    BY DEF SameBut
  <2> QED BY <2>1, <2>2, <2>3, <2>4 DEF PrefixAtPop
<1>5. CASE EndRepeat
  <2>1. CASE Stands
    BY <2>1
  <2>2. CASE Top.kind = "repeat" /\ contexts' = Enclosing /\ NextLine
    <3>1. Advance /\ Line.op = "endrepeat"
      BY <1>1, <1>5, <2>2, LineFacts DEF EndRepeat, At, NextLine, Advance
    <3>2. n \in Nat /\ n >= 1 /\ contexts' \in Seq(ContextType) /\ Len(contexts') = n /\ \A k \in 1..n : contexts'[k] = contexts[k]
      BY <1>2, <1>3, <2>2
    <3>3. \A k \in 1..n : contexts[k].hasElse \in BOOLEAN
      BY ContextFacts DEF ContextType
    <3>4. Len(contexts) >= 2
      BY <3>2, ContextFacts
    <3> HIDE DEF n
    <3>5. SameBlocks(n) /\ SameSections(n)
      BY <3>1, <3>2, <3>3 DEF SameBlocks, SameSections
    <3> QED BY <2>2, <3>1, <3>2, <3>4, <3>5 DEF Closes, Closing, n
  <2> QED BY <1>5, <2>1, <2>2 DEF EndRepeat, Reject, Stands
<1>6. CASE EndIf
  <2>1. CASE Stands
    BY <2>1
  <2>2. CASE Top.kind = "if" /\ contexts' = PrefixAtPop /\ NextLine
    <3>1. Advance /\ Line.op = "endif"
      BY <1>1, <1>6, <2>2, LineFacts DEF EndIf, At, NextLine, Advance
    <3>2. SameBut(Enclosing, contexts') /\ Len(contexts') = n /\ contexts' \in Seq(ContextType) /\ \A k \in 1..n : Enclosing[k] = contexts[k]
      BY <1>2, <1>3, <1>4, <2>2, <3>1
    <3>3. n \in Nat /\ n >= 1 /\ Len(Enclosing) = n /\ \A k \in 1..n : contexts[k] \in ContextType
      BY <1>2, <1>3, <2>2, ContextFacts
    <3>4. Len(contexts) >= 2 /\ \A k \in 1..n : contexts[k].hasElse \in BOOLEAN
      BY <3>3, ContextFacts DEF ContextType
    <3> HIDE DEF n
    <3>5. SameBlocks(n) /\ SameSections(n)
      BY <3>1, <3>2, <3>3, <3>4 DEF SameBlocks, SameSections, SameBut
    <3> QED BY <2>2, <3>1, <3>2, <3>4, <3>5 DEF Closes, Closing, n
  <2> QED BY <1>6, <2>1, <2>2 DEF EndIf, Reject, Stands
<1> QED BY <1>5, <1>6

\* The instruction of a #repeat and those of the blocks around it have theirs.
LEMMA BlocksOpen ==
  ASSUME TypeOK, StackInv, MacroInv, Repeat \/ If
  PROVE  (Opens /\ contexts' \in Seq(ContextType)) \/ Stands
<1>1. pos <= Len(program)
  BY DEF Repeat, If, At
<1> DEFINE n == Len(contexts)
<1>2. n \in Nat /\ n >= 1 /\ Top = contexts[n] /\ contexts \in Seq(ContextType) /\ \A k \in 1..n : contexts[k].hasElse \in BOOLEAN
  BY ContextFacts DEF Top, TypeOK, ContextType
<1>3. ASSUME NEW cs \in Seq(ContextType), Len(cs) = n, SameBut(contexts, cs), NEW c \in ContextType,
             contexts' = Append(cs, c), Advance, Line.op \in Opening,
             c.kind = Line.op, c.line = pos, ~c.hasElse, c.section = Top.section, Line.op = "if" => c.cond = Line.name
      PROVE  Opens /\ contexts' \in Seq(ContextType)
  <2>1. contexts' \in Seq(ContextType) /\ Len(contexts') = n + 1 /\ contexts'[n + 1] = c /\ \A k \in 1..n : contexts'[k] = cs[k]
    BY <1>3, AppendProperties
  <2> HIDE DEF n
  <2>3. Line.op \notin {"else", "section", "file"}
    BY <1>3 DEF Opening
  <2>4. \A k \in 1..n : /\ contexts'[k].kind = contexts[k].kind /\ contexts'[k].line = contexts[k].line
                        /\ contexts'[k].cond = contexts[k].cond /\ contexts'[k].hasElse = contexts[k].hasElse
                        /\ contexts'[k].section = contexts[k].section
    BY <1>3, <2>1 DEF SameBut, n
  <2>2. SameBlocks(n) /\ SameSections(n)
    BY <1>2, <2>3, <2>4 DEF SameBlocks, SameSections
  <2> QED BY <1>3, <2>1, <2>2 DEF Opens, n
<1>4. CASE If
  <2>1. Advance /\ Line.op = "if" /\ contexts' = Append(contexts, Context("if", Top.section, Line.name, None))
    BY <1>1, <1>4, LineFacts DEF If, At, NextLine, Advance
  <2>2. Line.name \in Conditions
    BY <1>1, <2>1, LineFacts DEF IsLine
  <2>3. SameBut(contexts, contexts)
    BY DEF SameBut
  <2> DEFINE c == Context("if", Top.section, Line.name, None)
  <2>4. c \in ContextType /\ c.kind = "if" /\ c.line = pos /\ ~c.hasElse /\ c.section = Top.section /\ c.cond = Line.name
    <3>1. "if" \in {"if", "repeat"} /\ Line.name \in Conditions \cup {None} /\ None \in Nat \cup {None}
      BY <2>2
    <3>2. IsNew("if", Line.name, None)
      BY <1>1, <3>1, NewContext
    <3> QED BY <3>2 DEF IsNew
  <2> HIDE DEF c
  <2> QED BY <1>2, <1>3, <2>1, <2>3, <2>4 DEF Opening, c
<1>5. CASE Repeat
  <2>1. CASE Stands
    BY <2>1
  <2> DEFINE added == AddInstruction("repeat", contexts, items)
             c == Context("repeat", Top.section, None, Len(added.items))
  <2>2. CASE contexts' = Append(added.contexts, c) /\ NextLine
    <3>1. Advance /\ Line.op = "repeat"
      BY <1>1, <1>5, <2>2, LineFacts DEF Repeat, At, NextLine, Advance
    <3>2. PICK f : FirstMacroless(contexts, f)
      BY DEF MacroInv
    <3>3. added.contexts \in Seq(ContextType) /\ Len(added.contexts) = n /\ SameBut(contexts, added.contexts)
      BY <1>1, <3>2, AddedStays
    <3>4. Len(added.items) \in Nat
      <4>1. IsAdded("repeat", contexts, items, f)
        BY <3>2, AddInstructionIs DEF TypeOK
      <4>2. Len(added.items) = Len(items) + (n - f) + 1
        BY <4>1 DEF IsAdded
      <4>3. f \in 1..n /\ Len(items) \in Nat
        BY <3>2, ContextFacts DEF FirstMacroless
      <4> HIDE DEF added, n
      <4> QED BY <1>2, <4>2, <4>3
    <3>5. c \in ContextType /\ c.kind = "repeat" /\ c.line = pos /\ ~c.hasElse /\ c.section = Top.section
      <4>1. IsNew("repeat", None, Len(added.items))
        <5> HIDE DEF added
        <5> QED BY <1>1, <3>4, NewContext
      <4> QED BY <4>1 DEF IsNew
    <3> HIDE DEF c, added
    <3> QED BY <1>3, <2>2, <3>1, <3>3, <3>5 DEF Opening
  <2> QED BY <1>5, <2>1, <2>2 DEF Repeat, Reject, Stands
<1> QED BY <1>4, <1>5

\* Each step is one of these.
LEMMA StepCases ==
  ASSUME TypeOK, StackInv, MacroInv, [Next]_vars
  PROVE  ((Stays \/ Opens \/ Closes) /\ contexts' \in Seq(ContextType)) \/ Stands
<1>1. CASE UNCHANGED vars \/ Finished \/ Close \/ RejectLine
  BY <1>1 DEF vars, Finished, Close, RejectLine, Reject, Stands
<1> QED BY <1>1, AddsStay, SectionStays, EndsClose, BlocksOpen DEF Next

-----------------------------------------------------------------------------
(* The contexts are the blocks that are open.                              *)

\* The text stays as it is, and so does what it says.
LEMMA SameText ==
  ASSUME program' = program
  PROVE  /\ \A ops, b, m : OpsIn(ops, b, m)' = OpsIn(ops, b, m)
         /\ \A l : Blocks(l)' = Blocks(l) /\ Standing(l)' = Standing(l) /\ SectionAt(l)' = SectionAt(l)
         /\ \A b, l : InElse(b, l)' = InElse(b, l) /\ IsElse(b, l)' = IsElse(b, l)
<1>1. \A ops, b, m : OpsIn(ops, b, m)' = OpsIn(ops, b, m)
  BY DEF OpsIn
<1>2. \A l : Blocks(l)' = Blocks(l) /\ Standing(l)' = Standing(l)
  BY <1>1 DEF Blocks, Standing
<1>3. \A b, l : InElse(b, l)' = InElse(b, l) /\ IsElse(b, l)' = IsElse(b, l)
  BY <1>2 DEF InElse, IsElse
<1> QED BY <1>1, <1>2, <1>3 DEF SectionAt

\* The line at hand, seen from the one above it.
LEMMA StepNumbers ==
  ASSUME TypeOK, Advance
  PROVE  /\ pos - 1 \in Nat /\ pos - 1 + 1 = pos /\ pos' - 1 = pos /\ pos \in Nat /\ pos >= 1
         /\ program[pos] = Line /\ IsLine(Line) /\ program' = program
BY ProgramFacts DEF TypeOK, Advance, LineNumbers, Line

\* What becomes of the contexts that stay.
Kept(n) == n \in 1..Len(contexts) /\ Advance /\ SameBlocks(n) /\ (Line.op = "else" => contexts[n].kind = "if" /\ ~contexts[n].hasElse)
KeptIs(n) ==
  /\ contexts'[1].kind = "root" /\ contexts'[1].line = 0 /\ ~contexts'[1].hasElse
  /\ \A k \in 2..n :
       /\ k \in Inner /\ LineOf(k) \in 1..pos - 1 /\ LineOf(k) \in 1..pos' - 1 /\ LineOf(k) \in Nat
       /\ contexts'[k].kind \in Opening /\ contexts'[k].line = LineOf(k)
       /\ program[LineOf(k)].op = contexts'[k].kind /\ contexts'[k].kind = contexts[k].kind
       /\ contexts'[k].kind = "if" => contexts'[k].cond = program[LineOf(k)].name
       /\ contexts'[k].kind = "repeat" => ~contexts'[k].hasElse
       /\ Blocks(LineOf(k)) = {LineOf(j) : j \in 2..k - 1}
  /\ \A j, k \in 2..n : j < k => LineOf(j) < LineOf(k)
LEMMA KeptBlocks ==
  ASSUME TypeOK, StackInv, NEW n, Kept(n)
  PROVE  KeptIs(n)
<1>1. n \in Nat /\ n >= 1 /\ n <= Len(contexts) /\ 1 \in 1..n /\ \A k \in 2..n : k \in Inner /\ k \in 1..n
  BY ContextFacts DEF Kept, Inner
<1>2. \A k \in 1..n : /\ contexts'[k].kind = contexts[k].kind /\ contexts'[k].line = contexts[k].line
                      /\ contexts[k].kind = "if" => contexts'[k].cond = contexts[k].cond
                      /\ contexts'[k].hasElse = (contexts[k].hasElse \/ (Line.op = "else" /\ k = n))
  BY DEF Kept, SameBlocks
<1>3. pos' - 1 = pos /\ pos \in Nat
  BY StepNumbers DEF Kept
<1>4. \A k \in Inner : LineOf(k) \in 1..pos - 1 /\ LineOf(k) \in 1..pos' - 1 /\ LineOf(k) \in Nat
  BY <1>3 DEF StackInv
<1>5. Line.op = "else" => contexts[n].kind = "if" /\ ~contexts[n].hasElse
  BY DEF Kept
<1>6. \A k \in 2..n :
              /\ contexts'[k].kind \in Opening /\ contexts'[k].line = LineOf(k)
              /\ program[LineOf(k)].op = contexts'[k].kind
              /\ contexts'[k].kind = "if" => contexts'[k].cond = program[LineOf(k)].name
              /\ contexts'[k].kind = "repeat" => ~contexts'[k].hasElse
              /\ Blocks(LineOf(k)) = {LineOf(j) : j \in 2..k - 1}
  <2> TAKE k \in 2..n
  <2>1. k \in Inner /\ k \in 1..n
    BY <1>1
  <2>2. /\ contexts[k].kind \in Opening /\ program[LineOf(k)].op = contexts[k].kind
        /\ contexts[k].kind = "if" => contexts[k].cond = program[LineOf(k)].name
        /\ contexts[k].kind = "repeat" => ~contexts[k].hasElse
        /\ Blocks(LineOf(k)) = {LineOf(j) : j \in 2..k - 1}
    BY <2>1 DEF StackInv
  <2>3. contexts'[k].kind = contexts[k].kind /\ contexts'[k].line = LineOf(k)
    BY <1>2, <2>1 DEF LineOf
  <2>4. contexts'[k].kind = "if" => contexts'[k].cond = program[LineOf(k)].name
    BY <1>2, <2>1, <2>2, <2>3
  <2>5. contexts'[k].kind = "repeat" => ~contexts'[k].hasElse
    BY <1>2, <1>5, <2>1, <2>2, <2>3
  <2> QED BY <2>2, <2>3, <2>4, <2>5
<1>7. contexts'[1].kind = "root" /\ contexts'[1].line = 0 /\ ~contexts'[1].hasElse
  BY <1>1, <1>2, <1>5 DEF StackInv
<1>8. \A j, k \in 2..n : j < k => LineOf(j) < LineOf(k)
  BY <1>1 DEF StackInv
<1>9. \A k \in 2..n : contexts'[k].kind = contexts[k].kind
  BY <1>1, <1>2
<1>10. \A k \in 2..n : k \in Inner /\ LineOf(k) \in 1..pos - 1 /\ LineOf(k) \in 1..pos' - 1 /\ LineOf(k) \in Nat
  BY <1>1, <1>4
<1> QED BY <1>6, <1>7, <1>8, <1>9, <1>10 DEF KeptIs

\* How the lines between count.
LEMMA KeptCounts ==
  ASSUME TypeOK, StackInv, NEW k \in Inner, Advance
  PROVE  LET deep(m) == OpsIn(Opening, LineOf(k), pos) = OpsIn(Closing, LineOf(k), pos) + (m - k + 1)
         IN /\ Line.op \notin Opening \cup Closing => deep(Len(contexts))
            /\ Line.op \in Opening => deep(Len(contexts) + 1)
            /\ Line.op \in Closing => deep(Len(contexts) - 1)
            /\ OpsIn(Opening, LineOf(k), pos - 1) > OpsIn(Closing, LineOf(k), pos - 1) + 1 <=> k \in 2..Len(contexts) - 1
<1> DEFINE p == pos - 1
           b == LineOf(k)
<1>1. p \in Nat /\ p + 1 = pos /\ program[p + 1] = Line /\ b \in Nat /\ b <= p + 1 /\ k \in Nat /\ Len(contexts) \in Nat
  BY StepNumbers, ContextFacts DEF StackInv, Inner
<1>2. OpsIn(Opening, b, p) = OpsIn(Closing, b, p) + (Len(contexts) - k + 1)
  BY DEF StackInv
<1> HIDE DEF p, b
<1>3. \A ops : /\ OpsIn(ops, b, p) \in Nat /\ OpsIn(ops, b, p + 1) \in Nat
               /\ OpsIn(ops, b, p + 1) = OpsIn(ops, b, p) + IF Line.op \in ops THEN 1 ELSE 0
  <2>1. p + 1 \in Nat
    BY <1>1
  <2> QED BY <1>1, <2>1, CountFacts
<1> DEFINE o0 == OpsIn(Opening, b, p)
           c0 == OpsIn(Closing, b, p)
           o1 == OpsIn(Opening, b, p + 1)
           c1 == OpsIn(Closing, b, p + 1)
           n == Len(contexts)
<1>4. /\ o0 \in Nat /\ c0 \in Nat /\ o1 = o0 + (IF Line.op \in Opening THEN 1 ELSE 0)
      /\ c1 = c0 + (IF Line.op \in Closing THEN 1 ELSE 0) /\ o0 = c0 + (n - k + 1)
      /\ n \in Nat /\ k \in 2..n
  BY <1>1, <1>2, <1>3 DEF Inner
<1>5. ~(Line.op \in Opening /\ Line.op \in Closing)
  BY DEF Opening, Closing
<1> HIDE DEF o0, c0, o1, c1, n
<1>6. /\ Line.op \notin Opening \cup Closing => o1 = c1 + (n - k + 1)
      /\ Line.op \in Opening => o1 = c1 + (n + 1 - k + 1)
      /\ Line.op \in Closing => o1 = c1 + (n - 1 - k + 1)
      /\ o0 > c0 + 1 <=> k \in 2..n - 1
  BY <1>4, <1>5
<1> QED BY <1>1, <1>6 DEF p, b, o0, c0, o1, c1, n

LEMMA StackNext ==
  ASSUME TypeOK, StackInv, Stays \/ Opens \/ Closes \/ Stands
  PROVE  StackInv'
<1> DEFINE n == Len(contexts)
           p == pos - 1
           Deep(k, m) == OpsIn(Opening, LineOf(k), pos) = OpsIn(Closing, LineOf(k), pos) + (m - k + 1)
<1>1. n \in Nat /\ n >= 1 /\ Inner = 2..n /\ contexts[n] = Top
  BY ContextFacts DEF Inner, Top
<1>2. ASSUME Advance
      PROVE  /\ p \in Nat /\ p + 1 = pos /\ pos' - 1 = pos /\ program[p + 1] = Line /\ pos \in Nat /\ pos >= 1
             /\ \A k \in Inner :
                  /\ Line.op \notin Opening \cup Closing => Deep(k, n)
                  /\ Line.op \in Opening => Deep(k, n + 1)
                  /\ Line.op \in Closing => Deep(k, n - 1)
                  /\ OpsIn(Opening, LineOf(k), p) > OpsIn(Closing, LineOf(k), p) + 1 <=> k \in 2..n - 1
             /\ Standing(p) = {LineOf(k) : k \in Inner}
             /\ program' = program
  <2>1. Standing(p) = {LineOf(k) : k \in Inner}
    BY DEF StackInv
  <2> QED BY <1>2, <2>1, StepNumbers, KeptCounts
<1> DEFINE Count(k, m) == OpsIn(Opening, contexts'[k].line, pos) = OpsIn(Closing, contexts'[k].line, pos) + (m - k + 1)
           Counts(m) == \A k \in 2..m : Count(k, m)
           Stood(m) == Standing(pos) = {contexts'[k].line : k \in 2..m}
           Others(m) == Counts(m) /\ Stood(m)
           Static(k) ==
             /\ contexts'[k].kind \in Opening /\ contexts'[k].line \in 1..pos' - 1
             /\ program[contexts'[k].line].op = contexts'[k].kind
             /\ contexts'[k].kind = "if" => contexts'[k].cond = program[contexts'[k].line].name
             /\ contexts'[k].kind = "repeat" => ~contexts'[k].hasElse
             /\ Blocks(contexts'[k].line) = {contexts'[j].line : j \in 2..k - 1}
           Rising(m) == \A j, k \in 2..m : j < k => contexts'[j].line < contexts'[k].line
<1>3. ASSUME Advance, NEW m \in Nat, Len(contexts') = m, Others(m), \A k \in 2..m : Static(k), Rising(m),
             contexts'[1].kind = "root" /\ contexts'[1].line = 0 /\ ~contexts'[1].hasElse
      PROVE  StackInv'
  <2>1. pos' - 1 = pos /\ program' = program
    BY <1>2, <1>3
  <2>2. \A k : LineOf(k)' = contexts'[k].line
    BY DEF LineOf
  <2>3. Inner' = 2..m
    BY <1>3 DEF Inner
  <2>4. /\ \A ops, b, q : OpsIn(ops, b, q)' = OpsIn(ops, b, q)
        /\ \A b : Blocks(b)' = Blocks(b) /\ Standing(b)' = Standing(b)
    BY <2>1, SameText
  <2>5. \A k \in Inner' :
          /\ (contexts[k].kind \in Opening /\ LineOf(k) \in 1..pos - 1 /\ program[LineOf(k)].op = contexts[k].kind)'
          /\ (contexts[k].kind = "if" => contexts[k].cond = program[LineOf(k)].name)'
          /\ (contexts[k].kind = "repeat" => ~contexts[k].hasElse)'
          /\ (OpsIn(Opening, LineOf(k), pos - 1) = OpsIn(Closing, LineOf(k), pos - 1) + (Len(contexts) - k + 1))'
    BY <1>3, <2>1, <2>2, <2>3, <2>4 DEF Opening
  <2>6. \A k \in Inner' : (Blocks(LineOf(k)) = {LineOf(j) : j \in 2..k - 1})'
    BY <1>3, <2>3, <2>4 DEF LineOf
  <2>7. (Standing(pos - 1) = {LineOf(k) : k \in Inner})'
    BY <1>3, <2>1, <2>2, <2>3, <2>4
  <2>8. \A j, k \in Inner' : j < k => LineOf(j)' < LineOf(k)'
    BY <1>3, <2>2, <2>3
  <2> HIDE DEF Others, Static, Rising
  <2> QED BY <1>3, <2>5, <2>6, <2>7, <2>8 DEF StackInv
<1> HIDE DEF n, p
<1>4. ASSUME NEW m, Kept(m), m \in Nat
      PROVE  /\ \A k \in 2..m : Static(k)
             /\ Rising(m) /\ contexts'[1].kind = "root" /\ contexts'[1].line = 0 /\ ~contexts'[1].hasElse
             /\ {contexts'[k].line : k \in 2..m} = {LineOf(k) : k \in 2..m}
  <2>1. KeptIs(m)
    BY <1>4, KeptBlocks
  <2>2. \A k \in 2..m : contexts'[k].line = LineOf(k)
    BY <2>1 DEF KeptIs
  <2>3. \A k \in 2..m : {contexts'[j].line : j \in 2..k - 1} = {LineOf(j) : j \in 2..k - 1}
    <3>1. \A k \in 2..m : \A j \in 2..k - 1 : j \in 2..m
      BY <1>4
    <3> QED BY <2>2, <3>1
  <2> QED BY <2>1, <2>2, <2>3 DEF KeptIs
<1>5. CASE Stands
  <2>1. program' = program /\ pos' = pos /\ contexts' = contexts
    BY <1>5 DEF Stands, parserVars
  <2>2. /\ \A ops, b, q : OpsIn(ops, b, q)' = OpsIn(ops, b, q)
        /\ \A b : Blocks(b)' = Blocks(b) /\ Standing(b)' = Standing(b)
    BY <2>1, SameText
  <2>3. Inner' = Inner /\ \A k : LineOf(k)' = LineOf(k)
    BY <2>1 DEF Inner, LineOf
  <2>4. \A k \in Inner : (Blocks(LineOf(k)) = {LineOf(j) : j \in 2..k - 1})'
    BY <2>1, <2>2 DEF StackInv, LineOf
  <2>5. (Standing(pos - 1) = {LineOf(k) : k \in Inner})'
    BY <2>1, <2>2, <2>3 DEF StackInv
  <2>6. \A k \in Inner :
          /\ (contexts[k].kind \in Opening /\ LineOf(k) \in 1..pos - 1 /\ program[LineOf(k)].op = contexts[k].kind)'
          /\ (contexts[k].kind = "if" => contexts[k].cond = program[LineOf(k)].name)'
          /\ (contexts[k].kind = "repeat" => ~contexts[k].hasElse)'
          /\ (OpsIn(Opening, LineOf(k), pos - 1) = OpsIn(Closing, LineOf(k), pos - 1) + (Len(contexts) - k + 1))'
    BY <2>1, <2>2, <2>3 DEF StackInv, Opening
  <2>7. /\ contexts'[1].kind = "root" /\ contexts'[1].line = 0 /\ ~contexts'[1].hasElse
        /\ \A j, k \in Inner : j < k => LineOf(j)' < LineOf(k)'
    BY <2>1, <2>3 DEF StackInv
  <2> QED BY <2>3, <2>4, <2>5, <2>6, <2>7 DEF StackInv
<1>6. CASE Stays
  <2>1. Kept(n) /\ Advance /\ Len(contexts') = n /\ Line.op \notin Opening \cup Closing
    BY <1>1, <1>6 DEF Stays, Kept, n
  <2>2. Others(n)
    <3>1. Standing(pos) = Standing(p)
      BY <1>2, <2>1, StandingNext
    <3>2. \A k \in 2..n : contexts'[k].line = LineOf(k)
      BY <2>1, KeptBlocks DEF KeptIs
    <3>4. \A k \in 2..n : Deep(k, n)
      <4> HIDE DEF Deep
      <4> QED BY <1>1, <1>2, <2>1
    <3>5. Standing(pos) = {LineOf(k) : k \in 2..n}
      BY <1>1, <1>2, <2>1, <3>1
    <3> QED BY <3>2, <3>4, <3>5
  <2> HIDE DEF Others, Static, Rising
  <2> QED BY <1>1, <1>3, <1>4, <2>1, <2>2
<1>7. CASE Closes
  <2>1. /\ Kept(n - 1) /\ Advance /\ Len(contexts') = n - 1 /\ n - 1 \in Nat /\ n >= 2
        /\ Line.op \in Closing /\ Line.op \notin Opening
    BY <1>1, <1>7, ContextFacts DEF Closes, Kept, n, Closing, Opening
  <2>2. Others(n - 1)
    <3>1. Standing(pos) = {b \in Standing(p) : OpsIn(Opening, b, p) > OpsIn(Closing, b, p) + 1}
      BY <1>2, <2>1, StandingNext
    <3>2. \A k \in 2..n - 1 : contexts'[k].line = LineOf(k)
      BY <2>1, KeptBlocks DEF KeptIs
    <3>3. \A k \in 2..n - 1 : k \in Inner /\ Deep(k, n - 1)
      <4>1. \A k \in 2..n - 1 : k \in Inner
        BY <1>1
      <4> HIDE DEF Deep
      <4> QED BY <1>2, <2>1, <4>1
    <3>4. \A k \in Inner : OpsIn(Opening, LineOf(k), p) > OpsIn(Closing, LineOf(k), p) + 1 <=> k \in 2..n - 1
      <4> HIDE DEF Deep
      <4> QED BY <1>2, <2>1
    <3>5. Standing(pos) = {LineOf(k) : k \in 2..n - 1}
      <4>1. \A k \in 2..n - 1 : k \in Inner
        BY <1>1
      <4>2. Standing(p) = {LineOf(k) : k \in Inner}
        BY <1>2, <2>1
      <4> QED BY <3>1, <3>4, <4>1, <4>2
    <3> QED BY <3>2, <3>3, <3>5
  <2> HIDE DEF Others, Static, Rising
  <2> QED BY <1>1, <1>3, <1>4, <2>1, <2>2
<1>8. CASE Opens
  <2>20. PICK q \in Nat : q = n + 1
    BY <1>1
  <2>1. /\ Kept(n) /\ Advance /\ Len(contexts') = q
        /\ Line.op \in Opening /\ Line.op \notin Closing
    BY <1>1, <1>8, <2>20, ContextFacts DEF Opens, Kept, n, Closing, Opening
  <2>2. /\ contexts'[q].kind = Line.op /\ contexts'[q].line = pos /\ ~contexts'[q].hasElse
        /\ Line.op = "if" => contexts'[q].cond = Line.name
    BY <1>8, <2>20 DEF Opens, n
  <2>3. \A k \in 2..q : k \in 2..n \/ k = q
    BY <1>1, <2>20
  <2>4. Blocks(pos) = Standing(p) /\ Standing(pos) = Standing(p) \cup {pos}
    BY <1>2, <2>1, StandingNext
  <2>5. \A k \in 2..n : contexts'[k].line = LineOf(k) /\ LineOf(k) \in 1..pos - 1 /\ LineOf(k) \in Nat /\ LineOf(k) < pos /\ k \in Inner
    BY <1>2, <2>1, KeptBlocks DEF KeptIs
  <2>6. Others(q)
    <3>1. OpsIn(Opening, pos, pos) = 1 /\ OpsIn(Closing, pos, pos) = 0
      <4>1. p \in Nat /\ p + 1 \in Nat /\ p + 1 > p /\ p + 1 <= p + 1 /\ p + 1 = pos /\ program[p + 1] = Line
        BY <1>2, <2>1
      <4>2. \A ops : OpsIn(ops, p + 1, p + 1) = OpsIn(ops, p + 1, p) + (IF program[p + 1].op \in ops THEN 1 ELSE 0) /\ OpsIn(ops, p + 1, p) = 0
        BY <4>1, CountFacts
      <4> QED BY <2>1, <4>1, <4>2
    <3>2. \A k \in 2..n : Deep(k, q)
      <4> HIDE DEF Deep
      <4> QED BY <1>1, <1>2, <2>1, <2>20
    <3>3. q - q + 1 = 1
      BY <1>1, <2>20
    <3>4. Counts(q)
      <4>1. Count(q, q)
        <5>1. 0 + (q - q + 1) = 1
          BY <3>3
        <5> QED BY <2>2, <3>1, <5>1
      <4>2. \A k \in 2..n : Count(k, q)
        BY <2>5, <3>2
      <4> HIDE DEF Count
      <4> QED BY <2>3, <4>1, <4>2
    <3>5. Stood(q)
      <4>1. q \in 2..q /\ \A k \in 2..n : k \in 2..q
        BY <1>1, <2>20
      <4>2. Standing(pos) = {LineOf(k) : k \in 2..n} \cup {pos}
        BY <1>1, <1>2, <2>1, <2>4
      <4> QED BY <2>2, <2>3, <2>5, <4>1, <4>2
    <3> HIDE DEF Counts, Stood
    <3> QED BY <3>4, <3>5
  <2>7. Static(q)
    <3>1. q - 1 = n
      BY <1>1, <2>20
    <3>2. Blocks(pos) = {contexts'[j].line : j \in 2..n}
      <4>1. Blocks(pos) = {LineOf(k) : k \in 2..n}
        BY <1>1, <1>2, <2>1, <2>4
      <4> QED BY <2>5, <4>1
    <3>3. pos \in 1..pos' - 1 /\ program[pos] = Line
      BY <1>2, <2>1
    <3>4. Blocks(contexts'[q].line) = {contexts'[j].line : j \in 2..q - 1}
      BY <2>2, <3>1, <3>2
    <3>5. /\ contexts'[q].kind \in Opening /\ contexts'[q].line \in 1..pos' - 1
          /\ program[contexts'[q].line].op = contexts'[q].kind
          /\ contexts'[q].kind = "if" => contexts'[q].cond = program[contexts'[q].line].name
          /\ contexts'[q].kind = "repeat" => ~contexts'[q].hasElse
      BY <2>1, <2>2, <3>3
    <3> DEFINE c == contexts'[q]
               around == {contexts'[j].line : j \in 2..q - 1}
    <3>6. Blocks(c.line) = around
      BY <3>4
    <3> HIDE DEF c, around
    <3> QED BY <3>5, <3>6 DEF c, around
  <2>8. Rising(q)
    <3>1. \A j, k \in 2..n : j < k => contexts'[j].line < contexts'[k].line
      BY <1>1, <1>4, <2>1
    <3>2. \A k \in 2..q : ~(q < k)
      BY <1>1, <2>20
    <3> QED BY <2>2, <2>3, <2>5, <3>1, <3>2
  <2>9. \A k \in 2..q : Static(k)
    BY <1>1, <1>4, <2>1, <2>3, <2>7
  <2> HIDE DEF Others, Static, Rising
  <2> QED BY <1>1, <1>3, <1>4, <2>1, <2>6, <2>8, <2>9, <2>20
<1> QED BY <1>5, <1>6, <1>7, <1>8

-----------------------------------------------------------------------------
(* Where the contexts have an #else, and in which section they are.        *)

LEMMA ElseAt ==
  ASSUME TypeOK, StackInv, NEW k \in Inner, Advance
  PROVE  IsElse(LineOf(k), pos) <=> Line.op = "else" /\ k = Len(contexts)
<1> DEFINE n == Len(contexts)
<1>1. pos - 1 \in Nat /\ pos - 1 + 1 = pos /\ program[pos] = Line
  BY StepNumbers
<1>2. Line.op = "else" => Blocks(pos) = Standing(pos - 1)
  <2> DEFINE p == pos - 1
  <2>1. p \in Nat /\ p + 1 = pos /\ program[p + 1] = Line
    BY <1>1
  <2> HIDE DEF p
  <2>2. Line.op = "else" => Blocks(p + 1) = Standing(p)
    BY <2>1, StandingNext DEF Closing
  <2> QED BY <2>1, <2>2 DEF p
<1>3. Standing(pos - 1) = {LineOf(j) : j \in Inner} /\ \A j, i \in Inner : j < i => LineOf(j) < LineOf(i)
  BY DEF StackInv
<1>4. \A j \in Inner : LineOf(j) \in Nat /\ j \in Nat /\ j <= n
  BY ContextFacts DEF StackInv, Inner
<1>5. n \in Inner
  BY ContextFacts DEF Inner
<1> HIDE DEF n
<1>6. (\A d \in {LineOf(j) : j \in Inner} : d <= LineOf(k)) <=> k = n
  <2>1. ASSUME k = n, NEW j \in Inner PROVE LineOf(j) <= LineOf(k)
    <3>1. j = k \/ j < k
      BY <1>4, <1>5, <2>1
    <3> QED BY <1>3, <1>4, <3>1
  <2>2. ASSUME k # n PROVE \E d \in {LineOf(j) : j \in Inner} : ~(d <= LineOf(k))
    <3>1. k < n
      BY <1>4, <1>5, <2>2
    <3>2. LineOf(k) < LineOf(n) /\ LineOf(k) \in Nat /\ LineOf(n) \in Nat
      BY <1>3, <1>4, <1>5, <3>1
    <3> QED BY <1>5, <3>2
  <2> QED BY <2>1, <2>2
<1> QED BY <1>1, <1>2, <1>3, <1>6 DEF IsElse, n

\* One of the steps that go on, as contexts that stay and perhaps a new one.
KeptOf == IF Line.op \in Closing THEN Len(contexts) - 1 ELSE Len(contexts)
Goes(m) ==
  /\ m \in Nat /\ m >= 1 /\ Kept(m)
  /\ Line.op = "else" => m = Len(contexts)
  /\ \/ Len(contexts') = m
     \/ Len(contexts') = m + 1 /\ Opens /\ contexts'[m + 1].line = pos /\ ~contexts'[m + 1].hasElse
LEMMA StepGoes ==
  ASSUME TypeOK, StackInv, Stays \/ Opens \/ Closes
  PROVE  \E m : Goes(m) /\ SameSections(m) /\ m = KeptOf /\ (Line.op \in {"section", "file"} => m = 1)
<1> DEFINE n == Len(contexts)
<1>1. n \in Nat /\ n >= 1 /\ contexts[n] = Top
  BY ContextFacts DEF Top
<1>2. CASE Stays \/ Opens
  <2>1. Kept(n) /\ (Line.op \in {"section", "file"} => n = 1) /\ n = KeptOf
    BY <1>1, <1>2 DEF Stays, Opens, Kept, Opening, Closing, KeptOf
  <2>2. Len(contexts') = n \/ (Len(contexts') = n + 1 /\ Opens /\ contexts'[n + 1].line = pos /\ ~contexts'[n + 1].hasElse)
    BY <1>2 DEF Stays, Opens
  <2>3. SameSections(n)
    BY <1>2 DEF Stays, Opens
  <2> HIDE DEF n
  <2>4. Goes(n)
    BY <1>1, <2>1, <2>2 DEF Goes, n
  <2> QED BY <2>1, <2>3, <2>4 DEF n
<1>3. CASE Closes
  <2>1. Kept(n - 1) /\ n - 1 \in Nat /\ n - 1 >= 1 /\ Len(contexts') = n - 1 /\ SameSections(n - 1) /\ Line.op \in Closing
    BY <1>1, <1>3 DEF Closes, Kept, Closing
  <2>2. Line.op \notin {"else", "section", "file"}
    BY <2>1 DEF Closing
  <2> QED BY <2>1, <2>2 DEF Goes, KeptOf
<1> QED BY <1>2, <1>3

LEMMA ElseNext ==
  ASSUME TypeOK, StackInv, ElseInv, Stays \/ Opens \/ Closes \/ Stands
  PROVE  ElseInv'
<1>1. CASE Stands
  <2>1. program' = program /\ pos' = pos /\ contexts' = contexts
    BY <1>1 DEF Stands, parserVars
  <2>2. \A b, l : IsElse(b, l)' = IsElse(b, l)
    BY <2>1, SameText
  <2> QED BY <2>1, <2>2 DEF ElseInv, Inner, LineOf
<1>2. CASE Stays \/ Opens \/ Closes
  <2>1. PICK m : Goes(m)
    BY <1>2, StepGoes
  <2>2. Kept(m) /\ Advance /\ m \in Nat /\ m >= 1
    BY <2>1 DEF Goes, Kept
  <2>3. KeptIs(m)
    BY <2>2, KeptBlocks
  <2>4. pos' - 1 = pos /\ pos \in Nat /\ pos >= 1 /\ pos - 1 \in Nat /\ program' = program
    BY <2>2, StepNumbers
  <2>5. \A k \in 2..m : /\ k \in Inner /\ contexts'[k].line = LineOf(k) /\ LineOf(k) \in 1..pos - 1
                        /\ contexts'[k].hasElse = (contexts[k].hasElse \/ (Line.op = "else" /\ k = m))
    <3>1. \A k \in 2..m : k \in 1..m
      OBVIOUS
    <3> QED BY <2>2, <2>3, <3>1 DEF KeptIs, Kept, SameBlocks
  <2>6. \A k \in 2..m : IsElse(LineOf(k), pos) <=> Line.op = "else" /\ k = m
    BY <2>1, <2>2, <2>5, ElseAt DEF Goes
  <2>7. \A k \in 2..m : IsElse(LineOf(k), pos) => ~contexts[k].hasElse
    BY <2>2, <2>6 DEF Kept
  <2>8. \A e : e \in 1..pos <=> e \in 1..pos - 1 \/ e = pos
    BY <2>4
  <2> DEFINE Has(b) == \E e \in 1..pos : IsElse(b, e)
             One(b) == \A e, d \in 1..pos : IsElse(b, e) /\ IsElse(b, d) => d = e
             Before(b, c) == \A e \in 1..pos : IsElse(b, e) => e < c
  <2>9. \A k \in 2..m : contexts'[k].hasElse <=> Has(contexts'[k].line)
    <3>1. \A k \in 2..m : contexts[k].hasElse <=> \E e \in 1..pos - 1 : IsElse(LineOf(k), e)
      BY <2>5 DEF ElseInv
    <3> QED BY <2>5, <2>6, <2>8, <3>1
  <2>10. \A k \in 2..m : One(contexts'[k].line)
    <3>1. \A k \in 2..m : \A e, d \in 1..pos - 1 : IsElse(LineOf(k), e) /\ IsElse(LineOf(k), d) => d = e
      BY <2>5 DEF ElseInv
    <3>2. \A k \in 2..m : contexts[k].hasElse <=> \E e \in 1..pos - 1 : IsElse(LineOf(k), e)
      BY <2>5 DEF ElseInv
    <3> QED BY <2>5, <2>7, <2>8, <3>1, <3>2
  <2>11. \A k, j \in 2..m : k < j => Before(contexts'[k].line, contexts'[j].line)
    <3>1. \A k, j \in 2..m : k < j => \A e \in 1..pos - 1 : IsElse(LineOf(k), e) => e < LineOf(j)
      BY <2>5 DEF ElseInv
    <3>2. \A k, j \in 2..m : k < j => k # m
      BY <2>2
    <3> QED BY <2>5, <2>6, <2>8, <3>1, <3>2
  <2>12. \A e \in 1..pos : ~IsElse(pos, e)
    <3>1. \A e \in 1..pos : Blocks(e) \subseteq 1..e - 1
      BY <2>4, BlocksAreStanding
    <3> QED BY <2>4, <3>1 DEF IsElse
  <2>13. Len(contexts') = m + 1 => \A k \in 2..m : Before(contexts'[k].line, pos)
    <3>1. Len(contexts') = m + 1 => Line.op # "else"
      BY <2>1, <2>2 DEF Goes, Opens, Opening
    <3> QED BY <2>4, <2>5, <2>6, <2>8, <3>1
  <2>14. /\ \A k \in Inner' : contexts'[k].hasElse <=> Has(contexts'[k].line)
         /\ \A k \in Inner' : One(contexts'[k].line)
         /\ \A k, j \in Inner' : k < j => Before(contexts'[k].line, contexts'[j].line)
    <3>1. CASE Len(contexts') = m
      BY <2>9, <2>10, <2>11, <3>1 DEF Inner
    <3>2. CASE Len(contexts') = m + 1 /\ contexts'[m + 1].line = pos /\ ~contexts'[m + 1].hasElse
      <4>1. PICK q \in Nat : q = m + 1
        BY <2>2
      <4>2. Inner' = 2..q /\ contexts'[q].line = pos /\ ~contexts'[q].hasElse
        BY <3>2, <4>1 DEF Inner
      <4>3. \A k \in 2..q : k \in 2..m \/ k = q
        BY <2>2, <4>1
      <4>4. ~Has(pos) /\ One(pos)
        BY <2>12
      <4>5. \A k, j \in 2..q : k < j => k \in 2..m
        BY <2>2, <4>1
      <4>6. \A k \in 2..m : Before(contexts'[k].line, pos)
        BY <2>13, <3>2
      <4> HIDE DEF Has, One, Before
      <4>7. \A k, j \in 2..q : k < j => Before(contexts'[k].line, contexts'[j].line)
        BY <2>11, <4>2, <4>3, <4>5, <4>6
      <4> QED BY <2>9, <2>10, <4>2, <4>3, <4>4, <4>7
    <3> QED BY <2>1, <3>1, <3>2 DEF Goes
  <2>15. \A b, l : IsElse(b, l)' = IsElse(b, l)
    BY <2>4, SameText
  <2> QED BY <2>4, <2>14, <2>15 DEF ElseInv, LineOf
<1> QED BY <1>1, <1>2

LEMMA SectionNext ==
  ASSUME TypeOK, StackInv, SectionInv, Stays \/ Opens \/ Closes \/ Stands
  PROVE  SectionInv'
<1>1. CASE Stands
  BY <1>1 DEF Stands, parserVars, SectionInv, Inner, LineOf, Sections, Outside
<1>2. CASE Stays \/ Opens \/ Closes
  <2>1. PICK m : Goes(m) /\ SameSections(m) /\ m = KeptOf /\ (Line.op \in {"section", "file"} => m = 1)
    BY <1>2, StepGoes
  <2>2. Kept(m) /\ Advance /\ m \in Nat /\ m >= 1 /\ 1 \in 1..m
    BY <2>1 DEF Goes, Kept
  <2>3. KeptIs(m)
    BY <2>2, KeptBlocks
  <2>4. pos' - 1 = pos /\ pos \in Nat /\ pos >= 1 /\ pos - 1 \in Nat /\ program' = program /\ program[pos] = Line
    BY <2>2, StepNumbers
  <2>5. Sections' = IF Line.op = "section" THEN Sections \cup {pos} ELSE Sections
    <3>1. \A e : e \in 1..pos <=> e \in 1..pos - 1 \/ e = pos
      BY <2>4
    <3> QED BY <2>4, <3>1 DEF Sections
  <2>6. Sections \in SUBSET Nat /\ \A e \in Sections : e <= pos - 1 /\ e < pos
    BY <2>4 DEF Sections
  <2>7. contexts'[1].section # None => Sections' # {} /\ contexts'[1].section = program[Last(Sections')].name
    <3>1. CASE Line.op = "section"
      <4>1. contexts'[1].section = Line.name
        BY <2>1, <2>2, <3>1 DEF SameSections
      <4>2. Sections' = Sections \cup {pos}
        BY <2>5, <3>1
      <4>3. Sections \cup {pos} \in SUBSET Nat /\ pos \in Sections \cup {pos} /\ \A e \in Sections \cup {pos} : e <= pos
        BY <2>4, <2>6
      <4>4. Last(Sections \cup {pos}) = pos
        BY <4>3, LastUnique
      <4> QED BY <2>4, <4>1, <4>2, <4>4
    <3>2. CASE Line.op = "file"
      <4>1. contexts'[1].section = None
        BY <2>1, <2>2, <3>2 DEF SameSections
      <4> QED BY <4>1
    <3>3. CASE Line.op \notin {"section", "file"}
      <4>1. contexts'[1].section = contexts[1].section
        BY <2>1, <2>2, <3>3 DEF SameSections
      <4>2. Sections' = Sections
        BY <2>5, <3>3
      <4>3. contexts[1].section # None => Sections # {} /\ contexts[1].section = program[Last(Sections)].name
        BY DEF SectionInv
      <4> QED BY <4>1, <4>2, <4>3
    <3> QED BY <3>1, <3>2, <3>3
  <2>8. \A k \in Inner' : contexts'[k].section = contexts'[1].section /\ \A e \in Outside' : e < contexts'[k].line
    <3>1. CASE Line.op \in {"section", "file"}
      <4>1. m = 1 /\ Len(contexts') = m
        BY <2>1, <3>1 DEF Goes, Opens, Opening
      <4>2. Inner' = {}
        BY <4>1 DEF Inner
      <4> QED BY <4>2
    <3>2. CASE Line.op \notin {"section", "file"}
      <4>1. \A k \in 1..m : contexts'[k].section = contexts[k].section
        BY <2>1, <3>2 DEF SameSections
      <4>2. \A k \in 2..m : k \in 1..m
        OBVIOUS
      <4>3. Outside' = Outside /\ \A e \in Outside : e < pos
        <5>1. \A e : e \in 1..pos <=> e \in 1..pos - 1 \/ e = pos
          BY <2>4
        <5> QED BY <2>4, <3>2, <5>1 DEF Outside
      <4>4. \A k \in 2..m : k \in Inner /\ contexts'[k].line = LineOf(k)
        BY <2>3 DEF KeptIs
      <4>5. \A k \in 2..m : contexts'[k].section = contexts'[1].section /\ \A e \in Outside' : e < contexts'[k].line
        BY <2>2, <4>1, <4>2, <4>3, <4>4 DEF SectionInv
      <4>6. CASE Len(contexts') = m
        BY <4>5, <4>6 DEF Inner
      <4>7. CASE Len(contexts') = m + 1 /\ Opens /\ contexts'[m + 1].line = pos
        <5>1. PICK q \in Nat : q = m + 1
          BY <2>2
        <5>2. Inner' = 2..q /\ \A k \in 2..q : k \in 2..m \/ k = q
          BY <2>2, <4>7, <5>1 DEF Inner
        <5>3. m = Len(contexts)
          BY <2>1, <4>7 DEF Opens, Opening, Closing, KeptOf
        <5>4. contexts'[q].section = Top.section /\ contexts'[q].line = pos
          BY <4>7, <5>1, <5>3 DEF Opens
        <5>5. m \in 1..m /\ (m = 1 \/ m \in 2..m)
          BY <2>2
        <5>6. Top.section = contexts'[m].section
          BY <4>1, <5>3, <5>5 DEF Top
        <5>7. contexts'[q].section = contexts'[1].section
          BY <4>5, <5>4, <5>5, <5>6
        <5>8. \A e \in Outside' : e < contexts'[q].line
          BY <4>3, <5>4
        <5> QED BY <4>5, <5>2, <5>7, <5>8
      <4> QED BY <2>1, <4>6, <4>7 DEF Goes
    <3> QED BY <3>1, <3>2
  <2>9. (Last(Sections))' = Last(Sections')
    BY DEF Last
  <2>10. (contexts[1].section # None => Sections # {} /\ contexts[1].section = program[Last(Sections)].name)'
    BY <2>4, <2>7, <2>9
  <2>11. (\A k \in Inner : contexts[k].section = contexts[1].section /\ \A e \in Outside : e < LineOf(k))'
    BY <2>8 DEF LineOf
  <2> QED BY <2>10, <2>11 DEF SectionInv
<1> QED BY <1>1, <1>2

-----------------------------------------------------------------------------
(* The instructions are placed as they are written.                        *)

KindOf(op) == IF op \in {"global", "label"} THEN "label" ELSE IF op = "equhere" THEN "ephemeral" ELSE op
ItemInv ==
  /\ PlacedAsWritten
  /\ \A i \in DOMAIN items :
       /\ items[i].line \in 1..pos - 1 /\ items[i].kind = KindOf(program[items[i].line].op)
       /\ items[i].kind = "if" => items[i].cond = program[items[i].line].name
       /\ \A b \in items[i].path : b[1] \in DOMAIN items

\* What the contexts know of the branches is what the text says.
LEMMA BranchIs ==
  ASSUME TypeOK, StackInv, ElseInv
  PROVE  /\ \A j, k \in Inner : j < k => InElse(LineOf(j), LineOf(k)) = contexts[j].hasElse
         /\ pos <= Len(program) /\ Line.op # "else" => \A j \in Inner : InElse(LineOf(j), pos) = contexts[j].hasElse
<1>1. \A k \in Inner : LineOf(k) \in Nat /\ LineOf(k) \in 1..pos - 1 /\ contexts[k].hasElse \in BOOLEAN
  <2>1. \A k \in Inner : k \in 1..Len(contexts)
    BY DEF Inner
  <2>2. \A k \in Inner : contexts[k].hasElse \in BOOLEAN
    BY <2>1, ContextFacts DEF ContextType
  <2> QED BY <2>2 DEF StackInv
<1>2. \A b, e : e \in Nat /\ IsElse(b, e) => b < e
  <2> SUFFICES ASSUME NEW b, NEW e \in Nat, IsElse(b, e) PROVE b < e
    OBVIOUS
  <2>1. b \in Blocks(e) /\ Blocks(e) \subseteq 1..e - 1
    BY BlocksAreStanding DEF IsElse
  <2> QED BY <2>1
<1>3. \A b, l : InElse(b, l) \in BOOLEAN /\ (InElse(b, l) <=> \E e \in b..l : IsElse(b, e))
  BY DEF InElse, IsElse
<1>4. \A k \in Inner : contexts[k].hasElse <=> \E e \in 1..pos - 1 : IsElse(LineOf(k), e)
  BY DEF ElseInv
<1>5. ASSUME NEW j \in Inner, NEW k \in Inner, j < k
      PROVE  InElse(LineOf(j), LineOf(k)) <=> contexts[j].hasElse
  <2>1. ASSUME NEW e \in 1..pos - 1, IsElse(LineOf(j), e) PROVE e \in LineOf(j)..LineOf(k)
    <3>1. e < LineOf(k)
      BY <1>5, <2>1 DEF ElseInv
    <3>2. LineOf(j) < e
      BY <1>2, <2>1
    <3> QED BY <1>1, <3>1, <3>2
  <2>2. \A e \in LineOf(j)..LineOf(k) : e \in 1..pos - 1
    BY <1>1, ContextFacts DEF TypeOK
  <2> QED BY <1>3, <1>4, <2>1, <2>2
<1>6. ASSUME pos <= Len(program), Line.op # "else", NEW j \in Inner
      PROVE  InElse(LineOf(j), pos) <=> contexts[j].hasElse
  <2>1. pos \in Nat /\ program[pos] = Line /\ pos - 1 \in Nat /\ pos >= 1
    BY <1>6, ProgramFacts DEF TypeOK, Line
  <2>2. ~IsElse(LineOf(j), pos)
    BY <1>6, <2>1 DEF IsElse
  <2>3. ASSUME NEW e \in 1..pos - 1, IsElse(LineOf(j), e) PROVE e \in LineOf(j)..pos
    BY <1>1, <1>2, <2>1, <2>3
  <2>4. \A e \in LineOf(j)..pos : e # pos => e \in 1..pos - 1
    BY <1>1, <2>1
  <2> QED BY <1>3, <1>4, <2>2, <2>3, <2>4
<1> QED BY <1>1, <1>3, <1>5, <1>6

\* And so for the section.
LEMMA SectionIs ==
  ASSUME TypeOK, StackInv, SectionInv, InSection
  PROVE  /\ \A k \in Inner : SectionAt(LineOf(k)) = contexts[1].section
         /\ Advance /\ Line.op # "section" => SectionAt(pos) = contexts[1].section
         /\ Top.section = contexts[1].section
<1>1. Top.section = contexts[1].section
  <2>1. Len(contexts) = 1 \/ Len(contexts) \in Inner
    BY ContextFacts DEF Inner
  <2> QED BY <2>1 DEF Top, SectionInv
<1>2. contexts[1].section = program[Last(Sections)].name
  BY <1>1 DEF SectionInv, InSection
<1>3. ASSUME NEW k \in Inner PROVE {m \in 1..LineOf(k) : program[m].op = "section"} = Sections
  <2>1. LineOf(k) \in 1..pos - 1 /\ \A m \in Sections : m < LineOf(k)
    BY DEF StackInv, SectionInv, Sections, Outside
  <2>2. \A m \in 1..LineOf(k) : m \in 1..pos - 1
    BY <2>1, ContextFacts DEF TypeOK
  <2>3. \A m \in Sections : m \in 1..LineOf(k)
    BY <2>1 DEF Sections
  <2> QED BY <2>2, <2>3 DEF Sections
<1>4. ASSUME Advance, Line.op # "section" PROVE {m \in 1..pos : program[m].op = "section"} = Sections
  <2>1. pos \in Nat /\ program[pos] = Line /\ pos - 1 \in Nat /\ pos >= 1
    BY <1>4, StepNumbers
  <2>2. \A m : m \in 1..pos <=> m \in 1..pos - 1 \/ m = pos
    BY <2>1
  <2> QED BY <1>4, <2>1, <2>2 DEF Sections
<1> QED BY <1>1, <1>2, <1>3, <1>4 DEF SectionAt

\* The instruction that is added, and those of the blocks around it that have none so far.
Grown(kind, ds, new, f, last) ==
  /\ ds \in Seq(ContextType) /\ Len(ds) = Len(contexts) /\ SameBut(contexts, ds) /\ f \in Nat
  /\ last \in Nat /\ DOMAIN new = 1..last /\ Len(new) = last /\ Len(items) < last /\ \E S : new \in Seq(S)
  /\ \A i \in 1..Len(items) : i \in 1..last - 1 /\ new[i] = items[i]
  /\ \A k \in 2..Len(contexts) :
       /\ ds[k].macro \in 1..last - 1
       /\ k <= f => ds[k].macro = contexts[k].macro /\ ds[k].macro \in 1..Len(items) /\ items[ds[k].macro].line = LineOf(k)
       /\ k > f => /\ contexts[k].kind = "if" /\ ds[k].macro > Len(items)
                   /\ new[ds[k].macro] = Item("if", LineOf(k), ds, k - 1)
  /\ new[last] = Item(kind, pos, ds, Len(contexts))
  /\ \A i \in 1..last : i \in 1..Len(items) \/ (\E k \in 2..Len(contexts) : k > f /\ i = ds[k].macro) \/ i = last

LEMMA GrownIs ==
  ASSUME TypeOK, StackInv, MacroInv, pos <= Len(program), NEW kind,
         NEW cs, cs = contexts \/ (Line.op = "global" /\ cs = WithPrefix(contexts, Line.name[1]))
  PROVE  \E f, last :
           Grown(kind, AddInstruction(kind, cs, items).contexts, AddInstruction(kind, cs, items).items, f, last)
<1>1. PICK f : /\ FirstMacroless(contexts, f)
               /\ \A k \in 2..f : contexts[k].macro \in DOMAIN items /\ items[contexts[k].macro].line = LineOf(k)
  BY DEF MacroInv
<1> DEFINE a == AddInstruction(kind, cs, items)
           ds == a.contexts
           new == a.items
           n == Len(contexts)
           c == Len(items)
<1>2. /\ cs \in Seq(ContextType) /\ FirstMacroless(cs, f) /\ Len(cs) = n
      /\ ds \in Seq(ContextType) /\ Len(ds) = n /\ SameBut(contexts, ds) /\ SameBut(contexts, cs)
      /\ \A k \in 1..f : ds[k].macro = contexts[k].macro
      /\ \A k \in f + 1..Len(cs) : ds[k].macro = Len(items) + k - f
  BY <1>1, AddedStays
<1>3. IsAdded(kind, cs, items, f)
  BY <1>2, AddInstructionIs DEF TypeOK
<1>4. f \in Nat /\ f >= 1 /\ f <= n /\ n \in Nat /\ c \in Nat /\ DOMAIN items = 1..c
  BY <1>1, ContextFacts, LenProperties DEF FirstMacroless, TypeOK
<1> DEFINE last == c + (n - f) + 1
<1>5. /\ Len(new) = last /\ DOMAIN new = 1..last /\ \E S : new \in Seq(S)
      /\ \A i \in 1..c : new[i] = items[i]
      /\ \A j \in 1..n - f : new[c + j] = Item("if", cs[f + j].line, ds, f + j - 1)
      /\ new[last] = Item(kind, pos, ds, n)
      /\ \A i \in 1..last : i \in 1..c \/ (\E j \in 1..n - f : i = c + j) \/ i = last
  <2>1. Len(cs) = n
    BY <1>2
  <2> HIDE DEF n
  <2> QED BY <1>3, <2>1 DEF IsAdded
<1> HIDE DEF a, n, c
<1>6. last \in Nat /\ c < last /\ \A i \in 1..c : i \in 1..last - 1
  BY <1>4
<1>7. \A k \in f + 1..n : /\ ds[k].macro \in 1..last - 1 /\ ds[k].macro > c
                          /\ new[ds[k].macro] = Item("if", LineOf(k), ds, k - 1)
  <2> TAKE k \in f + 1..n
  <2>1. PICK j \in 1..n - f : j = k - f
    BY <1>4
  <2>2. f + j = k /\ c + j \in 1..last - 1 /\ c + j > c /\ c + k - f = c + j /\ k \in 1..n
    BY <1>4, <2>1
  <2>3. ds[k].macro = c + j
    BY <1>2, <2>2 DEF c
  <2>4. new[c + j] = Item("if", cs[k].line, ds, k - 1)
    <3>1. new[c + j] = Item("if", cs[f + j].line, ds, f + j - 1)
      BY <1>5
    <3>2. f + j = k /\ f + j - 1 = k - 1
      BY <1>4, <2>2
    <3> HIDE DEF new, ds
    <3> QED BY <3>1, <3>2
  <2>5. cs[k].line = LineOf(k)
    BY <1>2, <2>2 DEF SameBut, LineOf, n
  <2> HIDE DEF last, new, ds
  <2> QED BY <2>2, <2>3, <2>4, <2>5
<1>8. \A k \in 2..f : /\ ds[k].macro = contexts[k].macro /\ ds[k].macro \in 1..c /\ ds[k].macro \in 1..last - 1
                      /\ items[ds[k].macro].line = LineOf(k)
  <2>1. \A k \in 2..f : k \in 1..f
    OBVIOUS
  <2> QED BY <1>1, <1>2, <1>4, <1>6, <2>1
<1>9. \A k \in f + 1..n : contexts[k].kind = "if"
  BY <1>1 DEF FirstMacroless, Macroless, n
<1>10. \A k \in 2..n : (k <= f => k \in 2..f) /\ (k > f => k \in f + 1..n) /\ (k <= f \/ k > f)
  BY <1>4
<1>11. \A i \in 1..last : i \in 1..c \/ (\E k \in 2..n : k > f /\ i = ds[k].macro) \/ i = last
  <2> TAKE i \in 1..last
  <2>1. CASE \E j \in 1..n - f : i = c + j
    <3>1. PICK j \in 1..n - f : i = c + j
      BY <2>1
    <3>2. PICK k \in f + 1..n : k = f + j
      BY <1>4
    <3>3. c + k - f = c + j /\ k \in 2..n /\ k > f
      BY <1>4, <3>2
    <3>4. ds[k].macro = c + j
      BY <1>2, <3>3 DEF c, n
    <3> QED BY <3>1, <3>3, <3>4
  <2> HIDE DEF last, new, ds
  <2> QED BY <1>5, <2>1
<1> HIDE DEF last, new, ds
<1>12. Grown(kind, ds, new, f, last)
  <2>1. \A k \in 2..n :
       /\ ds[k].macro \in 1..last - 1
       /\ k <= f => ds[k].macro = contexts[k].macro /\ ds[k].macro \in 1..c /\ items[ds[k].macro].line = LineOf(k)
       /\ k > f => /\ contexts[k].kind = "if" /\ ds[k].macro > c
                   /\ new[ds[k].macro] = Item("if", LineOf(k), ds, k - 1)
    BY <1>7, <1>8, <1>9, <1>10
  <2> QED BY <1>2, <1>4, <1>5, <1>6, <1>11, <2>1 DEF Grown, n, c
<1> QED BY <1>12 DEF ds, new, a

EmittingOps == {"global", "label", "equhere", "use", "repeat"}
LEMMA ItemsGrow ==
  ASSUME TypeOK, StackInv, ElseInv, SectionInv, ItemInv, Advance, InSection, Line.op \in EmittingOps,
         NEW kind, kind = KindOf(Line.op), NEW ds, NEW f, NEW last, Grown(kind, ds, items', f, last)
  PROVE  /\ ItemInv' /\ items' \in Seq(ItemType)
         /\ \A k \in Inner : ds[k].macro \in DOMAIN items' /\ items'[ds[k].macro].line = LineOf(k)
         /\ Len(items') \in DOMAIN items' /\ items'[Len(items')].line = pos
<1> DEFINE n == Len(contexts)
           c == Len(items)
<1>1. /\ n \in Nat /\ n >= 1 /\ Inner = 2..n /\ c \in Nat /\ last \in Nat /\ c < last /\ DOMAIN items = 1..c
      /\ DOMAIN items' = 1..last /\ Len(items') = last /\ \A i \in 1..c : items[i] \in ItemType
  BY ContextFacts, LenProperties DEF Grown, Inner, TypeOK
<1>2. /\ pos - 1 \in Nat /\ pos - 1 + 1 = pos /\ pos' - 1 = pos /\ pos \in Nat /\ pos >= 1 /\ pos \in LineNumbers
      /\ program[pos] = Line /\ program' = program
  BY StepNumbers DEF Advance
<1>3. /\ \A k \in 1..n : /\ ds[k] \in ContextType /\ ds[k].kind = contexts[k].kind /\ ds[k].line = contexts[k].line
                         /\ ds[k].section = contexts[k].section /\ ds[k].cond = contexts[k].cond /\ ds[k].hasElse = contexts[k].hasElse
      /\ 1 \in 1..n
  BY <1>1 DEF Grown, SameBut
<1>4. \A i \in 1..c : i \in 1..last - 1 /\ items'[i] = items[i]
  BY DEF Grown
<1>5. /\ items'[last] = Item(kind, pos, ds, n)
      /\ \A i \in 1..last : i \in 1..c \/ (\E k \in 2..n : k > f /\ i = ds[k].macro) \/ i = last
  BY DEF Grown
<1>6. \A k \in 2..n :
       /\ ds[k].macro \in 1..last - 1
       /\ k <= f => ds[k].macro \in 1..c /\ items[ds[k].macro].line = LineOf(k)
       /\ k > f => contexts[k].kind = "if" /\ ds[k].macro > c /\ items'[ds[k].macro] = Item("if", LineOf(k), ds, k - 1)
  BY DEF Grown
<1> HIDE DEF n, c
<1>7. \A l, m, t : /\ Item(t, l, ds, m).kind = t /\ Item(t, l, ds, m).line = l /\ Item(t, l, ds, m).section = ds[1].section
                   /\ Item(t, l, ds, m).path = InBlocks(ds, m)
                   /\ t = "if" => Item(t, l, ds, m).cond = ds[m + 1].cond
                   /\ t # "if" => Item(t, l, ds, m).cond = None
  BY DEF Item
<1>8. \A k \in 2..n : items'[ds[k].macro].line = LineOf(k)
  <2> TAKE k \in 2..n
  <2>1. k <= f => items'[ds[k].macro].line = LineOf(k)
    BY <1>4, <1>6
  <2>2. k > f => items'[ds[k].macro].line = LineOf(k)
    BY <1>6, <1>7
  <2>3. k <= f \/ k > f
    BY DEF Grown
  <2> QED BY <2>1, <2>2, <2>3
<1>9. \A k \in 1..n : k \in 2..n => contexts[k].hasElse \in BOOLEAN /\ k \in Nat
  BY ContextFacts DEF ContextType, n
<1> DEFINE Around2(m) == {<<LineOf(k), contexts[k].hasElse>> : k \in 2..m}
           Seen(i) == {<<items'[b[1]].line, b[2]>> : b \in items'[i].path}
           Text(l) == {<<b, InElse(b, l)>> : b \in Blocks(l)}
<1>10. ASSUME NEW m \in 0..n, NEW i, items'[i].path = InBlocks(ds, m) PROVE Seen(i) = Around2(m)
  <2>1. \A k \in 2..m : k \in 2..n /\ k \in 1..n
    BY <1>1
  <2>2. \A k \in 2..m : items'[ds[k].macro].line = LineOf(k) /\ ds[k].hasElse = contexts[k].hasElse
    BY <1>3, <1>8, <2>1
  <2>3. items'[i].path = {<<ds[k].macro, ds[k].hasElse>> : k \in 2..m}
    BY <1>10 DEF InBlocks
  <2>4. Seen(i) = {<<items'[ds[k].macro].line, ds[k].hasElse>> : k \in 2..m}
    <3> DEFINE M(k) == ds[k].macro
               E(k) == ds[k].hasElse
               L(x) == items'[x].line
               P == items'[i].path
    <3>1. P = {<<M(k), E(k)>> : k \in 2..m}
      BY <2>3
    <3> HIDE DEF M, E, L, P
    <3>2. {<<L(b[1]), b[2]>> : b \in P} = {<<L(M(k)), E(k)>> : k \in 2..m}
      <4>1. \A k \in 2..m : <<M(k), E(k)>>[1] = M(k) /\ <<M(k), E(k)>>[2] = E(k)
        OBVIOUS
      <4> QED BY <3>1, <4>1
    <3> QED BY <3>2 DEF M, E, L, P
  <2> QED BY <2>2, <2>4
<1>11. \A k \in 2..n : Around2(k - 1) = Text(LineOf(k))
  <2> TAKE k \in 2..n
  <2>1. Blocks(LineOf(k)) = {LineOf(j) : j \in 2..k - 1}
    BY <1>1 DEF StackInv
  <2>2. \A j \in 2..k - 1 : InElse(LineOf(j), LineOf(k)) = contexts[j].hasElse
    <3>1. \A j \in 2..k - 1 : j \in Inner /\ j < k /\ k \in Inner
      BY <1>1
    <3> QED BY <3>1, BranchIs
  <2> QED BY <2>1, <2>2
<1>12. Around2(n) = Text(pos)
  <2>1. Blocks(pos) = {LineOf(j) : j \in 2..n}
    <3> DEFINE p == pos - 1
    <3>1. p \in Nat /\ program[p + 1].op \notin Closing /\ p + 1 = pos
      BY <1>2 DEF EmittingOps, Closing
    <3> HIDE DEF p
    <3>2. Blocks(p + 1) = Standing(p)
      BY <3>1, StandingNext
    <3> QED BY <1>1, <3>1, <3>2 DEF StackInv, p
  <2>2. \A j \in 2..n : InElse(LineOf(j), pos) = contexts[j].hasElse
    <3>1. pos <= Len(program)
      BY ProgramFacts DEF Advance, LineNumbers, TypeOK
    <3> QED BY <1>1, <3>1, BranchIs DEF EmittingOps
  <2> QED BY <2>1, <2>2
<1>13. /\ \A k \in 2..n : SectionAt(LineOf(k)) = ds[1].section
       /\ SectionAt(pos) = ds[1].section
  BY <1>1, <1>3, SectionIs DEF EmittingOps
<1>14. \A k \in 2..n :
         /\ LineOf(k) \in 1..pos - 1 /\ LineOf(k) \in 1..pos /\ LineOf(k) \in LineNumbers
         /\ program[LineOf(k)].op = contexts[k].kind
         /\ contexts[k].kind = "if" => contexts[k].cond = program[LineOf(k)].name
  <2> TAKE k \in 2..n
  <2>1. LineOf(k) \in 1..pos - 1
    BY <1>1 DEF StackInv
  <2>2. LineOf(k) \in 1..pos /\ LineOf(k) \in LineNumbers
    BY <1>1, <1>2, <2>1 DEF LineNumbers
  <2>3. /\ program[LineOf(k)].op = contexts[k].kind
        /\ contexts[k].kind = "if" => contexts[k].cond = program[LineOf(k)].name
    BY <1>1 DEF StackInv
  <2> QED BY <2>1, <2>2, <2>3
<1> DEFINE Place(i) == items'[i].section = SectionAt(items'[i].line) /\ Seen(i) = Text(items'[i].line)
           Fits(i) ==
             /\ items'[i].line \in 1..pos /\ items'[i].kind = KindOf(program[items'[i].line].op)
             /\ items'[i].kind = "if" => items'[i].cond = program[items'[i].line].name
             /\ \A b \in items'[i].path : b[1] \in 1..last
<1>15. \A i \in 1..c : Place(i) /\ Fits(i) /\ items'[i] \in ItemType
  <2> TAKE i \in 1..c
  <2>1. /\ items[i].line \in 1..pos - 1 /\ items[i].kind = KindOf(program[items[i].line].op)
        /\ items[i].kind = "if" => items[i].cond = program[items[i].line].name
        /\ \A b \in items[i].path : b[1] \in 1..c
    BY <1>1 DEF ItemInv
  <2>2. /\ items[i].section = SectionAt(items[i].line)
        /\ {<<items[b[1]].line, b[2]>> : b \in items[i].path} = Text(items[i].line)
    BY <1>1 DEF ItemInv, PlacedAsWritten
  <2>3. items'[i] = items[i] /\ \A j \in 1..c : items'[j] = items[j] /\ j \in 1..last
    BY <1>1, <1>4
  <2>4. Seen(i) = {<<items[b[1]].line, b[2]>> : b \in items[i].path}
    BY <2>1, <2>3
  <2>5. Place(i)
    BY <2>2, <2>3, <2>4
  <2>6. Fits(i)
    BY <1>2, <2>1, <2>3
  <2> HIDE DEF Place, Fits
  <2> QED BY <1>1, <2>3, <2>5, <2>6
<1>16. ASSUME NEW m \in 0..n PROVE InBlocks(ds, m) \in SUBSET (Nat \X BOOLEAN) /\ \A b \in InBlocks(ds, m) : b[1] \in 1..last
  <2>1. \A k \in 2..m : ds[k].macro \in 1..last /\ ds[k].macro \in Nat /\ ds[k].hasElse \in BOOLEAN
    <3>1. \A k \in 2..m : k \in 2..n /\ k \in 1..n
      BY <1>1
    <3>2. \A x \in 1..last - 1 : x \in 1..last /\ x \in Nat
      BY <1>1
    <3>3. \A k \in 2..m : ds[k].macro \in 1..last - 1 /\ ds[k].hasElse = contexts[k].hasElse /\ contexts[k].hasElse \in BOOLEAN
      BY <1>3, <1>6, <1>9, <3>1
    <3> QED BY <3>2, <3>3
  <2> QED BY <2>1 DEF InBlocks
<1>17. ds[1].section \in SectionNames /\ \A k \in 2..n : ds[k].cond \in Conditions \cup {None}
  BY <1>1, <1>3 DEF ContextType
<1>18. ASSUME NEW k \in 2..n, k > f
       PROVE  Place(ds[k].macro) /\ Fits(ds[k].macro) /\ items'[ds[k].macro] \in ItemType /\ items'[ds[k].macro].kind = "if"
  <2> DEFINE i == ds[k].macro
  <2>1. items'[i] = Item("if", LineOf(k), ds, k - 1) /\ k - 1 \in 0..n /\ k - 1 + 1 = k /\ k \in 1..n
    BY <1>1, <1>6, <1>18
  <2> HIDE DEF i
  <2>2. /\ items'[i].kind = "if" /\ items'[i].line = LineOf(k) /\ items'[i].section = ds[1].section
        /\ items'[i].path = InBlocks(ds, k - 1) /\ items'[i].cond = ds[k].cond
    BY <1>7, <2>1
  <2>3. Place(i)
    <3>1. Seen(i) = Around2(k - 1)
      BY <1>10, <2>1, <2>2
    <3> QED BY <1>11, <1>13, <2>2, <3>1
  <2>4. contexts[k].kind = "if" /\ ds[k].cond = contexts[k].cond
    BY <1>3, <1>6, <1>18, <2>1
  <2>5. Fits(i)
    <3>1. /\ LineOf(k) \in 1..pos /\ program[LineOf(k)].op = "if" /\ items'[i].cond = program[LineOf(k)].name
          /\ KindOf("if") = "if"
      BY <1>14, <2>2, <2>4 DEF KindOf
    <3>2. \A b \in InBlocks(ds, k - 1) : b[1] \in 1..last
      BY <1>16, <2>1
    <3> QED BY <2>2, <3>1, <3>2
  <2>6. items'[i] \in ItemType
    <3>1. items'[i] = [kind |-> "if", line |-> LineOf(k), section |-> ds[1].section, path |-> InBlocks(ds, k - 1), cond |-> ds[k].cond]
      BY <2>1 DEF Item
    <3>2. InBlocks(ds, k - 1) \in SUBSET (Nat \X BOOLEAN)
      BY <1>16, <2>1
    <3>3. LineOf(k) \in LineNumbers /\ ds[1].section \in SectionNames /\ ds[k].cond \in Conditions \cup {None}
      BY <1>14, <1>17
    <3> QED BY <3>1, <3>2, <3>3 DEF ItemType
  <2> HIDE DEF Place, Fits
  <2> QED BY <2>2, <2>3, <2>5, <2>6 DEF i
<1>19. Place(last) /\ Fits(last) /\ items'[last] \in ItemType /\ items'[last].kind # "if" /\ items'[last].line = pos
  <2>1. kind \in {"repeat", "label", "ephemeral", "use"} /\ kind # "if"
    BY DEF KindOf, EmittingOps
  <2>2. /\ items'[last].kind = kind /\ items'[last].line = pos /\ items'[last].section = ds[1].section
        /\ items'[last].path = InBlocks(ds, n) /\ items'[last].cond = None
    BY <1>5, <1>7, <2>1
  <2>3. Place(last)
    <3>1. Seen(last) = Around2(n)
      BY <1>1, <1>10, <2>2
    <3> QED BY <1>12, <1>13, <2>2, <3>1
  <2>4. Fits(last)
    BY <1>1, <1>2, <1>16, <2>1, <2>2
  <2>5. items'[last] \in ItemType
    <3>1. items'[last] = [kind |-> kind, line |-> pos, section |-> ds[1].section, path |-> InBlocks(ds, n), cond |-> None]
      BY <1>5, <2>1 DEF Item
    <3> QED BY <1>1, <1>2, <1>16, <1>17, <2>1, <3>1 DEF ItemType
  <2> HIDE DEF Place, Fits
  <2> QED BY <2>1, <2>2, <2>3, <2>4, <2>5
<1> HIDE DEF Place, Fits
<1>20. \A i \in 1..last : Place(i) /\ Fits(i) /\ items'[i] \in ItemType
  BY <1>5, <1>15, <1>18, <1>19
<1>21. items' \in Seq(ItemType)
  <2>1. PICK S : items' \in Seq(S)
    BY DEF Grown
  <2>2. items' = [i \in 1..last |-> items'[i]]
    BY <1>1, <2>1
  <2> QED BY <1>1, <1>20, <2>2
<1>22. (\A i \in DOMAIN items :
          /\ items[i].line \in 1..pos - 1 /\ items[i].kind = KindOf(program[items[i].line].op)
          /\ items[i].kind = "if" => items[i].cond = program[items[i].line].name
          /\ \A b \in items[i].path : b[1] \in DOMAIN items)'
  BY <1>1, <1>2, <1>20 DEF Fits, KindOf
<1>23. (\A i \in DOMAIN items :
          /\ items[i].section = SectionAt(items[i].line)
          /\ {<<items[b[1]].line, b[2]>> : b \in items[i].path} = {<<b, InElse(b, items[i].line)>> : b \in Blocks(items[i].line)})'
  <2>1. \A l, b : Blocks(l)' = Blocks(l) /\ SectionAt(l)' = SectionAt(l) /\ InElse(b, l)' = InElse(b, l)
    BY <1>2, SameText
  <2> QED BY <1>1, <1>20, <2>1 DEF Place
<1> DEFINE own == {i \in 1..c : items[i].kind # "if"}
           own2 == {i \in 1..last : items'[i].kind # "if"}
<1>24. own2 = own \cup {last} /\ \A i \in own : i \in 1..c /\ items'[i] = items[i]
  <2>1. \A i \in 1..c : i \in own2 <=> i \in own
    BY <1>1, <1>4
  <2>2. last \in own2 /\ \A i \in own2 : i \in 1..c \/ i = last
    <3>1. \A k \in 2..n : k > f => items'[ds[k].macro].kind = "if"
      BY <1>18
    <3>2. \A i \in own2 : i \in 1..last /\ items'[i].kind # "if"
      OBVIOUS
    <3>3. last \in 1..last
      BY <1>1
    <3> HIDE DEF own2
    <3>4. \A i \in own2 : i \in 1..c \/ i = last
      BY <1>5, <3>1, <3>2
    <3> QED BY <1>19, <3>3, <3>4 DEF own2
  <2> QED BY <1>4, <2>1, <2>2
<1>25. {items[i].line : i \in own} = Emitting /\ \A i, j \in own : i < j => items[i].line < items[j].line
  BY <1>1 DEF ItemInv, PlacedAsWritten
<1>26. Emitting' = Emitting \cup {pos}
  <2>1. \A l : l \in 1..pos <=> l \in 1..pos - 1 \/ l = pos
    BY <1>2
  <2> QED BY <1>2, <2>1 DEF Emitting, EmittingOps
<1> HIDE DEF own, own2
<1>27. {items'[i].line : i \in own2} = Emitting'
  BY <1>19, <1>24, <1>25, <1>26
<1>28. \A i, j \in own2 : i < j => items'[i].line < items'[j].line
  <2>1. \A i \in own : i < last /\ ~(last < i) /\ items[i].line < pos
    <3>1. \A i \in own : items[i].line \in Emitting
      BY <1>25
    <3>2. \A l \in Emitting : l < pos
      BY <1>2 DEF Emitting
    <3> QED BY <1>1, <1>24, <3>1, <3>2
  <2>2. ~(last < last)
    BY <1>1
  <2> QED BY <1>19, <1>24, <1>25, <2>1, <2>2
<1>29. PlacedAsWritten'
  <2>1. {i \in DOMAIN items' : items'[i].kind # "if"} = own2
    BY <1>1 DEF own2
  <2> QED BY <1>23, <1>27, <1>28, <2>1 DEF PlacedAsWritten
<1>30. ItemInv'
  BY <1>22, <1>29 DEF ItemInv
<1>31. last \in 1..last
  BY <1>1
<1> QED BY <1>1, <1>6, <1>8, <1>19, <1>21, <1>30, <1>31

\* What adds no instruction keeps the macros that there are.
Quiet(m) ==
  /\ m \in 1..Len(contexts) /\ \A k \in 2..m : contexts'[k].macro = contexts[k].macro
  /\ \/ Len(contexts') = m
     \/ Len(contexts') = m + 1 /\ contexts'[m + 1].kind = "if" /\ contexts'[m + 1].macro = None
  /\ items' = items /\ Line.op \notin EmittingOps /\ m = KeptOf
LEMMA QuietSteps ==
  ASSUME TypeOK, StackInv, Section \/ Else \/ File \/ EndRepeat \/ EndIf \/ If, Advance
  PROVE  \E m : Quiet(m)
<1> DEFINE n == Len(contexts)
<1>1. n \in Nat /\ n >= 1 /\ contexts \in Seq(ContextType) /\ \A k \in 1..n : contexts[k] \in ContextType
  BY ContextFacts DEF TypeOK
<1>2. \A why : ~Reject(why)
  <2>1. pos' # pos
    BY StepNumbers DEF Advance
  <2> QED BY <2>1 DEF Reject
<1>3. pos <= Len(program)
  BY ProgramFacts DEF Advance, LineNumbers, TypeOK
<1>4. CASE Section \/ File
  <2>1. Top.kind = "root" /\ items' = items /\ Line.op \in {"section", "file"}
        /\ (contexts' = [contexts EXCEPT ![1].section = Line.name] \/ contexts' = <<Root>>)
    BY <1>2, <1>4 DEF Section, File, At
  <2>2. Len(contexts) = 1
    BY <2>1, RootFacts
  <2>3. Len(contexts') = 1
    <3>1. CASE contexts' = <<Root>>
      BY <3>1
    <3>2. CASE contexts' = [contexts EXCEPT ![1].section = Line.name]
      <4> DEFINE c == [contexts[1] EXCEPT !.section = Line.name]
      <4>1. c \in ContextType
        <5>1. Line.name \in SectionNames
          BY <1>3, LineFacts
        <5>2. contexts[1] \in ContextType
          BY ContextFacts
        <5> QED BY <5>1, <5>2 DEF ContextType
      <4>2. contexts' = [contexts EXCEPT ![1] = c]
        BY <3>2
      <4> HIDE DEF c
      <4> QED BY <1>1, <2>2, <4>1, <4>2, ExceptSeq
    <3> QED BY <2>1, <3>1, <3>2
  <2>4. Quiet(1)
    BY <2>1, <2>2, <2>3 DEF Quiet, EmittingOps, KeptOf, Closing
  <2> QED BY <2>4
<1>5. CASE Else
  <2>1. items' = items /\ Line.op = "else" /\ contexts' = [contexts EXCEPT ![n].hasElse = TRUE]
    BY <1>2, <1>5 DEF Else, At
  <2> DEFINE c == [Top EXCEPT !.hasElse = TRUE]
  <2>2. c \in ContextType /\ c.macro = Top.macro
    BY ContextFacts DEF ContextType
  <2>3. contexts' = [contexts EXCEPT ![n] = c] /\ Top = contexts[n]
    BY <2>1 DEF Top
  <2> HIDE DEF c, n
  <2>4. Len(contexts') = n /\ \A k \in 1..n : contexts'[k] = IF k = n THEN c ELSE contexts[k]
    BY <1>1, <2>2, <2>3, ExceptSeq DEF n
  <2>5. \A k \in 2..n : k \in 1..n
    OBVIOUS
  <2>6. \A k \in 2..n : contexts'[k].macro = contexts[k].macro
    BY <2>2, <2>3, <2>4, <2>5
  <2> QED BY <1>1, <2>1, <2>4, <2>6 DEF Quiet, EmittingOps, KeptOf, Closing, n
<1>6. CASE If
  <2> DEFINE c == Context("if", Top.section, Line.name, None)
  <2>1. items' = items /\ Line.op = "if" /\ contexts' = Append(contexts, c)
    BY <1>6 DEF If, At
  <2>2. Line.name \in Conditions \cup {None} /\ "if" \in {"if", "repeat"} /\ None \in Nat \cup {None}
    BY <1>3, <2>1, LineFacts DEF IsLine
  <2>3. IsNew("if", Line.name, None)
    BY <1>3, <2>2, NewContext
  <2>4. c \in ContextType /\ c.kind = "if" /\ c.macro = None
    BY <2>3 DEF IsNew
  <2> HIDE DEF c, n
  <2>5. Len(contexts') = n + 1 /\ contexts'[n + 1] = c /\ \A k \in 1..n : contexts'[k] = contexts[k]
    BY <1>1, <2>1, <2>4, AppendProperties DEF n
  <2>6. \A k \in 2..n : contexts'[k].macro = contexts[k].macro
    BY <2>5
  <2>7. n \in 1..n /\ Line.op \notin EmittingOps
    BY <1>1, <2>1 DEF EmittingOps
  <2>8. contexts'[n + 1].kind = "if" /\ contexts'[n + 1].macro = None
    BY <2>4, <2>5
  <2> QED BY <2>1, <2>5, <2>6, <2>7, <2>8 DEF Quiet, KeptOf, Closing, n
<1>7. CASE EndRepeat \/ EndIf
  <2>1. items' = items /\ Line.op \in Closing /\ Top.kind # "root" /\ (contexts' = Enclosing \/ contexts' = PrefixAtPop)
    BY <1>2, <1>7 DEF EndRepeat, EndIf, At, Closing
  <2>2. n - 1 \in Nat /\ n - 1 >= 1
    BY <2>1, RootFacts, ContextFacts
  <2>3. Enclosing \in Seq(ContextType) /\ Len(Enclosing) = n - 1 /\ \A k \in 1..n - 1 : Enclosing[k] = contexts[k]
    BY <2>2, SubSeqProperties, ContextFacts DEF Enclosing, TypeOK
  <2>4. Len(contexts') = n - 1 /\ \A k \in 1..n - 1 : contexts'[k].macro = contexts[k].macro
    <3>1. \A p \in Prefixes : Len(WithPrefix(Enclosing, p)) = n - 1 /\ \A k \in 1..n - 1 : WithPrefix(Enclosing, p)[k].macro = Enclosing[k].macro
      BY <2>3, WithPrefixIs
    <3>2. Top.thenPrefix \in Prefixes /\ Top.elsePrefix \in Prefixes
      BY ContextFacts DEF ContextType
    <3>3. CASE contexts' = Enclosing
      BY <2>3, <3>3
    <3>4. CASE \E p \in Prefixes : contexts' = WithPrefix(Enclosing, p)
      BY <2>3, <3>1, <3>4
    <3>5. contexts' = Enclosing \/ \E p \in Prefixes : contexts' = WithPrefix(Enclosing, p)
      BY <2>1, <3>2 DEF PrefixAtPop
    <3> QED BY <3>3, <3>4, <3>5
  <2>5. \A k \in 2..n - 1 : k \in 1..n - 1
    OBVIOUS
  <2>6. n - 1 \in 1..n
    BY <2>2
  <2> QED BY <2>1, <2>4, <2>5, <2>6 DEF Quiet, EmittingOps, KeptOf, Closing
<1> QED BY <1>4, <1>5, <1>6, <1>7

LEMMA ItemsStay ==
  ASSUME TypeOK, ItemInv, Advance, items' = items, Line.op \notin EmittingOps
  PROVE  ItemInv'
<1>1. pos - 1 \in Nat /\ pos' - 1 = pos /\ pos \in Nat /\ program' = program /\ program[pos] = Line
  BY StepNumbers
<1>2. Emitting' = Emitting
  <2>1. \A l : l \in 1..pos <=> l \in 1..pos - 1 \/ l = pos
    BY <1>1, StepNumbers
  <2> QED BY <1>1, <2>1 DEF Emitting, EmittingOps
<1>3. \A l, b : Blocks(l)' = Blocks(l) /\ SectionAt(l)' = SectionAt(l) /\ InElse(b, l)' = InElse(b, l)
  BY <1>1, SameText
<1>4. PlacedAsWritten'
  BY <1>2, <1>3 DEF ItemInv, PlacedAsWritten
<1>5. \A l \in 1..pos - 1 : l \in 1..pos' - 1
  BY <1>1
<1> QED BY <1>1, <1>4, <1>5 DEF ItemInv, KindOf

LEMMA MacrosStay ==
  ASSUME TypeOK, StackInv, StackInv', MacroInv, contexts' \in Seq(ContextType), NEW m, Kept(m), Quiet(m)
  PROVE  MacroInv'
<1>1. PICK f : /\ FirstMacroless(contexts, f)
               /\ \A k \in 2..f : contexts[k].macro \in DOMAIN items /\ items[contexts[k].macro].line = LineOf(k)
  BY DEF MacroInv
<1> DEFINE n == Len(contexts)
<1>2. n \in Nat /\ m \in 1..n /\ m \in Nat /\ f \in 1..n /\ f \in Nat /\ m >= 1 /\ f >= 1 /\ items' = items
  BY <1>1, ContextFacts DEF FirstMacroless, Quiet
<1>3. PICK g \in Nat : g = IF f <= m THEN f ELSE m
  BY <1>2
<1>4. g >= 1 /\ g <= m /\ g <= f
  BY <1>2, <1>3
<1>5. \A k \in 2..m : contexts'[k].kind = contexts[k].kind /\ contexts'[k].line = LineOf(k) /\ contexts'[k].macro = contexts[k].macro
  BY KeptBlocks DEF KeptIs, Quiet
<1>6. \A k \in 1..n : k \in f + 1..n <=> contexts[k].kind = "if" /\ contexts[k].macro = None
  BY <1>1, ContextFacts DEF FirstMacroless, Macroless
<1>7. \A k \in 2..m : (contexts'[k].kind = "if" /\ contexts'[k].macro = None) <=> k > g
  <2> TAKE k \in 2..m
  <2>1. k \in 1..n /\ k <= m /\ k \in Nat
    BY <1>2
  <2>2. k > f <=> k > g
    BY <1>2, <1>3, <2>1
  <2>3. k \in f + 1..n <=> k > f
    BY <1>2, <2>1
  <2> QED BY <1>5, <1>6, <2>1, <2>2, <2>3
<1>8. contexts'[1].kind = "root"
  BY DEF StackInv
<1>9. \A k \in 1..m : k = 1 \/ k \in 2..m
  BY <1>2
<1>10. DOMAIN contexts' = 1..Len(contexts')
  BY LenProperties
<1>11. FirstMacroless(contexts', g)
  <2>1. CASE Len(contexts') = m
    <3>1. \A k \in 1..m : k \in Macroless(contexts') <=> k \in g + 1..m
      BY <1>2, <1>4, <1>7, <1>8, <1>9, <1>10, <2>1 DEF Macroless
    <3>2. \A k \in g + 1..m : k \in 1..m
      BY <1>2, <1>4
    <3>3. \A k \in Macroless(contexts') : k \in 1..m
      BY <1>10, <2>1 DEF Macroless
    <3>4. Macroless(contexts') = g + 1..m
      BY <3>1, <3>2, <3>3
    <3>5. g \in 1..m
      BY <1>2, <1>3, <1>4
    <3> QED BY <2>1, <3>4, <3>5 DEF FirstMacroless
  <2>2. CASE Len(contexts') = m + 1 /\ contexts'[m + 1].kind = "if" /\ contexts'[m + 1].macro = None
    <3>1. PICK q \in Nat : q = m + 1
      BY <1>2
    <3>2. \A k \in 1..q : k \in 1..m \/ k = q
      BY <1>2, <3>1
    <3>3. \A k \in 1..q : k \in Macroless(contexts') <=> k \in g + 1..q
      <4>1. \A k \in 1..m : k \in Macroless(contexts') <=> k \in g + 1..q
        BY <1>2, <1>4, <1>7, <1>8, <1>9, <1>10, <2>2, <3>1 DEF Macroless
      <4>2. q \in Macroless(contexts') /\ q \in g + 1..q
        BY <1>2, <1>4, <1>10, <2>2, <3>1 DEF Macroless
      <4> QED BY <3>2, <4>1, <4>2
    <3>4. \A k \in g + 1..q : k \in 1..q
      BY <1>2, <1>4
    <3>5. \A k \in Macroless(contexts') : k \in 1..q
      BY <1>10, <2>2, <3>1 DEF Macroless
    <3>6. Len(contexts') = q /\ g \in 1..q
      BY <1>2, <1>4, <2>2, <3>1
    <3> QED BY <3>3, <3>4, <3>5, <3>6 DEF FirstMacroless
  <2> QED BY <2>1, <2>2 DEF Quiet
<1>12. \A k \in 2..g : contexts'[k].macro \in DOMAIN items' /\ items'[contexts'[k].macro].line = contexts'[k].line
  <2>1. \A k \in 2..g : k \in 2..m /\ k \in 2..f
    BY <1>2, <1>4
  <2> QED BY <1>1, <1>2, <1>5, <2>1
<1> QED BY <1>11, <1>12 DEF MacroInv, LineOf

\* An instruction is added, and perhaps the context of a #repeat.
LEMMA ItemAdded ==
  ASSUME TypeOK, StackInv, StackInv', ElseInv, SectionInv, MacroInv, ItemInv, contexts' \in Seq(ContextType),
         Advance, InSection, Line.op \in EmittingOps, NEW kind, kind = KindOf(Line.op),
         NEW cs, cs = contexts \/ (Line.op = "global" /\ cs = WithPrefix(contexts, Line.name[1])),
         items' = AddInstruction(kind, cs, items).items,
         \/ contexts' = AddInstruction(kind, cs, items).contexts
         \/ \E new \in ContextType :
              /\ contexts' = Append(AddInstruction(kind, cs, items).contexts, new)
              /\ new.kind = "repeat" /\ new.line = pos /\ new.macro = Len(items')
  PROVE  MacroInv' /\ ItemInv' /\ items' \in Seq(ItemType)
<1> DEFINE n == Len(contexts)
           ds == AddInstruction(kind, cs, items).contexts
<1>1. n \in Nat /\ n >= 1 /\ Inner = 2..n
  BY ContextFacts DEF Inner
<1>2. pos <= Len(program)
  BY ProgramFacts DEF Advance, LineNumbers, TypeOK
<1>3. PICK f, last : Grown(kind, ds, items', f, last)
  BY <1>2, GrownIs
<1>4. /\ ItemInv' /\ items' \in Seq(ItemType)
      /\ \A k \in Inner : ds[k].macro \in DOMAIN items' /\ items'[ds[k].macro].line = LineOf(k)
      /\ Len(items') \in DOMAIN items' /\ items'[Len(items')].line = pos
  BY <1>3, ItemsGrow
<1>5. ds \in Seq(ContextType) /\ Len(ds) = n /\ \A k \in 1..n : ds[k].kind = contexts[k].kind /\ ds[k].line = contexts[k].line
  BY <1>3 DEF Grown, SameBut
<1>6. DOMAIN items' = 1..Len(items') /\ Len(items') \in Nat /\ None \notin Nat
  BY <1>4, LenProperties, AssemblerAssumption
<1> HIDE DEF ds, n
<1>7. \A k \in 2..n : ds[k].macro # None /\ k \in 1..n /\ ds[k].line = LineOf(k)
  <2>1. \A k \in 2..n : k \in Inner /\ k \in 1..n
    BY <1>1
  <2> QED BY <1>4, <1>5, <1>6, <2>1 DEF LineOf
<1>8. contexts[1].kind = "root"
  BY DEF StackInv
<1>9. \A k \in 1..n : k = 1 \/ k \in 2..n
  BY <1>1
<1>10. 1 \in 1..n
  BY <1>1
<1>11. \A k \in 1..n : ~(ds[k].kind = "if" /\ ds[k].macro = None)
  BY <1>5, <1>7, <1>8, <1>9, <1>10
<1>12. CASE contexts' = ds
  <2>1. DOMAIN contexts' = 1..n /\ Len(contexts') = n
    BY <1>5, <1>12, LenProperties
  <2>2. FirstMacroless(contexts', n)
    <3>1. Macroless(contexts') = {}
      BY <1>11, <1>12, <2>1 DEF Macroless
    <3>2. n + 1..n = {} /\ n \in 1..n
      BY <1>1
    <3> QED BY <2>1, <3>1, <3>2 DEF FirstMacroless
  <2>3. \A k \in 2..n : contexts'[k].macro \in DOMAIN items' /\ items'[contexts'[k].macro].line = LineOf(k)'
    BY <1>1, <1>4, <1>7, <1>12 DEF LineOf
  <2>4. MacroInv'
    BY <2>2, <2>3 DEF MacroInv
  <2> QED BY <1>4, <2>4
<1>13. CASE \E new \in ContextType :
              contexts' = Append(ds, new) /\ new.kind = "repeat" /\ new.line = pos /\ new.macro = Len(items')
  <2>1. PICK new \in ContextType :
              contexts' = Append(ds, new) /\ new.kind = "repeat" /\ new.line = pos /\ new.macro = Len(items')
    BY <1>13
  <2>2. PICK q \in Nat : q = n + 1
    BY <1>1
  <2>3. Len(contexts') = q /\ contexts'[q] = new /\ \A k \in 1..n : contexts'[k] = ds[k]
    BY <1>5, <2>1, <2>2, AppendProperties
  <2>4. DOMAIN contexts' = 1..q
    BY <2>3, LenProperties
  <2>5. \A k \in 1..q : k \in 1..n \/ k = q
    BY <1>1, <2>2
  <2>6. FirstMacroless(contexts', q)
    <3>1. Macroless(contexts') = {}
      BY <1>11, <2>1, <2>3, <2>4, <2>5 DEF Macroless
    <3>2. q + 1..q = {} /\ q \in 1..q
      BY <1>1, <2>2
    <3> QED BY <2>3, <3>1, <3>2 DEF FirstMacroless
  <2>7. \A k \in 2..q : k \in 2..n \/ k = q
    BY <1>1, <2>2
  <2>8. \A k \in 2..q : contexts'[k].macro \in DOMAIN items' /\ items'[contexts'[k].macro].line = LineOf(k)'
    <3>1. \A k \in 2..n : contexts'[k].macro \in DOMAIN items' /\ items'[contexts'[k].macro].line = LineOf(k)'
      <4> TAKE k \in 2..n
      <4>1. contexts'[k] = ds[k] /\ k \in Inner
        BY <1>1, <1>7, <2>3
      <4>2. LineOf(k)' = LineOf(k)
        BY <1>7, <4>1 DEF LineOf
      <4> QED BY <1>4, <4>1, <4>2
    <3>2. contexts'[q].macro \in DOMAIN items' /\ items'[contexts'[q].macro].line = LineOf(q)'
      BY <1>4, <2>1, <2>3 DEF LineOf
    <3> QED BY <2>7, <3>1, <3>2
  <2>9. MacroInv'
    BY <2>6, <2>8 DEF MacroInv
  <2> QED BY <1>4, <2>9
<1> QED BY <1>12, <1>13 DEF ds

LEMMA ItemNext ==
  ASSUME TypeOK, StackInv, StackInv', ElseInv, SectionInv, MacroInv, ItemInv, [Next]_vars
  PROVE  MacroInv' /\ ItemInv' /\ items' \in Seq(ItemType)
<1>1. items \in Seq(ItemType) /\ \A why : Reject(why) => Stands
  BY DEF TypeOK, Reject, Stands
<1>2. CASE Stands
  <2>1. program' = program /\ pos' = pos /\ contexts' = contexts /\ items' = items
    BY <1>2 DEF Stands, parserVars
  <2>2. \A l, b : Blocks(l)' = Blocks(l) /\ SectionAt(l)' = SectionAt(l) /\ InElse(b, l)' = InElse(b, l)
    BY <2>1, SameText
  <2>3. ItemInv'
    <3>1. Emitting' = Emitting
      BY <2>1 DEF Emitting
    <3> QED BY <2>1, <2>2, <3>1 DEF ItemInv, PlacedAsWritten, KindOf
  <2>4. MacroInv'
    BY <2>1 DEF MacroInv, FirstMacroless, Macroless, LineOf
  <2> QED BY <1>1, <2>1, <2>3, <2>4
<1>3. CASE ~Stands
  <2>1. (Stays \/ Opens \/ Closes) /\ contexts' \in Seq(ContextType)
    BY <1>3, StepCases
  <2>2. Advance /\ pos <= Len(program)
    BY <2>1, ProgramFacts DEF Stays, Opens, Closes, Advance, LineNumbers, TypeOK
  <2>3. PICK m : Goes(m) /\ m = KeptOf
    BY <2>1, StepGoes
  <2>4. CASE Section \/ Else \/ File \/ EndRepeat \/ EndIf \/ If
    <3>1. Quiet(m)
      BY <2>2, <2>3, <2>4, QuietSteps DEF Quiet
    <3>2. Kept(m)
      BY <2>3 DEF Goes
    <3> QED BY <2>1, <2>2, <3>1, <3>2, ItemsStay, MacrosStay, <1>1 DEF Quiet
  <2>5. CASE AddLabel
    <3>1. /\ InSection /\ Line.op \in {"global", "label"} /\ contexts' = AddInstruction("label", NewPrefix, items).contexts
          /\ items' = AddInstruction("label", NewPrefix, items).items
      BY <2>5 DEF AddLabel, At
    <3>2. NewPrefix = contexts \/ (Line.op = "global" /\ NewPrefix = WithPrefix(contexts, Line.name[1]))
      BY DEF NewPrefix
    <3>3. Line.op \in EmittingOps /\ "label" = KindOf(Line.op)
      BY <3>1 DEF EmittingOps, KindOf
    <3> QED BY <2>1, <2>2, <3>1, <3>2, <3>3, ItemAdded
  <2>6. CASE AddUse
    <3>1. /\ InSection /\ Line.op = "use" /\ contexts' = AddInstruction("use", contexts, items).contexts
          /\ items' = AddInstruction("use", contexts, items).items
      BY <2>6 DEF AddUse, At
    <3>2. Line.op \in EmittingOps /\ "use" = KindOf(Line.op)
      BY <3>1 DEF EmittingOps, KindOf
    <3> QED BY <2>1, <2>2, <3>1, <3>2, ItemAdded
  <2>7. CASE AddConstant /\ Line.op = "equhere"
    <3>1. /\ InSection /\ contexts' = AddInstruction("ephemeral", contexts, items).contexts
          /\ items' = AddInstruction("ephemeral", contexts, items).items
      BY <2>7 DEF AddConstant
    <3>2. Line.op \in EmittingOps /\ "ephemeral" = KindOf(Line.op)
      BY <2>7 DEF EmittingOps, KindOf
    <3> QED BY <2>1, <2>2, <3>1, <3>2, ItemAdded
  <2>8. CASE AddConstant /\ Line.op # "equhere"
    <3>1. items' = items /\ contexts' = contexts /\ Line.op = "equ"
      BY <2>8 DEF AddConstant, At
    <3>2. ItemInv'
      BY <2>2, <3>1, ItemsStay DEF EmittingOps
    <3>3. MacroInv'
      BY <3>1 DEF MacroInv, FirstMacroless, Macroless, LineOf
    <3> QED BY <1>1, <3>1, <3>2, <3>3
  <2>9. CASE Repeat
    <3> DEFINE added == AddInstruction("repeat", contexts, items)
               new == Context("repeat", Top.section, None, Len(added.items))
    <3>1. /\ InSection /\ Line.op = "repeat" /\ contexts' = Append(added.contexts, new) /\ items' = added.items
      BY <1>1, <1>3, <2>9 DEF Repeat, At
    <3>2. Line.op \in EmittingOps /\ "repeat" = KindOf(Line.op)
      BY <3>1 DEF EmittingOps, KindOf
    <3>3. new \in ContextType /\ new.kind = "repeat" /\ new.line = pos /\ new.macro = Len(items')
      <4>1. PICK f, last : Grown("repeat", added.contexts, added.items, f, last)
        BY <2>2, GrownIs
      <4>2. Len(added.items) \in Nat
        BY <4>1 DEF Grown
      <4>3. IsNew("repeat", None, Len(added.items))
        <5> HIDE DEF added
        <5> QED BY <2>2, <4>2, NewContext
      <4> HIDE DEF added
      <4> QED BY <3>1, <4>3 DEF IsNew
    <3> HIDE DEF new
    <3> QED BY <2>1, <2>2, <3>1, <3>2, <3>3, ItemAdded
  <2>10. UNCHANGED vars \/ Finished \/ Close \/ RejectLine => Stands
    BY <1>1 DEF vars, Finished, Close, RejectLine, Stands
  <2> QED BY <1>3, <2>4, <2>5, <2>6, <2>7, <2>8, <2>9, <2>10 DEF Next
<1> QED BY <1>2, <1>3

-----------------------------------------------------------------------------
(* Local names are those of the last global label.                         *)

\* What one more line does to the global labels.
LEMMA AliveNext ==
  ASSUME NEW p \in Nat
  PROVE  /\ program[p + 1].op \notin {"global", "file"} \cup Closing => Alive(p + 1) = Alive(p)
         /\ program[p + 1].op = "global" => Alive(p + 1) = Alive(p) \cup {p + 1}
         /\ program[p + 1].op = "file" => Alive(p + 1) = {}
<1> DEFINE l == p + 1
<1>1. l \in Nat /\ \A g : g \in 1..l <=> g \in 1..p \/ g = l
  OBVIOUS
<1>2. l \notin 1..p /\ l \in 1..l
  OBVIOUS
<1>3. \A g \in 1..l : SameFile(g, l) <=> program[l].op # "file" /\ (g = l \/ SameFile(g, p))
  <2> TAKE g \in 1..l
  <2>1. \A m : m \in g..l <=> m \in g..p \/ m = l
    OBVIOUS
  <2>2. g = l => ~\E m : m \in g..p
    OBVIOUS
  <2> HIDE DEF l
  <2> QED BY <2>1, <2>2 DEF SameFile
<1>4. CASE program[l].op = "file"
  BY <1>3, <1>4 DEF Alive
<1>5. CASE program[l].op \notin {"file"} \cup Closing
  <2>1. /\ Standing(l) = Standing(p) \/ (Standing(l) = Standing(p) \cup {l} /\ program[l].op # "global")
        /\ Blocks(l) = Standing(p)
    BY <1>5, StandingNext DEF Opening, Closing
  <2>2. \A g \in 1..p : Blocks(g) \ Standing(l) = Blocks(g) \ Standing(p)
    <3>1. \A g \in 1..p : l \notin Blocks(g)
      <4>1. \A g \in 1..p : Blocks(g) \subseteq 1..g - 1
        BY BlocksAreStanding
      <4> QED BY <4>1
    <3> HIDE DEF l
    <3> QED BY <2>1, <3>1
  <2> HIDE DEF l
  <2>3. \A g \in 1..p : SameFile(g, l) <=> SameFile(g, p)
    BY <1>1, <1>2, <1>3, <1>5
  <2>4. \A g, b : b \notin Standing(p) => (Later(b, g, l) <=> Later(b, g, p))
    BY <1>1, <1>2, <2>1, <2>3 DEF Later
  <2>5. \A g \in 1..p : g \in Alive(l) <=> g \in Alive(p)
    BY <1>1, <2>2, <2>3, <2>4 DEF Alive
  <2>6. l \in Alive(l) <=> program[l].op = "global"
    <3>1. program[l].op = "global" => Blocks(l) \ Standing(l) = {}
      BY <2>1
    <3> QED BY <1>2, <1>3, <1>5, <3>1 DEF Alive
  <2>7. \A g \in Alive(l) : g \in 1..p \/ g = l
    BY <1>1 DEF Alive
  <2>8. \A g \in Alive(p) : g \in 1..p
    BY DEF Alive
  <2> QED BY <1>2, <1>5, <2>5, <2>6, <2>7, <2>8 DEF l
<1> QED BY <1>4, <1>5 DEF Closing

\* And the end of a block: its second branch is left out if the first one has some.
LEMMA AliveClosed ==
  ASSUME NEW p \in Nat, program[p + 1].op \notin {"global", "file"}, NEW t \in Standing(p), Standing(p + 1) = Standing(p) \ {t},
         \A m \in t..p : program[m].op # "file"
  PROVE  /\ (\A e \in 1..p : ~IsElse(t, e)) => Alive(p + 1) = Alive(p)
         /\ \A e \in 1..p : IsElse(t, e) /\ (\A d \in 1..p : IsElse(t, d) => d = e) =>
              /\ GlobalsIn(t, e) = {} => Alive(p + 1) = Alive(p)
              /\ GlobalsIn(t, e) # {} /\ Standing(e) = Standing(p) => Alive(p + 1) = Alive(e)
<1> DEFINE l == p + 1
<1>1. l \in Nat /\ \A g : g \in 1..l <=> g \in 1..p \/ g = l
  OBVIOUS
<1>2. l \notin 1..p /\ t \in 1..p /\ t \in Nat
  BY BlocksAreStanding
<1>3. \A g \in 1..p : SameFile(g, l) <=> SameFile(g, p)
  <2> TAKE g \in 1..p
  <2>1. \A m : m \in g..l <=> m \in g..p \/ m = l
    OBVIOUS
  <2> HIDE DEF l
  <2> QED BY <2>1 DEF SameFile, l
<1>4. \A b, g : Later(b, g, l) <=> Later(b, g, p)
  <2> HIDE DEF l
  <2>1. program[l].op # "global"
    BY DEF l
  <2> QED BY <1>1, <1>3, <2>1 DEF Later
<1>5. Alive(l) = {g \in Alive(p) : t \in Blocks(g) => ~Later(t, g, p)}
  <2>1. program[l].op # "global" /\ Standing(l) = Standing(p) \ {t}
    OBVIOUS
  <2> HIDE DEF l
  <2> QED BY <1>1, <1>3, <1>4, <2>1 DEF Alive
<1>6. \A g \in t..p : g # t => t \in Blocks(g)
  BY StandingBefore
<1>7. \A b, m : InElse(b, m) <=> \E e \in b..m : IsElse(b, e)
  BY DEF InElse, IsElse
<1>8. ASSUME \A e \in 1..p : ~IsElse(t, e) PROVE Alive(l) = Alive(p)
  <2>1. \A g \in Alive(p) : ~InElse(t, g)
    <3>1. \A g \in Alive(p) : \A e \in t..g : e \in 1..p
      BY <1>2 DEF Alive
    <3> QED BY <1>7, <1>8, <3>1
  <2> QED BY <1>5, <2>1 DEF Later
<1>9. ASSUME NEW e \in 1..p, IsElse(t, e), \A d \in 1..p : IsElse(t, d) => d = e
      PROVE  /\ GlobalsIn(t, e) = {} => Alive(l) = Alive(p)
             /\ GlobalsIn(t, e) # {} /\ Standing(e) = Standing(p) => Alive(l) = Alive(e)
  <2>1. e \in Nat /\ t < e /\ program[e].op = "else"
    <3>1. Blocks(e) \subseteq 1..e - 1
      BY BlocksAreStanding
    <3> QED BY <1>9, <3>1 DEF IsElse
  <2>2. \A g \in 1..p : InElse(t, g) <=> e <= g
    <3> TAKE g \in 1..p
    <3>1. \A d \in t..g : d \in 1..p
      BY <1>2
    <3>2. e <= g <=> e \in t..g
      BY <1>2, <2>1
    <3> QED BY <1>7, <1>9, <3>1, <3>2
  <2> DEFINE First == \E h \in 1..p : program[h].op = "global" /\ SameFile(h, p) /\ t \in Blocks(h) /\ ~InElse(t, h)
  <2>3. First <=> GlobalsIn(t, e) # {}
    <3>1. ASSUME NEW h \in 1..p, program[h].op = "global", SameFile(h, p), t \in Blocks(h), ~InElse(t, h)
          PROVE  h \in GlobalsIn(t, e)
      <4>1. h \in Nat /\ Blocks(h) \subseteq 1..h - 1
        BY BlocksAreStanding
      <4>2. t < h /\ h < e
        BY <1>2, <2>1, <2>2, <3>1, <4>1
      <4> QED BY <1>2, <2>1, <3>1, <4>1, <4>2 DEF GlobalsIn
    <3>2. ASSUME NEW h \in GlobalsIn(t, e) PROVE First
      <4>1. h \in t..e /\ program[h].op = "global" /\ program[e].op # "global" /\ program[t].op # "global"
        BY <2>1, BlocksAreStanding DEF GlobalsIn, Opening
      <4>2. h \in 1..p /\ h # t /\ h < e /\ h \in t..p
        BY <1>2, <2>1, <4>1
      <4>3. SameFile(h, p)
        <5>1. \A m \in h..p : m \in t..p
          BY <1>2, <4>2
        <5> QED BY <5>1 DEF SameFile
      <4>4. t \in Blocks(h) /\ ~InElse(t, h)
        BY <1>6, <2>1, <2>2, <4>2
      <4> QED BY <4>1, <4>2, <4>3, <4>4
    <3> QED BY <3>1, <3>2
  <2>4. \A g \in 1..p : Later(t, g, p) <=> e <= g /\ First
    BY <2>2 DEF Later
  <2>5. \A g \in Alive(p) : g \in 1..p /\ g \in Nat /\ g # e /\ (e <= g => t \in Blocks(g))
    <3>1. \A g \in Alive(p) : g \in 1..p /\ g \in Nat /\ g # e
      BY <2>1 DEF Alive
    <3>2. \A g \in 1..p : e <= g => g \in t..p /\ g # t
      BY <1>2, <2>1
    <3> QED BY <1>6, <3>1, <3>2
  <2> HIDE DEF First, l
  <2>6. ASSUME GlobalsIn(t, e) = {} PROVE Alive(l) = Alive(p)
    BY <1>5, <2>3, <2>4, <2>5, <2>6
  <2>7. ASSUME GlobalsIn(t, e) # {}, Standing(e) = Standing(p) PROVE Alive(l) = Alive(e)
    <3>1. Alive(l) = {g \in Alive(p) : ~(e <= g)}
      BY <1>5, <2>3, <2>4, <2>5, <2>7
    <3>2. \A g \in 1..e : g \in 1..p
      BY <2>1
    <3>3. \A g \in 1..e : SameFile(g, e) <=> SameFile(g, p)
      <4> TAKE g \in 1..e
      <4>1. \A m : m \in g..p <=> m \in g..e \/ (m \in e..p)
        BY <2>1
      <4>2. \A m \in e..p : m \in t..p
        BY <1>2, <2>1
      <4> QED BY <4>1, <4>2 DEF SameFile
    <3>4. ASSUME NEW g \in 1..e, NEW b \in Blocks(g) \ Standing(e), NEW h \in 1..p, b \in Blocks(h)
          PROVE  h \in 1..e
      <4>1. Blocks(g) \subseteq 1..g - 1 /\ b \in Nat /\ b < e
        BY <2>1, BlocksAreStanding
      <4>2. ASSUME ~(h <= e) PROVE FALSE
        <5>1. h \in Nat /\ b \in Standing(h) /\ e \in b..h
          BY <2>1, <3>4, <4>1, <4>2, BlocksAreStanding
        <5>2. b \in Standing(e)
          BY <5>1, StandingBefore
        <5> QED BY <3>4, <5>2
      <4> QED BY <2>1, <4>2
    <3>5. \A g \in 1..e : \A b \in Blocks(g) \ Standing(e) : Later(b, g, e) <=> Later(b, g, p)
      BY <3>2, <3>3, <3>4 DEF Later
    <3>6. \A g \in 1..e : g \in Alive(e) <=> g \in Alive(p)
      BY <2>7, <3>2, <3>3, <3>5 DEF Alive
    <3>7. \A g \in Alive(e) : g \in 1..e /\ ~(e <= g)
      BY <2>1 DEF Alive
    <3>8. \A g \in Alive(p) : ~(e <= g) => g \in 1..e
      BY <2>1, <2>5
    <3> QED BY <3>1, <3>6, <3>7, <3>8
  <2> QED BY <2>6, <2>7
<1> QED BY <1>8, <1>9 DEF l

\* What a step does to the prefixes.
SamePrefix(m) ==
  /\ contexts'[1].prefix = Prefix
  /\ \A k \in 2..m : contexts'[k].thenPrefix = contexts[k].thenPrefix /\ contexts'[k].elsePrefix = contexts[k].elsePrefix
SetPrefix(m, q) ==
  /\ contexts'[1].prefix = q
  /\ \A k \in 2..m : contexts[k].kind = "if" =>
       /\ contexts'[k].thenPrefix = IF contexts[k].hasElse THEN contexts[k].thenPrefix ELSE q
       /\ contexts'[k].elsePrefix = IF contexts[k].hasElse THEN q ELSE contexts[k].elsePrefix
PrefixStep ==
  /\ Line.op \notin {"global", "endif", "file"} => SamePrefix(KeptOf)
  /\ Line.op = "global" => SetPrefix(KeptOf, Line.name[1])
  /\ Line.op = "endif" =>
       IF Top.thenPrefix = None /\ Top.elsePrefix = None THEN SamePrefix(KeptOf)
       ELSE SetPrefix(KeptOf, IF Top.thenPrefix # None THEN Top.thenPrefix ELSE Top.elsePrefix)
  /\ Line.op = "file" => contexts'[1].prefix = ""
  /\ Line.op = "if" => contexts'[KeptOf + 1].thenPrefix = None /\ contexts'[KeptOf + 1].elsePrefix = None

\* WithPrefix, in these words.
LEMMA WithPrefixSets ==
  ASSUME NEW cs \in Seq(ContextType), Len(cs) >= 1, cs[1].kind = "root", NEW p \in Prefixes,
         NEW m, m = Len(cs), NEW ds, \A k \in 1..m : ds[k].prefix = WithPrefix(cs, p)[k].prefix,
         \A k \in 1..m : ds[k].thenPrefix = WithPrefix(cs, p)[k].thenPrefix /\ ds[k].elsePrefix = WithPrefix(cs, p)[k].elsePrefix
  PROVE  /\ ds[1].prefix = p
         /\ \A k \in 2..m : cs[k].kind = "if" =>
              /\ ds[k].thenPrefix = IF cs[k].hasElse THEN cs[k].thenPrefix ELSE p
              /\ ds[k].elsePrefix = IF cs[k].hasElse THEN p ELSE cs[k].elsePrefix
<1> DEFINE w == WithPrefix(cs, p)
<1>1. \A k \in 1..m : /\ w[k].prefix = IF cs[k].kind = "root" THEN p ELSE cs[k].prefix
                      /\ w[k].thenPrefix = IF cs[k].kind = "if" /\ ~cs[k].hasElse THEN p ELSE cs[k].thenPrefix
                      /\ w[k].elsePrefix = IF cs[k].kind = "if" /\ cs[k].hasElse THEN p ELSE cs[k].elsePrefix
  BY WithPrefixIs
<1> HIDE DEF w
<1>2. 1 \in 1..m /\ \A k \in 2..m : k \in 1..m
  <2>1. m \in Nat
    BY LenProperties
  <2> QED BY <2>1
<1> QED BY <1>1, <1>2 DEF w

LEMMA PrefixSteps ==
  ASSUME TypeOK, StackInv, MacroInv, [Next]_vars, Advance
  PROVE  PrefixStep
<1> DEFINE n == Len(contexts)
<1>1. /\ n \in Nat /\ n >= 1 /\ contexts \in Seq(ContextType) /\ \A k \in 1..n : contexts[k] \in ContextType
      /\ contexts[1].kind = "root" /\ pos <= Len(program) /\ Prefix = contexts[1].prefix /\ 1 \in 1..n
      /\ \A k \in 2..n : k \in 1..n
  BY ContextFacts, ProgramFacts DEF TypeOK, StackInv, Advance, LineNumbers, Prefix
<1>2. (\A why : ~Reject(why)) /\ pos' # pos
  <2>1. pos' # pos
    BY StepNumbers DEF Advance
  <2> QED BY <2>1 DEF Reject
<1>3. PICK f : FirstMacroless(contexts, f)
  BY DEF MacroInv
<1>4. ASSUME \A k \in 1..n : contexts'[k].prefix = contexts[k].prefix /\ contexts'[k].thenPrefix = contexts[k].thenPrefix
                             /\ contexts'[k].elsePrefix = contexts[k].elsePrefix
      PROVE  SamePrefix(n)
  BY <1>1, <1>4 DEF SamePrefix
<1>5. ASSUME NEW kind
      PROVE  LET ds == AddInstruction(kind, contexts, items).contexts
             IN ds \in Seq(ContextType) /\ Len(ds) = n /\ SamePrefixes(contexts, ds)
  BY <1>1, <1>3, AddedStays
<1>6. CASE AddUse \/ AddConstant \/ (AddLabel /\ Line.op = "label")
  <2>1. /\ contexts' = contexts \/ \E kind : contexts' = AddInstruction(kind, contexts, items).contexts
        /\ Line.op \in {"use", "equ", "equhere", "label"}
    BY <1>6 DEF AddUse, AddConstant, AddLabel, At, NewPrefix
  <2>2. \A k \in 1..n : contexts'[k].prefix = contexts[k].prefix /\ contexts'[k].thenPrefix = contexts[k].thenPrefix
                             /\ contexts'[k].elsePrefix = contexts[k].elsePrefix
    BY <1>5, <2>1 DEF SamePrefixes
  <2> QED BY <1>4, <2>1, <2>2 DEF PrefixStep, KeptOf, Closing
<1>7. CASE AddLabel /\ Line.op # "label"
  <2>1. Line.op = "global" /\ contexts' = AddInstruction("label", WithPrefix(contexts, Line.name[1]), items).contexts
    BY <1>7 DEF AddLabel, At, NewPrefix
  <2> DEFINE q == Line.name[1]
             cs == WithPrefix(contexts, q)
  <2>2. q \in Prefixes
    BY <1>1, <2>1, LineFacts
  <2>3. SamePrefixes(cs, contexts') /\ Len(cs) = n
    BY <1>1, <1>3, <2>1, AddedStays
  <2>4. SetPrefix(n, q)
    <3> HIDE DEF q
    <3> QED BY <1>1, <2>2, <2>3, WithPrefixSets DEF SamePrefixes, SetPrefix
  <2> QED BY <2>1, <2>4 DEF PrefixStep, KeptOf, Closing
<1>8. CASE Repeat
  <2>1. /\ Line.op = "repeat"
        /\ \E c : contexts' = Append(AddInstruction("repeat", contexts, items).contexts, c)
    BY <1>2, <1>8 DEF Repeat, At
  <2> DEFINE ds == AddInstruction("repeat", contexts, items).contexts
  <2>2. ds \in Seq(ContextType) /\ Len(ds) = n /\ SamePrefixes(contexts, ds)
    BY <1>5
  <2> HIDE DEF ds
  <2>3. \A k \in 1..n : contexts'[k] = ds[k]
    <3>1. PICK c : contexts' = Append(ds, c)
      BY <2>1 DEF ds
    <3> QED BY <1>1, <2>2, <3>1
  <2>4. SamePrefix(n)
    BY <1>4, <2>2, <2>3 DEF SamePrefixes
  <2> QED BY <2>1, <2>4 DEF PrefixStep, KeptOf, Closing
<1>9. CASE If
  <2> DEFINE c == Context("if", Top.section, Line.name, None)
  <2>1. Line.op = "if" /\ contexts' = Append(contexts, c)
    BY <1>9 DEF If, At
  <2>2. c.thenPrefix = None /\ c.elsePrefix = None
    BY DEF Context
  <2> HIDE DEF c
  <2>3. (\A k \in 1..n : contexts'[k] = contexts[k]) /\ contexts'[n + 1] = c
    BY <1>1, <2>1
  <2>4. SamePrefix(n)
    BY <1>4, <2>3
  <2> QED BY <2>1, <2>2, <2>3, <2>4 DEF PrefixStep, KeptOf, Closing
<1>10. CASE Section
  <2>1. Line.op = "section" /\ contexts' = [contexts EXCEPT ![1].section = Line.name] /\ n = 1
    BY <1>2, <1>10, RootFacts DEF Section, At
  <2> DEFINE c == [contexts[1] EXCEPT !.section = Line.name]
  <2>2. c.prefix = contexts[1].prefix
    BY <1>1 DEF ContextType
  <2>3. contexts' = [contexts EXCEPT ![1] = c]
    BY <2>1
  <2> HIDE DEF c
  <2>4. contexts'[1] = c
    BY <1>1, <2>3
  <2>5. SamePrefix(n)
    BY <1>1, <2>1, <2>2, <2>4 DEF SamePrefix
  <2> QED BY <2>1, <2>5 DEF PrefixStep, KeptOf, Closing
<1>11. CASE Else
  <2>1. Line.op = "else" /\ contexts' = [contexts EXCEPT ![n].hasElse = TRUE]
    BY <1>2, <1>11 DEF Else, At
  <2> DEFINE c == [contexts[n] EXCEPT !.hasElse = TRUE]
  <2>2. c.prefix = contexts[n].prefix /\ c.thenPrefix = contexts[n].thenPrefix /\ c.elsePrefix = contexts[n].elsePrefix
    <3>1. contexts[n] \in ContextType
      BY <1>1
    <3> HIDE DEF n
    <3> QED BY <3>1 DEF ContextType
  <2>3. contexts' = [contexts EXCEPT ![n] = c]
    BY <2>1
  <2> HIDE DEF c, n
  <2>4. \A k \in 1..n : contexts'[k] = IF k = n THEN c ELSE contexts[k]
    BY <1>1, <2>3 DEF n
  <2>5. SamePrefix(n)
    BY <1>4, <2>2, <2>4
  <2> QED BY <2>1, <2>5 DEF PrefixStep, KeptOf, Closing, n
<1>12. CASE File
  <2>1. Line.op = "file" /\ contexts' = <<Root>>
    BY <1>2, <1>12 DEF File, At
  <2>2. contexts'[1].prefix = ""
    BY <2>1, RootIs DEF TypeOK
  <2> QED BY <2>1, <2>2 DEF PrefixStep
<1>13. CASE EndRepeat \/ EndIf
  <2>1. /\ Top.kind # "root"
        /\ (Line.op = "endrepeat" /\ contexts' = Enclosing) \/ (Line.op = "endif" /\ contexts' = PrefixAtPop)
    BY <1>2, <1>13 DEF EndRepeat, EndIf, At
  <2>2. n - 1 \in Nat /\ n - 1 >= 1
    BY <1>1, <2>1, RootFacts
  <2>3. Enclosing \in Seq(ContextType) /\ Len(Enclosing) = n - 1 /\ \A k \in 1..n - 1 : Enclosing[k] = contexts[k]
    BY <1>1, <2>2, SubSeqProperties DEF Enclosing
  <2>4. 1 \in 1..n - 1 /\ \A k \in 2..n - 1 : k \in 1..n - 1
    BY <2>2
  <2>5. KeptOf = n - 1
    BY <2>1 DEF KeptOf, Closing
  <2>6. contexts' = Enclosing => SamePrefix(n - 1)
    BY <1>1, <2>3, <2>4 DEF SamePrefix
  <2>7. ASSUME NEW q \in Prefixes, contexts' = WithPrefix(Enclosing, q) PROVE SetPrefix(n - 1, q)
    <3> DEFINE w == WithPrefix(Enclosing, q)
               m == n - 1
    <3>1. w[1].prefix = q /\ \A k \in 2..m : Enclosing[k].kind = "if" =>
              /\ w[k].thenPrefix = IF Enclosing[k].hasElse THEN Enclosing[k].thenPrefix ELSE q
              /\ w[k].elsePrefix = IF Enclosing[k].hasElse THEN q ELSE Enclosing[k].elsePrefix
      <4>1. Enclosing[1].kind = "root" /\ m >= 1 /\ m = Len(Enclosing)
        BY <1>1, <2>2, <2>3, <2>4
      <4> HIDE DEF m
      <4> QED BY <2>3, <4>1, WithPrefixSets
    <3> HIDE DEF w
    <3> QED BY <2>3, <2>4, <2>7, <3>1 DEF SetPrefix, w
  <2>8. Top.thenPrefix \in Prefixes /\ Top.elsePrefix \in Prefixes
    BY ContextFacts DEF ContextType
  <2> HIDE DEF n
  <2> QED BY <2>1, <2>5, <2>6, <2>7, <2>8 DEF PrefixStep, PrefixAtPop
<1>14. ~(UNCHANGED vars \/ Finished \/ Close \/ RejectLine)
  BY <1>2 DEF vars, Finished, Close, RejectLine
<1> QED BY <1>6, <1>7, <1>8, <1>9, <1>10, <1>11, <1>12, <1>13, <1>14 DEF Next

\* The text says what it said.
LEMMA SamePrefixText ==
  ASSUME program' = program
  PROVE  /\ \A l : Alive(l)' = Alive(l)
         /\ \A q, l : IsPrefix(q, l)' = IsPrefix(q, l)
         /\ \A c, q, b, l, around : OwnPrefix(c, q, b, l, around)' = OwnPrefix(c, q, b, l, around)
<1>1. \A l : Blocks(l)' = Blocks(l) /\ Standing(l)' = Standing(l)
  BY SameText
<1>2. \A b, l : InElse(b, l)' = InElse(b, l) /\ IsElse(b, l)' = IsElse(b, l)
  BY SameText
<1>3. \A k, l : SameFile(k, l)' = SameFile(k, l)
  BY DEF SameFile
<1>4. \A b, g, l : Later(b, g, l)' = Later(b, g, l)
  BY <1>1, <1>2, <1>3 DEF Later
<1>5. \A l : Alive(l)' = Alive(l)
  BY <1>1, <1>3, <1>4 DEF Alive
<1>6. \A q, l, b : NamesLast(q, l, b)' = NamesLast(q, l, b)
  BY <1>5 DEF NamesLast, Last
<1>7. \A b, l : GlobalsIn(b, l)' = GlobalsIn(b, l)
  BY DEF GlobalsIn
<1>8. \A own, q, b, l : Labelled(own, q, b, l)' = Labelled(own, q, b, l)
  BY <1>6, <1>7 DEF Labelled
<1>9. \A q, l : IsPrefix(q, l)' = IsPrefix(q, l)
  BY <1>5, <1>6 DEF IsPrefix
<1>10. \A c, q, b, l, around : OwnPrefix(c, q, b, l, around)' = OwnPrefix(c, q, b, l, around)
  BY <1>1, <1>2, <1>8 DEF OwnPrefix
<1> QED BY <1>5, <1>9, <1>10

\* The last of the global labels.
LEMMA AliveLast ==
  ASSUME program \in Programs, NEW l \in Nat, l <= Len(program), Alive(l) # {}
  PROVE  LET g == Last(Alive(l))
         IN /\ g \in Alive(l) /\ g \in 1..l /\ g \in LineNumbers /\ program[g].op = "global"
            /\ program[g].name[1] \notin {"", None} /\ program[g].name = <<program[g].name[1]>>
            /\ \A h \in Alive(l) : h <= g
<1>1. Alive(l) \in SUBSET Nat /\ \A h \in Alive(l) : h <= l
  BY DEF Alive
<1>2. Last(Alive(l)) \in Alive(l) /\ \A h \in Alive(l) : h <= Last(Alive(l))
  BY <1>1, LastIs
<1>3. \A g \in Alive(l) : g \in 1..l /\ g \in LineNumbers /\ program[g].op = "global"
  BY ProgramFacts DEF Alive, LineNumbers
<1> QED BY <1>2, <1>3, ProgramFacts DEF IsLine

\* A line that is no global label leaves the prefixes as they are.
LEMMA LabelledSame ==
  ASSUME NEW l \in Nat, Alive(l + 1) = Alive(l), program[l + 1].op # "global"
  PROVE  /\ \A q, b : NamesLast(q, l, b) => NamesLast(q, l + 1, b)
         /\ \A q : IsPrefix(q, l) => IsPrefix(q, l + 1)
         /\ \A own, q : \A b \in Nat : Labelled(own, q, b, l) => Labelled(own, q, b, l + 1)
<1>1. \A b \in Nat : GlobalsIn(b, l + 1) = GlobalsIn(b, l)
  BY DEF GlobalsIn
<1>2. \A q, b : NamesLast(q, l, b) => NamesLast(q, l + 1, b)
  BY DEF NamesLast
<1> QED BY <1>1, <1>2 DEF IsPrefix, Labelled

LEMMA WithElse ==
  ASSUME NEW c, NEW q, NEW b, NEW l, NEW around, c.hasElse, NEW e \in 1..l, IsElse(b, e), Standing(e) = around,
         Labelled(c.thenPrefix, c.thenPrefix, b, e), Labelled(c.elsePrefix, q, e, l)
  PROVE  OwnPrefix(c, q, b, l, around)
BY DEF OwnPrefix

\* The contexts that stay, when the prefix does and when it changes.
LEMMA PrefixesStay ==
  ASSUME TypeOK, StackInv, PrefixInv, NEW m, Goes(m), Alive(pos) = Alive(pos - 1), Line.op # "global", SamePrefix(m)
  PROVE  /\ IsPrefix(contexts'[1].prefix, pos)
         /\ \A k \in 2..m : contexts'[k].kind = "if" =>
              OwnPrefix(contexts'[k], contexts'[1].prefix, LineOf(k), pos, LinesTo(k))
<1>1. Advance /\ Kept(m) /\ KeptIs(m)
  BY KeptBlocks DEF Goes, Kept
<1>2. pos - 1 \in Nat /\ pos - 1 + 1 = pos /\ pos \in Nat /\ pos >= 1 /\ program[pos] = Line
  BY <1>1, StepNumbers
<1>3. /\ \A q, b : NamesLast(q, pos - 1, b) => NamesLast(q, pos, b)
      /\ \A q : IsPrefix(q, pos - 1) => IsPrefix(q, pos)
      /\ \A own, q : \A b \in Nat : Labelled(own, q, b, pos - 1) => Labelled(own, q, b, pos)
  <2> PICK l \in Nat : l = pos - 1 /\ pos = l + 1
    BY <1>2
  <2> QED BY <1>2, LabelledSame
<1>4. contexts'[1].prefix = Prefix
  BY DEF SamePrefix
<1>5. ASSUME NEW k \in 2..m, contexts'[k].kind = "if"
      PROVE  OwnPrefix(contexts'[k], Prefix, LineOf(k), pos, LinesTo(k))
  <2> DEFINE around == LinesTo(k)
  <2>1. /\ k \in Inner /\ contexts[k].kind = "if" /\ LineOf(k) \in Nat /\ k \in 1..m
        /\ contexts'[k].thenPrefix = contexts[k].thenPrefix /\ contexts'[k].elsePrefix = contexts[k].elsePrefix
        /\ contexts'[k].hasElse = (contexts[k].hasElse \/ (Line.op = "else" /\ k = m))
    <3>1. k \in 1..m
      OBVIOUS
    <3> QED BY <1>1, <1>5, <3>1 DEF KeptIs, Kept, SameBlocks, SamePrefix
  <2>2. OwnPrefix(contexts[k], Prefix, LineOf(k), pos - 1, around)
    BY <2>1 DEF PrefixInv
  <2>3. \A e : e \in 1..pos - 1 => e \in 1..pos /\ e \in Nat
    BY <1>2
  <2> HIDE DEF around
  <2>4. CASE contexts'[k].hasElse = contexts[k].hasElse
    <3>1. CASE contexts[k].hasElse
      <4>1. PICK e \in 1..pos - 1 : /\ IsElse(LineOf(k), e) /\ Standing(e) = around
                                    /\ Labelled(contexts[k].thenPrefix, contexts[k].thenPrefix, LineOf(k), e)
                                    /\ Labelled(contexts[k].elsePrefix, Prefix, e, pos - 1)
        BY <2>2, <3>1 DEF OwnPrefix
      <4>2. Labelled(contexts[k].elsePrefix, Prefix, e, pos) /\ e \in 1..pos
        BY <1>3, <2>3, <4>1
      <4>3. /\ Labelled(contexts'[k].thenPrefix, contexts'[k].thenPrefix, LineOf(k), e)
            /\ Labelled(contexts'[k].elsePrefix, Prefix, e, pos) /\ contexts'[k].hasElse
        BY <2>1, <2>4, <3>1, <4>1, <4>2
      <4> QED BY <4>1, <4>2, <4>3, WithElse, Zenon DEF around
    <3>2. CASE ~contexts[k].hasElse
      <4>1. contexts[k].elsePrefix = None /\ Labelled(contexts[k].thenPrefix, Prefix, LineOf(k), pos)
        BY <1>3, <2>1, <2>2, <3>2 DEF OwnPrefix
      <4> QED BY <2>1, <2>4, <3>2, <4>1 DEF OwnPrefix
    <3> QED BY <3>1, <3>2
  <2>5. CASE Line.op = "else" /\ k = m /\ ~contexts[k].hasElse
    <3>1. contexts'[k].elsePrefix = None /\ Labelled(contexts[k].thenPrefix, Prefix, LineOf(k), pos)
      BY <1>3, <2>1, <2>2, <2>5 DEF OwnPrefix
    <3>2. Labelled(contexts[k].thenPrefix, contexts[k].thenPrefix, LineOf(k), pos)
      BY <3>1 DEF Labelled
    <3>3. GlobalsIn(pos, pos) = {}
      BY <1>2, <2>5 DEF GlobalsIn
    <3>4. IsElse(LineOf(k), pos)
      BY <1>1, <2>1, <2>5, ElseAt DEF Goes
    <3>5. Standing(pos) = around
      <4>1. Standing(pos) = Standing(pos - 1)
        <5> PICK l \in Nat : l = pos - 1 /\ pos = l + 1
          BY <1>2
        <5> QED BY <1>2, <2>5, StandingNext DEF Opening, Closing
      <4>2. m = Len(contexts) /\ Inner = 2..m
        BY <2>5 DEF Goes, Inner
      <4> QED BY <2>5, <4>1, <4>2 DEF StackInv, around, LinesTo
    <3>6. pos \in 1..pos
      BY <1>2
    <3>7. contexts'[k].hasElse /\ contexts'[k].thenPrefix = contexts[k].thenPrefix
      BY <2>1, <2>5
    <3>8. Labelled(contexts'[k].elsePrefix, Prefix, pos, pos)
      BY <3>1, <3>3 DEF Labelled
    <3>9. Labelled(contexts'[k].thenPrefix, contexts'[k].thenPrefix, LineOf(k), pos)
      BY <3>2, <3>7
    <3> QED BY <3>4, <3>5, <3>6, <3>7, <3>8, <3>9, WithElse, Zenon DEF around
  <2>6. contexts[k].hasElse \in BOOLEAN
    BY <2>1, ContextFacts DEF ContextType, Inner
  <2>7. contexts'[k].hasElse = contexts[k].hasElse \/ (Line.op = "else" /\ k = m /\ ~contexts[k].hasElse)
    BY <2>1, <2>6, Zenon
  <2> QED BY <2>4, <2>5, <2>7 DEF around
<1> QED BY <1>3, <1>4, <1>5 DEF PrefixInv

LEMMA PrefixesChange ==
  ASSUME TypeOK, StackInv, PrefixInv, NEW m, Goes(m), Line.op # "else", NEW q, SetPrefix(m, q),
         NEW x \in Nat, NamesLast(q, pos, x),
         \A k \in 2..m : LineOf(k) <= x /\ \A e \in 1..pos - 1 : IsElse(LineOf(k), e) => e <= x
  PROVE  /\ IsPrefix(contexts'[1].prefix, pos)
         /\ \A k \in 2..m : contexts'[k].kind = "if" =>
              OwnPrefix(contexts'[k], contexts'[1].prefix, LineOf(k), pos, LinesTo(k))
<1>1. Advance /\ Kept(m) /\ KeptIs(m)
  BY KeptBlocks DEF Goes, Kept
<1>2. pos \in Nat /\ pos >= 1 /\ pos \in LineNumbers
  BY <1>1, StepNumbers DEF Advance
<1>3. contexts'[1].prefix = q
  BY DEF SetPrefix
<1>4. \A b \in Nat : b <= x => NamesLast(q, pos, b)
  <2>1. Last(Alive(pos)) \in Nat
    <3>1. Alive(pos) # {} /\ pos <= Len(program) /\ program \in Programs
      BY <1>2, ProgramFacts DEF NamesLast, TypeOK, LineNumbers
    <3>2. Last(Alive(pos)) \in 1..pos
      BY <1>2, <3>1, AliveLast
    <3> QED BY <1>2, <3>2
  <2> QED BY <2>1 DEF NamesLast
<1>5. IsPrefix(q, pos)
  <2>1. 0 \in Nat /\ 0 <= x
    OBVIOUS
  <2> QED BY <1>4, <2>1 DEF IsPrefix
<1>6. ASSUME NEW k \in 2..m, contexts'[k].kind = "if"
      PROVE  OwnPrefix(contexts'[k], q, LineOf(k), pos, LinesTo(k))
  <2> DEFINE around == LinesTo(k)
  <2>1. /\ k \in Inner /\ contexts[k].kind = "if" /\ LineOf(k) \in Nat /\ k \in 1..m
        /\ contexts'[k].hasElse = contexts[k].hasElse
        /\ contexts'[k].thenPrefix = IF contexts[k].hasElse THEN contexts[k].thenPrefix ELSE q
        /\ contexts'[k].elsePrefix = IF contexts[k].hasElse THEN q ELSE contexts[k].elsePrefix
    <3>1. k \in 1..m
      OBVIOUS
    <3>2. contexts[k].hasElse \in BOOLEAN
      BY <1>1, <3>1, ContextFacts DEF ContextType, KeptIs, Inner
    <3>3. contexts'[k].hasElse = (contexts[k].hasElse \/ (Line.op = "else" /\ k = m))
      BY <1>1, <3>1 DEF Kept, SameBlocks
    <3>4. contexts'[k].hasElse = contexts[k].hasElse
      BY <3>2, <3>3, Zenon
    <3>5. k \in Inner /\ contexts[k].kind = "if" /\ LineOf(k) \in Nat
      BY <1>1, <1>6 DEF KeptIs
    <3> QED BY <3>1, <3>4, <3>5 DEF SetPrefix
  <2>2. OwnPrefix(contexts[k], Prefix, LineOf(k), pos - 1, around)
    BY <2>1 DEF PrefixInv
  <2>3. \A e : e \in 1..pos - 1 => e \in 1..pos /\ e \in Nat
    BY <1>2
  <2> HIDE DEF around
  <2>4. CASE contexts[k].hasElse
    <3>1. PICK e \in 1..pos - 1 : IsElse(LineOf(k), e) /\ Standing(e) = around /\ Labelled(contexts[k].thenPrefix, contexts[k].thenPrefix, LineOf(k), e)
      BY <2>2, <2>4 DEF OwnPrefix
    <3>2. Labelled(q, q, e, pos)
      BY <1>4, <2>3, <3>1 DEF Labelled
    <3>3. e \in 1..pos
      BY <2>3
    <3>4. contexts'[k].hasElse /\ contexts'[k].thenPrefix = contexts[k].thenPrefix /\ contexts'[k].elsePrefix = q
      BY <2>1, <2>4
    <3> QED BY <3>1, <3>2, <3>3, <3>4 DEF OwnPrefix, around
  <2>5. CASE ~contexts[k].hasElse
    <3>1. Labelled(q, q, LineOf(k), pos)
      BY <1>4, <2>1 DEF Labelled
    <3>2. contexts[k].elsePrefix = None
      BY <2>2, <2>5 DEF OwnPrefix
    <3>3. ~contexts'[k].hasElse /\ contexts'[k].thenPrefix = q /\ contexts'[k].elsePrefix = None
      BY <2>1, <2>5, <3>2
    <3> QED BY <3>1, <3>3 DEF OwnPrefix, around
  <2> QED BY <2>4, <2>5
<1> QED BY <1>3, <1>5, <1>6

\* The end of a block: it was the innermost one.
LEMMA ClosesBlock ==
  ASSUME TypeOK, StackInv, Closes
  PROVE  LET t == LineOf(Len(contexts))
         IN /\ t \in Nat /\ t \in 1..pos - 1 /\ t \in Standing(pos - 1)
            /\ Standing(pos) = Standing(pos - 1) \ {t}
            /\ \A b \in Standing(pos - 1) : b <= t
            /\ program[t].op = IF Line.op = "endif" THEN "if" ELSE "repeat"
<1> DEFINE n == Len(contexts)
           t == LineOf(n)
<1>1. /\ Advance /\ Line.op \in Closing /\ n >= 2 /\ n \in Nat /\ n \in Inner /\ Top = contexts[n]
      /\ Top.kind = IF Line.op = "endif" THEN "if" ELSE "repeat"
  BY ContextFacts DEF Closes, Inner, Top
<1>2. pos - 1 \in Nat /\ pos - 1 + 1 = pos /\ pos \in Nat /\ pos >= 1 /\ program[pos] = Line
  BY <1>1, StepNumbers
<1>3. t \in Nat /\ t \in 1..pos - 1 /\ t \in Standing(pos - 1)
  <2>1. \A k \in Inner : LineOf(k) \in 1..pos - 1 /\ LineOf(k) \in Standing(pos - 1)
    BY DEF StackInv
  <2> HIDE DEF n
  <2> QED BY <1>1, <1>2, <2>1
<1>4. Standing(pos) = Standing(pos - 1) \ {t}
  <2>1. Standing(pos) = {b \in Standing(pos - 1) : OpsIn(Opening, b, pos - 1) > OpsIn(Closing, b, pos - 1) + 1}
    <3> PICK l \in Nat : l = pos - 1 /\ pos = l + 1
      BY <1>2
    <3> QED BY <1>1, <1>2, StandingNext
  <2>2. \A k \in Inner : OpsIn(Opening, LineOf(k), pos - 1) > OpsIn(Closing, LineOf(k), pos - 1) + 1 <=> k \in 2..n - 1
    BY <1>1, KeptCounts
  <2>3. Standing(pos - 1) = {LineOf(k) : k \in Inner}
    BY DEF StackInv
  <2>4. \A k \in Inner : k \in 2..n - 1 \/ k = n
    BY <1>1 DEF Inner
  <2>5. \A k \in Inner : k \in 2..n - 1 => LineOf(k) # t
    <3> TAKE k \in Inner
    <3> HAVE k \in 2..n - 1
    <3>1. k < n
      BY <1>1
    <3>2. LineOf(k) < t /\ LineOf(k) \in 1..pos - 1
      BY <1>1, <3>1 DEF StackInv
    <3> QED BY <1>2, <1>3, <3>2
  <2>6. ~(n \in 2..n - 1)
    BY <1>1
  <2> HIDE DEF t, n
  <2>7. ~(OpsIn(Opening, t, pos - 1) > OpsIn(Closing, t, pos - 1) + 1)
    BY <1>1, <2>2, <2>6 DEF t
  <2>8. \A k \in Inner : LineOf(k) \in Standing(pos) <=> LineOf(k) # t
    <3> TAKE k \in Inner
    <3>1. LineOf(k) \in Standing(pos - 1)
      BY <2>3
    <3>2. LineOf(k) \in Standing(pos) <=> OpsIn(Opening, LineOf(k), pos - 1) > OpsIn(Closing, LineOf(k), pos - 1) + 1
      BY <2>1, <3>1
    <3> QED BY <2>2, <2>4, <2>5, <2>7, <3>2 DEF t
  <2>9. \A b \in Standing(pos) : b \in Standing(pos - 1)
    BY <2>1
  <2> QED BY <2>3, <2>8, <2>9
<1>5. \A b \in Standing(pos - 1) : b <= t
  <2>1. Standing(pos - 1) = {LineOf(k) : k \in Inner}
    BY DEF StackInv
  <2>2. \A k \in Inner : LineOf(k) <= t
    <3> TAKE k \in Inner
    <3>1. k < n \/ k = n
      BY <1>1 DEF Inner
    <3>2. k < n => LineOf(k) < t /\ LineOf(k) \in 1..pos - 1
      BY <1>1 DEF StackInv
    <3> HIDE DEF n
    <3> QED BY <1>2, <1>3, <3>1, <3>2
  <2> QED BY <2>1, <2>2
<1>6. program[t].op = IF Line.op = "endif" THEN "if" ELSE "repeat"
  BY <1>1 DEF StackInv
<1> QED BY <1>3, <1>4, <1>5, <1>6

\* The end of a block: its prefix is that of its first branch, if that has one.
LEMMA PrefixClosed ==
  ASSUME TypeOK, StackInv, ElseInv, SectionInv, PrefixInv, Closes, PrefixStep
  PROVE  LET t == LineOf(Len(contexts))
         IN /\ t \in Nat
            /\ \/ Alive(pos) = Alive(pos - 1) /\ SamePrefix(KeptOf)
               \/ \E q : SetPrefix(KeptOf, q) /\ NamesLast(q, pos, t)
<1> DEFINE n == Len(contexts)
           t == LineOf(n)
<1>1. /\ Advance /\ Line.op \in Closing /\ n >= 2 /\ n \in Nat /\ n \in Inner /\ Top = contexts[n]
      /\ Top.kind = IF Line.op = "endif" THEN "if" ELSE "repeat"
  BY ContextFacts DEF Closes, Inner, Top
<1>2. pos - 1 \in Nat /\ pos - 1 + 1 = pos /\ pos \in Nat /\ pos >= 1 /\ program[pos] = Line
  BY <1>1, StepNumbers
<1>3. t \in Nat /\ t \in 1..pos - 1 /\ t \in Standing(pos - 1)
  BY ClosesBlock
<1>4. Standing(pos) = Standing(pos - 1) \ {t}
  BY ClosesBlock
<1>5. \A e \in t..pos - 1 : program[e].op # "file"
  <2> TAKE e \in t..pos - 1
  <2>1. e \in 1..pos - 1 /\ ~(e < t)
    BY <1>2, <1>3
  <2>2. \A x \in Outside : x < t
    BY <1>1 DEF SectionInv
  <2> QED BY <2>1, <2>2 DEF Outside
<1>6. program[pos].op \notin {"global", "file"}
  BY <1>1, <1>2 DEF Closing
<1>7. /\ (\A e \in 1..pos - 1 : ~IsElse(t, e)) => Alive(pos) = Alive(pos - 1)
      /\ \A e \in 1..pos - 1 : IsElse(t, e) /\ (\A d \in 1..pos - 1 : IsElse(t, d) => d = e) =>
           /\ GlobalsIn(t, e) = {} => Alive(pos) = Alive(pos - 1)
           /\ GlobalsIn(t, e) # {} /\ Standing(e) = Standing(pos - 1) => Alive(pos) = Alive(e)
  <2> PICK l \in Nat : l = pos - 1 /\ pos = l + 1
    BY <1>2
  <2> HIDE DEF t
  <2> QED BY <1>3, <1>4, <1>5, <1>6, AliveClosed
<1>8. /\ contexts[n].hasElse <=> \E e \in 1..pos - 1 : IsElse(t, e)
      /\ \A e, d \in 1..pos - 1 : IsElse(t, e) /\ IsElse(t, d) => d = e
  BY <1>1 DEF ElseInv
<1>9. CASE Line.op = "endrepeat"
  <2>1. ~contexts[n].hasElse
    BY <1>1, <1>9 DEF StackInv
  <2>2. Alive(pos) = Alive(pos - 1)
    BY <1>7, <1>8, <2>1
  <2> QED BY <1>3, <1>9, <2>2 DEF PrefixStep
<1>10. CASE Line.op = "endif"
  <2>1. OwnPrefix(Top, Prefix, t, pos - 1, Standing(pos - 1))
    <3>1. LinesTo(n) = Standing(pos - 1)
      BY DEF StackInv, Inner, LinesTo
    <3>2. OwnPrefix(Top, Prefix, t, pos - 1, LinesTo(n))
      BY <1>1, <1>10 DEF PrefixInv
    <3> QED BY <3>1, <3>2
  <2>2. IF Top.thenPrefix = None /\ Top.elsePrefix = None THEN SamePrefix(KeptOf)
        ELSE SetPrefix(KeptOf, IF Top.thenPrefix # None THEN Top.thenPrefix ELSE Top.elsePrefix)
    BY <1>10 DEF PrefixStep
  <2>3. \A q, b : Alive(pos) = Alive(pos - 1) /\ NamesLast(q, pos - 1, b) => NamesLast(q, pos, b)
    BY DEF NamesLast
  <2> HIDE DEF n, t
  <2>4. CASE ~contexts[n].hasElse
    <3>1. Alive(pos) = Alive(pos - 1)
      BY <1>7, <1>8, <2>4
    <3>2. Top.elsePrefix = None /\ Labelled(Top.thenPrefix, Prefix, t, pos - 1)
      BY <1>1, <2>1, <2>4 DEF OwnPrefix
    <3> QED BY <1>3, <2>2, <2>3, <3>1, <3>2 DEF Labelled, n, t
  <2>5. CASE contexts[n].hasElse
    <3>1. PICK e \in 1..pos - 1 : /\ IsElse(t, e) /\ Standing(e) = Standing(pos - 1)
                                  /\ Labelled(Top.thenPrefix, Top.thenPrefix, t, e) /\ Labelled(Top.elsePrefix, Prefix, e, pos - 1)
      BY <1>1, <2>1, <2>5 DEF OwnPrefix
    <3>2. e \in Nat /\ t < e /\ e <= Len(program) /\ program \in Programs
      <4>1. t \in 1..e - 1 /\ e \in 1..pos - 1
        BY <1>2, <3>1, BlocksAreStanding DEF IsElse
      <4>2. pos <= Len(program) /\ Len(program) \in Nat
        BY <1>1, ProgramFacts DEF Advance, LineNumbers, TypeOK
      <4> QED BY <1>2, <1>3, <4>1, <4>2 DEF TypeOK
    <3>3. CASE Top.thenPrefix = None /\ GlobalsIn(t, e) = {}
      <4>1. Alive(pos) = Alive(pos - 1)
        BY <1>7, <1>8, <3>1, <3>3
      <4>2. ASSUME NamesLast(Prefix, pos - 1, e) PROVE NamesLast(Prefix, pos - 1, t)
        <5>1. Last(Alive(pos - 1)) \in 1..pos - 1
          <6>1. pos - 1 <= Len(program)
            BY <1>1, <1>2, ProgramFacts DEF Advance, LineNumbers, TypeOK
          <6> QED BY <1>2, <3>2, <4>2, <6>1, AliveLast DEF NamesLast
        <5>2. Last(Alive(pos - 1)) \in Nat
          BY <1>2, <5>1
        <5> QED BY <1>3, <3>2, <4>2, <5>2 DEF NamesLast
      <4> QED BY <1>3, <2>2, <2>3, <3>1, <3>3, <4>1, <4>2 DEF Labelled, n, t
    <3>4. CASE NamesLast(Top.thenPrefix, e, t)
      <4> DEFINE g == Last(Alive(e))
      <4>1. g \in 1..e /\ g \in Nat /\ program[g].op = "global" /\ program[g].name[1] # None
        <5>1. Alive(e) # {}
          BY <3>4 DEF NamesLast
        <5>2. g \in 1..e /\ program[g].op = "global" /\ program[g].name[1] # None
          BY <3>2, <5>1, AliveLast
        <5> QED BY <3>2, <5>2
      <4>2. t < g /\ Top.thenPrefix = program[g].name[1]
        BY <3>4 DEF NamesLast
      <4>3. g \in GlobalsIn(t, e)
        BY <1>3, <3>2, <4>1, <4>2 DEF GlobalsIn
      <4>4. Alive(pos) = Alive(e)
        BY <1>7, <1>8, <3>1, <4>3
      <4>5. NamesLast(Top.thenPrefix, pos, t)
        BY <3>4, <4>4 DEF NamesLast
      <4>6. Top.thenPrefix # None
        BY <4>1, <4>2
      <4>7. SetPrefix(KeptOf, Top.thenPrefix)
        BY <2>2, <4>6
      <4> QED BY <1>3, <4>5, <4>7 DEF n, t
    <3> QED BY <3>1, <3>3, <3>4 DEF Labelled
  <2> QED BY <2>4, <2>5
<1> QED BY <1>1, <1>9, <1>10 DEF Closing

LEMMA PrefixNext ==
  ASSUME TypeOK, StackInv, StackInv', ElseInv, SectionInv, MacroInv, PrefixInv, [Next]_vars
  PROVE  PrefixInv'
<1>1. CASE Stands
  <2>1. program' = program /\ pos' = pos /\ contexts' = contexts
    BY <1>1 DEF Stands, parserVars
  <2>2. IsPrefix(Prefix, pos - 1)'
    BY <2>1, SamePrefixText DEF PrefixInv, Prefix
  <2>3. \A k : LinesTo(k)' = LinesTo(k)
    BY <2>1 DEF LinesTo, LineOf
  <2>4. (\A k \in Inner : contexts[k].kind = "if" => OwnPrefix(contexts[k], Prefix, LineOf(k), pos - 1, LinesTo(k)))'
    BY <2>1, <2>3, SamePrefixText DEF PrefixInv, Inner, LineOf, Prefix
  <2> QED BY <2>2, <2>4 DEF PrefixInv
<1>2. CASE Stays \/ Opens \/ Closes
  <2> DEFINE m == KeptOf
             n == Len(contexts)
  <2>1. Goes(m) /\ (Line.op \in {"section", "file"} => m = 1)
    BY <1>2, StepGoes
  <2>2. Advance /\ Kept(m) /\ KeptIs(m) /\ m \in Nat /\ m >= 1 /\ (Len(contexts') = m \/ Len(contexts') = m + 1)
    BY <2>1, KeptBlocks DEF Goes, Kept
  <2>3. PrefixStep
    BY <2>2, PrefixSteps
  <2>4. pos - 1 \in Nat /\ pos - 1 + 1 = pos /\ pos' - 1 = pos /\ pos \in Nat /\ pos >= 1 /\ program[pos] = Line /\ program' = program
    BY <2>2, StepNumbers
  <2>5. /\ Line.op \notin {"global", "file"} \cup Closing => Alive(pos) = Alive(pos - 1)
        /\ Line.op = "global" => Alive(pos) = Alive(pos - 1) \cup {pos}
        /\ Line.op = "file" => Alive(pos) = {}
    <3> PICK l \in Nat : l = pos - 1 /\ pos = l + 1
      BY <2>4
    <3> QED BY <2>4, AliveNext
  <2>6. \A k \in 2..m : /\ k \in Inner /\ LineOf(k) \in 1..pos - 1 /\ LineOf(k) \in Nat /\ LineOf(k) <= pos - 1
    <3>1. \A k \in 2..m : k \in Inner /\ LineOf(k) \in 1..pos - 1 /\ LineOf(k) \in Nat
      BY <2>2 DEF KeptIs
    <3> QED BY <2>4, <3>1
  <2> DEFINE Good == /\ IsPrefix(contexts'[1].prefix, pos)
                     /\ \A k \in 2..m : contexts'[k].kind = "if" =>
                          OwnPrefix(contexts'[k], contexts'[1].prefix, LineOf(k), pos, LinesTo(k))
  <2>7. ASSUME Line.op \notin {"global", "file"} \cup Closing PROVE Good
    <3>1. SamePrefix(m)
      BY <2>3, <2>7 DEF PrefixStep, Closing
    <3> HIDE DEF m
    <3>2. Good
      BY <2>1, <2>5, <2>7, <3>1, PrefixesStay
    <3> QED BY <3>2
  <2>8. ASSUME Line.op = "global" PROVE Good
    <3> DEFINE q == Line.name[1]
    <3>1. SetPrefix(m, q)
      BY <2>3, <2>8 DEF PrefixStep
    <3>2. Last(Alive(pos)) = pos
      <4>1. Alive(pos) \in SUBSET Nat /\ pos \in Alive(pos) /\ \A y \in Alive(pos) : y <= pos
        BY <2>4, <2>5, <2>8 DEF Alive
      <4> QED BY <4>1, LastUnique
    <3>3. NamesLast(q, pos, pos - 1)
      <4>1. pos - 1 < pos /\ pos \in Alive(pos)
        BY <2>4, <2>5, <2>8
      <4> QED BY <2>4, <3>2, <4>1 DEF NamesLast
    <3>4. \A k \in 2..m : LineOf(k) <= pos - 1 /\ \A e \in 1..pos - 1 : IsElse(LineOf(k), e) => e <= pos - 1
      BY <2>4, <2>6
    <3> HIDE DEF m, q
    <3>5. Good
      BY <2>1, <2>4, <2>8, <3>1, <3>3, <3>4, PrefixesChange
    <3> QED BY <3>5
  <2>9. ASSUME Line.op = "file" PROVE Good
    <3>1. m = 1 /\ contexts'[1].prefix = "" /\ Alive(pos) = {}
      BY <2>1, <2>3, <2>5, <2>9 DEF PrefixStep
    <3> HIDE DEF m
    <3>2. \A k \in 2..m : FALSE
      <4>1. \A k \in 2..1 : FALSE
        OBVIOUS
      <4> QED BY <3>1, <4>1, Zenon
    <3> QED BY <3>1, <3>2 DEF IsPrefix
  <2>10. ASSUME Line.op \in Closing PROVE Good
    <3>1. Closes /\ m = n - 1 /\ n \in Nat /\ n >= 2
      BY <1>2, <2>2, <2>10, ContextFacts DEF Stays, Opens, Closes, KeptOf, Opening, Closing
    <3> DEFINE t == LineOf(n)
    <3>2. /\ t \in Nat
          /\ \/ Alive(pos) = Alive(pos - 1) /\ SamePrefix(m)
             \/ \E q : SetPrefix(m, q) /\ NamesLast(q, pos, t)
      BY <2>3, <3>1, PrefixClosed
    <3>3. \A k \in 2..m : LineOf(k) <= t /\ \A e \in 1..pos - 1 : IsElse(LineOf(k), e) => e <= t
      <4> TAKE k \in 2..m
      <4>1. k \in Inner /\ n \in Inner /\ k < n
        BY <3>1 DEF Inner
      <4>2. LineOf(k) < t /\ \A e \in 1..pos - 1 : IsElse(LineOf(k), e) => e < t
        BY <4>1 DEF StackInv, ElseInv
      <4> HIDE DEF m, n
      <4> QED BY <2>4, <2>6, <3>2, <4>2
    <3> HIDE DEF m, n, t
    <3>4. Line.op \notin {"else", "global"}
      BY <2>10 DEF Closing
    <3>5. Good
      BY <2>1, <3>2, <3>3, <3>4, PrefixesStay, PrefixesChange
    <3> QED BY <3>5
  <2>11. Good
    BY <2>7, <2>8, <2>9, <2>10
  <2>12. ASSUME NEW k \in 2..Len(contexts'), contexts'[k].kind = "if"
         PROVE  OwnPrefix(contexts'[k], contexts'[1].prefix, contexts'[k].line, pos, LinesTo(k)')
    <3> HIDE DEF m
    <3>1. \A j \in 2..m : contexts'[j].line = LineOf(j)
      BY <2>2 DEF KeptIs
    <3>2. CASE k \in 2..m
      <4>1. LinesTo(k)' = LinesTo(k)
        <5>1. \A j \in 2..k : j \in 2..m
          BY <2>2, <3>2
        <5> QED BY <3>1, <5>1 DEF LinesTo, LineOf
      <4> QED BY <2>11, <2>12, <3>1, <3>2, <4>1
    <3>3. CASE k \notin 2..m
      <4>1. k = m + 1 /\ Len(contexts') = m + 1
        BY <2>2, <2>12, <3>3
      <4>2. Opens /\ contexts'[k].line = pos /\ ~contexts'[k].hasElse
        BY <2>1, <2>2, <4>1 DEF Goes
      <4>3. Line.op = "if" /\ contexts'[k].thenPrefix = None /\ contexts'[k].elsePrefix = None
        <5>1. Line.op \in Opening /\ contexts'[Len(contexts) + 1].kind = Line.op /\ m = Len(contexts)
          BY <4>2 DEF Opens, m, KeptOf, Opening, Closing
        <5> QED BY <2>3, <2>12, <4>1, <5>1 DEF PrefixStep, m
      <4>4. GlobalsIn(pos, pos) = {}
        BY <2>4, <4>3 DEF GlobalsIn
      <4> QED BY <4>2, <4>3, <4>4 DEF OwnPrefix, Labelled
    <3> QED BY <3>2, <3>3
  <2>13. Prefix' = contexts'[1].prefix /\ Inner' = 2..Len(contexts') /\ \A k : LineOf(k)' = contexts'[k].line
    BY DEF Prefix, Inner, LineOf
  <2>14. IsPrefix(Prefix, pos - 1)'
    BY <2>4, <2>11, <2>13, SamePrefixText
  <2>15. (\A k \in Inner : contexts[k].kind = "if" =>
            OwnPrefix(contexts[k], Prefix, LineOf(k), pos - 1, LinesTo(k)))'
    <3> HIDE DEF m, Good
    <3>1. \A k \in Inner' : contexts'[k].kind = "if" =>
            OwnPrefix(contexts'[k], contexts'[1].prefix, contexts'[k].line, pos' - 1, LinesTo(k)')
      BY <2>4, <2>12, <2>13
    <3> QED BY <2>4, <3>1, SamePrefixText DEF Inner, LineOf, Prefix
  <2> QED BY <2>14, <2>15 DEF PrefixInv
<1> QED BY <1>1, <1>2, StepCases

-----------------------------------------------------------------------------
(* What a name stands for where it is written.                             *)

LEMMA AliveIs ==
  ASSUME NEW p \in Nat, program[p + 1].op \notin {"global", "file"} \cup Opening \cup Closing
  PROVE  {g \in Globals(p + 1) : ~Superseded(g, p + 1)} = Alive(p)
<1> DEFINE l == p + 1
<1>1. l \in Nat /\ l - 1 = p /\ \A g : g \in 1..l <=> g \in 1..p \/ g = l
  OBVIOUS
<1>2. Blocks(l) = Standing(p)
  BY StandingNext
<1>3. \A g \in 1..p : SameFile(g, l) <=> SameFile(g, p)
  <2> TAKE g \in 1..p
  <2>1. \A m : m \in g..l <=> m \in g..p \/ m = l
    OBVIOUS
  <2> HIDE DEF l
  <2> QED BY <2>1 DEF SameFile, l
<1> HIDE DEF l
<1>4. Globals(l) = {g \in 1..p : program[g].op = "global" /\ SameFile(g, p)}
  BY <1>1, <1>3 DEF Globals
<1>5. \A g : Superseded(g, l) <=> \E b \in Blocks(g) \ Standing(p) : Later(b, g, p)
  BY <1>2, <1>4 DEF Superseded, Later
<1>6. \A g : g \in Alive(p) <=> g \in Globals(l) /\ ~Superseded(g, l)
  BY <1>4, <1>5 DEF Alive
<1> QED BY <1>6 DEF l

LEMMA NamesAre ==
  /\ \A l \in LineNumbers : program[l].name \in Names
  /\ \A g, l \in LineNumbers : program[g].name \o program[l].name \in Names
<1> DEFINE A == {program[l].name : l \in LineNumbers}
           B == UNION {{program[g].name \o program[l].name : l \in LineNumbers} : g \in LineNumbers}
<1>1. \A l \in LineNumbers : program[l].name \in A
  OBVIOUS
<1>2. \A g, l \in LineNumbers : program[g].name \o program[l].name \in B
  <2> TAKE g, l \in LineNumbers
  <2> DEFINE C == {program[g].name \o program[k].name : k \in LineNumbers}
  <2>1. program[g].name \o program[l].name \in C
    OBVIOUS
  <2>2. C \in {{program[h].name \o program[k].name : k \in LineNumbers} : h \in LineNumbers}
    OBVIOUS
  <2> QED BY <2>1, <2>2
<1>3. Names = A \cup B \cup ProjectVariables
  BY DEF Names
<1> HIDE DEF A, B
<1> QED BY <1>1, <1>2, <1>3

\* The name of a line, with the prefix the contexts have.
LEMMA FullIs ==
  ASSUME TypeOK, PrefixInv, pos <= Len(program)
  PROVE  /\ ~LacksGlobal => Full = FullName(pos) /\ Full \in Names
         /\ Line.op \in {"global", "label", "equ", "equhere", "use"} /\ ~LacksGlobal => Full # <<>>
         /\ Line.name \in Names /\ (Line.op = "repeat" => FullName(pos) = Line.name)
<1>1. IsLine(Line) /\ program[pos] = Line /\ pos \in LineNumbers /\ pos \in Nat /\ Line.local \in BOOLEAN
  BY LineFacts DEF IsLine
<1>2. Line.name \in Names
  BY <1>1, NamesAre
<1>3. CASE ~Line.local
  <2>1. Line.op \in {"global", "label", "equ", "equhere", "use"} => Line.name # <<>>
    <3>1. \A x : <<x>> # <<>>
      OBVIOUS
    <3> QED BY <1>1, <3>1 DEF IsLine
  <2> QED BY <1>1, <1>2, <1>3, <2>1 DEF Full, FullName, LacksGlobal
<1>4. CASE Line.local /\ ~LacksGlobal
  <2>1. Line.op \in {"label", "equ", "equhere", "use"} /\ Prefix # ""
    BY <1>1, <1>4 DEF IsLine, LacksGlobal
  <2>2. NamesLast(Prefix, pos - 1, 0)
    BY <2>1 DEF PrefixInv, IsPrefix
  <2>3. pos - 1 \in Nat /\ pos - 1 + 1 = pos /\ pos - 1 <= Len(program) /\ program \in Programs
    BY <1>1, ProgramFacts DEF TypeOK, LineNumbers
  <2> DEFINE g == Last(Alive(pos - 1))
  <2>4. g \in LineNumbers /\ program[g].name = <<program[g].name[1]>> /\ Prefix = program[g].name[1]
    <3>1. Alive(pos - 1) # {} /\ Prefix = program[g].name[1]
      BY <2>2 DEF NamesLast
    <3> HIDE DEF g
    <3>2. g \in LineNumbers /\ program[g].name = <<program[g].name[1]>>
      BY <2>3, <3>1, AliveLast DEF g
    <3> QED BY <3>1, <3>2
  <2>5. {h \in Globals(pos) : ~Superseded(h, pos)} = Alive(pos - 1)
    <3> PICK p \in Nat : p = pos - 1 /\ pos = p + 1
      BY <2>3
    <3> QED BY <1>1, <2>1, AliveIs DEF Opening, Closing
  <2>6. GlobalOf(pos) = program[g].name
    BY <2>5 DEF GlobalOf
  <2> HIDE DEF g
  <2>7. Full = program[g].name \o Line.name /\ FullName(pos) = program[g].name \o Line.name
    BY <1>1, <1>4, <2>4, <2>6 DEF Full, FullName
  <2>8. Full \in Names
    <3>2. program[g].name \o program[pos].name \in Names
      BY <1>1, <2>4, NamesAre
    <3> QED BY <1>1, <2>7, <3>2
  <2>9. Full # <<>>
    <3>1. Full = <<Prefix>> \o Line.name
      BY <1>4 DEF Full
    <3> DEFINE S == {Line.name[k] : k \in DOMAIN Line.name} \cup {Prefix}
    <3>2. Line.name \in Seq({Line.name[k] : k \in DOMAIN Line.name})
      BY <1>1, <2>1 DEF IsLine
    <3>3. Line.name \in Seq(S)
      BY <3>2, SeqMonotonic
    <3>4. <<Prefix>> \in Seq(S) /\ Len(<<Prefix>>) = 1
      OBVIOUS
    <3> HIDE DEF S
    <3>5. Len(Full) = 1 + Len(Line.name) /\ Len(Line.name) \in Nat
      BY <3>1, <3>3, <3>4, ConcatProperties, LenProperties
    <3>6. Len(<<>>) = 0 /\ Len(Full) # 0
      BY <3>5
    <3> QED BY <3>6
  <2> QED BY <1>2, <2>1, <2>7, <2>8, <2>9
<1>5. Line.op = "repeat" => ~Line.local
  BY <1>1 DEF IsLine
<1> QED BY <1>1, <1>2, <1>3, <1>4, <1>5 DEF FullName, LacksGlobal

-----------------------------------------------------------------------------
(* Each #repeat has a symbol table, around which are those of the #repeats *)
(* it is in.                                                               *)

RepeatsIn(S) == {r \in S : program[r].op = "repeat"}
Tab(r) == 2 + OpsIn({"repeat"}, 1, r)
TableOf(R) == IF R = {} THEN 2 ELSE Tab(Last(R))
TabsOf(R) == {2} \cup {Tab(q) : q \in R}
Done == {r \in 1..pos - 1 : program[r].op = "repeat"}
TableInv ==
  /\ Len(tables) = 2 + OpsIn({"repeat"}, 1, pos - 1)
  /\ table = TableOf(RepeatsIn(Standing(pos - 1)))
  /\ \A t \in 3..Len(tables) : Parent(t) \in 2..t - 1
  /\ \A r \in Done : /\ Parent(Tab(r)) = TableOf(RepeatsIn(Blocks(r)))
                     /\ Around(Tab(r)) = TabsOf(RepeatsIn(Blocks(r) \cup {r}))

\* The tables are numbered as the #repeats follow each other.
LEMMA TabsRise ==
  ASSUME NEW m \in Nat
  PROVE  /\ \A r \in 1..m : program[r].op = "repeat" => Tab(r) \in Nat /\ Tab(r) \in 3..2 + OpsIn({"repeat"}, 1, m)
         /\ \A q, r \in 1..m : q < r /\ program[r].op = "repeat" => Tab(q) < Tab(r)
         /\ OpsIn({"repeat"}, 1, m) \in Nat
<1> DEFINE C(n) == {l \in 1..n : program[l].op \in {"repeat"}}
<1>1. \A n : OpsIn({"repeat"}, 1, n) = Cardinality(C(n))
  BY DEF OpsIn
<1>2. \A n \in Nat : IsFiniteSet(C(n)) /\ Cardinality(C(n)) \in Nat
  <2> TAKE n \in Nat
  <2>1. IsFiniteSet(1..n) /\ C(n) \in SUBSET (1..n)
    BY FS_Interval
  <2> HIDE DEF C
  <2> QED BY <2>1, FS_Subset, FS_CardinalityType
<1>3. \A q, r \in Nat : q <= r => Cardinality(C(q)) <= Cardinality(C(r))
  <2> TAKE q, r \in Nat
  <2> HAVE q <= r
  <2>1. C(q) \in SUBSET C(r)
    OBVIOUS
  <2> HIDE DEF C
  <2> QED BY <1>2, <2>1, FS_Subset
<1>4. \A q \in Nat, r \in 1..m : q < r /\ program[r].op = "repeat" => Cardinality(C(q)) < Cardinality(C(r))
  <2> TAKE q \in Nat, r \in 1..m
  <2> HAVE q < r /\ program[r].op = "repeat"
  <2>1. r \notin C(q) /\ C(q) \cup {r} \in SUBSET C(r) /\ r \in Nat
    OBVIOUS
  <2> HIDE DEF C
  <2>2. Cardinality(C(q) \cup {r}) = Cardinality(C(q)) + 1 /\ Cardinality(C(q) \cup {r}) <= Cardinality(C(r))
    BY <1>2, <2>1, FS_AddElement, FS_Subset
  <2> QED BY <1>2, <2>1, <2>2
<1>5. \A r \in 1..m : program[r].op = "repeat" => Cardinality(C(r)) > 0 /\ Cardinality(C(r)) <= Cardinality(C(m))
  <2> TAKE r \in 1..m
  <2> HAVE program[r].op = "repeat"
  <2>1. 0 \in Nat /\ 0 < r /\ r <= m /\ r \in Nat
    OBVIOUS
  <2> HIDE DEF C
  <2>2. Cardinality(C(0)) < Cardinality(C(r)) /\ Cardinality(C(r)) <= Cardinality(C(m)) /\ Cardinality(C(0)) \in Nat
    BY <1>2, <1>3, <1>4, <2>1
  <2> QED BY <1>2, <2>1, <2>2
<1>6. \A q \in 1..m : q \in Nat
  OBVIOUS
<1> HIDE DEF C
<1> QED BY <1>1, <1>2, <1>4, <1>5, <1>6 DEF Tab

\* The tables around a table are itself and those around its parent.
TablesFit == DOMAIN tables = 1..Len(tables) /\ Len(tables) \in Nat /\ Len(tables) >= 2 /\ \A t \in 3..Len(tables) : Parent(t) \in 2..t - 1
LEMMA TablesDo ==
  ASSUME TypeOK, TableInv
  PROVE  TablesFit
BY LenProperties DEF TypeOK, TableInv, TablesFit

LEMMA AroundIs ==
  ASSUME TablesFit
  PROVE  /\ Around(2) = {2}
         /\ \A t \in 3..Len(tables) : Around(t) = {t} \cup Around(Parent(t))
         /\ \A t \in 2..Len(tables) : t \in Around(t) /\ Around(t) \subseteq DOMAIN tables
<1>1. \A t \in DOMAIN tables : t \in Nat /\ (PassThrough(t) <=> t \in 3..Len(tables))
  BY DEF TablesFit, PassThrough
<1>2. \A t \in 3..Len(tables) : t \in DOMAIN tables /\ Parent(t) \in DOMAIN tables
  <2> TAKE t \in 3..Len(tables)
  <2>1. Parent(t) \in 2..t - 1 /\ Len(tables) \in Nat
    BY DEF TablesFit
  <2>2. t \in 1..Len(tables) /\ Parent(t) \in 1..Len(tables)
    BY <2>1
  <2> QED BY <2>2 DEF TablesFit
<1>3. \A t \in DOMAIN tables : t \in Around(t) /\ Around(t) \subseteq DOMAIN tables
  BY DEF Around
<1>4. \A t \in 2..Len(tables) : t \in DOMAIN tables
  BY DEF TablesFit
<1>5. Around(2) = {2}
  <2>1. 2 \in DOMAIN tables /\ ~PassThrough(2)
    BY DEF TablesFit, PassThrough
  <2>2. Upward({2})
    BY <2>1 DEF Upward
  <2> QED BY <1>3, <2>1, <2>2 DEF Around
<1>6. ASSUME NEW t \in 3..Len(tables) PROVE Around(t) = {t} \cup Around(Parent(t))
  <2> DEFINE p == Parent(t)
  <2>1. t \in DOMAIN tables /\ p \in DOMAIN tables /\ PassThrough(t)
    BY <1>1, <1>2
  <2>2. Upward(Around(p))
    <3> SUFFICES ASSUME NEW u \in Around(p), PassThrough(u) PROVE Parent(u) \in Around(p)
      BY DEF Upward
    <3>1. u \in DOMAIN tables /\ \A T \in SUBSET DOMAIN tables : p \in T /\ Upward(T) => u \in T
      BY DEF Around
    <3>2. Parent(u) \in DOMAIN tables
      BY <1>1, <1>2, <3>1
    <3>3. \A T \in SUBSET DOMAIN tables : p \in T /\ Upward(T) => Parent(u) \in T
      BY <3>1 DEF Upward
    <3> QED BY <3>2, <3>3 DEF Around
  <2> HIDE DEF p
  <2>3. Upward({t} \cup Around(p))
    BY <1>3, <2>1, <2>2 DEF Upward, p
  <2>4. Around(t) \subseteq {t} \cup Around(p)
    <3>1. {t} \cup Around(p) \in SUBSET DOMAIN tables
      BY <1>3, <2>1
    <3> QED BY <2>3, <3>1 DEF Around
  <2>5. Around(p) \subseteq Around(t)
    <3>1. \A T : t \in T /\ Upward(T) => p \in T
      BY <2>1 DEF Upward, p
    <3> QED BY <3>1 DEF Around
  <2> QED BY <1>3, <2>1, <2>4, <2>5 DEF p
<1> QED BY <1>3, <1>4, <1>5, <1>6

\* A table behind the others changes nothing around them.
LEMMA AroundStays ==
  ASSUME TablesFit, DOMAIN tables \subseteq DOMAIN tables', \A t \in DOMAIN tables : tables'[t].parent = Parent(t)
  PROVE  \A t \in DOMAIN tables : Around(t)' = Around(t)
<1> TAKE t \in DOMAIN tables
<1> DEFINE D == DOMAIN tables
           E == DOMAIN tables'
           Up(T) == \A u \in T : u > 2 => tables[u].parent \in T
           Up1(T) == \A u \in T : u > 2 => tables'[u].parent \in T
<1>1. Around(t) = {u \in D : \A T \in SUBSET D : t \in T /\ Up(T) => u \in T}
  BY DEF Around, Upward, PassThrough, Parent
<1>2. Around(t)' = {u \in E : \A T \in SUBSET E : t \in T /\ Up1(T) => u \in T}
  BY DEF Around, Upward, PassThrough, Parent
<1>3. \A T \in SUBSET D : Up(T) <=> Up1(T)
  BY DEF Parent
<1>4. \A u \in D : u > 2 => tables[u].parent \in D
  <2> TAKE u \in D
  <2> HAVE u > 2
  <2>1. u \in 3..Len(tables) /\ Len(tables) \in Nat
    BY DEF TablesFit
  <2>2. Parent(u) \in 2..u - 1
    BY <2>1 DEF TablesFit
  <2>3. Parent(u) \in 1..Len(tables)
    BY <2>1, <2>2
  <2> QED BY <2>3 DEF TablesFit, Parent
<1>5. \A T : Up1(T) => Up1(T \cap D)
  BY <1>4 DEF Parent
<1> HIDE DEF Up, Up1, D, E
<1>6. D \in SUBSET E /\ t \in D
  BY DEF D, E
<1>7. \A T \in SUBSET E : T \cap D \in SUBSET D
  OBVIOUS
<1>8. Up(D)
  BY <1>4 DEF Up
<1>9. ASSUME NEW u \in Around(t) PROVE u \in Around(t)'
  <2>1. u \in D /\ \A T \in SUBSET D : t \in T /\ Up(T) => u \in T
    BY <1>1, <1>9
  <2>2. ASSUME NEW T \in SUBSET E, t \in T, Up1(T) PROVE u \in T
    <3>1. T \cap D \in SUBSET D /\ t \in T \cap D /\ Up(T \cap D)
      BY <1>3, <1>5, <1>6, <2>2
    <3> QED BY <2>1, <3>1
  <2> QED BY <1>2, <1>6, <2>1, <2>2
<1>10. ASSUME NEW u \in Around(t)' PROVE u \in Around(t)
  <2>1. u \in E /\ \A T \in SUBSET E : t \in T /\ Up1(T) => u \in T
    BY <1>2, <1>10
  <2>2. \A T \in SUBSET D : t \in T /\ Up(T) => u \in T
    <3>1. \A T \in SUBSET D : T \in SUBSET E
      BY <1>6
    <3> QED BY <1>3, <2>1, <3>1
  <2>3. u \in D
    BY <1>6, <1>8, <2>2
  <2> QED BY <1>1, <2>2, <2>3
<1> QED BY <1>9, <1>10

\* Lines from one to another count as those before and those behind a line between them.
LEMMA CountSplit ==
  ASSUME NEW ops, NEW b \in Nat, NEW d \in Nat, NEW m \in Nat, b <= d, d <= m
  PROVE  OpsIn(ops, b, m) = OpsIn(ops, b, d - 1) + OpsIn(ops, d, m)
<1> DEFINE C(i, j) == {l \in i..j : program[l].op \in ops}
<1>1. \A i, j \in Int : IsFiniteSet(C(i, j)) /\ Cardinality(C(i, j)) \in Nat
  <2> TAKE i, j \in Int
  <2>1. IsFiniteSet(i..j) /\ C(i, j) \in SUBSET (i..j)
    BY FS_Interval
  <2> HIDE DEF C
  <2> QED BY <2>1, FS_Subset, FS_CardinalityType
<1>2. C(b, m) = C(b, d - 1) \cup C(d, m) /\ C(b, d - 1) \cap C(d, m) = {}
  <2>1. \A l : l \in b..m <=> l \in b..d - 1 \/ l \in d..m
    OBVIOUS
  <2>2. \A l : ~(l \in b..d - 1 /\ l \in d..m)
    OBVIOUS
  <2> QED BY <2>1, <2>2
<1>3. b \in Int /\ d \in Int /\ m \in Int /\ d - 1 \in Int
  OBVIOUS
<1>4. \A i, j : OpsIn(ops, i, j) = Cardinality(C(i, j))
  BY DEF OpsIn
<1> HIDE DEF C
<1>5. Cardinality(C(b, m)) = Cardinality(C(b, d - 1)) + Cardinality(C(d, m)) - Cardinality({})
  <2>1. IsFiniteSet(C(b, d - 1)) /\ IsFiniteSet(C(d, m))
    BY <1>1, <1>3
  <2> QED BY <1>2, <2>1, FS_Union
<1>6. Cardinality(C(b, d - 1)) \in Nat /\ Cardinality(C(d, m)) \in Nat /\ Cardinality({}) = 0
  BY <1>1, <1>3, FS_EmptySet
<1> QED BY <1>4, <1>5, <1>6

\* The blocks that a block is in are those that were opened before it.
LEMMA BlocksNest ==
  ASSUME NEW l \in Nat, NEW d \in Standing(l)
  PROVE  Blocks(d) = {b \in Standing(l) : b < d}
<1>1. d \in 1..l /\ d \in Nat /\ program[d].op \in Opening /\ \A m \in d..l : OpsIn(Opening, d, m) > OpsIn(Closing, d, m)
  BY DEF Standing
<1>2. \A b : b \in Blocks(d) <=> b \in 1..d - 1 /\ program[b].op \in Opening
                              /\ \A m \in b..d : OpsIn(Opening, b, m) > OpsIn(Closing, b, m)
  BY DEF Blocks, Closing
<1>3. ASSUME NEW b \in Standing(l), b < d PROVE b \in Blocks(d)
  <2>1. d \in b..l /\ b # d
    BY <1>1, <1>3 DEF Standing
  <2> QED BY <2>1, StandingBefore
<1>4. ASSUME NEW b \in Blocks(d) PROVE b \in Standing(l) /\ b < d
  <2>1. b \in 1..d - 1 /\ b \in Nat /\ b < d /\ b \in 1..l /\ program[b].op \in Opening
    BY <1>1, <1>2
  <2>2. ASSUME NEW m \in b..l PROVE OpsIn(Opening, b, m) > OpsIn(Closing, b, m)
    <3>1. CASE m <= d
      <4>1. m \in b..d
        BY <1>1, <2>1, <3>1
      <4> QED BY <1>2, <4>1
    <3>2. CASE d <= m
      <4>1. d - 1 \in b..d /\ m \in d..l /\ m \in Nat /\ d - 1 \in Nat
        BY <1>1, <2>1, <3>2
      <4>2. OpsIn(Opening, b, d - 1) > OpsIn(Closing, b, d - 1) /\ OpsIn(Opening, d, m) > OpsIn(Closing, d, m)
        BY <1>1, <1>2, <4>1
      <4>3. /\ OpsIn(Opening, b, m) = OpsIn(Opening, b, d - 1) + OpsIn(Opening, d, m)
            /\ OpsIn(Closing, b, m) = OpsIn(Closing, b, d - 1) + OpsIn(Closing, d, m)
        BY <1>1, <2>1, <3>2, <4>1, CountSplit
      <4>4. \A ops : OpsIn(ops, b, d - 1) \in Nat /\ OpsIn(ops, d, m) \in Nat
        BY <1>1, <2>1, <4>1, CountFacts
      <4> QED BY <4>2, <4>3, <4>4
    <3> QED BY <1>1, <2>1, <3>1, <3>2
  <2> QED BY <2>1, <2>2 DEF Standing
<1> QED BY <1>3, <1>4

\* What a step does to the tables.
TableStep ==
  /\ tables' \in Seq(TableType)
  /\ Line.op # "repeat" => Len(tables') = Len(tables) /\ \A t \in DOMAIN tables : tables'[t].parent = Parent(t)
  /\ Line.op = "repeat" => tables' = TopTable /\ table' = Len(tables) + 1
  /\ Line.op \notin {"repeat", "endrepeat", "file"} => table' = table
  /\ Line.op = "endrepeat" => table' = Parent(table)
  /\ Line.op = "file" => table' = 2

LEMMA WithSymbolIs ==
  ASSUME TypeOK, NEW name \in Names, NEW id \in Nat
  PROVE  LET ts == WithSymbol(name, id)
         IN /\ ts \in Seq(TableType) /\ Len(ts) = Len(tables) /\ \A t \in DOMAIN tables : ts[t].parent = Parent(t)
            /\ \A t \in DOMAIN tables :
                 ts[t].entries = IF t \in Around(table) THEN tables[t].entries \cup {<<name, id>>} ELSE tables[t].entries
<1> DEFINE ts == WithSymbol(name, id)
           With(t) == [tables[t] EXCEPT !.entries = @ \cup {<<name, id>>}]
<1>1. tables \in Seq(TableType) /\ DOMAIN tables = 1..Len(tables) /\ Len(tables) \in Nat
  BY LenProperties DEF TypeOK
<1>2. \A t \in DOMAIN tables :
        tables[t] \in TableType /\ With(t) \in TableType /\ With(t).parent = Parent(t) /\ With(t).entries = tables[t].entries \cup {<<name, id>>}
  <2> TAKE t \in DOMAIN tables
  <2>1. tables[t] \in TableType
    BY <1>1
  <2> QED BY <2>1 DEF TableType, Parent
<1>3. ts = [t \in DOMAIN tables |-> IF t \in Around(table) THEN With(t) ELSE tables[t]]
  BY DEF WithSymbol
<1> HIDE DEF With
<1>4. \A t \in DOMAIN tables : ts[t] \in TableType
  BY <1>2, <1>3
<1>5. ts \in Seq(TableType) /\ Len(ts) = Len(tables)
  <2>1. ts = [t \in 1..Len(tables) |-> ts[t]]
    BY <1>1, <1>3
  <2> HIDE DEF ts
  <2> QED BY <1>1, <1>4, <2>1
<1> QED BY <1>2, <1>3, <1>5 DEF Parent

LEMMA TableSteps ==
  ASSUME TypeOK, StackInv, PrefixInv, [Next]_vars, Advance
  PROVE  TableStep
<1>1. (\A why : ~Reject(why)) /\ pos' # pos /\ pos <= Len(program)
  <2>1. pos' # pos
    BY StepNumbers DEF Advance
  <2>2. pos <= Len(program)
    BY ProgramFacts DEF Advance, TypeOK, LineNumbers
  <2> QED BY <2>1, <2>2 DEF Reject
<1>2. /\ tables \in Seq(TableType) /\ DOMAIN tables = 1..Len(tables) /\ Len(tables) \in Nat
      /\ symbols \in Seq(SymbolType) /\ Len(symbols) + 1 \in Nat /\ table \in Nat
  BY LenProperties DEF TypeOK
<1>3. CASE tables' = tables
  <2>1. Len(tables') = Len(tables) /\ (\A t \in DOMAIN tables : tables'[t].parent = Parent(t)) /\ tables' \in Seq(TableType)
    BY <1>2, <1>3 DEF Parent
  <2>2. CASE Section \/ If \/ Else \/ EndIf
    BY <1>1, <2>1, <2>2 DEF TableStep, Section, If, Else, EndIf, At
  <2>3. CASE EndRepeat \/ File
    BY <1>1, <2>1, <2>3 DEF TableStep, EndRepeat, File, LeaveTable, At
  <2>4. CASE AddUse \/ AddLabel \/ AddConstant
    BY <2>1, <2>4 DEF TableStep, AddUse, AddLabel, AddConstant, At
  <2>5. CASE Repeat
    BY <1>1, <2>1, <2>5 DEF TableStep, Repeat, At
  <2>6. ~(UNCHANGED vars \/ Finished \/ Close \/ RejectLine)
    BY <1>1 DEF vars, Finished, Close, RejectLine
  <2> QED BY <2>2, <2>3, <2>4, <2>5, <2>6 DEF Next
<1>4. CASE tables' # tables
  <2>1. CASE AddLabel \/ AddConstant
    <3>1. tables' = WithSymbol(Full, Len(symbols) + 1) /\ table' = table /\ Line.op \notin {"repeat", "endrepeat", "file"} /\ ~LacksGlobal
      BY <1>4, <2>1 DEF AddLabel, AddConstant, Declare, DeclarePlain, DeclareFirst, DeclareAgain, At
    <3>2. Full \in Names
      BY <1>1, <3>1, FullIs
    <3> QED BY <1>2, <3>1, <3>2, WithSymbolIs DEF TableStep
  <2>2. CASE Repeat
    <3>1. tables' = TopTable /\ table' = Len(tables) + 1 /\ Line.op = "repeat"
      BY <1>1, <2>2 DEF Repeat, At
    <3> DEFINE new == [parent |-> table, entries |-> IF HasVariable THEN {<<Line.name, Len(symbols) + 1>>} ELSE {}]
    <3>2. new \in TableType
      <4>1. Line.name \in Names
        BY <1>1, FullIs
      <4> QED BY <1>2, <4>1 DEF TableType
    <3>3. TopTable = Append(tables, new)
      BY DEF TopTable
    <3> HIDE DEF new
    <3>4. TopTable \in Seq(TableType)
      BY <1>2, <3>2, <3>3
    <3> QED BY <3>1, <3>4 DEF TableStep
  <2>3. ~(UNCHANGED vars \/ Finished \/ Close \/ RejectLine)
    BY <1>1 DEF vars, Finished, Close, RejectLine
  <2>4. Section \/ If \/ Else \/ EndIf \/ EndRepeat \/ File \/ AddUse => tables' = tables
    BY <1>1 DEF Section, If, Else, EndIf, EndRepeat, File, AddUse
  <2> QED BY <1>4, <2>1, <2>2, <2>3, <2>4 DEF Next
<1> QED BY <1>3, <1>4

LEMMA SameTabs ==
  ASSUME program' = program
  PROVE  /\ \A r : Tab(r)' = Tab(r)
         /\ \A S : RepeatsIn(S)' = RepeatsIn(S)
         /\ \A R : TableOf(R)' = TableOf(R) /\ TabsOf(R)' = TabsOf(R)
<1>1. \A r : Tab(r)' = Tab(r)
  BY SameText DEF Tab
<1> QED BY <1>1 DEF RepeatsIn, TableOf, TabsOf, Last

\* The #repeats a line is in, the innermost of them, and its table.
LEMMA RepeatFacts ==
  ASSUME NEW p \in Nat
  PROVE  LET R == RepeatsIn(Standing(p))
         IN /\ R \in SUBSET Nat /\ R \subseteq 1..p /\ (\A r \in R : program[r].op = "repeat")
            /\ R # {} => /\ Last(R) \in R /\ \A r \in R : r <= Last(R)
                         /\ RepeatsIn(Blocks(Last(R)) \cup {Last(R)}) = R
<1> DEFINE R == RepeatsIn(Standing(p))
<1>1. R \in SUBSET Nat /\ R \subseteq 1..p /\ \A r \in R : r <= p /\ program[r].op = "repeat"
  BY BlocksAreStanding DEF RepeatsIn
<1>2. ASSUME R # {}
      PROVE  /\ Last(R) \in R /\ \A r \in R : r <= Last(R)
             /\ RepeatsIn(Blocks(Last(R)) \cup {Last(R)}) = R
  <2> DEFINE q == Last(R)
  <2>1. q \in R /\ \A r \in R : r <= q
    <3> HIDE DEF R
    <3> QED BY <1>1, <1>2, LastIs
  <2> HIDE DEF q
  <2>2. q \in Standing(p)
    BY <2>1 DEF RepeatsIn
  <2>3. Blocks(q) = {b \in Standing(p) : b < q}
    BY <2>2, BlocksNest
  <2>4. \A r \in R : r < q \/ r = q
    BY <1>1, <2>1
  <2>5. \A r : r \in RepeatsIn(Blocks(q) \cup {q}) <=> r \in R
    BY <2>1, <2>2, <2>3, <2>4 DEF RepeatsIn
  <2>6. RepeatsIn(Blocks(q) \cup {q}) = R
    <3> HIDE DEF R
    <3>1. RepeatsIn(Blocks(q) \cup {q}) = {r \in Blocks(q) \cup {q} : program[r].op = "repeat"}
      BY DEF RepeatsIn
    <3> QED BY <2>5, <3>1
  <2> QED BY <2>1, <2>6 DEF q
<1> QED BY <1>1, <1>2

\* What one more line does to the #repeats around it.
LEMMA RepeatsNext ==
  ASSUME TypeOK, StackInv, Stays \/ Opens \/ Closes
  PROVE  LET R(l) == RepeatsIn(Standing(l))
         IN /\ Line.op \notin {"repeat", "endrepeat"} => R(pos) = R(pos - 1)
            /\ Line.op \in {"file", "section"} => R(pos) = {}
            /\ Line.op = "repeat" => R(pos) = R(pos - 1) \cup {pos} /\ Blocks(pos) = Standing(pos - 1)
            /\ Line.op = "endrepeat" => /\ R(pos - 1) # {} /\ Last(R(pos - 1)) \in 1..pos - 1
                                        /\ program[Last(R(pos - 1))].op = "repeat"
                                        /\ Standing(pos) = Blocks(Last(R(pos - 1)))
<1>1. Advance
  BY DEF Stays, Opens, Closes
<1>2. pos - 1 \in Nat /\ pos - 1 + 1 = pos /\ pos \in Nat /\ program[pos] = Line
  BY <1>1, StepNumbers
<1>3. /\ Line.op \notin Closing => Blocks(pos) = Standing(pos - 1)
      /\ Line.op \notin Closing \cup Opening => Standing(pos) = Standing(pos - 1)
      /\ Line.op \in Opening => Standing(pos) = Standing(pos - 1) \cup {pos}
  <2> PICK p \in Nat : p = pos - 1 /\ pos = p + 1
    BY <1>2
  <2> QED BY <1>2, StandingNext
<1>4. CASE Line.op \notin Closing
  <2>1. Line.op \in {"file", "section"} => Standing(pos - 1) = {}
    <3>1. Line.op \in {"file", "section"} => Len(contexts) = 1
      BY <1>4 DEF Stays, Opens, Closes, Opening, Closing
    <3>2. Len(contexts) = 1 => \A k \in Inner : FALSE
      <4>1. \A k \in 2..1 : FALSE
        OBVIOUS
      <4> QED BY <4>1, Zenon DEF Inner
    <3> QED BY <3>1, <3>2 DEF StackInv
  <2> QED BY <1>2, <1>3, <1>4, <2>1 DEF RepeatsIn, Opening, Closing
<1>5. CASE Line.op \in Closing
  <2> DEFINE t == LineOf(Len(contexts))
  <2>1. Closes
    BY <1>5 DEF Stays, Opens, Opening, Closing
  <2>2. /\ t \in Nat /\ t \in 1..pos - 1 /\ t \in Standing(pos - 1) /\ Standing(pos) = Standing(pos - 1) \ {t}
        /\ \A b \in Standing(pos - 1) : b <= t
        /\ program[t].op = IF Line.op = "endif" THEN "if" ELSE "repeat"
    BY <2>1, ClosesBlock
  <2> HIDE DEF t
  <2>3. CASE Line.op = "endif"
    BY <2>2, <2>3 DEF RepeatsIn
  <2>4. CASE Line.op = "endrepeat"
    <3> DEFINE R == RepeatsIn(Standing(pos - 1))
    <3>1. t \in R /\ R \in SUBSET Nat /\ \A r \in R : r <= t
      BY <1>2, <2>2, <2>4, RepeatFacts DEF RepeatsIn
    <3>2. Last(R) = t
      <4> HIDE DEF R
      <4> QED BY <3>1, LastUnique
    <3>3. Blocks(t) = Standing(pos - 1) \ {t}
      <4>1. Blocks(t) = {b \in Standing(pos - 1) : b < t}
        BY <1>2, <2>2, BlocksNest
      <4>2. \A b \in Standing(pos - 1) : b < t <=> b # t
        <5>1. \A b \in Standing(pos - 1) : b \in Nat
          BY <1>2, BlocksAreStanding
        <5>2. t \in Nat /\ \A b \in Standing(pos - 1) : b <= t
          BY <2>2
        <5> QED BY <5>1, <5>2
      <4> QED BY <4>1, <4>2
    <3> QED BY <2>2, <2>4, <3>1, <3>2, <3>3
  <2> QED BY <1>5, <2>3, <2>4 DEF Closing
<1> QED BY <1>4, <1>5

LEMMA TableNext ==
  ASSUME TypeOK, StackInv, TableInv, Stands \/ ((Stays \/ Opens \/ Closes) /\ TableStep)
  PROVE  TableInv'
<1>1. TablesFit
  BY TablesDo
<1>2. CASE Stands
  <2>1. program' = program /\ pos' = pos /\ tables' = tables /\ table' = table
    BY <1>2 DEF Stands, parserVars
  <2>2. \A t \in DOMAIN tables : Around(t)' = Around(t)
    <3>1. \A t \in DOMAIN tables : tables'[t].parent = Parent(t)
      BY <2>1 DEF Parent
    <3> QED BY <1>1, <2>1, <3>1, AroundStays
  <2>3. /\ \A b, m : OpsIn({"repeat"}, b, m)' = OpsIn({"repeat"}, b, m)
        /\ \A l : Blocks(l)' = Blocks(l) /\ Standing(l)' = Standing(l)
    BY <2>1, SameText
  <2>4. Done' = Done /\ \A t : Parent(t)' = Parent(t)
    BY <2>1 DEF Done, Parent
  <2>5. \A r \in Done : Tab(r) \in DOMAIN tables
    <3>1. pos - 1 \in Nat
      BY ProgramFacts DEF TypeOK
    <3>2. \A r \in 1..pos - 1 : program[r].op = "repeat" => Tab(r) \in Nat /\ Tab(r) \in 3..Len(tables)
      BY <3>1, TabsRise DEF TableInv
    <3>3. \A t \in 3..Len(tables) : t \in DOMAIN tables
      BY <1>1 DEF TablesFit
    <3> QED BY <3>2, <3>3 DEF Done
  <2>6. \A r : Tab(r)' = Tab(r)
    BY <2>1, SameTabs
  <2>7. (Len(tables) = 2 + OpsIn({"repeat"}, 1, pos - 1))' /\ (table = TableOf(RepeatsIn(Standing(pos - 1))))'
    BY <2>1, <2>3, SameTabs DEF TableInv
  <2>8. (\A t \in 3..Len(tables) : Parent(t) \in 2..t - 1)'
    BY <2>1 DEF TableInv, Parent
  <2>9. (\A r \in Done : Parent(Tab(r)) = TableOf(RepeatsIn(Blocks(r))) /\ Around(Tab(r)) = TabsOf(RepeatsIn(Blocks(r) \cup {r})))'
    <3>1. \A r \in Done : Parent(Tab(r))' = TableOf(RepeatsIn(Blocks(r))) /\ Around(Tab(r))' = TabsOf(RepeatsIn(Blocks(r) \cup {r}))
      BY <2>2, <2>4, <2>5, <2>6 DEF TableInv
    <3> QED BY <2>1, <2>3, <2>4, <3>1, SameTabs
  <2> QED BY <2>7, <2>8, <2>9 DEF TableInv
<1>3. CASE (Stays \/ Opens \/ Closes) /\ TableStep
  <2>1. Advance
    BY <1>3 DEF Stays, Opens, Closes
  <2>2. pos - 1 \in Nat /\ pos - 1 + 1 = pos /\ pos' - 1 = pos /\ pos \in Nat /\ pos >= 1 /\ program[pos] = Line /\ program' = program
    BY <2>1, StepNumbers
  <2> DEFINE n == Len(tables)
             R(l) == RepeatsIn(Standing(l))
  <2>3. n \in Nat /\ n >= 2 /\ DOMAIN tables = 1..n /\ n = 2 + OpsIn({"repeat"}, 1, pos - 1) /\ table = TableOf(R(pos - 1))
        /\ table \in 2..n /\ tables \in Seq(TableType)
    BY <1>1 DEF TablesFit, TableInv, TypeOK
  <2>4. OpsIn({"repeat"}, 1, pos) = OpsIn({"repeat"}, 1, pos - 1) + IF Line.op = "repeat" THEN 1 ELSE 0
    <3> PICK p \in Nat : p = pos - 1 /\ pos = p + 1
      BY <2>2
    <3>1. 1 <= p + 1
      OBVIOUS
    <3>2. OpsIn({"repeat"}, 1, p + 1) = OpsIn({"repeat"}, 1, p) + IF program[p + 1].op \in {"repeat"} THEN 1 ELSE 0
      BY <3>1, CountFacts
    <3> QED BY <2>2, <3>2
  <2>5. \A r \in Done : Tab(r) \in 3..n /\ Tab(r) \in 1..n /\ Tab(r) \in DOMAIN tables
    <3>1. \A r \in 1..pos - 1 : program[r].op = "repeat" => Tab(r) \in 3..n
      BY <2>2, <2>3, TabsRise
    <3>2. \A t \in 3..n : t \in 1..n
      BY <2>3
    <3> QED BY <2>3, <3>1, <3>2 DEF Done
  <2>6. \A r : r \in Done' <=> r \in Done \/ (r = pos /\ Line.op = "repeat")
    <3>1. \A r : r \in 1..pos <=> r \in 1..pos - 1 \/ r = pos
      BY <2>2
    <3> QED BY <2>2, <3>1 DEF Done
  <2> DEFINE P1 == Len(tables') = 2 + OpsIn({"repeat"}, 1, pos)
             P2 == table' = TableOf(R(pos))
             P3 == \A t \in 3..Len(tables') : tables'[t].parent \in 2..t - 1
             P4 == \A r \in Done' : Parent(Tab(r))' = TableOf(RepeatsIn(Blocks(r))) /\ Around(Tab(r))' = TabsOf(RepeatsIn(Blocks(r) \cup {r}))
  <2>7. DOMAIN tables' = 1..Len(tables') /\ Len(tables') \in Nat
    BY <1>3, LenProperties DEF TableStep
  <2>8. \A r : Tab(r)' = Tab(r) /\ Parent(Tab(r))' = tables'[Tab(r)].parent
    BY <2>2, SameTabs DEF Parent
  <2>9. ASSUME Line.op # "repeat" PROVE P1 /\ P2 /\ P3 /\ P4
    <3>1. Len(tables') = n /\ \A t \in DOMAIN tables : tables'[t].parent = Parent(t)
      BY <1>3, <2>9 DEF TableStep
    <3>2. \A t \in DOMAIN tables : Around(t)' = Around(t)
      <4>1. DOMAIN tables \subseteq DOMAIN tables'
        BY <2>3, <2>7, <3>1
      <4> HIDE DEF n
      <4> QED BY <1>1, <3>1, <4>1, AroundStays
    <3>3. P1
      <4>1. OpsIn({"repeat"}, 1, pos - 1) \in Nat
        BY <2>2, TabsRise
      <4> HIDE DEF n
      <4> QED BY <2>3, <2>4, <2>9, <3>1, <4>1
    <3>4. P2
      <4>1. CASE Line.op \notin {"endrepeat", "file"}
        BY <1>3, <2>3, <2>9, <4>1, RepeatsNext DEF TableStep
      <4>2. CASE Line.op = "file"
        BY <1>3, <4>2, RepeatsNext DEF TableStep, TableOf
      <4>3. CASE Line.op = "endrepeat"
        <5> DEFINE q == Last(R(pos - 1))
        <5>1. R(pos - 1) # {} /\ q \in 1..pos - 1 /\ program[q].op = "repeat" /\ Standing(pos) = Blocks(q)
          BY <1>3, <4>3, RepeatsNext
        <5>2. table = Tab(q) /\ table' = Parent(table)
          BY <1>3, <2>3, <4>3, <5>1 DEF TableStep, TableOf
        <5> HIDE DEF q
        <5>3. Parent(Tab(q)) = TableOf(RepeatsIn(Blocks(q)))
          BY <5>1 DEF TableInv, Done
        <5> QED BY <5>1, <5>2, <5>3
      <4> QED BY <4>1, <4>2, <4>3
    <3>5. P3
      <4>1. \A t \in 3..n : t \in DOMAIN tables
        BY <2>3
      <4> QED BY <1>1, <3>1, <4>1 DEF TablesFit
    <3>6. P4
      <4> TAKE r \in Done'
      <4>1. r \in Done
        BY <2>6, <2>9
      <4>2. Parent(Tab(r))' = Parent(Tab(r)) /\ Around(Tab(r))' = Around(Tab(r))
        BY <2>5, <2>8, <3>1, <3>2, <4>1
      <4> QED BY <4>1, <4>2 DEF TableInv
    <3> QED BY <3>3, <3>4, <3>5, <3>6
  <2>10. ASSUME Line.op = "repeat" PROVE P1 /\ P2 /\ P3 /\ P4
    <3> DEFINE new == [parent |-> table, entries |-> IF HasVariable THEN {<<Line.name, Len(symbols) + 1>>} ELSE {}]
    <3> PICK m \in Nat : m = n + 1
      BY <2>3
    <3>1. tables' = Append(tables, new) /\ table' = m
      BY <1>3, <2>10 DEF TableStep, TopTable
    <3>2. new.parent = table
      OBVIOUS
    <3> HIDE DEF new
    <3>3. Len(tables') = m /\ tables'[m] = new /\ \A t \in 1..n : tables'[t] = tables[t]
      BY <2>3, <3>1, AppendProperties
    <3>4. m = Tab(pos) /\ P1
      <4>1. OpsIn({"repeat"}, 1, pos) = OpsIn({"repeat"}, 1, pos - 1) + 1 /\ OpsIn({"repeat"}, 1, pos - 1) \in Nat
        BY <2>2, <2>4, <2>10, TabsRise
      <4> HIDE DEF n
      <4> QED BY <2>3, <3>3, <4>1 DEF Tab
    <3>5. R(pos) = R(pos - 1) \cup {pos} /\ Blocks(pos) = Standing(pos - 1)
      BY <1>3, <2>10, RepeatsNext
    <3>6. P2
      <4>1. R(pos) \in SUBSET Nat /\ pos \in R(pos) /\ \A r \in R(pos) : r <= pos
        <5>1. R(pos) \in SUBSET Nat /\ R(pos) \subseteq 1..pos
          BY <2>2, RepeatFacts
        <5>2. \A r \in 1..pos : r <= pos
          BY <2>2
        <5> HIDE DEF R
        <5> QED BY <3>5, <5>1, <5>2
      <4>2. Last(R(pos)) = pos /\ R(pos) # {}
        <5> HIDE DEF R
        <5> QED BY <4>1, LastUnique
      <4> QED BY <3>1, <3>4, <4>2 DEF TableOf
    <3>7. P3
      <4>1. \A t \in 3..m : t \in 3..n \/ t = m
        BY <2>3
      <4>2. \A t \in 3..n : t \in 1..n
        BY <2>3
      <4>3. table \in 2..m - 1
        BY <2>3
      <4>4. \A t \in 3..n : Parent(t) \in 2..t - 1
        BY <1>1 DEF TablesFit
      <4> HIDE DEF n
      <4> QED BY <3>2, <3>3, <4>1, <4>2, <4>3, <4>4 DEF Parent
    <3>8. TablesFit'
      <4>1. Len(tables') >= 2
        BY <2>3, <3>3
      <4>2. (\A t \in 3..Len(tables) : Parent(t) \in 2..t - 1)'
        BY <3>7 DEF Parent
      <4> QED BY <2>7, <4>1, <4>2 DEF TablesFit
    <3>9. \A t \in DOMAIN tables : Around(t)' = Around(t)
      <4>1. DOMAIN tables \subseteq DOMAIN tables'
        BY <2>3, <2>7, <3>3
      <4>2. \A t \in DOMAIN tables : tables'[t].parent = Parent(t)
        BY <2>3, <3>3 DEF Parent
      <4> HIDE DEF n
      <4> QED BY <1>1, <4>1, <4>2, AroundStays
    <3>10. Around(m)' = {m} \cup Around(table)
      <4>1. (\A t \in 3..Len(tables) : Around(t) = {t} \cup Around(Parent(t)))'
        BY <3>8, AroundIs, PTL
      <4>2. m \in 3..Len(tables')
        BY <2>3, <3>3
      <4>3. Parent(m)' = table
        BY <3>2, <3>3 DEF Parent
      <4> HIDE DEF n
      <4>4. Around(m)' = {m} \cup Around(Parent(m))'
        BY <4>1, <4>2
      <4>5. Around(Parent(m))' = Around(table)
        BY <2>3, <3>9, <4>3
      <4> QED BY <4>4, <4>5
    <3>11. Around(table) = TabsOf(R(pos - 1))
      <4>1. CASE R(pos - 1) = {}
        <5>1. table = 2 /\ TabsOf(R(pos - 1)) = {2}
          BY <2>3, <4>1 DEF TableOf, TabsOf
        <5> QED BY <1>1, <5>1, AroundIs
      <4>2. CASE R(pos - 1) # {}
        <5> DEFINE q == Last(R(pos - 1))
        <5>1. q \in Done /\ RepeatsIn(Blocks(q) \cup {q}) = R(pos - 1)
          BY <2>2, <4>2, RepeatFacts DEF Done
        <5>2. table = Tab(q)
          BY <2>3, <4>2 DEF TableOf
        <5> HIDE DEF q
        <5> QED BY <5>1, <5>2 DEF TableInv
      <4> QED BY <4>1, <4>2
    <3>12. P4
      <4> TAKE r \in Done'
      <4>1. CASE r \in Done
        <5>1. Parent(Tab(r))' = Parent(Tab(r))
          BY <2>5, <2>8, <3>3, <4>1 DEF Parent
        <5>2. Around(Tab(r))' = Around(Tab(r))
          BY <2>5, <2>8, <3>9, <4>1
        <5> QED BY <4>1, <5>1, <5>2 DEF TableInv
      <4>2. CASE r = pos
        <5>1. Parent(Tab(r))' = table
          BY <2>8, <3>2, <3>3, <3>4, <4>2
        <5>2. table = TableOf(RepeatsIn(Blocks(r)))
          BY <2>3, <3>5, <4>2
        <5>3. Tab(r)' = m
          BY <2>8, <3>4, <4>2
        <5>4. Around(Tab(r))' = {m} \cup TabsOf(R(pos - 1))
          BY <3>10, <3>11, <5>3
        <5>5. RepeatsIn(Blocks(r) \cup {r}) = R(pos - 1) \cup {pos}
          BY <2>2, <2>10, <3>5, <4>2 DEF RepeatsIn
        <5>6. TabsOf(R(pos - 1) \cup {pos}) = {m} \cup TabsOf(R(pos - 1))
          BY <3>4 DEF TabsOf
        <5> QED BY <5>1, <5>2, <5>4, <5>5, <5>6
      <4> QED BY <2>6, <4>1, <4>2
    <3> QED BY <3>4, <3>6, <3>7, <3>12
  <2>11. P1 /\ P2 /\ P3 /\ P4
    BY <2>9, <2>10
  <2>12. (Len(tables) = 2 + OpsIn({"repeat"}, 1, pos - 1))' /\ (table = TableOf(RepeatsIn(Standing(pos - 1))))'
    BY <2>2, <2>11, SameText, SameTabs
  <2>13. (\A t \in 3..Len(tables) : Parent(t) \in 2..t - 1)'
    BY <2>11 DEF Parent
  <2>14. (\A r \in Done : Parent(Tab(r)) = TableOf(RepeatsIn(Blocks(r))) /\ Around(Tab(r)) = TabsOf(RepeatsIn(Blocks(r) \cup {r})))'
    BY <2>2, <2>11, SameText, SameTabs
  <2> QED BY <2>12, <2>13, <2>14 DEF TableInv
<1> QED BY <1>2, <1>3

-----------------------------------------------------------------------------
(* The tables hold what the text declares.                                 *)

InnerIfs(d) == {c \in Blocks(d) : program[c].op = "if" /\ \A r \in RepeatsIn(Blocks(d)) : r < c}
CondAt(d) == {<<program[b].name, ~InElse(b, d)>> : b \in InnerIfs(d)}
Alternative(d) == [cond |-> CondAt(d), def |-> d]
IsConstant(d) == program[d].op \in {"equ", "equhere"}
\* A symbol of the declarations all.
IsSymbol(s, all) ==
  /\ all # {} /\ symbols[s].type # "variable" /\ symbols[s].entries = {Alternative(d) : d \in all}
  /\ \A d \in all : IsConstant(d) <=> symbols[s].type \in {"constant", "conditional constant"}
  /\ symbols[s].type \in {"label", "constant"} => \A d \in all : CondAt(d) = {}
IsVariable(e, r) ==
  /\ program[r].name # <<>> /\ e[1] = program[r].name /\ symbols[e[2]].type = "variable"
  /\ symbols[e[2]].entries = {[cond |-> {}, def |-> r]}
IsProjects(e) ==
  symbols[e[2]].type = "constant" /\ symbols[e[2]].entries = {[cond |-> {}, def |-> 0]} /\ e[1] \in ProjectVariables
\* What is in the table of a #repeat.
RepeatHolds(r) ==
  /\ \A e \in tables[Tab(r)].entries :
       (e \in tables[2].entries /\ \E d \in Declarations(e[1], pos - 1) : r \in Blocks(d)) \/ IsVariable(e, r)
  /\ program[r].name # <<>> => \E e \in tables[Tab(r)].entries : IsVariable(e, r)
  /\ program[r].name # <<>> =>
       \A d \in 1..pos - 1 : program[d].op \in Declaring \cup {"repeat"} /\ r \in Blocks(d) => FullName(d) # program[r].name
NameInv ==
  /\ \A t \in DOMAIN tables : \A e \in tables[t].entries : e[2] \in DOMAIN symbols /\ symbols[e[2]].name = e[1]
  /\ \A e \in tables[1].entries : IsProjects(e)
  /\ \A n \in ProjectVariables : \E e \in tables[1].entries : e[1] = n
  /\ \A e \in tables[2].entries : /\ IsSymbol(e[2], Declarations(e[1], pos - 1))
                                  /\ \A f \in tables[2].entries : f[1] = e[1] => f = e
  /\ \A d \in 1..pos - 1 : program[d].op \in Declaring => \E e \in tables[2].entries : e[1] = FullName(d)
  /\ \A r \in Done : RepeatHolds(r)

\* The tables that a name is looked up in from line l, and what they hold under it.
LEMMA HoldsIs ==
  ASSUME TypeOK, TableInv, NameInv, NEW l \in 1..pos, NEW name, name # <<>>
  PROVE  LET R == RepeatsIn(Blocks(l))
             all == Declarations(name, pos - 1)
             V == Variables(name, l)
         IN /\ Around(TableOf(R)) = TabsOf(R) /\ R \subseteq Done /\ V \subseteq R /\ V \in SUBSET Nat
            /\ Holds(2, name) <=> all # {}
            /\ \A q \in R : q \in V <=> program[q].name = name
            /\ \A q \in R : \A e \in tables[Tab(q)].entries : e[1] = name =>
                 (q \in V /\ IsVariable(e, q)) \/ (e \in tables[2].entries /\ \E d \in all : q \in Blocks(d))
            /\ \A q \in V : Holds(Tab(q), name)
            /\ \A r \in V, q \in R : r <= q => \A d \in all : q \notin Blocks(d)
            /\ \A q \in R : Tab(q) \in 3..Len(tables)
            /\ \A q, r \in R : q < r => Tab(q) < Tab(r)
<1> DEFINE R == RepeatsIn(Blocks(l))
           all == Declarations(name, pos - 1)
           V == Variables(name, l)
<1>1. pos - 1 \in Nat /\ pos \in Nat /\ l \in Nat /\ l >= 1 /\ l <= pos
  BY ProgramFacts DEF TypeOK
<1>2. R \subseteq Done /\ R \in SUBSET Nat
  <2>1. Blocks(l) \subseteq 1..l - 1
    BY <1>1, BlocksAreStanding
  <2>2. \A b \in 1..l - 1 : b \in 1..pos - 1 /\ b \in Nat
    BY <1>1
  <2> QED BY <2>1, <2>2 DEF RepeatsIn, Done
<1>3. V = {q \in R : program[q].name = name}
  BY DEF Variables, RepeatsIn
<1>4. \A q \in Done : Tab(q) \in 3..Len(tables)
  BY <1>1, TabsRise DEF TableInv, Done
<1>5. \A q, r \in Done : q < r => Tab(q) < Tab(r)
  BY <1>1, TabsRise DEF Done
<1>6. Around(TableOf(R)) = TabsOf(R)
  <2>1. CASE R = {}
    <3>1. TablesFit
      BY TablesDo
    <3>2. TableOf(R) = 2 /\ TabsOf(R) = {2}
      BY <2>1 DEF TableOf, TabsOf
    <3> QED BY <3>1, <3>2, AroundIs
  <2>2. CASE R # {}
    <3> DEFINE q == Last(R)
    <3>1. q \in R /\ \A r \in R : r <= q
      <4>1. \A r \in R : r <= l
        <5>1. \A r \in 1..l - 1 : r <= l
          BY <1>1
        <5> QED BY <1>1, <5>1, BlocksAreStanding DEF RepeatsIn
      <4> HIDE DEF R
      <4> QED BY <1>1, <1>2, <2>2, <4>1, LastIs
    <3>2. TableOf(R) = Tab(q)
      BY <2>2 DEF TableOf
    <3> HIDE DEF q
    <3>3. Around(Tab(q)) = TabsOf(RepeatsIn(Blocks(q) \cup {q}))
      BY <1>2, <3>1 DEF TableInv
    <3>4. Blocks(q) = {b \in Standing(l) : b < q} /\ Blocks(l) = Standing(l) \ {l}
      BY <1>1, <3>1, BlocksNest, BlocksAreStanding DEF RepeatsIn
    <3>5. \A r \in RepeatsIn(Blocks(q) \cup {q}) : r \in R
      <4>1. q \in Blocks(l) /\ q < l
        <5>1. Blocks(l) \subseteq 1..l - 1 /\ \A b \in 1..l - 1 : b < l
          BY <1>1, BlocksAreStanding
        <5> QED BY <3>1, <5>1 DEF RepeatsIn
      <4>2. \A b \in Blocks(q) : b # l
        <5>1. q \in Nat /\ Blocks(q) \subseteq 1..q - 1
          BY <1>2, <3>1, BlocksAreStanding
        <5>2. \A b \in 1..q - 1 : b # l
          BY <1>1, <4>1, <5>1
        <5> QED BY <5>1, <5>2
      <4> QED BY <3>1, <3>4, <4>2 DEF RepeatsIn
    <3>6. \A r \in R : r \in RepeatsIn(Blocks(q) \cup {q})
      <4> TAKE r \in R
      <4>1. r < q \/ r = q
        BY <1>2, <3>1
      <4> QED BY <3>1, <3>4, <4>1 DEF RepeatsIn
    <3>7. RepeatsIn(Blocks(q) \cup {q}) = R
      BY <3>5, <3>6
    <3> QED BY <3>2, <3>3, <3>7
  <2> QED BY <2>1, <2>2
<1>7. Holds(2, name) <=> all # {}
  <2>1. \A e \in tables[2].entries : Declarations(e[1], pos - 1) # {}
    BY DEF NameInv, IsSymbol
  <2>2. \A d \in all : \E e \in tables[2].entries : e[1] = name
    BY DEF NameInv, Declarations
  <2> QED BY <2>1, <2>2 DEF Holds
<1>8. ASSUME NEW q \in R, NEW e \in tables[Tab(q)].entries, e[1] = name
      PROVE  (q \in V /\ IsVariable(e, q)) \/ (e \in tables[2].entries /\ \E d \in all : q \in Blocks(d))
  <2>1. RepeatHolds(q)
    BY <1>2 DEF NameInv
  <2> HIDE DEF R, V
  <2> QED BY <1>3, <1>8, <2>1 DEF RepeatHolds, IsVariable
<1>9. ASSUME NEW q \in V PROVE Holds(Tab(q), name)
  <2>1. RepeatHolds(q) /\ program[q].name = name
    BY <1>2, <1>3 DEF NameInv
  <2> HIDE DEF R, V
  <2> QED BY <2>1 DEF RepeatHolds, IsVariable, Holds
<1>10. ASSUME NEW r \in V, NEW q \in R, r <= q, NEW d \in all, q \in Blocks(d) PROVE FALSE
  <2>1. r \in R /\ program[r].name = name /\ RepeatHolds(r)
    BY <1>2, <1>3 DEF NameInv
  <2>2. d \in 1..pos - 1 /\ d \in Nat /\ program[d].op \in Declaring /\ FullName(d) = name
    BY <1>1 DEF Declarations
  <2>3. r \in Blocks(d)
    <3>1. r \in Standing(l) /\ q \in Standing(l) /\ q \in Standing(d)
      BY <1>1, <1>10, <2>1, <2>2, BlocksAreStanding DEF RepeatsIn
    <3>2. Blocks(q) = {b \in Standing(l) : b < q} /\ Blocks(q) = {b \in Standing(d) : b < q}
      BY <1>1, <2>2, <3>1, BlocksNest
    <3>3. r = q \/ r \in Blocks(q)
      BY <1>2, <1>10, <2>1, <3>1, <3>2
    <3>4. q < d /\ q \in Nat /\ r \in Nat
      <4>1. Blocks(d) \subseteq 1..d - 1 /\ \A b \in 1..d - 1 : b < d
        BY <2>2, BlocksAreStanding
      <4> QED BY <1>2, <1>10, <2>1, <4>1
    <3>5. r \in Standing(d) /\ r # d
      BY <1>10, <2>2, <3>1, <3>2, <3>3, <3>4
    <3> QED BY <2>2, <3>5, BlocksAreStanding
  <2> HIDE DEF R, V, all
  <2> QED BY <2>1, <2>2, <2>3 DEF RepeatHolds
<1>11. V \subseteq R /\ V \in SUBSET Nat
  BY <1>2, <1>3
<1> QED BY <1>2, <1>3, <1>4, <1>5, <1>6, <1>7, <1>8, <1>9, <1>10, <1>11

\* What is found under it: the innermost variable, what is declared, or a variable of the project.
Finds(t, name, l) ==
  LET all == Declarations(name, pos - 1)
      s == Find(t, name)
  IN /\ Variables(name, l) # {} =>
          s \in DOMAIN symbols /\ symbols[s].type = "variable" /\ symbols[s].entries = {[cond |-> {}, def |-> Last(Variables(name, l))]}
     /\ Variables(name, l) = {} /\ all # {} => \E e \in tables[2].entries : e[1] = name /\ s = e[2] /\ s \in DOMAIN symbols
     /\ Variables(name, l) = {} /\ all = {} /\ name \in ProjectVariables =>
          s \in DOMAIN symbols /\ symbols[s].type = "constant" /\ symbols[s].entries = {[cond |-> {}, def |-> 0]}
     /\ Variables(name, l) = {} /\ all = {} /\ name \notin ProjectVariables => s = None
     /\ (\E u \in Around(t) : Holds(u, name)) <=> Variables(name, l) # {} \/ all # {}
LEMMA FindIs ==
  ASSUME TypeOK, TableInv, NameInv, NEW l \in 1..pos, NEW name, name # <<>>
  PROVE  Finds(TableOf(RepeatsIn(Blocks(l))), name, l)
<1> DEFINE R == RepeatsIn(Blocks(l))
           T == TableOf(R)
           all == Declarations(name, pos - 1)
           V == Variables(name, l)
           found == {u \in Around(T) \cup {1} : Holds(u, name)}
           Chosen1(u) == CHOOSE e \in tables[u].entries : e[1] = name
<1>1. /\ Around(T) = TabsOf(R) /\ R \subseteq Done /\ V \subseteq R /\ V \in SUBSET Nat
      /\ Holds(2, name) <=> all # {}
      /\ \A q \in R : q \in V <=> program[q].name = name
      /\ \A q \in R : \A e \in tables[Tab(q)].entries : e[1] = name =>
           (q \in V /\ IsVariable(e, q)) \/ (e \in tables[2].entries /\ \E d \in all : q \in Blocks(d))
      /\ \A q \in V : Holds(Tab(q), name)
      /\ \A r \in V, q \in R : r <= q => \A d \in all : q \notin Blocks(d)
      /\ \A q \in R : Tab(q) \in 3..Len(tables)
      /\ \A q, r \in R : q < r => Tab(q) < Tab(r)
  BY HoldsIs
<1>2. Find(T, name) = IF found = {} THEN None ELSE Chosen1(Last(found))[2]
  BY DEF Find
<1>3. /\ Len(tables) \in Nat /\ Len(tables) >= 2 /\ DOMAIN tables = 1..Len(tables)
      /\ \A t \in DOMAIN tables : \A e \in tables[t].entries : e[2] \in DOMAIN symbols
  BY LenProperties DEF TypeOK, NameInv
<1>4. \A u : Holds(u, name) => Chosen1(u) \in tables[u].entries /\ Chosen1(u)[1] = name
  BY DEF Holds
<1> HIDE DEF R, T, all, V, Chosen1
<1>5. \A q \in R : Tab(q) \in Nat /\ Tab(q) > 2 /\ Tab(q) \in DOMAIN tables
  BY <1>1, <1>3
<1>6. \A u : u \in found <=> Holds(u, name) /\ (u = 1 \/ u = 2 \/ \E q \in R : u = Tab(q))
  BY <1>1 DEF TabsOf
<1>7. found \in SUBSET Nat /\ \A u \in found : u \in DOMAIN tables /\ u <= Len(tables)
  <2> HIDE DEF found
  <2>1. \A u \in found : u \in DOMAIN tables
    BY <1>3, <1>5, <1>6
  <2>2. \A u \in DOMAIN tables : u \in Nat /\ u <= Len(tables)
    BY <1>3
  <2> QED BY <2>1, <2>2
<1> HIDE DEF found
<1>8. ASSUME V # {}
      PROVE  /\ Find(T, name) \in DOMAIN symbols /\ symbols[Find(T, name)].type = "variable"
             /\ symbols[Find(T, name)].entries = {[cond |-> {}, def |-> Last(V)]}
             /\ \E u \in Around(T) : Holds(u, name)
  <2> DEFINE r == Last(V)
  <2>1. r \in V /\ \A q \in V : q <= r
    <3>1. \A q \in V : q <= pos
      <4>1. \A q \in 1..pos - 1 : q <= pos
        BY ProgramFacts DEF TypeOK
      <4> QED BY <1>1, <4>1 DEF Done
    <3>2. pos \in Nat
      BY ProgramFacts DEF TypeOK
    <3> QED BY <1>1, <1>8, <3>1, <3>2, LastIs
  <2> HIDE DEF r
  <2>2. r \in R /\ r \in Nat /\ Tab(r) \in found
    BY <1>1, <1>6, <2>1
  <2>3. \A u \in found : u <= Tab(r)
    <3> TAKE u \in found
    <3>1. CASE u = 1 \/ u = 2
      BY <1>5, <2>2, <3>1
    <3>2. ASSUME NEW q \in R, u = Tab(q) PROVE u <= Tab(r)
      <4>1. CASE q < r
        BY <1>1, <1>5, <2>2, <3>2, <4>1
      <4>2. CASE q = r
        BY <1>5, <2>2, <3>2, <4>2
      <4>3. CASE r < q
        <5>1. Holds(u, name)
          BY <1>6
        <5>2. PICK e \in tables[Tab(q)].entries : e[1] = name
          BY <3>2, <5>1 DEF Holds
        <5>3. q \notin V
          BY <1>1, <2>1, <2>2, <4>3
        <5>4. \E d \in all : q \in Blocks(d)
          BY <1>1, <5>2, <5>3
        <5> QED BY <1>1, <2>1, <4>3, <5>4
      <4>4. q \in Nat
        BY <1>1, ProgramFacts DEF Done, TypeOK
      <4> QED BY <2>2, <4>1, <4>2, <4>3, <4>4
    <3> QED BY <1>6, <3>1, <3>2
  <2>4. Last(found) = Tab(r)
    BY <1>7, <2>2, <2>3, LastUnique
  <2>5. Chosen1(Tab(r)) \in tables[Tab(r)].entries /\ Chosen1(Tab(r))[1] = name
    BY <1>4, <1>6, <2>2
  <2>6. IsVariable(Chosen1(Tab(r)), r)
    <3>1. \A d \in all : r \notin Blocks(d)
      <4>1. r <= r
        BY <2>2
      <4> QED BY <1>1, <2>1, <2>2, <4>1
    <3> QED BY <1>1, <2>2, <2>5, <3>1
  <2>7. Find(T, name) = Chosen1(Tab(r))[2] /\ Find(T, name) \in DOMAIN symbols
    BY <1>2, <1>3, <1>5, <2>2, <2>4, <2>5
  <2>8. Tab(r) \in Around(T) /\ Holds(Tab(r), name)
    BY <1>1, <2>1, <2>2 DEF TabsOf
  <2> QED BY <2>6, <2>7, <2>8 DEF IsVariable, r
<1>9. ASSUME V = {}, NEW q \in R, NEW e \in tables[Tab(q)].entries, e[1] = name
      PROVE  e \in tables[2].entries /\ all # {}
  BY <1>1, <1>9
<1>10. ASSUME V = {}, all # {}
       PROVE  /\ \E e \in tables[2].entries : e[1] = name /\ Find(T, name) = e[2] /\ Find(T, name) \in DOMAIN symbols
              /\ \E u \in Around(T) : Holds(u, name)
  <2> DEFINE u == Last(found)
  <2>1. 2 \in found
    BY <1>1, <1>6, <1>10
  <2>2. u \in found /\ 2 <= u
    BY <1>3, <1>7, <2>1, LastIs
  <2> HIDE DEF u
  <2>3. u # 1
    BY <2>2
  <2>4. Chosen1(u) \in tables[u].entries /\ Chosen1(u)[1] = name /\ u \in DOMAIN tables
    BY <1>4, <1>6, <1>7, <2>2
  <2>5. Chosen1(u) \in tables[2].entries
    BY <1>6, <1>9, <1>10, <2>2, <2>3, <2>4
  <2>6. Find(T, name) = Chosen1(u)[2]
    BY <1>2, <2>1 DEF u
  <2>7. 2 \in Around(T) /\ Holds(2, name)
    BY <1>1, <1>10 DEF TabsOf
  <2>8. Find(T, name) \in DOMAIN symbols
    BY <1>3, <2>4, <2>6
  <2> QED BY <2>4, <2>5, <2>6, <2>7, <2>8
<1>11. ASSUME V = {}, all = {}
       PROVE  /\ name \in ProjectVariables => /\ Find(T, name) \in DOMAIN symbols /\ symbols[Find(T, name)].type = "constant"
                                              /\ symbols[Find(T, name)].entries = {[cond |-> {}, def |-> 0]}
              /\ name \notin ProjectVariables => Find(T, name) = None
              /\ ~\E u \in Around(T) : Holds(u, name)
  <2>1. \A q \in R : ~Holds(Tab(q), name)
    BY <1>9, <1>11 DEF Holds
  <2>2. ~Holds(2, name)
    BY <1>1, <1>11
  <2>3. \A u : u \in found => u = 1 /\ Holds(1, name)
    BY <1>6, <2>1, <2>2
  <2>4. ~\E u \in Around(T) : Holds(u, name)
    BY <1>1, <2>1, <2>2 DEF TabsOf
  <2>5. Holds(1, name) <=> name \in ProjectVariables
    BY DEF Holds, NameInv, IsProjects
  <2>6. ASSUME name \in ProjectVariables
        PROVE  /\ Find(T, name) \in DOMAIN symbols /\ symbols[Find(T, name)].type = "constant"
               /\ symbols[Find(T, name)].entries = {[cond |-> {}, def |-> 0]}
    <3>1. 1 \in found /\ \A u \in found : u <= 1
      BY <1>6, <2>3, <2>5, <2>6
    <3>2. Last(found) = 1
      BY <1>7, <3>1, LastUnique
    <3>3. Chosen1(1) \in tables[1].entries /\ Find(T, name) = Chosen1(1)[2] /\ 1 \in DOMAIN tables
      BY <1>2, <1>3, <1>4, <2>5, <2>6, <3>1, <3>2
    <3>4. IsProjects(Chosen1(1)) /\ Chosen1(1)[2] \in DOMAIN symbols
      BY <1>3, <3>3 DEF NameInv
    <3> QED BY <3>3, <3>4 DEF IsProjects
  <2>7. ASSUME name \notin ProjectVariables PROVE Find(T, name) = None
    <3>1. found = {}
      BY <2>3, <2>5, <2>7
    <3> QED BY <1>2, <3>1
  <2> QED BY <2>4, <2>6, <2>7
<1> QED BY <1>8, <1>10, <1>11 DEF Finds, R, T, all, V

\* The #ifs around a line, up to the nearest #repeat, are the innermost contexts.
LEMMA InnerIfsAre ==
  ASSUME TypeOK, StackInv, pos <= Len(program), Line.op \notin Closing
  PROVE  /\ Blocks(pos) = {LineOf(k) : k \in Inner}
         /\ \A b : b \in InnerIfs(pos) <=> \E k \in Inner : Innermost(k) /\ b = LineOf(k)
         /\ \A k \in DOMAIN contexts : Innermost(k) => k \in Inner /\ contexts[k].kind = "if"
         /\ Top.kind # "if" => InnerIfs(pos) = {}
<1>1. pos - 1 \in Nat /\ pos - 1 + 1 = pos /\ program[pos] = Line
  <2>1. pos \in LineNumbers /\ program[pos] = Line /\ Len(program) \in Nat
    BY LineFacts, ProgramFacts DEF TypeOK
  <2> QED BY <2>1 DEF LineNumbers
<1>2. Blocks(pos) = {LineOf(k) : k \in Inner}
  <2>1. Blocks(pos) = Standing(pos - 1)
    <3> PICK p \in Nat : p = pos - 1 /\ pos = p + 1
      BY <1>1
    <3> QED BY <1>1, StandingNext
  <2> QED BY <2>1 DEF StackInv
<1>3. /\ \A k \in Inner : contexts[k].kind \in Opening /\ program[LineOf(k)].op = contexts[k].kind /\ LineOf(k) \in Nat
      /\ \A j, k \in Inner : j < k => LineOf(j) < LineOf(k)
  <2>1. \A k \in Inner : LineOf(k) \in 1..pos - 1
    BY DEF StackInv
  <2> QED BY <1>1, <2>1 DEF StackInv
<1>4. Len(contexts) \in Nat /\ DOMAIN contexts = 1..Len(contexts) /\ \A k : k \in Inner <=> k \in 1..Len(contexts) /\ k # 1
  BY ContextFacts DEF Inner
<1>5. ASSUME NEW k \in Inner PROVE LineOf(k) \in InnerIfs(pos) <=> Innermost(k)
  <2>1. ASSUME LineOf(k) \in InnerIfs(pos), NEW j \in k..Len(contexts) PROVE contexts[j].kind = "if"
    <3>1. j \in Inner /\ ~(j < k)
      BY <1>4 DEF Inner
    <3>2. j = k \/ k < j
      BY DEF Inner
    <3>3. ~(LineOf(j) < LineOf(k))
      BY <1>3, <3>1, <3>2
    <3>4. \A r \in RepeatsIn(Blocks(pos)) : r < LineOf(k)
      BY <2>1 DEF InnerIfs
    <3>5. program[LineOf(j)].op # "repeat"
      BY <1>2, <3>1, <3>3, <3>4 DEF RepeatsIn
    <3> QED BY <1>3, <3>1, <3>5 DEF Opening
  <2>2. ASSUME Innermost(k) PROVE LineOf(k) \in InnerIfs(pos)
    <3>1. contexts[k].kind = "if"
      BY <1>4, <2>2 DEF Innermost, Inner
    <3>2. ASSUME NEW r \in RepeatsIn(Blocks(pos)) PROVE r < LineOf(k)
      <4>1. PICK j \in Inner : r = LineOf(j) /\ program[r].op = "repeat"
        BY <1>2 DEF RepeatsIn
      <4>2. contexts[j].kind = "repeat"
        BY <1>3, <4>1
      <4>3. j \notin k..Len(contexts)
        BY <2>2, <4>2 DEF Innermost
      <4>4. j < k
        BY <1>4, <4>1, <4>3 DEF Inner
      <4> QED BY <1>3, <4>1, <4>4
    <3>3. LineOf(k) \in Blocks(pos) /\ program[LineOf(k)].op = "if"
      BY <1>2, <1>3, <3>1
    <3> QED BY <3>2, <3>3 DEF InnerIfs
  <2> QED BY <2>1, <2>2 DEF Innermost
<1>6. \A b \in InnerIfs(pos) : \E k \in Inner : b = LineOf(k)
  BY <1>2 DEF InnerIfs
<1>7. ASSUME NEW k \in DOMAIN contexts, Innermost(k) PROVE k \in Inner /\ contexts[k].kind = "if" /\ Top.kind = "if"
  <2>1. k \in k..Len(contexts) /\ Len(contexts) \in k..Len(contexts)
    BY <1>4
  <2>2. contexts[k].kind = "if" /\ contexts[Len(contexts)].kind = "if"
    BY <1>7, <2>1 DEF Innermost
  <2> QED BY <1>4, <2>2 DEF StackInv, Top
<1>8. \A k \in Inner : k \in DOMAIN contexts
  BY <1>4
<1> QED BY <1>2, <1>5, <1>6, <1>7, <1>8

\* The condition of a declaration is that of the text.
LEMMA ConditionIs ==
  ASSUME TypeOK, StackInv, ElseInv, pos <= Len(program), Line.op \in Declaring
  PROVE  /\ Top.kind = "if" => Condition = CondAt(pos)
         /\ Top.kind # "if" => CondAt(pos) = {}
         /\ CondAt(pos) \in SUBSET (Conditions \X BOOLEAN)
<1>1. pos <= Len(program) /\ Line.op \notin Closing \cup {"else"}
  BY DEF Declaring, Closing
<1>2. /\ \A b : b \in InnerIfs(pos) <=> \E k \in Inner : Innermost(k) /\ b = LineOf(k)
      /\ \A k \in DOMAIN contexts : Innermost(k) => k \in Inner /\ contexts[k].kind = "if"
      /\ Top.kind # "if" => InnerIfs(pos) = {}
  BY <1>1, InnerIfsAre
<1>3. \A k \in Inner : contexts[k].kind = "if" => contexts[k].cond = program[LineOf(k)].name
  BY DEF StackInv
<1>4. \A k \in Inner : k \in DOMAIN contexts /\ contexts[k].hasElse \in BOOLEAN /\ InElse(LineOf(k), pos) = contexts[k].hasElse
  BY <1>1, ContextFacts, BranchIs DEF Inner, ContextType
<1>5. \A k \in Inner : (~InElse(LineOf(k), pos)) = (~contexts[k].hasElse)
  BY <1>4
<1> DEFINE Ks == {j \in DOMAIN contexts : Innermost(j)}
           Pair(k) == <<contexts[k].cond, ~contexts[k].hasElse>>
           At1(b) == <<program[b].name, ~InElse(b, pos)>>
<1>6. Condition = {Pair(k) : k \in Ks} /\ CondAt(pos) = {At1(b) : b \in InnerIfs(pos)}
  BY DEF Condition, CondAt
<1>7. \A k \in Ks : k \in Inner /\ Pair(k) = At1(LineOf(k)) /\ LineOf(k) \in InnerIfs(pos)
  BY <1>2, <1>3, <1>5
<1>8. \A b \in InnerIfs(pos) : \E k \in Ks : b = LineOf(k)
  BY <1>2, <1>4
<1>9. CondAt(pos) \in SUBSET (Conditions \X BOOLEAN)
  <2>1. \A b \in InnerIfs(pos) : program[b].name \in Conditions
    <3>1. \A b \in InnerIfs(pos) : program[b].op = "if" /\ b \in LineNumbers
      <4>1. \A b \in 1..pos - 1 : b \in LineNumbers
        BY <1>1, ProgramFacts DEF LineNumbers, TypeOK
      <4>2. pos \in Nat
        BY LineFacts
      <4> QED BY <4>1, <4>2, BlocksAreStanding DEF InnerIfs
    <3> QED BY <3>1, ProgramFacts DEF IsLine, TypeOK
  <2>2. \A b \in InnerIfs(pos) : At1(b) \in Conditions \X BOOLEAN
    BY <2>1
  <2> HIDE DEF At1
  <2> QED BY <1>6, <2>2
<1> HIDE DEF Ks, Pair, At1
<1> QED BY <1>2, <1>6, <1>7, <1>8, <1>9

LEMMA SameNames ==
  ASSUME program' = program
  PROVE  /\ \A l : FullName(l)' = FullName(l)
         /\ \A name, l : Declarations(name, l)' = Declarations(name, l)
         /\ \A d : CondAt(d)' = CondAt(d) /\ Alternative(d)' = Alternative(d) /\ IsConstant(d)' = IsConstant(d)
<1>1. \A l : Blocks(l)' = Blocks(l)
  BY SameText
<1>2. \A b, l : InElse(b, l)' = InElse(b, l)
  BY SameText
<1>3. \A k, l : SameFile(k, l)' = SameFile(k, l)
  BY DEF SameFile
<1>4. \A l : Globals(l)' = Globals(l)
  BY <1>3 DEF Globals
<1>5. \A g, l : Superseded(g, l)' = Superseded(g, l)
  BY <1>1, <1>2, <1>4 DEF Superseded
<1>6. \A l : {g \in Globals(l) : ~Superseded(g, l)}' = {g \in Globals(l) : ~Superseded(g, l)}
  BY <1>4, <1>5
<1>7. \A l : GlobalOf(l)' = GlobalOf(l)
  BY <1>6 DEF GlobalOf, Last
<1>8. \A l : FullName(l)' = FullName(l)
  BY <1>7 DEF FullName
<1>9. \A name, l : Declarations(name, l)' = Declarations(name, l)
  BY <1>8 DEF Declarations
<1>10. \A d : InnerIfs(d)' = InnerIfs(d)
  BY <1>1 DEF InnerIfs, RepeatsIn
<1>11. \A d : CondAt(d)' = CondAt(d)
  BY <1>2, <1>10 DEF CondAt
<1> QED BY <1>8, <1>9, <1>11 DEF Alternative, IsConstant

\* A symbol that stays as it is.
LEMMA SymbolKept ==
  ASSUME program' = program, NEW e, symbols'[e[2]] = symbols[e[2]]
  PROVE  /\ \A all : IsSymbol(e[2], all) => IsSymbol(e[2], all)'
         /\ \A r : IsVariable(e, r) => IsVariable(e, r)'
         /\ IsProjects(e) => IsProjects(e)'
<1>1. \A d : CondAt(d)' = CondAt(d) /\ Alternative(d)' = Alternative(d) /\ IsConstant(d)' = IsConstant(d)
  BY SameNames
<1> QED BY <1>1 DEF IsSymbol, IsVariable, IsProjects

\* One more line declares one more name at most.
LEMMA DeclarationsNext ==
  ASSUME TypeOK, Advance
  PROVE  /\ \A name : Declarations(name, pos) =
              Declarations(name, pos - 1) \cup (IF Line.op \in Declaring /\ FullName(pos) = name THEN {pos} ELSE {})
         /\ \A d : d \in 1..pos <=> d \in 1..pos - 1 \/ d = pos
         /\ \A r : r \in Done' <=> r \in Done \/ (r = pos /\ Line.op = "repeat")
<1>1. pos \in Nat /\ pos >= 1 /\ program[pos] = Line /\ pos' - 1 = pos /\ program' = program
  BY StepNumbers
<1>2. \A d : d \in 1..pos <=> d \in 1..pos - 1 \/ d = pos
  BY <1>1
<1>3. \A name, d : d \in Declarations(name, pos) <=> d \in Declarations(name, pos - 1) \/ (d = pos /\ Line.op \in Declaring /\ FullName(pos) = name)
  BY <1>1, <1>2 DEF Declarations
<1> QED BY <1>1, <1>2, <1>3 DEF Done

\* The tables of the #repeats there were.
LEMMA RepeatHoldsKept ==
  ASSUME TypeOK, Advance, NEW r \in Done, RepeatHolds(r), tables[2].entries \subseteq tables'[2].entries,
         tables[Tab(r)].entries \subseteq tables'[Tab(r)].entries,
         \A e \in tables'[Tab(r)].entries :
           e \in tables[Tab(r)].entries \/ (e \in tables'[2].entries /\ \E d \in Declarations(e[1], pos) : r \in Blocks(d)),
         \A e \in tables[Tab(r)].entries : IsVariable(e, r) => symbols'[e[2]] = symbols[e[2]],
         Line.op \in Declaring \cup {"repeat"} /\ r \in Blocks(pos) /\ program[r].name # <<>> => FullName(pos) # program[r].name
  PROVE  RepeatHolds(r)'
<1>1. pos' - 1 = pos /\ program' = program /\ Tab(r)' = Tab(r)
  BY StepNumbers, SameTabs
<1>2. \A e \in tables[Tab(r)].entries : IsVariable(e, r) => IsVariable(e, r)'
  BY <1>1, SymbolKept
<1>3. \A name, d : d \in Declarations(name, pos - 1) => d \in Declarations(name, pos)
  BY DeclarationsNext
<1>4. /\ \A name, l : Declarations(name, l)' = Declarations(name, l)
      /\ \A l : FullName(l)' = FullName(l) /\ Blocks(l)' = Blocks(l)
  BY <1>1, SameNames, SameText
<1>5. \A e \in tables'[Tab(r)].entries :
        (e \in tables'[2].entries /\ \E d \in Declarations(e[1], pos) : r \in Blocks(d)) \/ IsVariable(e, r)'
  BY <1>2, <1>3 DEF RepeatHolds
<1>6. program[r].name # <<>> => \E e \in tables'[Tab(r)].entries : IsVariable(e, r)'
  BY <1>2 DEF RepeatHolds
<1>7. program[r].name # <<>> =>
        \A d \in 1..pos : program[d].op \in Declaring \cup {"repeat"} /\ r \in Blocks(d) => FullName(d) # program[r].name
  <2>1. \A d : d \in 1..pos => d \in 1..pos - 1 \/ d = pos
    BY DeclarationsNext
  <2>2. program[pos] = Line
    BY StepNumbers
  <2> QED BY <2>1, <2>2 DEF RepeatHolds
<1>8. (\A e \in tables[Tab(r)].entries :
         (e \in tables[2].entries /\ \E d \in Declarations(e[1], pos - 1) : r \in Blocks(d)) \/ IsVariable(e, r))'
  BY <1>1, <1>4, <1>5
<1>9. (program[r].name # <<>> => \E e \in tables[Tab(r)].entries : IsVariable(e, r))'
  BY <1>1, <1>6
<1>10. (program[r].name # <<>> =>
        \A d \in 1..pos - 1 : program[d].op \in Declaring \cup {"repeat"} /\ r \in Blocks(d) => FullName(d) # program[r].name)'
  BY <1>1, <1>4, <1>7
<1> QED BY <1>8, <1>9, <1>10 DEF RepeatHolds

\* Symbols and entries that are new, beside those that stay as they are.
LEMMA NamesGrow ==
  ASSUME TypeOK, TableInv, NameInv, Advance, NEW changed,
         \A s \in DOMAIN symbols : s \in DOMAIN symbols' /\ symbols'[s].name = symbols[s].name,
         \A s \in DOMAIN symbols : s # changed => symbols'[s] = symbols[s],
         changed \in DOMAIN symbols => symbols[changed].type \notin {"constant", "variable"},
         tables'[1].entries = tables[1].entries, \A t \in DOMAIN tables : tables[t].entries \subseteq tables'[t].entries,
         \A t \in DOMAIN tables' : \A e \in tables'[t].entries :
           (t \in DOMAIN tables /\ e \in tables[t].entries) \/ (e[2] \in DOMAIN symbols' /\ symbols'[e[2]].name = e[1]),
         \A e \in tables'[2].entries :
           \/ e \in tables[2].entries /\ e[2] # changed /\ Declarations(e[1], pos) = Declarations(e[1], pos - 1)
           \/ /\ \A all : all = Declarations(e[1], pos) => IsSymbol(e[2], all)'
              /\ \A f \in tables'[2].entries : f[1] = e[1] => f = e,
         Line.op \in Declaring => \E e \in tables'[2].entries : e[1] = FullName(pos),
         \A r \in Done : \A e \in tables'[Tab(r)].entries :
           e \in tables[Tab(r)].entries \/ (e \in tables'[2].entries /\ \E d \in Declarations(e[1], pos) : r \in Blocks(d)),
         \A r \in Done : Line.op \in Declaring \cup {"repeat"} /\ r \in Blocks(pos) /\ program[r].name # <<>> => FullName(pos) # program[r].name,
         \A r : r = pos /\ Line.op = "repeat" => RepeatHolds(r)'
  PROVE  NameInv'
<1>1. pos' - 1 = pos /\ program' = program /\ pos - 1 \in Nat
  BY StepNumbers
<1>2. /\ DOMAIN tables = 1..Len(tables) /\ Len(tables) \in Nat /\ Len(tables) >= 2 /\ 1 \in DOMAIN tables /\ 2 \in DOMAIN tables
      /\ \A r \in Done : Tab(r) \in DOMAIN tables
  <2>1. DOMAIN tables = 1..Len(tables) /\ Len(tables) \in Nat /\ Len(tables) >= 2
    BY TablesDo DEF TablesFit
  <2>2. \A r \in 1..pos - 1 : program[r].op = "repeat" => Tab(r) \in 3..Len(tables)
    BY <1>1, TabsRise DEF TableInv
  <2>3. \A t \in 3..Len(tables) : t \in DOMAIN tables
    BY <2>1
  <2> QED BY <2>1, <2>2, <2>3 DEF Done
<1>3. \A t \in DOMAIN tables : \A e \in tables[t].entries :
        /\ e[2] \in DOMAIN symbols /\ symbols[e[2]].name = e[1]
        /\ e[2] # changed => symbols'[e[2]] = symbols[e[2]]
  BY DEF NameInv
<1>4. /\ \A name, l : Declarations(name, l)' = Declarations(name, l)
      /\ \A l : FullName(l)' = FullName(l)
  BY <1>1, SameNames
<1>5. (\A t \in DOMAIN tables : \A e \in tables[t].entries : e[2] \in DOMAIN symbols /\ symbols[e[2]].name = e[1])'
  BY <1>3
<1>6. (\A e \in tables[1].entries : IsProjects(e))'
  <2>1. ASSUME NEW e \in tables[1].entries PROVE IsProjects(e)'
    <3>1. IsProjects(e)
      BY DEF NameInv
    <3>2. e[2] # changed
      BY <1>2, <1>3, <3>1 DEF IsProjects
    <3> QED BY <1>1, <1>2, <1>3, <3>1, <3>2, SymbolKept
  <2> QED BY <2>1
<1>7. (\A n \in ProjectVariables : \E e \in tables[1].entries : e[1] = n)'
  BY DEF NameInv
<1>8. ASSUME NEW e \in tables'[2].entries
      PROVE  /\ \A all : all = Declarations(e[1], pos) => IsSymbol(e[2], all)'
             /\ \A f \in tables'[2].entries : f[1] = e[1] => f = e
  <2>1. CASE e \in tables[2].entries /\ e[2] # changed /\ Declarations(e[1], pos) = Declarations(e[1], pos - 1)
    <3>1. IsSymbol(e[2], Declarations(e[1], pos)) /\ symbols'[e[2]] = symbols[e[2]]
      BY <1>2, <1>3, <2>1 DEF NameInv
    <3>2. \A all : IsSymbol(e[2], all) => IsSymbol(e[2], all)'
      BY <1>1, <3>1, SymbolKept
    <3>3. \A f \in tables'[2].entries : f[1] = e[1] => f = e
      BY <1>2, <2>1 DEF NameInv
    <3> QED BY <3>1, <3>2, <3>3
  <2> QED BY <2>1
<1>9. (\A e \in tables[2].entries : /\ IsSymbol(e[2], Declarations(e[1], pos - 1))
                                    /\ \A f \in tables[2].entries : f[1] = e[1] => f = e)'
  <2>1. \A name, all : (all = Declarations(name, pos - 1))' => all = Declarations(name, pos)
    BY <1>1, <1>4
  <2>2. \A e \in tables'[2].entries : \A all : (all = Declarations(e[1], pos - 1))' => IsSymbol(e[2], all)'
    BY <1>8, <2>1
  <2>3. (\A e \in tables[2].entries : \A all : all = Declarations(e[1], pos - 1) => IsSymbol(e[2], all))'
    BY <2>2
  <2>4. (\A e \in tables[2].entries : IsSymbol(e[2], Declarations(e[1], pos - 1)))'
    BY <2>3
  <2>5. (\A e \in tables[2].entries : \A f \in tables[2].entries : f[1] = e[1] => f = e)'
    BY <1>8
  <2> QED BY <2>4, <2>5
<1>10. (\A d \in 1..pos - 1 : program[d].op \in Declaring => \E e \in tables[2].entries : e[1] = FullName(d))'
  <2>1. \A d : d \in 1..pos => d \in 1..pos - 1 \/ d = pos
    BY DeclarationsNext
  <2>2. program[pos] = Line
    BY StepNumbers
  <2>3. \A d \in 1..pos : program[d].op \in Declaring => \E e \in tables'[2].entries : e[1] = FullName(d)
    BY <1>2, <2>1, <2>2 DEF NameInv
  <2> QED BY <1>1, <1>4, <2>3
<1>11. \A r \in Done : RepeatHolds(r)'
  <2> TAKE r \in Done
  <2>1. \A e \in tables[Tab(r)].entries : IsVariable(e, r) => symbols'[e[2]] = symbols[e[2]]
    <3> TAKE e \in tables[Tab(r)].entries
    <3> HAVE IsVariable(e, r)
    <3>1. e[2] # changed
      BY <1>2, <1>3 DEF IsVariable
    <3> QED BY <1>2, <1>3, <3>1
  <2>2. RepeatHolds(r)
    BY DEF NameInv
  <2> QED BY <1>2, <2>1, <2>2, RepeatHoldsKept
<1>12. (\A r \in Done : RepeatHolds(r))'
  <2>1. \A r : r \in Done' => RepeatHolds(r)'
    BY <1>11, DeclarationsNext
  <2> QED BY <2>1
<1> QED BY <1>5, <1>6, <1>7, <1>9, <1>10, <1>12 DEF NameInv

\* The tables of the #repeats there were.
LEMMA TabFacts ==
  ASSUME TypeOK, TableInv
  PROVE  /\ DOMAIN tables = 1..Len(tables) /\ Len(tables) \in Nat /\ 1 \in DOMAIN tables /\ 2 \in DOMAIN tables
         /\ \A r \in Done : Tab(r) \in DOMAIN tables /\ Tab(r) \in Nat /\ Tab(r) > 2 /\ Tab(r) <= Len(tables)
         /\ \A q, r \in Done : Tab(q) = Tab(r) => q = r
<1>1. pos - 1 \in Nat /\ pos \in Nat
  BY ProgramFacts DEF TypeOK
<1>2. DOMAIN tables = 1..Len(tables) /\ Len(tables) \in Nat /\ Len(tables) >= 2
  BY TablesDo DEF TablesFit
<1>3. \A r \in Done : Tab(r) \in 3..Len(tables) /\ r \in Nat
  <2>1. \A r \in 1..pos - 1 : program[r].op = "repeat" => Tab(r) \in 3..2 + OpsIn({"repeat"}, 1, pos - 1)
    BY <1>1, TabsRise
  <2>2. Len(tables) = 2 + OpsIn({"repeat"}, 1, pos - 1)
    BY DEF TableInv
  <2> QED BY <1>1, <2>1, <2>2 DEF Done
<1>4. \A q, r \in Done : q < r => Tab(q) < Tab(r)
  BY <1>1, TabsRise DEF Done
<1>5. \A r \in Done : Tab(r) \in DOMAIN tables /\ Tab(r) \in Nat /\ Tab(r) > 2 /\ Tab(r) <= Len(tables)
  BY <1>2, <1>3
<1>6. ASSUME NEW q \in Done, NEW r \in Done, Tab(q) = Tab(r) PROVE q = r
  <2>1. q \in Nat /\ r \in Nat /\ (q < r \/ r < q \/ q = r)
    BY <1>3
  <2>2. Tab(q) \in Nat /\ Tab(r) \in Nat
    BY <1>5
  <2>3. ~(q < r)
    BY <1>4, <1>6, <2>2
  <2>4. ~(r < q)
    BY <1>4, <1>6, <2>2
  <2> QED BY <2>1, <2>3, <2>4
<1> QED BY <1>2, <1>5, <1>6

\* The table that names are declared in and looked up in.
LEMMA TableHere ==
  ASSUME TypeOK, TableInv, NameInv, pos <= Len(program), Line.op \notin Closing
  PROVE  LET R == RepeatsIn(Blocks(pos))
         IN /\ table = TableOf(R) /\ table \in DOMAIN tables /\ R \subseteq Done
            /\ Around(table) = TabsOf(R) /\ 1 \notin Around(table) /\ 2 \in Around(table)
            /\ \A r \in Done : Tab(r) \in Around(table) => r \in Blocks(pos)
            /\ \A name : name # <<>> => Finds(table, name, pos)
<1> DEFINE R == RepeatsIn(Blocks(pos))
<1>1. pos - 1 \in Nat /\ pos - 1 + 1 = pos /\ program[pos] = Line /\ pos \in Nat
  BY ProgramFacts DEF TypeOK, Line
<1>2. Blocks(pos) = Standing(pos - 1)
  <2> PICK p \in Nat : p = pos - 1 /\ pos = p + 1
    BY <1>1
  <2> QED BY <1>1, StandingNext
<1>3. table = TableOf(R) /\ table \in DOMAIN tables
  BY <1>2, TabFacts DEF TableInv, TypeOK
<1>4. pos \in 1..pos
  BY ProgramFacts DEF TypeOK
<1>5. Around(TableOf(R)) = TabsOf(R) /\ R \subseteq Done
  <2>1. Blocks(pos) \subseteq 1..pos - 1
    BY <1>1, BlocksAreStanding
  <2>2. R \subseteq Done
    BY <2>1 DEF RepeatsIn, Done
  <2>3. <<1>> # <<>>
    OBVIOUS
  <2> QED BY <1>4, <2>2, <2>3, HoldsIs
<1> HIDE DEF R
<1>6. 1 \notin TabsOf(R) /\ 2 \in TabsOf(R)
  BY <1>5, TabFacts DEF TabsOf
<1>7. ASSUME NEW r \in Done, Tab(r) \in TabsOf(R) PROVE r \in Blocks(pos)
  <2>1. Tab(r) # 2
    BY TabFacts
  <2>2. PICK q \in R : Tab(q) = Tab(r)
    BY <1>7, <2>1 DEF TabsOf
  <2>3. r \in R
    BY <1>5, <2>2, TabFacts
  <2> QED BY <2>3 DEF R, RepeatsIn
<1>8. \A name : name # <<>> => Finds(table, name, pos)
  BY <1>3, <1>4, FindIs DEF R
<1> QED BY <1>3, <1>5, <1>6, <1>7, <1>8 DEF R

\* What a step does to the symbols.
IsType(type) ==
  /\ type \in DeclaredAs \ {"variable"} /\ (IsConstant(pos) <=> type \in {"constant", "conditional constant"})
  /\ type \in {"label", "constant"} => CondAt(pos) = {}
Unnamed == Line.op \notin Declaring \cup {"repeat"} /\ symbols' = symbols /\ tables' = tables
Named == Line.op \in Declaring /\ ~LacksGlobal
DeclaresNew ==
  /\ Named /\ (CanAdd(Full) \/ Find(table, Full) = None)
  /\ \E type : IsType(type) /\ symbols' = Append(symbols, Symbol(type, Full, CondAt(pos), pos))
  /\ tables' = WithSymbol(Full, Len(symbols) + 1)
DeclaresMore ==
  LET s == Find(table, Full)
  IN /\ Named /\ s # None /\ symbols[s].type \in {"conditional label", "conditional constant"} /\ IsType(symbols[s].type)
     /\ symbols' = [symbols EXCEPT ![s].entries = @ \cup {Alternative(pos)}]
     /\ tables' = tables
Repeats ==
  /\ Line.op = "repeat" /\ ~(HasVariable /\ Find(table, Line.name) # None) /\ tables' = TopTable
  /\ symbols' = IF HasVariable THEN Append(symbols, Symbol("variable", Line.name, {}, pos)) ELSE symbols
LEMMA NameSteps ==
  ASSUME TypeOK, StackInv, ElseInv, [Next]_vars, Advance
  PROVE  Unnamed \/ DeclaresNew \/ DeclaresMore \/ Repeats
<1>1. (\A why : ~Reject(why)) /\ pos' # pos /\ pos <= Len(program) /\ program[pos] = Line
  <2>1. pos' # pos
    BY StepNumbers DEF Advance
  <2>2. pos <= Len(program)
    BY ProgramFacts DEF Advance, TypeOK, LineNumbers
  <2> QED BY <2>1, <2>2 DEF Reject, Line
<1>2. ~(UNCHANGED vars \/ Finished \/ Close \/ RejectLine)
  BY <1>1 DEF vars, Finished, Close, RejectLine
<1>3. CASE Section \/ If \/ Else \/ EndIf \/ EndRepeat \/ File \/ AddUse
  BY <1>1, <1>3 DEF Section, If, Else, EndIf, EndRepeat, File, AddUse, At, Unnamed, Declaring
<1>4. CASE Repeat
  BY <1>1, <1>4 DEF Repeat, Repeats, At
<1>5. ASSUME NEW type \in {"label", "constant"}, Declare(type), Line.op \in Declaring, ~LacksGlobal,
             type = "constant" <=> Line.op \in {"equ", "equhere"}
      PROVE  DeclaresNew \/ DeclaresMore
  <2>1. IsConstant(pos) <=> type = "constant"
    BY <1>1, <1>5 DEF IsConstant
  <2>2. CASE Top.kind = "if"
    <3>1. Condition = CondAt(pos)
      BY <1>1, <1>5, <2>2, ConditionIs
    <3>2. IsType(Conditional(type)) /\ Conditional(type) \in {"conditional label", "conditional constant"}
      BY <1>5, <2>1 DEF IsType, Conditional, DeclaredAs
    <3>3. CASE DeclareFirst(Conditional(type))
      BY <1>5, <3>1, <3>2, <3>3 DEF DeclareFirst, DeclaresNew, Named
    <3>4. CASE DeclareAgain(Conditional(type))
      BY <1>5, <3>1, <3>2, <3>4 DEF DeclareAgain, DeclaresMore, Named, Alternative
    <3> QED BY <1>5, <2>2, <3>3, <3>4 DEF Declare
  <2>3. CASE Top.kind # "if"
    <3>1. CondAt(pos) = {}
      BY <1>1, <1>5, <2>3, ConditionIs
    <3>2. IsType(type)
      BY <1>5, <2>1, <3>1 DEF IsType, DeclaredAs
    <3> QED BY <1>5, <2>3, <3>1, <3>2 DEF Declare, DeclarePlain, DeclaresNew, Named
  <2> QED BY <2>2, <2>3
<1>6. CASE AddLabel
  <2>1. Declare("label") /\ Line.op \in {"global", "label"} /\ ~LacksGlobal
    BY <1>6 DEF AddLabel, At
  <2> QED BY <1>5, <2>1 DEF Declaring
<1>7. CASE AddConstant
  <2>1. Declare("constant") /\ Line.op \in {"equ", "equhere"} /\ ~LacksGlobal
    BY <1>7 DEF AddConstant, At
  <2> QED BY <1>5, <2>1 DEF Declaring
<1> QED BY <1>2, <1>3, <1>4, <1>6, <1>7 DEF Next

\* A line without a name of its own.
LEMMA NameUnnamed ==
  ASSUME TypeOK, TableInv, NameInv, Advance, Unnamed
  PROVE  NameInv'
<1> DEFINE none == Len(symbols) + 1
<1>1. symbols' = symbols /\ tables' = tables /\ Line.op \notin Declaring /\ Line.op # "repeat"
  BY DEF Unnamed
<1>2. none \notin DOMAIN symbols
  BY LenProperties DEF TypeOK
<1> HIDE DEF none
<1>3. \A name : Declarations(name, pos) = Declarations(name, pos - 1)
  BY <1>1, DeclarationsNext
<1>4. \A e \in tables[2].entries : e[2] # none
  BY <1>2, TabFacts DEF NameInv
<1>5. \A t \in DOMAIN tables : \A e \in tables[t].entries : e[2] \in DOMAIN symbols /\ symbols[e[2]].name = e[1]
  BY DEF NameInv
<1> QED BY <1>1, <1>2, <1>3, <1>4, NamesGrow

\* The first declaration of a name.
LEMMA NameNew ==
  ASSUME TypeOK, PrefixInv, TableInv, NameInv, Advance, DeclaresNew
  PROVE  NameInv'
<1>0. PICK id, new : id = Len(symbols) + 1 /\ new = <<Full, id>>
  OBVIOUS
<1>1. /\ Line.op \in Declaring /\ Line.op \notin Closing /\ Line.op # "repeat" /\ ~LacksGlobal /\ pos <= Len(program)
      /\ program[pos] = Line
  BY StepNumbers, ProgramFacts DEF DeclaresNew, Named, Declaring, Closing, TypeOK, Advance, LineNumbers
<1>2. Full = FullName(pos) /\ Full \in Names /\ Full # <<>>
  BY <1>1, FullIs DEF Declaring
<1>3. symbols \in Seq(SymbolType) /\ Len(symbols) \in Nat /\ DOMAIN symbols = 1..Len(symbols) /\ id \in Nat /\ id \notin DOMAIN symbols
  BY <1>0, LenProperties DEF TypeOK
<1>4. PICK type : IsType(type) /\ symbols' = Append(symbols, Symbol(type, Full, CondAt(pos), pos))
  BY DEF DeclaresNew
<1> DEFINE symbol == Symbol(type, Full, CondAt(pos), pos)
<1>5. symbol.type = type /\ symbol.name = Full /\ symbol.entries = {Alternative(pos)}
  BY DEF Symbol, Alternative
<1> HIDE DEF symbol
<1>6. /\ \A s \in DOMAIN symbols : s \in DOMAIN symbols' /\ symbols'[s] = symbols[s]
      /\ id \in DOMAIN symbols' /\ symbols'[id] = symbol
  <2>1. symbols' = Append(symbols, symbol)
    BY <1>4 DEF symbol
  <2> QED BY <1>0, <1>3, <2>1
<1>7. /\ DOMAIN tables' = DOMAIN tables
      /\ \A t \in DOMAIN tables : tables'[t].entries = IF t \in Around(table) THEN tables[t].entries \cup {new} ELSE tables[t].entries
  <2>1. tables' = WithSymbol(Full, id)
    BY <1>0 DEF DeclaresNew
  <2>2. DOMAIN tables' = DOMAIN tables
    BY <2>1 DEF WithSymbol
  <2> QED BY <1>0, <1>2, <1>3, <2>1, <2>2, WithSymbolIs
<1>8. /\ 1 \notin Around(table) /\ 2 \in Around(table) /\ Finds(table, Full, pos)
      /\ \A r \in Done : Tab(r) \in Around(table) => r \in Blocks(pos)
  BY <1>1, <1>2, TableHere
<1>9. None \notin DOMAIN symbols
  <2>1. None \notin Nat
    BY AssemblerAssumption, Zenon
  <2>2. \A s \in DOMAIN symbols : s \in Nat
    BY <1>3
  <2> QED BY <2>1, <2>2
<1>10. Variables(Full, pos) = {} /\ Declarations(Full, pos - 1) = {}
  <2>1. CASE CanAdd(Full)
    BY <1>8, <2>1 DEF Finds, CanAdd
  <2>2. CASE Find(table, Full) = None
    BY <1>8, <1>9, <2>2 DEF Finds
  <2> QED BY <2>1, <2>2 DEF DeclaresNew
<1>11. new[1] = Full /\ new[2] = id
  BY <1>0
<1>12. 1 \in DOMAIN tables /\ 2 \in DOMAIN tables /\ \A r \in Done : Tab(r) \in DOMAIN tables
  BY TabFacts
<1>13. \A e \in tables[2].entries : e[1] # Full /\ e[2] # id
  <2>1. \A e \in tables[2].entries : Declarations(e[1], pos - 1) # {}
    BY DEF NameInv, IsSymbol
  <2> QED BY <1>3, <1>10, <1>12, <2>1 DEF NameInv
<1>14. /\ Declarations(Full, pos) = {pos}
       /\ \A name : name # Full => Declarations(name, pos) = Declarations(name, pos - 1)
  BY <1>1, <1>2, <1>10, DeclarationsNext
<1>15. \A all : all = {pos} => IsSymbol(id, all)'
  <2>1. program' = program
    BY DEF Advance
  <2>2. /\ \A d : Alternative(d)' = Alternative(d) /\ (IsConstant(d)' <=> IsConstant(d)) /\ CondAt(d)' = CondAt(d)
    BY <2>1, SameNames
  <2> TAKE all
  <2> HAVE all = {pos}
  <2>3. symbols'[id].type = type /\ symbols'[id].entries = {Alternative(pos)} /\ type # "variable"
    BY <1>4, <1>5, <1>6 DEF IsType
  <2>4. \A d \in all : d = pos
    OBVIOUS
  <2>5. symbols'[id].entries = {Alternative(d) : d \in all}
    BY <2>3
  <2>6. {Alternative(d) : d \in all}' = {Alternative(d) : d \in all}
    BY <2>2
  <2>7. all # {}
    OBVIOUS
  <2>8. (symbols[id].entries = {Alternative(d) : d \in all})'
    BY <2>5, <2>6
  <2>9. (\A d \in all : IsConstant(d) <=> symbols[id].type \in {"constant", "conditional constant"})'
    BY <1>4, <2>2, <2>3, <2>4 DEF IsType
  <2>10. (symbols[id].type \in {"label", "constant"} => \A d \in all : CondAt(d) = {})'
    BY <1>4, <2>2, <2>3, <2>4 DEF IsType
  <2>11. (all # {} /\ symbols[id].type # "variable")'
    BY <2>3, <2>7
  <2> QED BY <2>8, <2>9, <2>10, <2>11 DEF IsSymbol
<1>16. \A t \in DOMAIN tables' : \A e \in tables'[t].entries :
         (t \in DOMAIN tables /\ e \in tables[t].entries) \/ (e[2] \in DOMAIN symbols' /\ symbols'[e[2]].name = e[1])
  <2>1. new[2] \in DOMAIN symbols' /\ symbols'[new[2]].name = new[1]
    BY <1>5, <1>6, <1>11
  <2>2. \A t \in DOMAIN tables' : \A e \in tables'[t].entries : t \in DOMAIN tables /\ (e \in tables[t].entries \/ e = new)
    BY <1>7
  <2> QED BY <2>1, <2>2
<1>17. /\ tables'[1].entries = tables[1].entries /\ tables'[2].entries = tables[2].entries \cup {new}
       /\ \A t \in DOMAIN tables : tables[t].entries \subseteq tables'[t].entries
  BY <1>7, <1>8, <1>12
<1>18. \A e \in tables'[2].entries :
         \/ e \in tables[2].entries /\ e[2] # id /\ Declarations(e[1], pos) = Declarations(e[1], pos - 1)
         \/ /\ \A all : all = Declarations(e[1], pos) => IsSymbol(e[2], all)'
            /\ \A f \in tables'[2].entries : f[1] = e[1] => f = e
  <2> TAKE e \in tables'[2].entries
  <2>1. CASE e \in tables[2].entries
    BY <1>13, <1>14, <2>1
  <2>2. CASE e = new
    <3>1. \A f \in tables'[2].entries : f[1] = e[1] => f = e
      BY <1>11, <1>13, <1>17, <2>2
    <3> QED BY <1>11, <1>14, <1>15, <2>2, <3>1
  <2> QED BY <1>17, <2>1, <2>2
<1>19. \E e \in tables'[2].entries : e[1] = FullName(pos)
  BY <1>2, <1>11, <1>17
<1>20. \A r \in Done : \A e \in tables'[Tab(r)].entries :
         e \in tables[Tab(r)].entries \/ (e \in tables'[2].entries /\ \E d \in Declarations(e[1], pos) : r \in Blocks(d))
  <2> TAKE r \in Done
  <2> TAKE e \in tables'[Tab(r)].entries
  <2>1. e \in tables[Tab(r)].entries \/ (e = new /\ Tab(r) \in Around(table))
    BY <1>7, <1>12
  <2>2. ASSUME e = new, Tab(r) \in Around(table) PROVE e \in tables'[2].entries /\ \E d \in Declarations(e[1], pos) : r \in Blocks(d)
    BY <1>8, <1>11, <1>14, <1>17, <2>2
  <2> QED BY <2>1, <2>2
<1>21. \A r \in Done : r \in Blocks(pos) /\ program[r].name # <<>> => FullName(pos) # program[r].name
  BY <1>2, <1>10 DEF Variables, Done
<1>22. /\ \A s \in DOMAIN symbols : s \in DOMAIN symbols' /\ symbols'[s].name = symbols[s].name
       /\ \A s \in DOMAIN symbols : s # id => symbols'[s] = symbols[s]
  BY <1>6
<1> QED BY <1>1, <1>3, <1>16, <1>17, <1>18, <1>19, <1>20, <1>21, <1>22, NamesGrow

\* One more declaration of a name, in an #if.
LEMMA NameMore ==
  ASSUME TypeOK, PrefixInv, TableInv, NameInv, Advance, DeclaresMore
  PROVE  NameInv'
<1>1. /\ Line.op \in Declaring /\ Line.op \notin Closing /\ Line.op # "repeat" /\ ~LacksGlobal /\ pos <= Len(program)
      /\ program[pos] = Line /\ tables' = tables
  <2>1. Named /\ tables' = tables
    BY Zenon DEF DeclaresMore
  <2>2. pos <= Len(program) /\ program[pos] = Line
    BY StepNumbers, ProgramFacts DEF TypeOK, Advance, LineNumbers
  <2> QED BY <2>1, <2>2 DEF Named, Declaring, Closing
<1>2. Full = FullName(pos) /\ Full \in Names /\ Full # <<>>
  BY <1>1, FullIs DEF Declaring
<1>3. PICK s : s = Find(table, Full)
  OBVIOUS
<1>4. /\ s # None /\ symbols[s].type \in {"conditional label", "conditional constant"} /\ IsType(symbols[s].type)
      /\ symbols' = [symbols EXCEPT ![s].entries = @ \cup {Alternative(pos)}]
  BY <1>3 DEF DeclaresMore
<1>5. Finds(table, Full, pos)
  BY <1>1, <1>2, TableHere
<1>6. Variables(Full, pos) = {}
  BY <1>3, <1>4, <1>5 DEF Finds
<1>7. Declarations(Full, pos - 1) # {}
  BY <1>3, <1>4, <1>5, <1>6 DEF Finds
<1>8. PICK one \in tables[2].entries : one[1] = Full /\ one[2] = s /\ s \in DOMAIN symbols
  BY <1>3, <1>5, <1>6, <1>7 DEF Finds
<1>9. 2 \in DOMAIN tables /\ 1 \in DOMAIN tables
  BY TabFacts
<1>10. symbols[s].name = Full /\ IsSymbol(s, Declarations(Full, pos - 1)) /\ \A f \in tables[2].entries : f[1] = Full => f = one
  BY <1>8, <1>9 DEF NameInv
<1>11. /\ DOMAIN symbols' = DOMAIN symbols /\ symbols'[s].name = symbols[s].name /\ symbols'[s].type = symbols[s].type
       /\ symbols'[s].entries = symbols[s].entries \cup {Alternative(pos)}
       /\ \A o \in DOMAIN symbols : o # s => symbols'[o] = symbols[o]
  <2>1. symbols[s] \in SymbolType
    BY <1>8 DEF TypeOK
  <2>2. \A x : [symbols[s] EXCEPT !.entries = x].name = symbols[s].name /\ [symbols[s] EXCEPT !.entries = x].type = symbols[s].type
               /\ [symbols[s] EXCEPT !.entries = x].entries = x
    BY <2>1 DEF SymbolType
  <2>3. symbols' = [symbols EXCEPT ![s] = [symbols[s] EXCEPT !.entries = symbols[s].entries \cup {Alternative(pos)}]]
    BY <1>4
  <2> DEFINE new == [symbols[s] EXCEPT !.entries = symbols[s].entries \cup {Alternative(pos)}]
  <2>4. new.name = symbols[s].name /\ new.type = symbols[s].type /\ new.entries = symbols[s].entries \cup {Alternative(pos)}
    BY <2>2
  <2>5. symbols' = [symbols EXCEPT ![s] = new]
    BY <2>3
  <2> HIDE DEF new
  <2>6. DOMAIN symbols' = DOMAIN symbols /\ symbols'[s] = new /\ \A o \in DOMAIN symbols : o # s => symbols'[o] = symbols[o]
    BY <1>8, <2>5
  <2> QED BY <2>4, <2>6
<1>12. /\ Declarations(Full, pos) = Declarations(Full, pos - 1) \cup {pos}
       /\ \A name : name # Full => Declarations(name, pos) = Declarations(name, pos - 1)
  BY <1>1, <1>2, DeclarationsNext
<1>13. \A all : all = Declarations(Full, pos) => IsSymbol(s, all)'
  <2> TAKE all
  <2> HAVE all = Declarations(Full, pos)
  <2> DEFINE before == Declarations(Full, pos - 1)
  <2>1. all = before \cup {pos}
    BY <1>12
  <2> HIDE DEF before
  <2>2. \A d : Alternative(d)' = Alternative(d) /\ (IsConstant(d)' <=> IsConstant(d))
    BY SameNames DEF Advance
  <2>3. symbols[s].entries = {Alternative(d) : d \in before} /\ \A d \in before : IsConstant(d) <=> symbols[s].type \in {"constant", "conditional constant"}
    BY <1>10 DEF IsSymbol, before
  <2>4. symbols'[s].entries = {Alternative(d) : d \in all}
    BY <1>11, <2>1, <2>3
  <2>5. {Alternative(d) : d \in all}' = {Alternative(d) : d \in all}
    BY <2>2
  <2>6. all # {} /\ symbols'[s].type \notin {"variable", "label", "constant"}
    BY <1>4, <1>11, <2>1
  <2>7. \A d \in all : IsConstant(d) <=> symbols'[s].type \in {"constant", "conditional constant"}
    BY <1>4, <1>11, <2>1, <2>3 DEF IsType
  <2>8. (symbols[s].entries = {Alternative(d) : d \in all})'
    BY <2>4, <2>5
  <2>9. (\A d \in all : IsConstant(d) <=> symbols[s].type \in {"constant", "conditional constant"})'
    BY <2>2, <2>7
  <2>10. (symbols[s].type \in {"label", "constant"} => \A d \in all : CondAt(d) = {})'
    BY <2>6
  <2>11. (all # {} /\ symbols[s].type # "variable")'
    BY <2>6
  <2> QED BY <2>8, <2>9, <2>10, <2>11 DEF IsSymbol
<1>14. \A e \in tables[2].entries : e[1] # Full => e[2] # s
  BY <1>9, <1>10 DEF NameInv
<1>15. \A e \in tables'[2].entries :
         \/ e \in tables[2].entries /\ e[2] # s /\ Declarations(e[1], pos) = Declarations(e[1], pos - 1)
         \/ /\ \A all : all = Declarations(e[1], pos) => IsSymbol(e[2], all)'
            /\ \A f \in tables'[2].entries : f[1] = e[1] => f = e
  <2> TAKE e \in tables'[2].entries
  <2>1. CASE e[1] # Full
    BY <1>1, <1>12, <1>14, <2>1
  <2>2. CASE e[1] = Full
    <3>1. e = one /\ \A f \in tables'[2].entries : f[1] = e[1] => f = e
      BY <1>1, <1>10, <2>2
    <3> QED BY <1>8, <1>13, <3>1
  <2> QED BY <2>1, <2>2
<1>16. \A r \in Done : r \in Blocks(pos) /\ program[r].name # <<>> => FullName(pos) # program[r].name
  BY <1>2, <1>6 DEF Variables, Done
<1>17. \A t \in DOMAIN tables' : \A e \in tables'[t].entries : t \in DOMAIN tables /\ e \in tables[t].entries
  BY <1>1
<1>18. \E e \in tables'[2].entries : e[1] = FullName(pos)
  BY <1>1, <1>2, <1>8
<1>19. /\ \A o \in DOMAIN symbols : o \in DOMAIN symbols' /\ symbols'[o].name = symbols[o].name
       /\ symbols[s].type \notin {"constant", "variable"}
  BY <1>4, <1>11
<1> QED BY <1>1, <1>11, <1>15, <1>16, <1>17, <1>18, <1>19, NamesGrow

\* A #repeat, whose variable is a name in its own table only.
LEMMA NameRepeat ==
  ASSUME TypeOK, PrefixInv, TableInv, NameInv, Advance, Repeats
  PROVE  NameInv'
<1>0. PICK id, name : id = Len(symbols) + 1 /\ name = Line.name
  OBVIOUS
<1>1. /\ Line.op = "repeat" /\ Line.op \notin Declaring /\ Line.op \notin Closing /\ pos <= Len(program)
      /\ program[pos] = Line /\ pos \in Nat /\ program' = program /\ pos' - 1 = pos
  BY StepNumbers, ProgramFacts DEF Repeats, Declaring, Closing, TypeOK, Advance, LineNumbers
<1>2. FullName(pos) = name
  BY <1>0, <1>1, FullIs
<1>3. symbols \in Seq(SymbolType) /\ Len(symbols) \in Nat /\ DOMAIN symbols = 1..Len(symbols) /\ id \in Nat /\ id \notin DOMAIN symbols
  BY <1>0, LenProperties DEF TypeOK
<1>4. name # <<>> => Variables(name, pos) = {}
  <2>1. name # <<>> => Finds(table, name, pos) /\ Find(table, name) = None
    BY <1>0, <1>1, TableHere DEF Repeats, HasVariable
  <2>2. None \notin Nat
    BY AssemblerAssumption, Zenon
  <2>3. \A s \in DOMAIN symbols : s \in Nat
    BY <1>3
  <2>4. None \notin DOMAIN symbols
    BY <2>2, <2>3
  <2> QED BY <2>1, <2>4 DEF Finds
<1>5. /\ \A s \in DOMAIN symbols : s \in DOMAIN symbols' /\ symbols'[s] = symbols[s]
      /\ name # <<>> => /\ id \in DOMAIN symbols' /\ symbols'[id].name = name /\ symbols'[id].type = "variable"
                        /\ symbols'[id].entries = {[cond |-> {}, def |-> pos]}
  <2> DEFINE symbol == Symbol("variable", name, {}, pos)
  <2>1. symbols' = IF name # <<>> THEN Append(symbols, symbol) ELSE symbols
    BY <1>0 DEF Repeats, HasVariable
  <2>2. symbol.name = name /\ symbol.type = "variable" /\ symbol.entries = {[cond |-> {}, def |-> pos]}
    BY DEF Symbol
  <2> HIDE DEF symbol
  <2> QED BY <1>0, <1>3, <2>1, <2>2
<1>6. PICK own : own = IF name # <<>> THEN {<<name, id>>} ELSE {}
  OBVIOUS
<1>7. /\ DOMAIN tables' = DOMAIN tables \cup {Tab(pos)} /\ \A t \in DOMAIN tables : tables'[t] = tables[t]
      /\ tables'[Tab(pos)].entries = own /\ Tab(pos) \notin DOMAIN tables
  <2> DEFINE new == [parent |-> table, entries |-> own]
  <2>1. tables' = Append(tables, new)
    BY <1>0, <1>6 DEF Repeats, TopTable, HasVariable
  <2>2. new.entries = own
    OBVIOUS
  <2> HIDE DEF new
  <2>3. Tab(pos) = Len(tables) + 1
    <3>1. pos - 1 \in Nat /\ pos - 1 + 1 = pos
      BY StepNumbers
    <3>2. OpsIn({"repeat"}, 1, pos) = OpsIn({"repeat"}, 1, pos - 1) + 1 /\ OpsIn({"repeat"}, 1, pos - 1) \in Nat
      <4> PICK p \in Nat : p = pos - 1 /\ pos = p + 1
        BY <3>1
      <4>1. 1 \in Nat /\ 1 <= p + 1 /\ program[p + 1].op \in {"repeat"}
        BY <1>1
      <4> QED BY <4>1, CountFacts
    <3> QED BY <3>2 DEF Tab, TableInv
  <2>4. tables \in Seq(TableType) /\ Len(tables) \in Nat /\ DOMAIN tables = 1..Len(tables)
    BY LenProperties DEF TypeOK
  <2>5. tables' \in Seq(TableType \cup {new}) /\ Len(tables') = Len(tables) + 1 /\ tables'[Len(tables) + 1] = new
        /\ \A t \in 1..Len(tables) : tables'[t] = tables[t]
    BY <2>1, <2>4
  <2>6. DOMAIN tables' = 1..Len(tables) + 1
    BY <2>4, <2>5
  <2> QED BY <2>2, <2>3, <2>4, <2>5, <2>6
<1>8. /\ 1 \in DOMAIN tables /\ 2 \in DOMAIN tables /\ \A r \in Done : Tab(r) \in DOMAIN tables
  BY TabFacts
<1>9. \A n : Declarations(n, pos) = Declarations(n, pos - 1)
  BY <1>1, DeclarationsNext
<1>10. \A e \in tables[2].entries : e[2] # id
  BY <1>3, <1>8 DEF NameInv
<1>11. \A t \in DOMAIN tables' : \A e \in tables'[t].entries :
         (t \in DOMAIN tables /\ e \in tables[t].entries) \/ (e[2] \in DOMAIN symbols' /\ symbols'[e[2]].name = e[1])
  BY <1>5, <1>6, <1>7
<1>12. \A r \in Done : r \in Blocks(pos) /\ program[r].name # <<>> => FullName(pos) # program[r].name
  BY <1>2, <1>4 DEF Variables, Done
<1>13. \A r : r = pos => RepeatHolds(r)'
  <2> TAKE r
  <2> HAVE r = pos
  <2>1. Tab(r)' = Tab(r)
    BY <1>1, SameTabs
  <2>2. \A e \in own : program[r].name # <<>> /\ e[1] = program[r].name /\ symbols'[e[2]].type = "variable" /\ symbols'[e[2]].entries = {[cond |-> {}, def |-> r]}
    BY <1>0, <1>1, <1>5, <1>6
  <2>3. \A e \in own : IsVariable(e, r)'
    BY <1>1, <2>2 DEF IsVariable
  <2>4. tables'[Tab(r)].entries = own
    BY <1>7
  <2>5. program[r].name # <<>> => <<name, id>> \in own
    BY <1>0, <1>1, <1>6
  <2>6. \A d \in 1..pos : r \notin Blocks(d)
    <3> TAKE d \in 1..pos
    <3>1. Blocks(d) \subseteq 1..d - 1 /\ d \in Nat /\ d <= pos
      BY <1>1, BlocksAreStanding
    <3>2. \A b \in 1..d - 1 : b < d
      BY <3>1
    <3> QED BY <1>1, <3>1, <3>2
  <2>7. \A d : Blocks(d)' = Blocks(d)
    BY <1>1, SameText
  <2>8. (\A e \in tables[Tab(r)].entries : IsVariable(e, r))'
    BY <2>1, <2>3, <2>4
  <2>9. (program[r].name # <<>> => \E e \in tables[Tab(r)].entries : IsVariable(e, r))'
    BY <1>1, <2>1, <2>3, <2>4, <2>5
  <2>10. (\A d \in 1..pos - 1 : r \notin Blocks(d))'
    BY <1>1, <2>6, <2>7
  <2> QED BY <2>8, <2>9, <2>10 DEF RepeatHolds
<1>14. \A s \in DOMAIN symbols : s \in DOMAIN symbols' /\ symbols'[s].name = symbols[s].name
  BY <1>5
<1>15. \A e \in tables'[2].entries : e \in tables[2].entries /\ e[2] # id /\ Declarations(e[1], pos) = Declarations(e[1], pos - 1)
  BY <1>7, <1>8, <1>9, <1>10
<1>16. /\ tables'[1].entries = tables[1].entries /\ \A t \in DOMAIN tables : tables[t].entries \subseteq tables'[t].entries
       /\ \A r \in Done : \A e \in tables'[Tab(r)].entries : e \in tables[Tab(r)].entries
  BY <1>7, <1>8
<1> QED BY <1>1, <1>3, <1>5, <1>11, <1>12, <1>13, <1>14, <1>15, <1>16, NamesGrow

LEMMA NameNext ==
  ASSUME TypeOK, StackInv, ElseInv, PrefixInv, TableInv, NameInv, [Next]_vars, Advance \/ Stands
  PROVE  NameInv'
<1>1. CASE Advance
  BY <1>1, NameSteps, NameUnnamed, NameNew, NameMore, NameRepeat
<1>2. CASE Stands
  <2>1. program' = program /\ pos' = pos /\ tables' = tables /\ symbols' = symbols
    BY <1>2 DEF Stands, parserVars
  <2>2. /\ \A name, l : Declarations(name, l)' = Declarations(name, l)
        /\ \A l : FullName(l)' = FullName(l) /\ Blocks(l)' = Blocks(l)
        /\ \A r : Tab(r)' = Tab(r)
    BY <2>1, SameNames, SameText, SameTabs
  <2>3. \A s, all : IsSymbol(s, all) => IsSymbol(s, all)'
    <3> TAKE s, all
    <3>0. <<0, s>>[2] = s
      OBVIOUS
    <3> PICK e : e[2] = s
      BY <3>0
    <3>1. IsSymbol(e[2], all) => IsSymbol(e[2], all)'
      BY <2>1, SymbolKept
    <3> QED BY <3>1
  <2>4. \A e : (\A r : IsVariable(e, r) => IsVariable(e, r)') /\ (IsProjects(e) => IsProjects(e)')
    <3> TAKE e
    <3> QED BY <2>1, SymbolKept
  <2>5. Done' = Done
    BY <2>1 DEF Done
  <2>6. (\A t \in DOMAIN tables : \A e \in tables[t].entries : e[2] \in DOMAIN symbols /\ symbols[e[2]].name = e[1])'
    BY <2>1 DEF NameInv
  <2>7. (\A e \in tables[1].entries : IsProjects(e))' /\ (\A n \in ProjectVariables : \E e \in tables[1].entries : e[1] = n)'
    BY <2>1, <2>4 DEF NameInv
  <2>8. (\A e \in tables[2].entries : \A f \in tables[2].entries : f[1] = e[1] => f = e)'
    BY <2>1 DEF NameInv
  <2>9. (\A e \in tables[2].entries : IsSymbol(e[2], Declarations(e[1], pos - 1)))'
    <3>1. \A e \in tables[2].entries : \A all : all = Declarations(e[1], pos - 1) => IsSymbol(e[2], all)'
      BY <2>3 DEF NameInv
    <3>2. (\A e \in tables[2].entries : \A all : all = Declarations(e[1], pos - 1) => IsSymbol(e[2], all))'
      BY <2>1, <2>2, <3>1
    <3> QED BY <3>2
  <2>10. (\A d \in 1..pos - 1 : program[d].op \in Declaring => \E e \in tables[2].entries : e[1] = FullName(d))'
    BY <2>1, <2>2 DEF NameInv
  <2>11. ASSUME NEW r \in Done PROVE RepeatHolds(r)'
    <3>1. RepeatHolds(r)
      BY DEF NameInv
    <3>2. (\A e \in tables[Tab(r)].entries :
             (e \in tables[2].entries /\ \E d \in Declarations(e[1], pos - 1) : r \in Blocks(d)) \/ IsVariable(e, r))'
      BY <2>1, <2>2, <2>4, <3>1 DEF RepeatHolds
    <3>3. (program[r].name # <<>> => \E e \in tables[Tab(r)].entries : IsVariable(e, r))'
      BY <2>1, <2>2, <2>4, <3>1 DEF RepeatHolds
    <3>4. (program[r].name # <<>> =>
             \A d \in 1..pos - 1 : program[d].op \in Declaring \cup {"repeat"} /\ r \in Blocks(d) => FullName(d) # program[r].name)'
      BY <2>1, <2>2, <3>1 DEF RepeatHolds
    <3> QED BY <3>2, <3>3, <3>4 DEF RepeatHolds
  <2>12. (\A r \in Done : RepeatHolds(r))'
    <3>1. \A r \in Done' : RepeatHolds(r)'
      BY <2>5, <2>11
    <3> QED BY <3>1
  <2> QED BY <2>6, <2>7, <2>8, <2>9, <2>10, <2>12 DEF NameInv
<1> QED BY <1>1, <1>2

LEMMA SymbolsTyped ==
  ASSUME TypeOK, StackInv, ElseInv, PrefixInv, [Next]_vars, Advance
  PROVE  symbols' \in Seq(SymbolType)
<1>1. symbols \in Seq(SymbolType) /\ pos \in 0..Len(program) /\ pos <= Len(program)
  BY StepNumbers, ProgramFacts DEF TypeOK, Advance, LineNumbers
<1>2. \A type \in DeclaredAs, name \in Names, cond \in SUBSET (Conditions \X BOOLEAN) :
        Symbol(type, name, cond, pos) \in SymbolType /\ Append(symbols, Symbol(type, name, cond, pos)) \in Seq(SymbolType)
  <2> TAKE type \in DeclaredAs, name \in Names, cond \in SUBSET (Conditions \X BOOLEAN)
  <2>1. Symbol(type, name, cond, pos) \in SymbolType
    BY <1>1 DEF Symbol, SymbolType
  <2> QED BY <1>1, <2>1
<1>3. CASE Unnamed
  BY <1>1, <1>3 DEF Unnamed
<1>4. CASE DeclaresNew
  <2>1. CondAt(pos) \in SUBSET (Conditions \X BOOLEAN) /\ Full \in Names
    BY <1>1, <1>4, ConditionIs, FullIs DEF DeclaresNew, Named
  <2>2. \A type : IsType(type) => type \in DeclaredAs
    BY DEF IsType
  <2> QED BY <1>2, <1>4, <2>1, <2>2 DEF DeclaresNew
<1>5. CASE DeclaresMore
  <2>1. PICK s : symbols' = [symbols EXCEPT ![s].entries = @ \cup {Alternative(pos)}]
    BY <1>5, Zenon DEF DeclaresMore
  <2>2. CondAt(pos) \in SUBSET (Conditions \X BOOLEAN)
    <3>1. Line.op \in Declaring
      BY <1>5, Zenon DEF DeclaresMore, Named
    <3> QED BY <1>1, <3>1, ConditionIs
  <2>3. {Alternative(pos)} \in SUBSET [cond : SUBSET (Conditions \X BOOLEAN), def : 0..Len(program)]
    BY <1>1, <2>2 DEF Alternative
  <2> DEFINE new == [symbols[s] EXCEPT !.entries = symbols[s].entries \cup {Alternative(pos)}]
  <2>4. symbols[s] \in SymbolType => new \in SymbolType
    BY <2>3 DEF SymbolType
  <2>5. symbols' = [symbols EXCEPT ![s] = new]
    BY <2>1
  <2> HIDE DEF new
  <2>6. s \in DOMAIN symbols => symbols[s] \in SymbolType
    BY <1>1
  <2>7. CASE s \in DOMAIN symbols
    BY <1>1, <2>4, <2>5, <2>6, <2>7, ExceptSeq, LenProperties
  <2>8. CASE s \notin DOMAIN symbols
    <3>1. symbols = [i \in DOMAIN symbols |-> symbols[i]]
      BY <1>1
    <3>2. symbols' = symbols
      BY <2>5, <2>8, <3>1
    <3> QED BY <1>1, <3>2
  <2> QED BY <2>7, <2>8
<1>6. CASE Repeats
  <2>1. Line.name \in Names /\ "variable" \in DeclaredAs /\ {} \in SUBSET (Conditions \X BOOLEAN)
    BY <1>1, FullIs DEF DeclaredAs
  <2> QED BY <1>1, <1>2, <1>6, <2>1 DEF Repeats
<1> QED BY <1>3, <1>4, <1>5, <1>6, NameSteps

-----------------------------------------------------------------------------
(* A use is of the name of its line, looked up in the table around it.     *)

UseInv ==
  \A u \in uses : /\ u.line \in 1..pos - 1 /\ program[u.line].op = "use"
                  /\ u.name = FullName(u.line) /\ u.name # <<>> /\ u.table = TableOf(RepeatsIn(Blocks(u.line)))

LEMMA UseNext ==
  ASSUME TypeOK, PrefixInv, TableInv, NameInv, UseInv, [Next]_vars, Advance \/ Stands
  PROVE  UseInv' /\ uses' \subseteq UseType'
<1>1. program' = program /\ \A l \in 1..pos - 1 : l \in 1..pos' - 1
  <2>1. CASE Stands
    BY <2>1 DEF Stands
  <2>2. CASE Advance
    <3>1. pos \in Nat /\ pos' - 1 = pos /\ program' = program
      BY <2>2, StepNumbers
    <3> QED BY <3>1
  <2> QED BY <2>1, <2>2
<1>2. /\ \A l : FullName(l)' = FullName(l) /\ Blocks(l)' = Blocks(l)
      /\ \A S : RepeatsIn(S)' = RepeatsIn(S) /\ \A R : TableOf(R)' = TableOf(R)
  BY <1>1, SameNames, SameText, SameTabs
<1>3. \A l : TableOf(RepeatsIn(Blocks(l)))' = TableOf(RepeatsIn(Blocks(l)))
  BY <1>2
<1>4. UseType' = UseType
  BY <1>1 DEF UseType, LineNumbers, Names
<1>5. CASE uses' = uses
  <2>1. \A u \in uses' : /\ u.line \in 1..pos' - 1 /\ program'[u.line].op = "use"
                         /\ u.name = FullName(u.line) /\ u.name # <<>> /\ u.table = TableOf(RepeatsIn(Blocks(u.line)))
    BY <1>1, <1>5 DEF UseInv
  <2>2. UseInv'
    BY <1>2, <1>3, <2>1 DEF UseInv
  <2> QED BY <1>4, <1>5, <2>2 DEF TypeOK
<1>6. CASE AddUse
  <2> DEFINE new == [line |-> pos, name |-> Full, table |-> table]
  <2>1. uses' = uses \cup {new} /\ Line.op = "use" /\ ~LacksGlobal /\ pos <= Len(program) /\ pos' = pos + 1
    BY <1>6 DEF AddUse, At, NextLine
  <2>2. Full = FullName(pos) /\ Full \in Names /\ Full # <<>> /\ program[pos] = Line
    BY <2>1, FullIs DEF Line
  <2>3. table = TableOf(RepeatsIn(Blocks(pos))) /\ table \in Nat
    <3>1. Line.op \notin Closing
      BY <2>1 DEF Closing
    <3> QED BY <2>1, <3>1, TableHere DEF TypeOK
  <2>4. pos \in LineNumbers /\ pos \in 1..pos' - 1
    BY <2>1, ProgramFacts DEF TypeOK, LineNumbers
  <2>5. /\ new \in UseType /\ new.line = pos /\ new.name = Full /\ new.table = table
    BY <2>2, <2>3, <2>4 DEF UseType
  <2> HIDE DEF new
  <2>6. \A u \in uses' : /\ u.line \in 1..pos' - 1 /\ program'[u.line].op = "use"
                         /\ u.name = FullName(u.line) /\ u.name # <<>> /\ u.table = TableOf(RepeatsIn(Blocks(u.line)))
    BY <1>1, <2>1, <2>2, <2>3, <2>4, <2>5 DEF UseInv
  <2>7. UseInv'
    BY <1>2, <1>3, <2>6 DEF UseInv
  <2> QED BY <1>4, <2>1, <2>5, <2>7 DEF TypeOK
<1>7. uses' = uses \/ AddUse
  BY DEF Next, vars, parserVars, Finished, Close, RejectLine, Reject, Section, If, Else, EndIf, EndRepeat, File, Repeat, AddLabel, AddConstant
<1> QED BY <1>5, <1>6, <1>7

-----------------------------------------------------------------------------
(* What is refused is declared twice.                                      *)

\* A declaration counts under the conditions of the #ifs around it.
LEMMA CountedIs ==
  ASSUME NEW d, NEW given
  PROVE  /\ Counted(d, given) <=> \A c \in CondAt(d) : given[c[1]] = c[2]
         /\ CondAt(d) = {} => Counted(d, given)
<1>1. Counted(d, given) <=> \A b \in InnerIfs(d) : given[program[b].name] = ~InElse(b, d)
  BY DEF Counted, InnerIfs, RepeatsIn
<1> DEFINE Pair(b) == <<program[b].name, ~InElse(b, d)>>
<1>2. \A b : Pair(b)[1] = program[b].name /\ Pair(b)[2] = ~InElse(b, d)
  OBVIOUS
<1>3. CondAt(d) = {Pair(b) : b \in InnerIfs(d)}
  BY DEF CondAt
<1> HIDE DEF Pair
<1>4. ASSUME Counted(d, given), NEW c \in CondAt(d) PROVE given[c[1]] = c[2]
  <2>1. PICK b \in InnerIfs(d) : c = Pair(b)
    BY <1>3
  <2>2. given[program[b].name] = ~InElse(b, d)
    BY <1>1, <1>4
  <2>3. c[1] = program[b].name /\ c[2] = ~InElse(b, d)
    BY <1>2, <2>1
  <2> QED BY <2>2, <2>3, Zenon
<1>5. ASSUME \A c \in CondAt(d) : given[c[1]] = c[2] PROVE Counted(d, given)
  <2>1. ASSUME NEW b \in InnerIfs(d) PROVE given[program[b].name] = ~InElse(b, d)
    <3>1. Pair(b) \in CondAt(d)
      BY <1>3
    <3>2. given[Pair(b)[1]] = Pair(b)[2]
      BY <1>5, <3>1
    <3> QED BY <1>2, <3>2, Zenon
  <2> QED BY <1>1, <2>1
<1> QED BY <1>4, <1>5

LEMMA DuplicateMeets ==
  ASSUME TypeOK, StackInv, ElseInv, PrefixInv, TableInv, NameInv, pos <= Len(program), Line.op \in Declaring, ~LacksGlobal,
         NEW type \in {"label", "constant"}, type = "constant" <=> IsConstant(pos), ~CanDeclare(type)
  PROVE  Meets(pos)
<1>1. Line.op \notin Closing /\ program[pos] = Line
  BY DEF Declaring, Closing, Line
<1>2. PICK name, s : name = Full /\ s = Find(table, name)
  OBVIOUS
<1>3. name = FullName(pos) /\ name # <<>>
  BY <1>2, FullIs DEF Declaring
<1>4. Finds(table, name, pos)
  BY <1>1, <1>3, TableHere
<1>5. CASE Variables(name, pos) # {}
  BY <1>3, <1>5 DEF Meets
<1>6. ASSUME NEW d \in Declarations(name, pos - 1), CondAt(d) = {} \/ CondAt(pos) = {} PROVE Meets(pos)
  <2>1. (\A given : Counted(d, given)) \/ (\A given : Counted(pos, given))
    BY <1>6, CountedIs
  <2>2. NeverCounts(d) \/ NeverCounts(pos) \/ \E given \in Valuations : Counted(d, given) /\ Counted(pos, given)
    BY <2>1 DEF NeverCounts
  <2> QED BY <1>3, <2>2 DEF Meets
<1>7. CASE Top.kind # "if" /\ Variables(name, pos) = {}
  <2>1. CondAt(pos) = {}
    BY <1>7, ConditionIs
  <2>2. ~CanAdd(name)
    BY <1>2, <1>7 DEF CanDeclare
  <2>3. Declarations(name, pos - 1) # {}
    BY <1>4, <1>7, <2>2 DEF Finds, CanAdd
  <2> QED BY <1>6, <2>1, <2>3
<1>8. CASE Top.kind = "if" /\ Variables(name, pos) = {}
  <2>1. s # None /\ symbols[s].type # Conditional(type)
    BY <1>2, <1>8 DEF CanDeclare
  <2>2. CASE Declarations(name, pos - 1) = {}
    <3>1. name \in ProjectVariables
      BY <1>2, <1>4, <1>8, <2>1, <2>2 DEF Finds
    <3>2. Blocks(pos) # {}
      <4>1. Blocks(pos) = {LineOf(k) : k \in Inner}
        BY <1>1, InnerIfsAre
      <4>2. Len(contexts) # 1
        BY <1>8 DEF Top, StackInv
      <4>3. Len(contexts) \in Inner
        BY <4>2, ContextFacts DEF Inner
      <4> QED BY <4>1, <4>3
    <3> QED BY <1>3, <3>1, <3>2 DEF Meets
  <2>3. CASE Declarations(name, pos - 1) # {}
    <3>1. PICK e \in tables[2].entries : e[1] = name /\ e[2] = s /\ s \in DOMAIN symbols
      BY <1>2, <1>4, <1>8, <2>3 DEF Finds
    <3>2. IsSymbol(s, Declarations(name, pos - 1))
      BY <3>1 DEF NameInv
    <3>3. symbols[s].type \in DeclaredAs
      <4>1. symbols[s] \in SymbolType
        BY <3>1 DEF TypeOK
      <4> QED BY <4>1 DEF SymbolType
    <3>4. PICK d \in Declarations(name, pos - 1) : TRUE
      BY <2>3
    <3>5. IsConstant(d) <=> symbols[s].type \in {"constant", "conditional constant"}
      BY <3>2, <3>4 DEF IsSymbol
    <3>6. CASE IsConstant(d) <=> IsConstant(pos)
      <4>1. symbols[s].type \in {"label", "constant"}
        BY <2>1, <3>2, <3>3, <3>5, <3>6 DEF IsSymbol, Conditional, DeclaredAs
      <4>2. CondAt(d) = {}
        BY <3>2, <3>4, <4>1 DEF IsSymbol
      <4> QED BY <1>6, <3>4, <4>2
    <3>7. CASE ~(IsConstant(d) <=> IsConstant(pos))
      <4>1. (program[d].op \in {"equ", "equhere"}) # (program[pos].op \in {"equ", "equhere"})
        BY <3>7 DEF IsConstant
      <4> QED BY <1>3, <3>4, <4>1 DEF Meets
    <3> QED BY <3>6, <3>7
  <2> QED BY <2>2, <2>3
<1> QED BY <1>5, <1>7, <1>8

\* The variable of a #repeat.
LEMMA VariableMeets ==
  ASSUME TypeOK, PrefixInv, TableInv, NameInv, pos <= Len(program), Line.op = "repeat", HasVariable, Find(table, Line.name) # None
  PROVE  Meets(pos)
<1>1. Line.op \notin Closing /\ program[pos] = Line /\ Line.name # <<>> /\ FullName(pos) = Line.name
  BY FullIs DEF Closing, Line, HasVariable
<1>2. Finds(table, Line.name, pos)
  BY <1>1, TableHere
<1>3. Variables(Line.name, pos) # {} \/ Declarations(Line.name, pos - 1) # {} \/ Line.name \in ProjectVariables
  BY <1>2 DEF Finds
<1> QED BY <1>1, <1>3 DEF Meets

LEMMA DuplicatesNext ==
  ASSUME TypeOK, StackInv, ElseInv, PrefixInv, TableInv, NameInv, OnlyRealDuplicates, [Next]_vars, Advance \/ Stands
  PROVE  OnlyRealDuplicates' /\ error' \in Errors \cup {None}
<1>0. None \notin Errors
  BY AssemblerAssumption, Zenon
<1>1. CASE Advance
  BY <1>0, <1>1 DEF Advance, OnlyRealDuplicates, Errors
<1>2. CASE Stands /\ ~Advance
  <2>1. program' = program /\ pos' = pos
    BY <1>2 DEF Stands
  <2>2. Meets(pos) => Meets(pos)'
    <3>1. /\ \A l : FullName(l)' = FullName(l) /\ Blocks(l)' = Blocks(l)
          /\ \A name, l : Declarations(name, l)' = Declarations(name, l)
          /\ \A b, l : InElse(b, l)' = InElse(b, l)
      BY <2>1, SameNames, SameText
    <3>2. \A name, l : Variables(name, l)' = Variables(name, l)
      BY <2>1, <3>1 DEF Variables
    <3>3. \A d, given : Counted(d, given)' <=> Counted(d, given)
      BY <2>1, <3>1 DEF Counted
    <3>4. Valuations' = Valuations
      BY DEF Valuations
    <3>5. \A d : NeverCounts(d)' <=> NeverCounts(d)
      BY <3>3, <3>4 DEF NeverCounts
    <3> QED BY <2>1, <3>1, <3>2, <3>3, <3>4, <3>5 DEF Meets
  <2>3. \A why \in Errors \ {"duplicate"} : Reject(why) => OnlyRealDuplicates' /\ error' \in Errors \cup {None}
    BY DEF Reject, OnlyRealDuplicates
  <2>4. Meets(pos) /\ Reject("duplicate") => OnlyRealDuplicates' /\ error' \in Errors \cup {None}
    BY <2>2 DEF Reject, OnlyRealDuplicates, Errors
  <2>5. CASE error' = error
    BY <2>2, <2>5 DEF OnlyRealDuplicates, TypeOK
  <2>6. \A ops : At(ops) => pos <= Len(program) /\ Line.op \in ops
    BY DEF At
  <2>7. program[pos] = Line /\ (IsConstant(pos) <=> Line.op \in {"equ", "equhere"})
    BY DEF Line, IsConstant
  <2>8. pos # pos' \/ ~NextLine
    BY <2>1, StepNumbers, ProgramFacts DEF NextLine, TypeOK
  <2>9. CASE RejectLine
    <3>1. CASE Reject("no global label") \/ Reject("no section")
      BY <2>3, <3>1 DEF Errors
    <3>2. CASE At({"global", "label"}) /\ ~LacksGlobal /\ ~CanDeclare("label") /\ Reject("duplicate")
      <4>1. Line.op \in Declaring /\ ~IsConstant(pos)
        BY <2>6, <2>7, <3>2 DEF Declaring
      <4> QED BY <2>4, <2>6, <3>2, <4>1, DuplicateMeets
    <3>3. CASE At({"equ", "equhere"}) /\ ~LacksGlobal /\ ~CanDeclare("constant") /\ Reject("duplicate")
      <4>1. Line.op \in Declaring /\ IsConstant(pos)
        BY <2>6, <2>7, <3>3 DEF Declaring
      <4> QED BY <2>4, <2>6, <3>3, <4>1, DuplicateMeets
    <3> QED BY <2>9, <3>1, <3>2, <3>3 DEF RejectLine
  <2>10. CASE Repeat
    <3>1. CASE Reject("no section")
      BY <2>3, <3>1 DEF Errors
    <3>2. CASE HasVariable /\ Find(table, Line.name) # None /\ Reject("duplicate")
      <4>1. pos <= Len(program) /\ Line.op = "repeat"
        <5>1. At({"repeat"})
          BY <2>10, Zenon DEF Repeat
        <5> QED BY <5>1 DEF At
      <4> QED BY <2>4, <3>2, <4>1, VariableMeets
    <3> QED BY <2>1, <2>8, <2>10, <3>1, <3>2 DEF Repeat
  <2>11. CASE Section \/ EndRepeat \/ If \/ Else \/ EndIf \/ File \/ Close
    <3>1. \E why \in Errors \ {"duplicate"} : Reject(why)
      BY <2>1, <2>8, <2>11 DEF Section, EndRepeat, If, Else, EndIf, File, Close, Errors
    <3> QED BY <2>3, <3>1
  <2>12. ~(AddLabel \/ AddConstant \/ AddUse)
    BY <2>1, <2>8 DEF AddLabel, AddConstant, AddUse
  <2>13. UNCHANGED vars \/ Finished => error' = error
    BY DEF vars, Finished
  <2> QED BY <2>5, <2>9, <2>10, <2>11, <2>12, <2>13 DEF Next
<1> QED BY <1>1, <1>2

-----------------------------------------------------------------------------
(* The inductive invariant.                                                *)

IInv ==
  /\ TypeOK /\ StackInv /\ ElseInv /\ SectionInv /\ MacroInv /\ ItemInv
  /\ PrefixInv /\ TableInv /\ NameInv /\ UseInv /\ OnlyRealDuplicates

LEMMA TableIn ==
  ASSUME NEW p \in Nat
  PROVE  LET tabs == 2 + OpsIn({"repeat"}, 1, p)
         IN tabs \in Nat /\ tabs >= 2 /\ TableOf(RepeatsIn(Standing(p))) \in 2..tabs
<1> DEFINE R == RepeatsIn(Standing(p))
<1>1. OpsIn({"repeat"}, 1, p) \in Nat
  BY CountFacts
<1>2. CASE R = {}
  BY <1>1, <1>2 DEF TableOf
<1>3. CASE R # {}
  <2>1. Last(R) \in 1..p /\ program[Last(R)].op = "repeat" /\ TableOf(R) = Tab(Last(R))
    BY <1>3, RepeatFacts DEF TableOf
  <2> HIDE DEF R
  <2>2. Tab(Last(R)) \in 3..2 + OpsIn({"repeat"}, 1, p)
    BY <2>1, TabsRise
  <2> QED BY <1>1, <2>1, <2>2 DEF R
<1> QED BY <1>2, <1>3

LEMMA SameTypes ==
  ASSUME program' = program
  PROVE  /\ ContextType' = ContextType /\ TableType' = TableType /\ SymbolType' = SymbolType /\ ItemType' = ItemType
         /\ UseType' = UseType
<1>1. LineNumbers' = LineNumbers /\ Names' = Names
  BY DEF LineNumbers, Names
<1>2. Prefixes' = Prefixes /\ SectionNames' = SectionNames
  BY <1>1 DEF Prefixes, GlobalLines, SectionNames
<1>3. Len(program)' = Len(program)
  OBVIOUS
<1> QED BY <1>1, <1>2, <1>3 DEF ContextType, TableType, SymbolType, ItemType, UseType

LEMMA InvNext ==
  ASSUME IInv, [Next]_vars
  PROVE  IInv'
<1> USE DEF IInv
<1>1. ((Stays \/ Opens \/ Closes) /\ contexts' \in Seq(ContextType)) \/ Stands
  BY StepCases
<1>2. Advance \/ Stands
  BY <1>1 DEF Stays, Opens, Closes
<1>3. StackInv'
  BY <1>1, StackNext
<1>4. ElseInv' /\ SectionInv'
  BY <1>1, ElseNext, SectionNext
<1>5. MacroInv' /\ ItemInv' /\ items' \in Seq(ItemType)
  BY <1>3, ItemNext
<1>6. PrefixInv'
  BY <1>3, PrefixNext
<1>7. Advance => TableStep
  BY TableSteps
<1>8. TableInv'
  <2>1. Stands \/ ((Stays \/ Opens \/ Closes) /\ TableStep)
    BY <1>1, <1>7 DEF Stays, Opens, Closes
  <2> QED BY <2>1, TableNext
<1>9. NameInv'
  BY <1>2, NameNext
<1>10. UseInv' /\ uses' \subseteq UseType'
  BY <1>2, UseNext
<1>11. OnlyRealDuplicates' /\ error' \in Errors \cup {None}
  BY <1>2, DuplicatesNext
<1>12. TypeOK'
  <2>1. program' = program /\ pos' \in 1..Len(program') + 1 /\ pos' - 1 \in Nat
    <3>1. CASE Stands
      BY <3>1, ProgramFacts DEF Stands, TypeOK
    <3>2. CASE Advance
      BY <3>2, ProgramFacts DEF Advance, LineNumbers, TypeOK
    <3> QED BY <1>2, <3>1, <3>2
  <2>2. contexts' \in Seq(ContextType) /\ tables' \in Seq(TableType) /\ symbols' \in Seq(SymbolType)
    <3>1. Stands => contexts' = contexts /\ tables' = tables /\ symbols' = symbols
      BY DEF Stands, parserVars
    <3> QED BY <1>1, <1>2, <1>7, <3>1, SymbolsTyped DEF TypeOK, TableStep
  <2>3. Len(contexts') >= 1
    <3>1. Len(contexts) \in Nat /\ Len(contexts) >= 1
      BY ContextFacts
    <3> QED BY <1>1, <3>1 DEF Stays, Opens, Closes, Stands, parserVars
  <2>4. Len(tables') >= 2 /\ table' \in 2..Len(tables')
    <3> PICK p \in Nat : p = pos' - 1
      BY <2>1
    <3>1. OpsIn({"repeat"}, 1, p)' = OpsIn({"repeat"}, 1, p) /\ TableOf(RepeatsIn(Standing(p)))' = TableOf(RepeatsIn(Standing(p)))
      <4>1. Standing(p)' = Standing(p) /\ \A S : RepeatsIn(S)' = RepeatsIn(S) /\ \A R : TableOf(R)' = TableOf(R)
        BY <2>1, SameText, SameTabs
      <4> QED BY <2>1, <4>1, SameText
    <3>2. Len(tables') = 2 + OpsIn({"repeat"}, 1, p) /\ table' = TableOf(RepeatsIn(Standing(p)))
      BY <1>8, <3>1 DEF TableInv
    <3> QED BY <3>2, TableIn
  <2>5. ContextType' = ContextType /\ TableType' = TableType /\ SymbolType' = SymbolType /\ ItemType' = ItemType
    BY <2>1, SameTypes
  <2> QED BY <1>5, <1>10, <1>11, <2>1, <2>2, <2>3, <2>4, <2>5 DEF TypeOK
<1> QED BY <1>3, <1>4, <1>5, <1>6, <1>8, <1>9, <1>10, <1>11, <1>12

LEMMA InvInit ==
  ASSUME Init
  PROVE  IInv
<1>1. program \in Programs /\ pos = 1 /\ error = None /\ contexts = <<Root>> /\ table = 2 /\ items = <<>> /\ uses = {}
  BY DEF Init
<1>2. PICK order \in [1..Cardinality(ProjectVariables) -> ProjectVariables] :
       /\ \A name \in ProjectVariables : \E s \in DOMAIN order : order[s] = name
       /\ symbols = [s \in DOMAIN order |-> Symbol("constant", order[s], {}, 0)]
       /\ tables = <<[parent |-> 0, entries |-> {<<order[s], s>> : s \in DOMAIN order}],
                     [parent |-> 1, entries |-> {}]>>
  BY DEF Init
<1>3. PICK n \in Nat : n = Cardinality(ProjectVariables)
  BY AssemblerAssumption, FS_CardinalityType
<1>4. Len(program) \in Nat /\ pos - 1 = 0 /\ 1..0 = {}
  BY <1>1, ProgramFacts
<1>5. Len(contexts) = 1 /\ contexts[1] = Root /\ Inner = {} /\ contexts \in Seq(ContextType) /\ DOMAIN contexts = {1}
  <2>1. 2..1 = {} /\ 1..1 = {1}
    OBVIOUS
  <2> PICK r \in ContextType : r = Root
    BY <1>1, RootIs
  <2>2. contexts = <<r>>
    BY <1>1
  <2>3. Len(contexts) = 1 /\ contexts[1] = r /\ contexts \in Seq(ContextType) /\ DOMAIN contexts = {1}
    BY <2>1, <2>2
  <2> QED BY <2>1, <2>3 DEF Inner
<1>6. DOMAIN order = 1..n /\ \A s \in 1..n : order[s] \in ProjectVariables /\ order[s] \in Names
  BY <1>2, <1>3 DEF Names
<1>7. DOMAIN symbols = 1..n /\ \A s \in 1..n : symbols[s] = Symbol("constant", order[s], {}, 0)
  BY <1>2, <1>6
<1>8. \A s \in 1..n : /\ symbols[s] \in SymbolType /\ symbols[s].name = order[s] /\ symbols[s].type = "constant"
                      /\ symbols[s].entries = {[cond |-> {}, def |-> 0]}
  <2> DEFINE entry == [cond |-> {}, def |-> 0]
             Entry == [cond : SUBSET (Conditions \X BOOLEAN), def : 0..Len(program)]
  <2>1. entry \in Entry
    BY <1>4
  <2> HIDE DEF entry, Entry
  <2>2. \A name \in Names : [type |-> "constant", name |-> name, entries |-> {entry}] \in [type : DeclaredAs, name : Names, entries : SUBSET Entry]
    BY <2>1 DEF DeclaredAs
  <2>3. \A s \in 1..n : symbols[s] = [type |-> "constant", name |-> order[s], entries |-> {entry}]
    BY <1>7 DEF Symbol, entry
  <2>4. SymbolType = [type : DeclaredAs, name : Names, entries : SUBSET Entry]
    BY DEF SymbolType, Entry
  <2>5. ASSUME NEW s \in 1..n PROVE symbols[s].name = order[s] /\ symbols[s].type = "constant" /\ symbols[s].entries = {entry}
    <3> PICK es : es = {entry}
      OBVIOUS
    <3>1. symbols[s] = [type |-> "constant", name |-> order[s], entries |-> es]
      BY <2>3
    <3> QED BY <3>1
  <2>6. \A s \in 1..n : symbols[s] \in SymbolType
    BY <1>6, <2>2, <2>3, <2>4
  <2> QED BY <2>5, <2>6 DEF entry
<1>9. symbols \in Seq(SymbolType)
  <2>1. symbols = [s \in 1..n |-> symbols[s]]
    BY <1>2, <1>6, <1>7
  <2> QED BY <1>8, <2>1
<1> DEFINE own == {<<order[s], s>> : s \in 1..n}
<1>10. /\ Len(tables) = 2 /\ DOMAIN tables = {1, 2} /\ tables \in Seq(TableType)
       /\ tables[1].entries = own /\ tables[2].entries = {} /\ tables[2].parent = 1
  <2>1. own \in SUBSET (Names \X Nat)
    BY <1>6
  <2> HIDE DEF own
  <2>2. tables = <<[parent |-> 0, entries |-> own], [parent |-> 1, entries |-> {}]>>
    BY <1>2, <1>6 DEF own
  <2>3. [parent |-> 0, entries |-> own] \in TableType /\ [parent |-> 1, entries |-> {}] \in TableType
    BY <2>1 DEF TableType
  <2> QED BY <2>2, <2>3
<1>11. \A e \in own : e[2] \in DOMAIN symbols /\ symbols[e[2]].name = e[1] /\ IsProjects(e)
  <2>1. \A s \in 1..n : <<order[s], s>>[1] = order[s] /\ <<order[s], s>>[2] = s
    OBVIOUS
  <2>2. \A e \in own : \E s \in 1..n : e[1] = order[s] /\ e[2] = s
    BY <2>1
  <2> HIDE DEF own
  <2> QED BY <1>6, <1>7, <1>8, <2>2 DEF IsProjects
<1>12. \A name \in ProjectVariables : \E e \in own : e[1] = name
  <2> TAKE name \in ProjectVariables
  <2>1. PICK s \in 1..n : order[s] = name
    BY <1>2, <1>6
  <2>2. <<order[s], s>> \in own /\ <<order[s], s>>[1] = name
    BY <2>1
  <2> QED BY <2>2
<1> HIDE DEF own
<1>13. TypeOK
  <2>1. 2 \in 2..2 /\ 1 \in 1..Len(program) + 1 /\ items \in Seq(ItemType) /\ uses \subseteq UseType
    BY <1>1, <1>4
  <2> QED BY <1>1, <1>5, <1>9, <1>10, <2>1 DEF TypeOK
<1>14. Done = {} /\ Emitting = {} /\ \A name : Declarations(name, pos - 1) = {}
  BY <1>4 DEF Done, Emitting, Declarations
<1>15. Standing(0) = {} /\ Alive(0) = {} /\ OpsIn({"repeat"}, 1, 0) = 0
  BY <1>4, CountFacts DEF Standing, Alive
<1>16. StackInv /\ ElseInv /\ SectionInv
  <2>1. StackInv
    BY <1>1, <1>4, <1>5, <1>15, RootIs DEF StackInv
  <2> QED BY <1>1, <1>5, <2>1, RootIs DEF ElseInv, SectionInv
<1>17. MacroInv
  <2>1. Macroless(contexts) = {}
    BY <1>1, <1>5, RootIs DEF Macroless
  <2>2. FirstMacroless(contexts, 1) /\ \A k \in 2..1 : FALSE
    <3>1. 1 + 1..1 = {} /\ 1 \in 1..1
      OBVIOUS
    <3> QED BY <1>5, <2>1, <3>1 DEF FirstMacroless
  <2> QED BY <2>2 DEF MacroInv
<1>18. PrefixInv
  BY <1>1, <1>4, <1>5, <1>15, RootIs DEF PrefixInv, IsPrefix, Prefix
<1>19. TableInv
  <2>1. \A t \in 3..2 : FALSE
    OBVIOUS
  <2>2. TableOf(RepeatsIn(Standing(pos - 1))) = 2
    BY <1>4, <1>15 DEF TableOf, RepeatsIn
  <2> QED BY <1>1, <1>4, <1>10, <1>14, <1>15, <2>1, <2>2 DEF TableInv
<1>20. NameInv
  BY <1>4, <1>10, <1>11, <1>12, <1>14 DEF NameInv
<1>21. ItemInv
  <2>1. DOMAIN items = {}
    BY <1>1
  <2> QED BY <1>14, <2>1 DEF ItemInv, PlacedAsWritten
<1>22. UseInv /\ OnlyRealDuplicates
  <2>1. None \notin Errors
    BY AssemblerAssumption, Zenon
  <2> QED BY <1>1, <2>1 DEF UseInv, OnlyRealDuplicates, Errors
<1> QED BY <1>13, <1>16, <1>17, <1>18, <1>19, <1>20, <1>21, <1>22 DEF IInv

\* The invariant, for programs, conditions and project variables of any number.
THEOREM Invariance == Spec => []IInv
<1>1. Init => IInv
  BY InvInit
<1>2. IInv /\ [Next]_vars => IInv'
  BY InvNext
<1> QED BY <1>1, <1>2, PTL DEF Spec

\* The variables have their types.
THEOREM TypeCorrect == Spec => []TypeOK
<1>1. IInv => TypeOK
  BY DEF IInv
<1> QED BY <1>1, Invariance, PTL

\* Every line that makes code is in its section and its blocks, once and in order.
THEOREM Placed == Spec => []PlacedAsWritten
<1>1. IInv => PlacedAsWritten
  BY DEF IInv, ItemInv
<1> QED BY <1>1, Invariance, PTL

\* Nothing is refused as a duplicate that does not meet another declaration of its name.
THEOREM RefusedDuplicates == Spec => []OnlyRealDuplicates
<1>1. IInv => OnlyRealDuplicates
  BY DEF IInv
<1> QED BY <1>1, Invariance, PTL

-----------------------------------------------------------------------------
(* What a name evaluates to is what the text says.                         *)

\* The instruction of a line is assembled when the branches the line is in are taken.
LEMMA AssembledIs ==
  ASSUME ItemInv, NEW i \in DOMAIN items, NEW given
  PROVE  Assembled(i, given) <=> Taken(items[i].line, given)
<1> DEFINE d == items[i].line
           Path == items[i].path
           Pair(p) == <<items[p[1]].line, p[2]>>
           Block(b) == <<b, InElse(b, d)>>
<1>1. {Pair(p) : p \in Path} = {Block(b) : b \in Blocks(d)}
  BY DEF ItemInv, PlacedAsWritten
<1>2. \A p : Pair(p)[1] = items[p[1]].line /\ Pair(p)[2] = p[2]
  OBVIOUS
<1>3. \A b : Block(b)[1] = b /\ Block(b)[2] = InElse(b, d)
  OBVIOUS
<1>4. \A p \in Path : p[1] \in DOMAIN items
  BY DEF ItemInv
<1> HIDE DEF Pair, Block
<1>5. \A p \in Path : \E b \in Blocks(d) : items[p[1]].line = b /\ p[2] = InElse(b, d)
  <2> TAKE p \in Path
  <2> HIDE DEF Path, d
  <2>1. PICK b \in Blocks(d) : Pair(p) = Block(b)
    BY <1>1
  <2> QED BY <1>2, <1>3, <2>1
<1>6. \A b \in Blocks(d) : \E p \in Path : items[p[1]].line = b /\ p[2] = InElse(b, d)
  <2> TAKE b \in Blocks(d)
  <2> HIDE DEF Path, d
  <2>1. PICK p \in Path : Pair(p) = Block(b)
    BY <1>1
  <2> QED BY <1>2, <1>3, <2>1
<1>7. \A j \in DOMAIN items : /\ (items[j].kind = "if" <=> program[items[j].line].op = "if")
                              /\ items[j].kind = "if" => items[j].cond = program[items[j].line].name
  BY DEF ItemInv, KindOf
<1>8. ASSUME Assembled(i, given), NEW b \in Blocks(d), program[b].op = "if" PROVE given[program[b].name] = ~InElse(b, d)
  <2>1. PICK p \in Path : items[p[1]].line = b /\ p[2] = InElse(b, d)
    BY <1>6
  <2>2. items[p[1]].kind = "if" /\ items[p[1]].cond = program[b].name
    BY <1>4, <1>7, <1>8, <2>1
  <2>3. given[items[p[1]].cond] = ~p[2]
    BY <1>8, <2>2 DEF Assembled
  <2> QED BY <2>1, <2>2, <2>3, Zenon
<1>9. ASSUME Taken(d, given), NEW p \in Path, items[p[1]].kind = "if" PROVE given[items[p[1]].cond] = ~p[2]
  <2>1. PICK b \in Blocks(d) : items[p[1]].line = b /\ p[2] = InElse(b, d)
    BY <1>5
  <2>2. program[b].op = "if" /\ items[p[1]].cond = program[b].name
    BY <1>4, <1>7, <1>9, <2>1
  <2>3. given[program[b].name] = ~InElse(b, d)
    BY <1>9, <2>2 DEF Taken
  <2> QED BY <2>1, <2>2, <2>3, Zenon
<1> QED BY <1>8, <1>9 DEF Assembled, Taken

LEMMA AddressIs ==
  ASSUME ItemInv, NEW d \in 1..pos - 1, program[d].op \in {"global", "label", "equhere"}, NEW given
  PROVE  HasAddress(d, given) <=> Taken(d, given)
<1>1. \A i \in DOMAIN items : items[i].line = d => items[i].kind \in {"label", "ephemeral"}
  BY DEF ItemInv, KindOf
<1>2. \E i \in DOMAIN items : items[i].line = d
  <2>1. d \in Emitting
    BY DEF Emitting
  <2> QED BY <2>1 DEF ItemInv, PlacedAsWritten
<1> QED BY <1>1, <1>2, AssembledIs DEF HasAddress

LEMMA OneOrMore ==
  ASSUME NEW S, IsFiniteSet(S)
  PROVE  /\ \A x : S = {x} => Cardinality(S) = 1
         /\ \A x, y \in S : x # y => Cardinality(S) > 1
<1>1. \A x : S = {x} => Cardinality(S) = 1
  BY FS_Singleton
<1>2. ASSUME NEW x \in S, NEW y \in S, x # y PROVE Cardinality(S) > 1
  <2>1. IsFiniteSet(S \ {x}) /\ Cardinality(S \ {x}) = Cardinality(S) - 1
    BY FS_RemoveElement
  <2>2. y \in S \ {x}
    BY <1>2
  <2>3. Cardinality(S \ {x}) # 0
    BY <2>1, <2>2, FS_EmptySet
  <2>4. Cardinality(S) \in Nat /\ Cardinality(S \ {x}) \in Nat
    BY <2>1, FS_CardinalityType
  <2> QED BY <2>1, <2>3, <2>4
<1> QED BY <1>1, <1>2

\* A symbol with one entry evaluates to it.
LEMMA OneChosen ==
  ASSUME NEW s, NEW given, NEW e, Chosen(s, given) = {e}
  PROVE  ~(Cardinality(Chosen(s, given)) > 1) /\ Chosen(s, given) # {} /\ (CHOOSE x \in Chosen(s, given) : TRUE) = e
<1>1. IsFiniteSet({e}) /\ Cardinality({e}) = 1
  BY FS_Singleton
<1> QED BY <1>1

\* A use at a line, at the end of the text.
LEMMA MeaningIs ==
  ASSUME IInv, pos > Len(program), NEW u \in uses, NEW given \in Valuations
  PROVE  Resolve(u, given) = Meaning(u.line, given)
<1>1. PICK l, name, t : l = u.line /\ name = u.name /\ t = u.table
  OBVIOUS
<1>2. l \in 1..pos - 1 /\ l \in 1..pos /\ name = FullName(l) /\ name # <<>> /\ t = TableOf(RepeatsIn(Blocks(l)))
  <2>1. u.line \in 1..pos - 1 /\ u.name = FullName(u.line) /\ u.name # <<>> /\ u.table = TableOf(RepeatsIn(Blocks(u.line)))
    BY DEF IInv, UseInv
  <2> QED BY <1>1, <2>1, ProgramFacts DEF IInv, TypeOK
<1>3. pos - 1 = Len(program) /\ Len(program) \in Nat /\ pos \in Nat
  BY ProgramFacts DEF IInv, TypeOK
<1>4. Finds(t, name, l)
  BY <1>2, FindIs DEF IInv
<1>5. PICK s : s = Find(t, name)
  OBVIOUS
<1> DEFINE all == Declarations(name, Len(program))
           counted == {d \in all : Counted(d, given)}
           V == Variables(name, l)
<1>6. Resolve(u, given) = IF s = None THEN Undeclared
                          ELSE IF Chosen(s, given) = {} THEN Unresolved
                          ELSE IF Cardinality(Chosen(s, given)) > 1 THEN Conflict
                          ELSE ValueOf((CHOOSE e \in Chosen(s, given) : TRUE).def, given)
  BY <1>1, <1>5 DEF Resolve
<1>7. Meaning(l, given) = IF V # {} THEN Last(V)
                          ELSE IF all = {} THEN (IF name \in ProjectVariables THEN 0 ELSE Undeclared)
                          ELSE IF counted = {} THEN Unresolved
                          ELSE IF Cardinality(counted) > 1 THEN Conflict
                          ELSE IF NeedsAddress(Last(counted)) /\ ~Taken(Last(counted), given) THEN Unresolved ELSE Last(counted)
  BY <1>2 DEF Meaning
<1>8. DOMAIN symbols \subseteq Nat /\ None \notin DOMAIN symbols
  <2>1. None \notin Nat
    BY AssemblerAssumption, Zenon
  <2>2. DOMAIN symbols \subseteq Nat
    BY LenProperties DEF IInv, TypeOK
  <2> QED BY <2>1, <2>2
<1>9. ASSUME NEW d, s \in DOMAIN symbols, symbols[s].entries = {[cond |-> {}, def |-> d]}, ~NeedsAddress(d)
      PROVE  Resolve(u, given) = d
  <2>1. Chosen(s, given) = {[cond |-> {}, def |-> d]}
    BY <1>9 DEF Chosen
  <2>0. [cond |-> {}, def |-> d].def = d
    OBVIOUS
  <2> PICK e : e = [cond |-> {}, def |-> d] /\ e.def = d
    BY <2>0
  <2>2. ~(Cardinality(Chosen(s, given)) > 1) /\ Chosen(s, given) # {} /\ (CHOOSE x \in Chosen(s, given) : TRUE) = e
    BY <2>1, OneChosen
  <2>3. Resolve(u, given) = ValueOf(d, given)
    BY <1>6, <1>8, <1>9, <2>2
  <2> QED BY <1>9, <2>3 DEF ValueOf
<1>10. all = Declarations(name, pos - 1)
  BY <1>3
<1> HIDE DEF all, V
<1>11. CASE V # {}
  <2>1. s \in DOMAIN symbols /\ symbols[s].entries = {[cond |-> {}, def |-> Last(V)]}
    BY <1>4, <1>5, <1>11 DEF Finds, V
  <2>2. Last(V) \in V
    <3>1. V \in SUBSET Nat
      <4>1. V \subseteq 1..l - 1 /\ \A b \in 1..l - 1 : b \in Nat
        BY <1>2, BlocksAreStanding DEF V, Variables
      <4> QED BY <4>1
    <3>2. \A b \in V : b <= l
      <4>1. V \subseteq 1..l - 1 /\ \A b \in 1..l - 1 : b <= l
        BY <1>2, BlocksAreStanding DEF V, Variables
      <4> QED BY <4>1
    <3>3. l \in Nat
      BY <1>2, <1>3
    <3> QED BY <1>11, <3>1, <3>2, <3>3, LastIs
  <2>3. ~NeedsAddress(Last(V))
    BY <2>2 DEF V, Variables, NeedsAddress
  <2>4. Resolve(u, given) = Last(V)
    BY <1>9, <2>1, <2>3
  <2> QED BY <1>1, <1>7, <1>11, <2>4
<1>12. CASE V = {} /\ all = {}
  <2>1. CASE name \in ProjectVariables
    <3>1. s \in DOMAIN symbols /\ symbols[s].entries = {[cond |-> {}, def |-> 0]} /\ ~NeedsAddress(0)
      BY <1>4, <1>5, <1>10, <1>12, <2>1 DEF Finds, V, NeedsAddress
    <3>2. Resolve(u, given) = 0
      BY <1>9, <3>1
    <3> QED BY <1>1, <1>7, <1>12, <2>1, <3>2
  <2>2. CASE name \notin ProjectVariables
    <3>1. s = None
      BY <1>4, <1>5, <1>10, <1>12, <2>2 DEF Finds, V
    <3> QED BY <1>1, <1>6, <1>7, <1>12, <2>2, <3>1
  <2> QED BY <2>1, <2>2
<1>13. CASE V = {} /\ all # {}
  <2>1. PICK e \in tables[2].entries : e[1] = name /\ e[2] = s /\ s \in DOMAIN symbols
    BY <1>4, <1>5, <1>10, <1>13 DEF Finds, V
  <2>2. symbols[s].entries = {Alternative(d) : d \in all}
    BY <1>10, <2>1 DEF IInv, NameInv, IsSymbol
  <2>3. \A d : Alternative(d).def = d /\ Alternative(d).cond = CondAt(d)
    BY DEF Alternative
  <2>4. \A d : Counted(d, given) <=> \A c \in Alternative(d).cond : given[c[1]] = c[2]
    BY <2>3, CountedIs
  <2>5. Chosen(s, given) = {Alternative(d) : d \in counted}
    BY <2>2, <2>4 DEF Chosen
  <2>6. IsFiniteSet(counted) /\ counted \in SUBSET Nat /\ counted \subseteq 1..pos - 1
    <3>1. counted \subseteq 1..Len(program) /\ IsFiniteSet(1..Len(program))
      BY <1>3, FS_Interval DEF all, Declarations
    <3> QED BY <1>3, <3>1, FS_Subset
  <2>8. s # None
    BY <1>8, <2>1
  <2> HIDE DEF counted
  <2>7. IsFiniteSet({Alternative(d) : d \in counted})
    <3> DEFINE T == {Alternative(d) : d \in counted}
               f == [d \in counted |-> Alternative(d)]
    <3>1. f \in Surjection(counted, T)
      BY DEF Surjection
    <3> HIDE DEF f, T
    <3>2. IsFiniteSet(T)
      BY <2>6, <3>1, FS_Surjection
    <3> QED BY <3>2 DEF T
  <2>9. CASE counted = {}
    BY <1>1, <1>6, <1>7, <1>13, <2>5, <2>8, <2>9
  <2>10. ASSUME NEW x \in counted, NEW y \in counted, x # y PROVE Resolve(u, given) = Meaning(l, given)
    <3>1. Cardinality(counted) > 1
      BY <2>6, <2>10, OneOrMore
    <3>2. Alternative(x) \in Chosen(s, given) /\ Alternative(y) \in Chosen(s, given) /\ Alternative(x) # Alternative(y)
      BY <2>3, <2>5, <2>10
    <3>3. Cardinality(Chosen(s, given)) > 1
      BY <2>5, <2>7, <3>2, OneOrMore
    <3>4. Resolve(u, given) = Conflict
      BY <1>6, <2>8, <3>2, <3>3
    <3>5. Meaning(l, given) = Conflict
      BY <1>7, <1>13, <2>10, <3>1
    <3> QED BY <3>4, <3>5
  <2>11. ASSUME NEW d \in counted, counted = {d} PROVE Resolve(u, given) = Meaning(l, given)
    <3>1. Chosen(s, given) = {Alternative(d)}
      BY <2>5, <2>11
    <3>2. ~(Cardinality(Chosen(s, given)) > 1) /\ Chosen(s, given) # {} /\ (CHOOSE x \in Chosen(s, given) : TRUE) = Alternative(d)
      BY <3>1, OneChosen
    <3>3. Resolve(u, given) = ValueOf(d, given)
      BY <1>6, <2>3, <2>8, <3>2
    <3>4. Last(counted) = d
      <4>1. \A y \in counted : y <= d
        BY <2>6, <2>11
      <4> QED BY <2>6, <4>1, LastUnique
    <3>5. ~(Cardinality(counted) > 1)
      <4>1. Cardinality(counted) = 1
        BY <2>6, <2>11, OneOrMore
      <4> QED BY <4>1
    <3>6. Meaning(l, given) = IF NeedsAddress(d) /\ ~Taken(d, given) THEN Unresolved ELSE d
      BY <1>7, <1>13, <2>11, <3>4, <3>5
    <3>7. NeedsAddress(d) => (HasAddress(d, given) <=> Taken(d, given))
      BY <2>6, AddressIs DEF NeedsAddress, IInv
    <3> QED BY <3>3, <3>6, <3>7 DEF ValueOf
  <2>12. counted = {} \/ (\E x, y \in counted : x # y) \/ \E d \in counted : counted = {d}
    OBVIOUS
  <2> QED BY <1>1, <2>9, <2>10, <2>11, <2>12
<1> QED BY <1>11, <1>12, <1>13

\* Whatever the conditions are, a name evaluates to what it means in the text.
THEOREM NamesMean == Spec => []UsesMeanWhatTheyName
<1>1. IInv => UsesMeanWhatTheyName
  <2>1. ASSUME IInv, Parsed, NEW u \in uses, NEW given \in Valuations PROVE Resolve(u, given) = Meaning(u.line, given)
    BY <2>1, MeaningIs DEF Parsed
  <2> QED BY <2>1 DEF UsesMeanWhatTheyName
<1> QED BY <1>1, Invariance, PTL
=============================================================================
