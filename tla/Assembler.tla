----------------------------- MODULE Assembler -----------------------------
(***************************************************************************)
(* The assembler's parser (Compiler/Assembler): one action per kind of     *)
(* line, a stack of contexts for the #if and #repeat that are open, a      *)
(* symbol table per #repeat whose symbols pass through to the tables       *)
(* around it, and what a name evaluates to once the conditions are known.  *)
(*                                                                         *)
(* A line is its kind and the name it declares or uses.  A name is a       *)
(* sequence: the global label and, of local labels, the local part.        *)
(***************************************************************************)
EXTENDS Integers, Sequences, FiniteSets

CONSTANTS
  Programs,          (* sequences of lines; "file" begins another source file *)
  Conditions,        (* the expressions of #if: each may be true or false     *)
  ProjectVariables,  (* names defined in the project file                     *)
  None

Ops == {"section", "repeat", "endrepeat", "if", "else", "endif", "file",
        "global", "label", "equ", "equhere", "use"}
IsLine(line) ==
  /\ DOMAIN line = {"op", "name", "local"} /\ line.op \in Ops /\ line.local \in BOOLEAN
  /\ line.op = "if" => line.name \in Conditions
  /\ line.op = "global" => line.name = <<line.name[1]>> /\ line.name[1] \notin {"", None}
  /\ line.op \in {"label", "equ", "equhere", "use"} =>
       line.name \in Seq({line.name[k] : k \in DOMAIN line.name}) /\ line.name # <<>>
  /\ line.local => line.op \in {"label", "equ", "equhere", "use"}

Errors == {"duplicate", "no global label", "no section", "section in a block", "missing end",
           "unexpected else", "mismatched endif", "mismatched endrepeat"}

ASSUME AssemblerAssumption ==
  /\ \A p \in Programs : p \in Seq({p[l] : l \in DOMAIN p}) /\ \A l \in DOMAIN p : IsLine(p[l])
  /\ IsFiniteSet(ProjectVariables)
  /\ None \notin Conditions /\ None \notin Errors /\ None \notin Nat /\ None # ""

VARIABLES
  program, pos,   \* the lines of all files, and the one that is parsed
  contexts,       \* the AssemblerContexts, the innermost last
  tables, table,  \* all SymbolTables; mSymbolTable
  symbols,        \* all Symbols
  items,          \* the Instructions, in the order they are added
  uses,           \* the ExprIdentifiers: a name and the table it is looked up in
  error

parserVars == <<contexts, tables, table, symbols, items, uses>>
vars == <<program, pos, parserVars, error>>

Line == program[pos]
At(ops) == error = None /\ pos <= Len(program) /\ Line.op \in ops
Parsed == error = None /\ pos > Len(program)
NextLine == pos' = pos + 1 /\ UNCHANGED <<program, error>>
Reject(why) == error' = why /\ UNCHANGED <<program, pos, parserVars>>

\* The greatest of some lines, or of some tables.
Last(S) == CHOOSE x \in S : \A y \in S : y <= x

-----------------------------------------------------------------------------
(* Contexts.                                                               *)

Context(kind, section, cond, macro) ==
  [kind |-> kind, line |-> pos, section |-> section, cond |-> cond, macro |-> macro, hasElse |-> FALSE,
   prefix |-> "", thenPrefix |-> None, elsePrefix |-> None]
Root == [Context("root", None, None, None) EXCEPT !.line = 0]

Top == contexts[Len(contexts)]
Enclosing == SubSeq(contexts, 1, Len(contexts) - 1)
InSection == Top.section # None

\* localLabelsPrefix of #if and #repeat is that of the context around them.
Prefix == contexts[1].prefix

\* setLocalLabelsPrefix passes the prefix on to all contexts around this one.
WithPrefix(cs, p) ==
  [k \in DOMAIN cs |->
     IF cs[k].kind = "root" THEN [cs[k] EXCEPT !.prefix = p]
     ELSE IF cs[k].kind = "repeat" THEN cs[k]
     ELSE IF cs[k].hasElse THEN [cs[k] EXCEPT !.elsePrefix = p] ELSE [cs[k] EXCEPT !.thenPrefix = p]]

\* condition(): of the #if around one another, up to the nearest #repeat.
Innermost(k) == \A j \in k..Len(contexts) : contexts[j].kind = "if"
ConditionOfThen == {<<contexts[k].cond, TRUE>> : k \in {j \in DOMAIN contexts : Innermost(j)}}
Condition == {<<contexts[k].cond, ~contexts[k].hasElse>> : k \in {j \in DOMAIN contexts : Innermost(j)}}

\* addInstruction: a MacroIf is created with the first instruction in its #if.
Macroless(cs) == {k \in DOMAIN cs : cs[k].kind = "if" /\ cs[k].macro = None}
WithMacros(cs, count) ==
  [k \in DOMAIN cs |->
     IF k \in Macroless(cs) THEN [cs[k] EXCEPT !.macro = count + k - (Len(cs) - Cardinality(Macroless(cs)))] ELSE cs[k]]
InThen(cs, n) == {<<cs[k].macro, FALSE>> : k \in 2..n}
InBlocks(cs, n) == {<<cs[k].macro, cs[k].hasElse>> : k \in 2..n}
Item(kind, line, cs, n) ==
  [kind |-> kind, line |-> line, section |-> cs[1].section, path |-> InBlocks(cs, n),
   cond |-> IF kind = "if" THEN cs[n + 1].cond ELSE None]
AddInstruction(kind, cs, its) ==
  LET with == WithMacros(cs, Len(its))
      first == Len(cs) - Cardinality(Macroless(cs))
      macros == [j \in 1..Cardinality(Macroless(cs)) |-> Item("if", with[first + j].line, with, first + j - 1)]
  IN [contexts |-> with, items |-> its \o macros \o <<Item(kind, pos, with, Len(with))>>]

-----------------------------------------------------------------------------
(* Symbol tables: 1 holds the project variables, 2 the globals.            *)

PassThrough(t) == t > 2
Parent(t) == tables[t].parent
\* A table and those it passes its symbols through to.
Upward(T) == \A t \in T : PassThrough(t) => Parent(t) \in T
Around(t) == {u \in DOMAIN tables : \A T \in SUBSET DOMAIN tables : t \in T /\ Upward(T) => u \in T}
Holds(t, name) == \E e \in tables[t].entries : e[1] = name

\* addSymbol adds to the tables around the table as well.
CanAdd(name) == \A t \in Around(table) : ~Holds(t, name)
WithSymbol(name, id) ==
  [t \in DOMAIN tables |->
     IF t \in Around(table) THEN [tables[t] EXCEPT !.entries = @ \cup {<<name, id>>}] ELSE tables[t]]

\* findSymbol goes from the inner tables to the outer ones.
Find(t, name) ==
  LET found == {u \in Around(t) \cup {1} : Holds(u, name)}
  IN IF found = {} THEN None ELSE (CHOOSE e \in tables[Last(found)].entries : e[1] = name)[2]

Symbol(type, name, cond, def) == [type |-> type, name |-> name, entries |-> {[cond |-> cond, def |-> def]}]

-----------------------------------------------------------------------------
(* Declarations of labels and constants.                                   *)

\* Local names are those of the last global label.
Full == IF Line.local THEN <<Prefix>> \o Line.name ELSE Line.name
LacksGlobal == Line.local /\ Prefix = ""

\* addLabel and addConstant of the file and of a #repeat: one symbol per name.
DeclarePlain(type) ==
  /\ CanAdd(Full)
  /\ symbols' = Append(symbols, Symbol(type, Full, {}, pos))
  /\ tables' = WithSymbol(Full, Len(symbols) + 1)

\* Those of an #if: one more alternative of the symbol, if there is one.
DeclareFirst(type) ==
  /\ Find(table, Full) = None
  /\ symbols' = Append(symbols, Symbol(type, Full, Condition, pos))
  /\ tables' = WithSymbol(Full, Len(symbols) + 1)
DeclareAgain(type) ==
  LET s == Find(table, Full)
  IN /\ s # None /\ symbols[s].type = type
     /\ symbols' = [symbols EXCEPT ![s].entries = @ \cup {[cond |-> Condition, def |-> pos]}]
     /\ UNCHANGED tables
Conditional(type) == IF type = "label" THEN "conditional label" ELSE "conditional constant"
Declare(type) ==
  IF Top.kind = "if" THEN DeclareFirst(Conditional(type)) \/ DeclareAgain(Conditional(type)) ELSE DeclarePlain(type)
CanDeclare(type) ==
  IF Top.kind # "if" THEN CanAdd(Full)
  ELSE Find(table, Full) # None => symbols[Find(table, Full)].type = Conditional(type)

NewPrefix == IF Line.op = "global" THEN WithPrefix(contexts, Line.name[1]) ELSE contexts
AddLabel ==
  /\ At({"global", "label"}) /\ ~LacksGlobal /\ InSection /\ CanDeclare("label")
  /\ Declare("label")
  /\ LET added == AddInstruction("label", NewPrefix, items)
     IN contexts' = added.contexts /\ items' = added.items
  /\ NextLine /\ UNCHANGED <<table, uses>>

\* $ in the value of a constant becomes a label without a name.
AddConstant ==
  /\ At({"equ", "equhere"}) /\ ~LacksGlobal /\ CanDeclare("constant")
  /\ Declare("constant")
  /\ IF Line.op = "equhere"
     THEN LET added == AddInstruction("ephemeral", contexts, items)
          IN InSection /\ contexts' = added.contexts /\ items' = added.items
     ELSE UNCHANGED <<contexts, items>>
  /\ NextLine /\ UNCHANGED <<table, uses>>

\* An instruction or data whose operand is a name.
AddUse ==
  /\ At({"use"}) /\ ~LacksGlobal /\ InSection
  /\ uses' = uses \cup {[line |-> pos, name |-> Full, table |-> table]}
  /\ LET added == AddInstruction("use", contexts, items)
     IN contexts' = added.contexts /\ items' = added.items
  /\ NextLine /\ UNCHANGED <<tables, table, symbols>>

RejectLine ==
  \/ At({"global", "label", "equ", "equhere", "use"}) /\ LacksGlobal /\ Reject("no global label")
  \/ At({"global", "label", "equhere", "use"}) /\ ~LacksGlobal /\ ~InSection /\ Reject("no section")
  \/ At({"global", "label"}) /\ ~LacksGlobal /\ InSection /\ ~CanDeclare("label") /\ Reject("duplicate")
  \/ /\ At({"equ", "equhere"}) /\ ~LacksGlobal /\ (Line.op = "equ" \/ InSection)
     /\ ~CanDeclare("constant") /\ Reject("duplicate")

-----------------------------------------------------------------------------
(* Directives.                                                             *)

Section ==
  /\ At({"section"})
  /\ \/ /\ Top.kind = "root"
        /\ contexts' = [contexts EXCEPT ![1].section = Line.name]
        /\ NextLine /\ UNCHANGED <<tables, table, symbols, items, uses>>
     \/ Top.kind # "root" /\ Reject("section in a block")

HasVariable == Line.name # <<>>
TopTable == Append(tables, [parent |-> table, entries |-> IF HasVariable THEN {<<Line.name, Len(symbols) + 1>>} ELSE {}])
Repeat ==
  /\ At({"repeat"})
  /\ \/ /\ InSection /\ ~(HasVariable /\ Find(table, Line.name) # None)
        /\ LET added == AddInstruction("repeat", contexts, items)
           IN /\ contexts' = Append(added.contexts, Context("repeat", Top.section, None, Len(added.items)))
              /\ items' = added.items
        /\ tables' = TopTable /\ table' = Len(tables) + 1
        /\ symbols' = IF HasVariable THEN Append(symbols, Symbol("variable", Line.name, {}, pos)) ELSE symbols
        /\ NextLine /\ UNCHANGED uses
     \/ ~InSection /\ Reject("no section")
     \/ InSection /\ HasVariable /\ Find(table, Line.name) # None /\ Reject("duplicate")

KeepTable == UNCHANGED table
LeaveTable == table' = Parent(table)
EndRepeat ==
  /\ At({"endrepeat"})
  /\ \/ /\ Top.kind = "repeat"
        /\ contexts' = Enclosing /\ LeaveTable
        /\ NextLine /\ UNCHANGED <<tables, symbols, items, uses>>
     \/ Top.kind # "repeat" /\ Reject("mismatched endrepeat")

If ==
  /\ At({"if"})
  /\ contexts' = Append(contexts, Context("if", Top.section, Line.name, None))
  /\ NextLine /\ UNCHANGED <<tables, table, symbols, items, uses>>

Else ==
  /\ At({"else"})
  /\ \/ /\ Top.kind = "if" /\ ~Top.hasElse
        /\ contexts' = [contexts EXCEPT ![Len(contexts)].hasElse = TRUE]
        /\ NextLine /\ UNCHANGED <<tables, table, symbols, items, uses>>
     \/ (Top.kind # "if" \/ Top.hasElse) /\ Reject("unexpected else")

\* validateAtPop.  When both branches have global labels it first sets a prefix made
\* of both, and then that of the first branch over it.
PrefixAtPop ==
  IF Top.thenPrefix = None /\ Top.elsePrefix = None THEN Enclosing
  ELSE WithPrefix(Enclosing, IF Top.thenPrefix # None THEN Top.thenPrefix ELSE Top.elsePrefix)
EndIf ==
  /\ At({"endif"})
  /\ \/ /\ Top.kind = "if"
        /\ contexts' = PrefixAtPop
        /\ NextLine /\ UNCHANGED <<tables, table, symbols, items, uses>>
     \/ Top.kind # "if" /\ Reject("mismatched endif")

\* parse() of the next file: another root context.
File ==
  /\ At({"file"})
  /\ \/ /\ Top.kind = "root"
        /\ contexts' = <<Root>> /\ table' = 2
        /\ NextLine /\ UNCHANGED <<tables, symbols, items, uses>>
     \/ Top.kind # "root" /\ Reject("missing end")

\* The end of the last one.
Close == Parsed /\ Top.kind # "root" /\ Reject("missing end")

-----------------------------------------------------------------------------
Init ==
  /\ program \in Programs /\ pos = 1 /\ error = None
  /\ contexts = <<Root>>
  /\ \E order \in [1..Cardinality(ProjectVariables) -> ProjectVariables] :
       /\ \A name \in ProjectVariables : \E s \in DOMAIN order : order[s] = name
       /\ symbols = [s \in DOMAIN order |-> Symbol("constant", order[s], {}, 0)]
       /\ tables = <<[parent |-> 0, entries |-> {<<order[s], s>> : s \in DOMAIN order}],
                     [parent |-> 1, entries |-> {}]>>
  /\ table = 2 /\ items = <<>> /\ uses = {}

Finished == (error # None \/ (Parsed /\ Top.kind = "root")) /\ UNCHANGED vars
Next ==
  \/ Section \/ Repeat \/ EndRepeat \/ If \/ Else \/ EndIf \/ File \/ Close
  \/ AddLabel \/ AddConstant \/ AddUse \/ RejectLine
  \/ Finished
Spec == Init /\ [][Next]_vars

-----------------------------------------------------------------------------
(* What a name evaluates to, once the conditions are known (ExprIdentifier): *)
(* the line that declares it, 0 for a variable of the project, or an error.  *)

Undeclared == -1
Unresolved == -2
Conflict == -3
Valuations == [Conditions -> BOOLEAN]
Assembled(i, given) ==
  \A b \in items[i].path : items[b[1]].kind = "if" => given[items[b[1]].cond] = ~b[2]
HasAddress(line, given) ==
  \E i \in DOMAIN items : items[i].line = line /\ items[i].kind \in {"label", "ephemeral"} /\ Assembled(i, given)
NeedsAddress(line) == line # 0 /\ program[line].op \in {"global", "label", "equhere"}
ValueOf(line, given) == IF NeedsAddress(line) /\ ~HasAddress(line, given) THEN Unresolved ELSE line
Chosen(s, given) == {e \in symbols[s].entries : \A c \in e.cond : given[c[1]] = c[2]}
Resolve(use, given) ==
  LET s == Find(use.table, use.name)
  IN IF s = None THEN Undeclared
     ELSE IF Chosen(s, given) = {} THEN Unresolved
     ELSE IF Cardinality(Chosen(s, given)) > 1 THEN Conflict
     ELSE ValueOf((CHOOSE e \in Chosen(s, given) : TRUE).def, given)

-----------------------------------------------------------------------------
(* What the text says, read without contexts and tables.                   *)

OpsIn(ops, from, to) == Cardinality({l \in from..to : program[l].op \in ops})
Opening == {"repeat", "if"}
Blocks(l) ==
  {b \in 1..l - 1 : /\ program[b].op \in Opening
                    /\ \A m \in b..l : OpsIn(Opening, b, m) > OpsIn({"endrepeat", "endif"}, b, m)}
InElse(b, l) ==
  \E e \in b..l : program[e].op = "else" /\ b \in Blocks(e) /\ \A d \in Blocks(e) : d <= b
Taken(l, given) == \A b \in Blocks(l) : program[b].op = "if" => given[program[b].name] = ~InElse(b, l)
SameFile(k, l) == \A m \in k..l : program[m].op # "file"

\* The global label a local name belongs to: the last one above it in the file, those left
\* out that an #if has in its second branch when it has some in the first.
Globals(l) == {g \in 1..l - 1 : program[g].op = "global" /\ SameFile(g, l)}
Superseded(g, l) ==
  \E b \in Blocks(g) \ Blocks(l) : InElse(b, g) /\ \E h \in Globals(l) : b \in Blocks(h) /\ ~InElse(b, h)
GlobalOf(l) == program[Last({g \in Globals(l) : ~Superseded(g, l)})].name
FullName(l) == IF program[l].local THEN GlobalOf(l) \o program[l].name ELSE program[l].name

Declaring == {"global", "label", "equ", "equhere"}
Declarations(name, last) == {l \in 1..last : program[l].op \in Declaring /\ FullName(l) = name}
Variables(name, l) == {b \in Blocks(l) : program[b].op = "repeat" /\ program[b].name = name}
\* A declaration counts when the branches it is in are taken, those around a #repeat
\* that it is in left out.  A label that counts but is not assembled has no address.
Counted(l, given) ==
  \A b \in Blocks(l) :
    program[b].op = "if" /\ (\A r \in Blocks(l) : program[r].op = "repeat" => r < b) =>
      given[program[b].name] = ~InElse(b, l)
Meaning(l, given) ==
  LET name == FullName(l)
      all == Declarations(name, Len(program))
      counted == {d \in all : Counted(d, given)}
      one == Last(counted)
  IN IF Variables(name, l) # {} THEN Last(Variables(name, l))
     ELSE IF all = {} THEN (IF name \in ProjectVariables THEN 0 ELSE Undeclared)
     ELSE IF counted = {} THEN Unresolved
     ELSE IF Cardinality(counted) > 1 THEN Conflict
     ELSE IF NeedsAddress(one) /\ ~Taken(one, given) THEN Unresolved ELSE one

-----------------------------------------------------------------------------
\* A name means, whatever the conditions turn out to be, the repeat variable or the one
\* declaration that counts which the text says: local names, the tables of the repeats and
\* the alternatives of conditional symbols put together.
UsesMeanWhatTheyName ==
  Parsed /\ Top.kind = "root" =>
    \A u \in uses, given \in Valuations : Resolve(u, given) = Meaning(u.line, given)

\* What is in a branch that is never taken is refused like the rest of its #if.
NeverCounts(l) == \A given \in Valuations : ~Counted(l, given)
\* Another declaration of the name of line l, which the two cannot both be.
Meets(l) ==
  LET name == FullName(l)
      others == Declarations(name, l - 1)
  IN \/ Variables(name, l) # {}
     \/ name \in ProjectVariables /\ (program[l].op = "repeat" \/ Blocks(l) # {})
     \/ program[l].op = "repeat" /\ others # {}
     \/ \E d \in others : \/ (program[d].op \in {"equ", "equhere"}) # (program[l].op \in {"equ", "equhere"})
                          \/ \E given \in Valuations : Counted(d, given) /\ Counted(l, given)
                          \/ NeverCounts(d) \/ NeverCounts(l)
\* A name is refused only if there is another one of it that it could meet: one visible to
\* a repeat variable, a repeat variable around it, one of another type, one that
\* counts under the same conditions, and in an #if one of the project's variables.
OnlyRealDuplicates == error = "duplicate" => Meets(pos)

\* Every line that makes code is in the section it is written in, once, after those above
\* it, and in exactly the blocks and branches that surround it, although the instruction of
\* an #if is only made when the first one inside it is.
Emitting == {l \in 1..pos - 1 : program[l].op \in {"global", "label", "equhere", "use", "repeat"}}
SectionAt(l) == program[Last({m \in 1..l : program[m].op = "section"})].name
PlacedAsWritten ==
  LET own == {i \in DOMAIN items : items[i].kind # "if"}
  IN /\ {items[i].line : i \in own} = Emitting
     /\ \A i, j \in own : i < j => items[i].line < items[j].line
     /\ \A i \in DOMAIN items :
          /\ items[i].section = SectionAt(items[i].line)
          /\ {<<items[b[1]].line, b[2]>> : b \in items[i].path}
               = {<<b, InElse(b, items[i].line)>> : b \in Blocks(items[i].line)}
=============================================================================
