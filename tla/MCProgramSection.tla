-------------------------- MODULE MCProgramSection --------------------------
(* Instances of ProgramSection: programs are written as sequences of tokens. *)
EXTENDS ProgramSection, FiniteSets, SequencesExt

Token(op, kind, arg) == <<[op |-> op, kind |-> kind, arg |-> arg, name |-> ""]>>
Name(op, name) == <<[op |-> op, kind |-> "number", arg |-> 0, name |-> name]>>
L(name) == Name("label", name)
U(name) == Name("use", name)
Data == Token("data", "number", 0)
Ext == Token("ext", "number", 0)
HereWord == Token("here", "number", 0)
Defs(kind, n) == Token("defs", kind, n)
Repeat(kind, n, body) == Token("repeat", kind, n) \o body \o Token("endrepeat", "number", 0)
If(kind, n, then, else) ==
  Token("if", kind, n) \o then \o Token("else", "number", 0) \o else \o Token("endif", "number", 0)
IfOnly(kind, n, then) == Token("if", kind, n) \o then \o Token("endif", "number", 0)

Opens == {"repeat", "if"}
Closes == {"endrepeat", "endif"}
Close(T, q) ==
  Min({r \in q..Len(T) : Cardinality({x \in q..r : T[x].op \in Opens}) = Cardinality({x \in q..r : T[x].op \in Closes})})
Blocks(T, p) == {q \in 1..p - 1 : T[q].op \in Opens /\ p <= Close(T, q)}
Inner(S) == IF S = {} THEN 0 ELSE Max(S)
Elses(T, q) == {e \in q..Close(T, q) : T[e].op = "else" /\ Inner(Blocks(T, e)) = q}
To(T, p) ==
  CASE T[p].op = "repeat" -> Close(T, p)
    [] T[p].op = "if" -> IF Elses(T, p) = {} THEN Close(T, p) ELSE Max(Elses(T, p))
    [] T[p].op = "else" -> Close(T, Inner(Blocks(T, p)))
    [] OTHER -> 0
Ifs(T, p) == {q \in Blocks(T, p) : T[q].op = "if"}

Program(T, pack, copy) ==
  [op |-> [p \in DOMAIN T |-> T[p].op],
   kind |-> [p \in DOMAIN T |-> T[p].kind], arg |-> [p \in DOMAIN T |-> T[p].arg],
   label |-> [p \in DOMAIN T |->
                IF T[p].op = "use" THEN CHOOSE q \in DOMAIN T : T[q].op = "label" /\ T[q].name = T[p].name ELSE 0],
   within |-> [p \in DOMAIN T |-> Inner({q \in Blocks(T, p) : T[q].op = "repeat"})],
   outer |-> [p \in DOMAIN T |-> Inner(Blocks(T, p))],
   to |-> [p \in DOMAIN T |-> To(T, p)],
   under |-> [p \in DOMAIN T |-> {<<q, \A e \in Elses(T, q) : p < e>> : q \in Ifs(T, p)}],
   packed |-> pack, twice |-> copy]

\* A repeat of a label, a use of it and another instruction, in any order.
Bodies ==
  {FlattenSeq(b) : b \in {c \in [1..3 -> {L("a"), U("a"), Data, Ext, HereWord}] :
     Cardinality({j \in 1..3 : c[j] = L("a")}) = 1}}
Repeats == {Data \o Repeat("number", n, b) \o U("a") : n \in {1, 3}, b \in Bodies}

\* Nested repeats, whose inner labels are used from inside, between and outside.
Nested ==
  {Repeat("number", 2, L("b") \o Repeat(k, 2, b \o U("b")) \o U("a") \o U("b")) \o U("a") \o L("c") :
     k \in {"number", "ext"}, b \in {L("a") \o U("a"), U("a") \o Data \o L("a"), L("a") \o Ext}}
Triangle == {Repeat("number", 3, L("b") \o Repeat("var", 0, L("a") \o U("a") \o U("b"))) \o U("b")}

\* Conditions on the repeat variable and on what other sections tell.
Conditional ==
  {Repeat("number", 3, U("b") \o If("var", 0, L("a") \o U("a") \o x, Data) \o L("b")) \o y :
     x \in {Ext, Data},
     y \in {U("b"), Defs("ext", 3), If("ext", 0, Data, L("c") \o U("c")), Repeat("ext", 2, Data)}}
  \cup {Repeat("number", 3, L("a") \o U("a") \o IfOnly("var", 0, Defs("ext", 1)))}

\* Compressed sections: with and without code that needs a base.
Packed ==
  {Repeat("number", 2, L("a") \o x \o IfOnly("var", 0, Ext)) : x \in {Data, Ext, HereWord, U("a")}}

\* Assertions about the iteration and about other sections.
Ensure(kind, n) == Token("ensure", kind, n)
Ensured ==
  {Repeat("number", 2, L("a") \o IfOnly("var", 0, Ensure(k, n)) \o U("a")) \o U("a") :
     k \in {"number", "ext", "var"}, n \in {0, 1}}

\* Sections two files list.
Listed == Repeats \cup Ensured \cup {t \in Nested : Len(t) < 11}

PassPrograms ==
  {Program(T, FALSE, FALSE) : T \in Repeats \cup Nested \cup Triangle \cup Conditional \cup Ensured}
    \cup {Program(T, FALSE, TRUE) : T \in Listed}
    \cup {Program(T, TRUE, b) : T \in Packed, b \in BOOLEAN}

\* A section two files list, whose length depends on the variable of a #repeat and on
\* another section.
CopiedPrograms ==
  {Program(Repeat("number", 2, If("var", 0, Ext \o Data, Data)) \o Defs("ext", 1), FALSE, TRUE)}

\* What the theorems about labels and sizes ask of the programs holds of these.
ASSUME Sized == FixedSizes
=============================================================================
