---------------------------- MODULE MCExpression ----------------------------
(* Families of operands for TLC. *)
EXTENDS Expression, TLC

N(n) == <<"number", n>>
S(k) == <<k, k>>
Name(x) == <<"id", x>>
Operator == UNION {Level[i] : i \in DOMAIN Level}

Free == [unambiguous |-> TRUE, here |-> FALSE, prefix |-> TRUE, registers |-> {}]
HereAllowed == [Free EXCEPT !.here = TRUE]
AsOperand == [unambiguous |-> FALSE, here |-> TRUE, prefix |-> FALSE, registers |-> {"hl"}]

\* Constants that name each other, a label, themselves; labels known and unknown.
Env == [address |-> None,
        constants |-> [two |-> N(2), size |-> <<"-", Name("end"), Name("start")>>, loop |-> <<"+", Name("pool"), N(1)>>,
                       pool |-> <<"?", N(1), Name("two"), Name("loop")>>],
        labels |-> [start |-> 60, end |-> None, hl |-> 9],
        sections |-> [code |-> None, hl |-> 7, sizeof |-> 3],
        conditionals |-> <<>>, choices |-> <<>>, variables |-> <<>>]
Placed == [Env EXCEPT !.address = 8, !.labels.end = 255, !.sections.code = 40]

\* Names from the branches of #ifs: of which none, one or both are there, that wait for what
\* is in one, that go around in a circle in a value or a condition, whose condition cannot be
\* evaluated, and a label that one of two branches places.
If(cond, const) == [condition |-> cond, value |-> const]
Low(label) == <<"<", Name(label), N(100)>>
Branches(turn) ==
  [Placed EXCEPT
    !.labels = [start |-> 60, end |-> None, far |-> None, early |-> None, late |-> 30],
    !.conditionals = [some |-> <<If(Low("end"), N(3)), If(Low("far"), Name("size"))>>,
                      ring |-> <<If(Low("end"), <<"+", Name("ring"), N(1)>>), If(Low("far"), N(7))>>,
                      knot |-> <<If(Name("knot"), N(1))>>,
                      odd |-> <<If(<<"/", N(1), <<"-", Name("end"), N(5)>>>>, N(2)), If(Name("some"), N(9))>>],
    !.choices = [spot |-> <<[condition |-> Low("end"), label |-> "early"], [condition |-> Name("turn"), label |-> "late"]>>],
    !.variables = [turn |-> turn]]
Atom2 == {Name("some"), Name("ring"), Name("knot"), Name("odd"), Name("spot"), Name("turn"), N(1)}
Declared ==
  {<<a, S(op), b>> : a \in Atom2, op \in {"-", "*"}, b \in Atom2}
  \cup {<<c, S("?"), a, S(":"), b>> : c \in Atom2, a \in {Name("some"), Name("spot")}, b \in {Name("ring"), Name("turn")}}

\* A text in a source file, as the operand of a directive, or in the project file.
Spelled(token) == CASE token[1] = "number" -> ToString(token[2]) [] token[1] = "local" -> "@@" \o token[2] [] OTHER -> token[2]
RECURSIVE Spelt(_)
Spelt(operand) == IF operand = <<>> THEN "" ELSE " " \o Spelled(Head(operand)) \o Spelt(Tail(operand))
Line(operand) == "db" \o Spelt(operand)
Case(operands, fs, es) ==
  {[texts |-> {Line(t) : t \in operands}, assembler |-> TRUE, asked |-> f, env |-> e] : f \in fs, e \in es}
CharCase(texts) ==
  {[texts |-> {"db " \o t : t \in texts}, assembler |-> TRUE, asked |-> HereAllowed, env |-> Placed],
   [texts |-> texts, assembler |-> FALSE, asked |-> Free, env |-> Placed]}

\* What the numbers do: each operator on the numbers around the widths, and each after each.
Numbers == {0, 1, 2, 3, 7, 15, 16, 17, 31, 32, 127, 128, 255, 256, 2047, 2048}
OneOperator == {<<N(x), S(op), N(y)>> : x \in Numbers, op \in Operator, y \in Numbers}
TwoOperators ==
  {<<N(x), S(p), N(y), S(q), N(z)>> : p \in Operator, q \in Operator,
     <<x, y, z>> \in {<<31, 3, 2>>, <<2, 3, 31>>, <<200, 200, 31>>, <<16, 4, 4>>}}
Grouped ==
  {<<S("("), N(x), S(p), N(y), S(")"), S(q), N(z)>> : p \in Operator, q \in Operator,
     <<x, y, z>> \in {<<20, 20, 31>>, <<3, 31, 2>>, <<17, 16, 15>>}}
  \cup {<<N(x), S(p), S("("), N(y), S(q), N(z), S(")")>> : p \in Operator, q \in Operator,
          <<x, y, z>> \in {<<7, 255, 250>>, <<200, 1, 3>>}}
Unaries ==
  {<<S(u), N(x), S(op), N(y)>> : u \in Unary, x \in {1, 16, 200}, op \in Operator, y \in {2, 31}}
  \cup {<<N(x), S(op), S(u), N(y)>> : u \in Unary, x \in {2, 31}, op \in Operator, y \in {1, 16, 200}}
  \cup {<<S(u), S("("), S(v), N(x), S(")")>> : u \in Unary, v \in Unary, x \in Numbers}

\* What names and addresses do.
Atom1 == {Name("two"), Name("size"), Name("start"), Name("end"), Name("loop"), Name("nowhere"), S("$"), N(1)}
Names ==
  {<<a, S(op), b>> : a \in Atom1, op \in {"+", "-", "*"}, b \in Atom1}
  \cup {<<c, S("?"), a, S(":"), b>> : c \in Atom1, a \in Atom1, b \in Atom1}
  \cup {<<Name(g), S("("), Name("code"), S(")"), S("-"), a>> : g \in Functions, a \in Atom1}
Hidden ==
  {<<S("{"), S("@here"), Name("var"), S("="), a, S("+"), b, S("}")>> : a \in Atom1, b \in Atom1}
  \cup {<<S("{"), S("@here"), Name("var"), S("}")>>, <<N(1), S("+"), S("{"), S("@here"), Name("var"), S("}")>>,
         <<S("{"), S("@here"), Name("var"), S("="), S("{"), S("@here"), Name("var"), S("}"), S("}")>>}

\* What the parser does: every text of a few tokens.
Strings(alphabet, n) == UNION {[1..k -> alphabet] : k \in 1..n}
Short ==
  Strings({N(1), S("-"), S("*"), S("("), S(")"), S("?"), S(":"), S("!")}, 4)
  \cup Strings({N(1), S("-"), S("*"), S("("), S(")")}, 5) \cup Strings({N(1), S("?"), S(":"), S("-")}, 5)
Levels == {<<N(1), S(p), N(2), S(q), N(3), S(r), N(1)>> : p \in Operator, q \in {"*", "<", "&&", "-"}, r \in Operator}
Ternaries ==
  {<<N(1)>> \o p \o <<N(2)>> \o q \o <<N(3)>> \o r \o <<N(1)>> \o s \o <<N(0)>> :
     p \in {<<S("?")>>, <<S("-")>>}, q \in {<<S("?")>>, <<S(":")>>, <<S("||")>>}, r \in {<<S("?")>>, <<S(":")>>, <<S("+")>>},
     s \in {<<S(":")>>, <<S("=="), S("-")>>}}
Odd == Strings({N(1), Name("hl"), Name("sizeof"), <<"local", "near">>, S("("), S(")"), S("+")}, 4)

\* What the lexer does: every text of a few characters, numbers around the greatest, lines and comments.
RECURSIVE Spellings(_, _)
Spellings(alphabet, n) ==
  IF n = 0 THEN {""} ELSE {""} \cup {c \o rest : c \in alphabet, rest \in Spellings(alphabet, n - 1)}
Greatest ==
  {"2047", "2048", "2049", "2050", "20470", "0x7ff", "0x800", "0x7FF1", "0b11111111111", "0b100000000000", "0B2", "0Xg", "09",
   "1f", "0x1G", "0b12"}
Texts ==
  {Spellings({"/", "*", "1", "\n", ";"}, 5), Spellings({"a", "f", "@", "'", ":"}, 4),
   Spellings({"'", "\"", "\\", "a", "\n"}, 4), Spellings({"0", "b", "1", "x", "-"}, 4),
   {"1" \o op \o "2" : op \in Spellings({"<", "=", ">", "!", "&", "|"}, 3)},
   Greatest \cup {x \o "+1" : x \in Greatest},
   {"a@@b", "a@@b@@c", "@@a@@b", "a@@b:", "@@a:", "two?start:1", "two ?start :1", "'a'+1", "'\\''", "'\\e'", "\"\\e\"",
    "sizeof(code)", "sizeof\n(code)", "(1\n)", "1+\n2", "1 /* \n */ + 2", "1 /* \n */\n+ 2", "\n1", "1\n", "1 // 2", "1 ; 2",
    "/* // */ 1 // /*", "{@here a}", "{@here if}", "{@hereif}", "{@here:}", "if", "iff", "true", "1.", "a'", "af'",
    "ex af,af'", "#1", "\t1 \t", "\"1\n\"", "'\\\n'+1", "\"\\\n\" 1\n2"}}

MCCases ==
  UNION {Case(operands, {Free}, {Placed}) : operands \in {OneOperator, TwoOperators, Grouped, Unaries, Levels}}
  \cup UNION {Case(operands, {Free}, {Env}) : operands \in {Short, Ternaries}}
  \cup Case(Names, {Free}, {Env, Placed}) \cup Case(Hidden, {Free, HereAllowed}, {Env})
  \cup Case(Odd, {Free, AsOperand}, {Env}) \cup Case(Declared, {Free}, {Branches(0), Branches(3)})
  \cup UNION {CharCase(texts) : texts \in Texts}
=============================================================================
