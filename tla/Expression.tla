----------------------------- MODULE Expression -----------------------------
(***************************************************************************)
(* An operand on its way from its characters to the bytes that are         *)
(* written: its text is scanned, it is parsed once, asked again and again  *)
(* whether it can be evaluated while the linker finds out about labels and *)
(* sections, and then evaluated.                                           *)
(***************************************************************************)
EXTENDS Lexer, ExprParser, Expr

CONSTANTS
  Cases,      (* the texts, the way each is parsed and what is known at first *)
  Addresses   (* what labels, sections and the current address may turn out to be *)

VARIABLES chars, assembler, tokens, asked, env, phase, tree, next, value, kind, written
source == <<chars, assembler, tokens, asked>>
vars == <<source, env, phase, tree, next, value, kind, written>>

Kinds == {"byte", "word", "unsigned word", "dword", "byte offset"}
WidthOf(k) == CASE k \in {"byte", "byte offset"} -> ByteBits [] k = "dword" -> DWordBits [] OTHER -> WordBits

Init ==
  /\ \E c \in Cases : chars \in c.texts /\ assembler = c.assembler /\ asked = c.asked /\ env = c.env
  /\ phase = "chars" /\ tokens = <<>> /\ tree = Fail /\ next = 1 /\ value = Failure("none") /\ kind = None /\ written = None

\* A line of a source file, which is a directive and its operand, or an attribute of the project file.
ScanText ==
  /\ phase = "chars"
  /\ tokens' = Scan(chars, 1, assembler, assembler)
  /\ phase' = IF \E i \in DOMAIN tokens' : tokens'[i].token = Refused THEN "illegible" ELSE "scanned"
  /\ UNCHANGED <<chars, assembler, asked, env, tree, next, value, kind, written>>

\* The operand is on the line it begins on.
text ==
  LET from == IF assembler THEN 2 ELSE 1
      until == CHOOSE k \in from..Len(tokens) + 1 :
                 /\ k \in DOMAIN tokens => tokens[k].first
                 /\ \A i \in from..k - 1 : ~tokens[i].first
  IN [i \in 1..until - from |-> tokens[from + i - 1].token]
IsWholeText(parsed) == parsed[2] = Len(tokens) + 1

\* What is after the operand of a directive is left to the caller; an attribute is an expression and no more.
Parse ==
  /\ phase = "scanned"
  /\ LET parsed == ParseOperand(text, asked)
     IN IF parsed = Fail \/ (~assembler /\ ~IsWholeText(parsed)) THEN phase' = "refused" /\ UNCHANGED <<tree, next>>
        ELSE phase' = "parsed" /\ tree' = parsed[1] /\ next' = parsed[2]
  /\ UNCHANGED <<source, env, value, kind, written>>

\* What is not known yet becomes known, in any order.
Learn(e) == phase = "parsed" /\ env' = e /\ UNCHANGED <<source, phase, tree, next, value, kind, written>>
ResolveLabel ==
  \E name \in DOMAIN env.labels, a \in Addresses : ~Known(env.labels[name]) /\ Learn([env EXCEPT !.labels[name] = a])
ResolveSection ==
  \E name \in DOMAIN env.sections, a \in Addresses :
    ~Known(env.sections[name]) /\ Learn([env EXCEPT !.sections[name] = a])
ResolveAddress == ~Known(env.address) /\ \E a \in Addresses : Learn([env EXCEPT !.address = a])

Ask(answer) == phase = "parsed" /\ CanEvaluate(tree, env, {}) = answer
\* Asking throws, from the conditions of a name too, which are evaluated for the answer.
Fatal == {"circular", "undeclared", "unresolved", "conflict", "undefined", "shift", "unavailable"}
Reject ==
  /\ \E fatal \in Fatal : Ask(fatal) /\ value' = Failure(fatal)
  /\ phase' = "rejected" /\ UNCHANGED <<source, env, tree, next, kind, written>>
EvaluateTree ==
  /\ Ask("yes")
  /\ value' = Evaluate(tree, env, {})
  /\ phase' = IF Failed(value') THEN "failed" ELSE "evaluated"
  /\ UNCHANGED <<source, env, tree, next, kind, written>>

\* A relative jump is two bytes long.
NextAddress == env.address + 2
Write(k, number) ==
  /\ phase = "evaluated" /\ phase' = "written" /\ kind' = k /\ written' = number
  /\ UNCHANGED <<source, env, tree, next, value>>
WriteByte == Write("byte", ByteOf(value))
WriteWord == Write("word", WordOf(value))
WriteUnsignedWord == Write("unsigned word", UnsignedWordOf(value))
WriteDWord == Write("dword", DWordOf(value))
WriteByteOffset == Write("byte offset", IF Known(env.address) THEN ByteOffsetOf(value, NextAddress) ELSE None)

Waiting == phase = "parsed" /\ Ask("no")
Over == (phase \in {"illegible", "refused", "rejected", "failed", "written"} \/ Waiting) /\ UNCHANGED vars
Next ==
  \/ ScanText \/ Parse \/ ResolveLabel \/ ResolveSection \/ ResolveAddress \/ Reject \/ EvaluateTree
  \/ WriteByte \/ WriteWord \/ WriteUnsignedWord \/ WriteDWord \/ WriteByteOffset
  \/ Over
Spec == Init /\ [][Next]_vars

-----------------------------------------------------------------------------
(* The number a tree stands for in unbounded arithmetic, as a set: nothing *)
(* where C++ leaves it undefined or 64 bits do not hold a part of it.      *)

RECURSIVE Exact(_, _)
Held(n) == {m \in {n} : Long(m) = m}
ExactBinary(op, x, y) ==
  CASE op \in {"+", "-", "*", "/", "%", "<<", ">>"} -> IF Defined(op, x, y) THEN Held(Result(op, x, y)) ELSE {}
    [] op \in {"&", "|", "^"} -> {OfBits(op, x, y)}
    [] op \in Relations -> {Compare(op, NumberValue(x), NumberValue(y)).n}
    [] op \in {"&&", "||"} -> {Logic(op, NumberValue(x), NumberValue(y)).n}
ExactUnary(op, x) == CASE op = "neg" -> Held(-x) [] op = "~" -> {-x - 1} [] op = "not" -> {IF x = 0 THEN 1 ELSE 0}
\* Which branches of an #if are there, the trees a name stands for, and what it is without one.
Present(entries, e) == {i \in DOMAIN entries : \E c \in Exact(entries[i].condition, e) : c # 0}
NamedTrees(name, e) ==
  IF name \in DOMAIN e.constants THEN {e.constants[name]}
  ELSE IF name \in DOMAIN e.conditionals THEN {e.conditionals[name][i].value : i \in Present(e.conditionals[name], e)}
  ELSE {}
Stated(name, e) ==
  CASE name \in DOMAIN e.variables -> {e.variables[name]}
    [] name \in DOMAIN e.labels -> {e.labels[name]}
    [] name \in DOMAIN e.choices -> {e.labels[e.choices[name][i].label] : i \in Present(e.choices[name], e)}
    [] OTHER -> {}
Exact(t, e) ==
  CASE t[1] = "number" -> {t[2]}
    [] t[1] = "$" -> {e.address}
    [] t[1] \in {"id", "local"} -> Stated(t[2], e) \cup UNION {Exact(named, e) : named \in NamedTrees(t[2], e)}
    [] t[1] \in Functions -> {e.sections[t[2]]}
    [] t[1] = "here" -> IF t[3] = Fail THEN {0} ELSE Exact(t[3], e)
    [] t[1] = "?" -> UNION {Exact(IF c = 0 THEN t[4] ELSE t[3], e) : c \in Exact(t[2], e)}
    [] t[1] \in {"neg", "~", "not"} -> UNION {ExactUnary(t[1], x) : x \in Exact(t[2], e)}
    [] OTHER -> UNION {ExactBinary(t[1], x, y) : x \in Exact(t[2], e), y \in Exact(t[3], e)}

\* The parts of a tree, those of the names in it included.
RECURSIVE Parts(_, _)
Below(t, e) ==
  {t[i] : i \in {j \in Subtrees(t) : t[j] # Fail}} \cup (IF t[1] \in {"id", "local"} THEN NamedTrees(t[2], e) ELSE {})
Parts(t, e) == {t} \cup UNION {Parts(part, e) : part \in Below(t, e)}

\* Whether a tree has no negative part, and whether it has a part of some operator.
Natural(t, e) == \A p \in Parts(t, e) : p[1] \notin {"neg", "~"} /\ Exact(p, e) # {} /\ Exact(p, e) \subseteq Nat
Has(ops, t, e) == \E p \in Parts(t, e) : p[1] \in ops

\* A name in an expression that no branch of an #if declares, or more than one.
Undecided(t, e) ==
  \E p \in Parts(t, e) : /\ p[1] \in {"id", "local"} /\ p[2] \in DOMAIN e.conditionals
                         /\ Cardinality(Present(e.conditionals[p[2]], e)) # 1

\* What the bytes are for: the number, or how far it is.
Meant(n) == IF kind = "byte offset" THEN n - NextAddress ELSE n
FitsKind(n) ==
  CASE kind = "byte offset" -> AsSigned(n, ByteBits) = n
    [] kind = "unsigned word" -> 0 <= n /\ n < 2 ^ WordBits
    [] OTHER -> Fits(n, WidthOf(kind))
Meanings == IF phase = "written" /\ (kind = "byte offset" => Known(env.address)) THEN Exact(tree, env) ELSE {}

-----------------------------------------------------------------------------
(* Properties.                                                             *)

\* A text is scanned as written: between the tokens, before and after them is nothing but
\* blanks, line ends and comments, each token is the longest lexeme that begins where it
\* does and says what the lexeme means, it is the first of its line if a line ends before
\* it outside of a comment, and its line is that of its end.  What is not scanned cannot be,
\* and no number is out of range but for the last digit of a decimal one.
ScansAsWritten ==
  phase \in {"scanned", "illegible"} =>
    LET lexed == {i \in DOMAIN tokens : tokens[i].token # Refused}
        After(i) == IF i = 0 THEN 1 ELSE tokens[i].next
        Longest(t) == t.next - 1 = CHOOSE j \in t.from..Len(chars) :
                                     /\ IsLexeme(chars, t.from, j)
                                     /\ \A k \in j + 1..Len(chars) : ~IsLexeme(chars, t.from, k)
    IN /\ \A i \in DOMAIN tokens : IsGap(chars, After(i - 1), tokens[i].from, assembler)
       /\ phase = "scanned" => IsGap(chars, After(Len(tokens)), Len(chars) + 1, assembler)
       /\ phase = "illegible" => IsIllegible(chars, tokens[Len(tokens)].from, assembler)
       /\ \A i \in lexed :
            LET t == tokens[i]
            IN /\ Longest(t) /\ IsMeant(chars, t.from, t.next - 1, t.token)
               /\ \A j \in t.from..Len(chars) + 1 : ~IsComment(chars, t.from, j, assembler)
               /\ t.first <=> (i = 1 /\ assembler) \/ EndsLine(chars, After(i - 1), t.from, assembler)
               /\ t.line = 1 + Cardinality({k \in 1..t.next - 1 : Char(chars, k) = "\n"})
               /\ t.token[1] = "number" =>
                    t.token[2] <= 2 ^ NumberBits - 1 + (IF Radix(chars, t.from) = 10 THEN 9 - ((2 ^ NumberBits - 1) % 10) ELSE 0)

\* An attribute has no second line.
IsOneLine == assembler \/ Len(text) = Len(tokens)
\* The recursive descent finds the one tree that the grammar of the operators' levels,
\* their grouping to the left and the restrictions of the caller give to a text, refuses a
\* text that has none, and never has more than one to choose from.
ParsesAsGrammar ==
  phase \in {"parsed", "refused"} =>
    /\ {t \in Trees(text, 1, Len(text), 0, asked) : IsOneLine /\ (ContainsHere(t) => t[1] = "here")} =
         (IF tree # Fail /\ next = Len(text) + 1 THEN {tree} ELSE {})
    /\ tree # Fail => Trees(text, 1, next - 1, 0, asked) = {tree}

\* An expression that says it can be evaluated does not fail for want of an address, of a
\* section or of a symbol, and does not go around in a circle.  Only of a constant from the
\* branches of an #if it cannot be sure: where none is there, or several are, the answer is
\* yes and the evaluation throws (Symbol.cpp:28, Expr.cpp:420).
AskedMeansAvailable ==
  phase \in {"evaluated", "failed"} =>
    /\ value.err \notin {"unavailable", "undeclared", "circular"}
    /\ value.err \in {"unresolved", "conflict"} => Undecided(tree, env)

\* The bytes are those of the number the expression stands for, whatever its parts counted
\* as on the way, one that fits is written, and where no part is negative nothing else is.
\* (Of ~ the top bit is not the number's, and a negative number makes a far address
\* negative: such a jump may be refused.)
WritesTheNumber ==
  \A n \in Meanings :
    /\ Natural(tree, env) /\ written # None => FitsKind(Meant(n))
    /\ written # None /\ ~Has({"~"}, tree, env) => written = AsUnsigned(Meant(n), WidthOf(kind))
    /\ FitsKind(Meant(n)) /\ ~Has({"~"}, tree, env) /\ (kind = "byte offset" => Natural(tree, env)) => written # None
=============================================================================
