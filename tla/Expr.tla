-------------------------------- MODULE Expr --------------------------------
(***************************************************************************)
(* Tree/Expr.cpp and Tree/Value.cpp: what a tree evaluates to.  A Value is *)
(* a number of LongBits bits, whether it is signed, and whether it counts  *)
(* as a byte, a word or more: after an operation that is decided by the    *)
(* operation on the truncated operands.                                    *)
(*                                                                         *)
(* The widths are those of the code in small: 8, 16, 32 and 64 bits.       *)
(***************************************************************************)
EXTENDS Integers, Sequences, FiniteSets, Bitwise

CONSTANTS ByteBits, WordBits, DWordBits, LongBits, None

ASSUME ExprAssumption ==
  /\ 1 < ByteBits /\ ByteBits < WordBits /\ WordBits < DWordBits /\ DWordBits < LongBits
  /\ LongBits < 2 ^ (ByteBits - 1)

-----------------------------------------------------------------------------
(* Value.                                                                  *)

AsUnsigned(n, w) == n % 2 ^ w
AsSigned(n, w) == IF AsUnsigned(n, w) >= 2 ^ (w - 1) THEN AsUnsigned(n, w) - 2 ^ w ELSE AsUnsigned(n, w)
Long(n) == AsSigned(n, LongBits)
Fits(n, w) == -(2 ^ (w - 1)) <= n /\ n < 2 ^ w

\* significantBitsForNumber: 0, 1 and 2 are NoMoreThan8, NoMoreThan16 and All.
BitsFor(n) == IF Fits(n, ByteBits) THEN 0 ELSE IF Fits(n, WordBits) THEN 1 ELSE 2
Width(bits) == IF bits = 0 THEN ByteBits ELSE WordBits

Value(n, signed, bits) == [err |-> "", n |-> n, signed |-> signed, bits |-> bits]
NumberValue(n) == Value(n, n < 0, BitsFor(n))
Truth(b) == Value(IF b THEN 1 ELSE 0, FALSE, 0)
Failure(why) == [err |-> why, n |-> 0, signed |-> FALSE, bits |-> 0]
Failed(v) == v.err # ""

Truncated(v, w) == IF v.signed THEN AsSigned(v.n, w) ELSE AsUnsigned(v.n, w)
ToSignificantBits(v) == IF v.bits = 2 THEN v ELSE [v EXCEPT !.n = Truncated(v, Width(v.bits))]

-----------------------------------------------------------------------------
(* Operators.                                                              *)

Magnitude(x) == IF x < 0 THEN -x ELSE x
Quotient(x, y) == LET q == Magnitude(x) \div Magnitude(y) IN IF (x < 0) = (y < 0) THEN q ELSE -q

\* What C++ leaves undefined: division by zero and shifts by the width of the number.
Defined(op, x, y) ==
  /\ op \in {"/", "%"} => y # 0 /\ ~(y = -1 /\ x = Long(2 ^ (LongBits - 1)))
  /\ op \in {"<<", ">>"} => y \in 0..LongBits - 1
Result(op, x, y) ==
  CASE op = "+" -> x + y [] op = "-" -> x - y [] op = "*" -> x * y
    [] op = "/" -> Quotient(x, y) [] op = "%" -> x - y * Quotient(x, y)
    [] op = "<<" -> x * 2 ^ y [] op = ">>" -> x \div 2 ^ y

WiderBits(a, b) == IF a.bits > b.bits THEN a.bits ELSE b.bits
EitherSigned(a, b) == a.signed \/ b.signed

\* smartEvaluate: the operation on the whole numbers says the number, the one on the
\* truncated ones what bits of it count.
SmartEvaluate(op, a, b) ==
  LET bits == WiderBits(a, b)
      w == Width(bits)
      unsigned == ~EitherSigned(a, b) /\ (op = "-" => AsUnsigned(b.n, w) <= AsUnsigned(a.n, w))
      x == IF bits = 2 THEN a.n ELSE IF unsigned THEN AsUnsigned(a.n, w) ELSE AsSigned(a.n, w)
      y == IF bits = 2 THEN b.n ELSE IF unsigned THEN AsUnsigned(b.n, w) ELSE AsSigned(b.n, w)
  IN IF ~Defined(op, a.n, b.n) \/ ~Defined(op, x, y) THEN Failure("undefined")
     ELSE Value(Long(Result(op, a.n, b.n)), IF bits = 2 THEN EitherSigned(a, b) ELSE ~unsigned,
                BitsFor(Long(Result(op, x, y))))
\* As if the number were the one of the truncated operation.
TruncatingEvaluate(op, a, b) ==
  LET v == SmartEvaluate(op, ToSignificantBits(a), ToSignificantBits(b))
  IN IF v.bits = 2 THEN v ELSE ToSignificantBits(v)

Arithmetic(op, a, b) == SmartEvaluate(op, a, b)
Shift(op, a, b) ==
  LET count == IF b.n < 0 \/ b.n > LongBits THEN ToSignificantBits(b) ELSE b
  IN IF count.n < 0 \/ count.n > LongBits THEN Failure("shift") ELSE SmartEvaluate(op, a, count)
Compare(op, a, b) ==
  Truth(CASE op = "<" -> a.n < b.n [] op = "<=" -> a.n <= b.n [] op = ">" -> a.n > b.n
          [] op = ">=" -> a.n >= b.n [] op = "==" -> a.n = b.n [] op = "!=" -> a.n # b.n)
BitsOf(n) == AsUnsigned(n, LongBits)
OfBits(op, x, y) ==
  Long(CASE op = "&" -> BitsOf(x) & BitsOf(y) [] op = "|" -> BitsOf(x) | BitsOf(y) [] op = "^" -> BitsOf(x) ^^ BitsOf(y))
BitwiseOf(op, a, b) == Value(OfBits(op, a.n, b.n), EitherSigned(a, b), WiderBits(a, b))
Logic(op, a, b) ==
  Truth(CASE op = "&&" -> a.n # 0 /\ b.n # 0 [] op = "||" -> a.n # 0 \/ b.n # 0)

Relations == {"<", "<=", ">", ">=", "==", "!="}
BinaryValue(op, a, b) ==
  CASE op \in {"+", "-", "*", "/", "%"} -> Arithmetic(op, a, b)
    [] op \in {"<<", ">>"} -> Shift(op, a, b)
    [] op \in Relations -> Compare(op, a, b)
    [] op \in {"&", "|", "^"} -> BitwiseOf(op, a, b)
    [] op \in {"&&", "||"} -> Logic(op, a, b)

\* +2^(w-1) of a signed number does not fit into its bits.
Negate(v) ==
  LET w == Width(v.bits)
      keeps == IF v.signed THEN AsSigned(v.n, w) # -(2 ^ (w - 1)) ELSE AsUnsigned(v.n, w) <= 2 ^ (w - 1)
      n == Long(-v.n)
  IN Value(n, TRUE, IF v.bits = 2 THEN BitsFor(n) ELSE IF keeps THEN v.bits ELSE IF v.bits = 0 THEN 1 ELSE BitsFor(n))
BitwiseNot(v) ==
  IF v.signed THEN Value(-v.n - 1, TRUE, v.bits) ELSE Value(AsUnsigned(-v.n - 1, LongBits - 1), FALSE, v.bits)
UnaryValue(op, v) ==
  CASE op = "neg" -> Negate(v) [] op = "~" -> BitwiseNot(v) [] op = "not" -> Truth(v.n = 0)

-----------------------------------------------------------------------------
(* Trees.  env says what is known: the current address, the constants with *)
(* their trees, the addresses of labels and what is known of sections.  A  *)
(* name declared in the branches of an #if has a constant or a label and a *)
(* condition from each; a #repeat has a variable.                          *)

Known(x) == x # None

RECURSIVE CanEvaluate(_, _, _), Evaluate(_, _, _), CanEvaluateAll(_, _, _, _)

\* The first answer, if it is that something cannot be evaluated.
Then(first, rest) == IF first = "yes" THEN rest ELSE first

\* As if only the first operand were asked.
CanEvaluateFirst(t, i, env, marks) == CanEvaluate(t[2], env, marks)
\* Each operand is asked in turn, up to the first that cannot be evaluated.
CanEvaluateAll(t, i, env, marks) ==
  IF i > Len(t) THEN "yes" ELSE Then(CanEvaluate(t[i], env, marks), CanEvaluateAll(t, i + 1, env, marks))

\* MarkAsEvaluating: a tree met again while it is evaluated.
CanMarked(mark, t, env, marks) == IF mark \in marks THEN "circular" ELSE CanEvaluate(t, env, marks \cup {mark})
ValueMarked(mark, t, env, marks) ==
  IF mark \in marks THEN Failure("circular") ELSE Evaluate(t, env, marks \cup {mark})

Least(I) == CHOOSE i \in I : \A j \in I : i <= j
FirstThatCannot(answers) ==
  LET cannot == {i \in DOMAIN answers : answers[i] # "yes"} IN IF cannot = {} THEN "yes" ELSE answers[Least(cannot)]

\* The conditions of a name are evaluated in turn: the number of the entry whose condition
\* holds, 0 for none of them; a second one is an error.
ConditionCan(name, entries, i, env, marks) == CanMarked(<<name, i, "condition">>, entries[i].condition, env, marks)
ConditionValue(name, entries, i, env, marks) == ValueMarked(<<name, i, "condition">>, entries[i].condition, env, marks)
TheOnly(v) ==
  LET holds == {i \in DOMAIN v : v[i].n # 0}
      wrong == {i \in DOMAIN v : Failed(v[i]) \/ (i \in holds /\ \E j \in holds : j < i)}
  IN IF wrong = {} THEN NumberValue(IF holds = {} THEN 0 ELSE Least(holds))
     ELSE IF Failed(v[Least(wrong)]) THEN v[Least(wrong)] ELSE Failure("conflict")
Choice(name, entries, env, marks) ==
  TheOnly([i \in DOMAIN entries |-> ConditionValue(name, entries, i, env, marks)])
Chosen(choice, v) ==
  IF Failed(choice) THEN choice ELSE IF choice.n = 0 THEN Failure("unresolved") ELSE v[choice.n]

\* ConditionalConstantSymbol asks for the values whose conditions hold: for none of them,
\* and for several, the answer is yes.
Unless(condition, can) == IF Failed(condition) THEN condition.err ELSE IF condition.n = 0 THEN "yes" ELSE can
ConditionalCan(name, entries, env, marks) ==
  FirstThatCannot([i \in DOMAIN entries |->
    Then(ConditionCan(name, entries, i, env, marks),
         Unless(ConditionValue(name, entries, i, env, marks),
                CanMarked(<<name, i, "value">>, entries[i].value, env, marks)))])
ConditionalValue(name, entries, env, marks) ==
  Chosen(Choice(name, entries, env, marks),
         [i \in DOMAIN entries |-> ValueMarked(<<name, i, "value">>, entries[i].value, env, marks)])

\* ConditionalLabelSymbol, and what ExprIdentifier asks of the label it chose.
LabelValue(name, env) == IF Known(env.labels[name]) THEN Value(env.labels[name], FALSE, 1) ELSE Failure("unavailable")
ChosenLabel(name, entries, env, marks) ==
  Chosen(Choice(name, entries, env, marks), [i \in DOMAIN entries |-> LabelValue(entries[i].label, env)])
ChosenCan(choice, entries, env) ==
  IF Failed(choice) THEN choice.err
  ELSE IF choice.n # 0 /\ Known(env.labels[entries[choice.n].label]) THEN "yes" ELSE "no"
ChosenLabelCan(name, entries, env, marks) ==
  Then(FirstThatCannot([i \in DOMAIN entries |-> ConditionCan(name, entries, i, env, marks)]),
       ChosenCan(Choice(name, entries, env, marks), entries, env))

IdentifierCan(name, env, marks) ==
  CASE name \in DOMAIN env.constants -> CanMarked(<<name>>, env.constants[name], env, marks)
    [] name \in DOMAIN env.conditionals -> ConditionalCan(name, env.conditionals[name], env, marks)
    [] name \in DOMAIN env.variables -> "yes"
    [] name \in DOMAIN env.labels -> IF Known(env.labels[name]) THEN "yes" ELSE "no"
    [] name \in DOMAIN env.choices -> ChosenLabelCan(name, env.choices[name], env, marks)
    [] OTHER -> "undeclared"
IdentifierValue(name, env, marks) ==
  CASE name \in DOMAIN env.constants -> ValueMarked(<<name>>, env.constants[name], env, marks)
    [] name \in DOMAIN env.conditionals -> ConditionalValue(name, env.conditionals[name], env, marks)
    [] name \in DOMAIN env.variables -> NumberValue(env.variables[name])
    [] name \in DOMAIN env.labels -> LabelValue(name, env)
    [] name \in DOMAIN env.choices -> ChosenLabel(name, env.choices[name], env, marks)
    [] OTHER -> Failure("undeclared")

CanEvaluate(t, env, marks) ==
  CASE t[1] = "number" -> "yes"
    [] t[1] = "$" -> IF Known(env.address) THEN "yes" ELSE "no"
    [] t[1] \in {"id", "local"} -> IdentifierCan(t[2], env, marks)
    [] t[1] \in {"addressof", "baseof", "sizeof"} -> IF Known(env.sections[t[2]]) THEN "yes" ELSE "no"
    [] t[1] = "here" -> IF t[3] = <<>> THEN "yes" ELSE CanEvaluate(t[3], env, marks)
    [] OTHER -> CanEvaluateAll(t, 2, env, marks)

Evaluate(t, env, marks) ==
  CASE t[1] = "number" -> NumberValue(t[2])
    [] t[1] = "$" -> IF Known(env.address) THEN NumberValue(env.address) ELSE Failure("unavailable")
    [] t[1] \in {"id", "local"} -> IdentifierValue(t[2], env, marks)
    [] t[1] \in {"addressof", "baseof", "sizeof"} ->
         IF Known(env.sections[t[2]]) THEN NumberValue(env.sections[t[2]]) ELSE Failure("unavailable")
    [] t[1] = "here" -> IF t[3] = <<>> THEN NumberValue(0) ELSE Evaluate(t[3], env, marks)
    [] OTHER ->
         LET a == Evaluate(t[2], env, marks)
             b == Evaluate(t[3], env, marks)
         IN IF Failed(a) THEN a
            ELSE IF Len(t) = 2 THEN UnaryValue(t[1], a)
            ELSE IF t[1] = "?" THEN (IF a.n # 0 THEN b ELSE Evaluate(t[4], env, marks))
            ELSE IF Failed(b) THEN b
            ELSE BinaryValue(t[1], a, b)

-----------------------------------------------------------------------------
(* evaluateByte and its kin: the number that is written, or None.          *)

Written(v, w, truncates) == IF v.bits <= truncates \/ Fits(v.n, w) THEN AsUnsigned(v.n, w) ELSE None
ByteOf(v) == Written(v, ByteBits, 0)
WordOf(v) == Written(v, WordBits, 1)
DWordOf(v) == Written(v, DWordBits, 1)
UnsignedWordOf(v) ==
  IF v.bits <= 1 \/ (0 <= v.n /\ v.n < 2 ^ WordBits) THEN AsUnsigned(v.n, WordBits) ELSE None
Distance(v, next) == (IF v.bits # 2 THEN Truncated(v, WordBits) ELSE v.n) - next
ByteOffsetOf(v, next) ==
  IF AsSigned(Distance(v, next), ByteBits) = Distance(v, next) THEN AsUnsigned(Distance(v, next), ByteBits) ELSE None
=============================================================================
