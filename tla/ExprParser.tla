----------------------------- MODULE ExprParser -----------------------------
(***************************************************************************)
(* ExpressionParser.cpp: from tokens to trees.  A token is its kind and,   *)
(* of numbers and names, what it says; a tree is its operator and its      *)
(* operands.  A parse gives a tree and the position after it, or Fail.     *)
(***************************************************************************)
EXTENDS Naturals, Sequences, FiniteSets

Fail == <<>>
Kind(s, p) == IF p \in DOMAIN s THEN s[p][1] ELSE "end"

\* BINARY_OPERATOR_METHOD and the loops after it, from the weakest to the strongest.
Level ==
  <<{"||"}, {"&&"}, {"|"}, {"^"}, {"&"}, {"==", "!="}, {"<", "<=", ">", ">="}, {"<<", ">>"}, {"+", "-"},
    {"*", "/", "%"}>>
UnaryLevel == Len(Level) + 1
UnaryTree(op, operand) ==
  CASE op = "+" -> operand [] op = "-" -> <<"neg", operand>> [] op = "!" -> <<"not", operand>>
    [] op = "~" -> <<"~", operand>>
Unary == {"+", "-", "!", "~"}
Functions == {"addressof", "baseof", "sizeof"}

\* How a parse is asked for: unambiguous, allowHereVariable, whether there is a global
\* label for local names, and the registers and conditions that names must not be.
Sure(f) == [f EXCEPT !.unambiguous = TRUE]
Ambiguous(f, name) == ~f.unambiguous /\ name \in f.registers

Subtrees(t) == {i \in 2..Len(t) : t[1] \notin {"number", "id", "local", "$"} \cup Functions /\ (t[1] = "here" => i = 3)}
RECURSIVE ContainsHere(_)
ContainsHere(t) == t[1] = "here" \/ \E i \in Subtrees(t) : t[i] # Fail /\ ContainsHere(t[i])

-----------------------------------------------------------------------------
(* The recursive descent.                                                  *)

RECURSIVE Conditional(_, _, _), Binary(_, _, _, _), Operators(_, _, _, _)

Closed(s, e, kind) == IF e # Fail /\ Kind(s, e[2]) = kind THEN <<e[1], e[2] + 1>> ELSE Fail

Function(s, p) ==
  IF Kind(s, p + 2) = "id" /\ Kind(s, p + 3) = ")" THEN <<<<s[p][2], s[p + 2][2]>>, p + 4>> ELSE Fail
Identifier(s, p, f) ==
  IF Ambiguous(f, s[p][2]) THEN Fail
  ELSE IF s[p][2] \in Functions /\ Kind(s, p + 1) = "(" THEN Function(s, p)
  ELSE <<s[p], p + 1>>

HereVariable(s, p, f) ==
  LET value == Conditional(s, p + 4, [Sure(f) EXCEPT !.here = TRUE])
  IN IF Kind(s, p + 1) # "@here" \/ Kind(s, p + 2) \notin {"id", "keyword", "local"} \/ ~f.here THEN Fail
     ELSE IF Kind(s, p + 3) # "=" THEN Closed(s, <<<<"here", s[p + 2][2], Fail>>, p + 3>>, "}")
     ELSE IF value = Fail THEN Fail
     ELSE IF ContainsHere(value[1]) THEN Fail
     ELSE Closed(s, <<<<"here", s[p + 2][2], value[1]>>, value[2]>>, "}")

Atom(s, p, f) ==
  CASE Kind(s, p) \in {"number", "$"} -> <<s[p], p + 1>>
    [] Kind(s, p) = "char" -> <<<<"number", s[p][2]>>, p + 1>>
    [] Kind(s, p) = "local" -> IF f.prefix THEN <<s[p], p + 1>> ELSE Fail
    [] Kind(s, p) = "id" -> Identifier(s, p, f)
    [] Kind(s, p) = "(" -> IF f.unambiguous THEN Closed(s, Conditional(s, p + 1, f), ")") ELSE Fail
    [] Kind(s, p) = "{" -> HereVariable(s, p, f)
    [] OTHER -> Fail

UnaryExpression(s, p, f) ==
  IF Kind(s, p) \notin Unary THEN Atom(s, p, f)
  ELSE LET operand == Atom(s, p + 1, Sure(f))
       IN IF operand = Fail THEN Fail ELSE <<UnaryTree(Kind(s, p), operand[1]), operand[2]>>

\* The loop of a level, whose operands are of the next one.  (Grouping to the right is
\* what a recursion in place of the loop would do.)
OperatorsToTheRight(s, level, left, f) ==
  IF left = Fail THEN Fail
  ELSE IF Kind(s, left[2]) \notin Level[level] THEN left
  ELSE LET right == Binary(s, level, left[2] + 1, Sure(f))
       IN IF right = Fail THEN Fail ELSE <<<<Kind(s, left[2]), left[1], right[1]>>, right[2]>>
Operators(s, level, left, f) ==
  IF left = Fail THEN Fail
  ELSE IF Kind(s, left[2]) \notin Level[level] THEN left
  ELSE LET right == Binary(s, level + 1, left[2] + 1, Sure(f))
       IN IF right = Fail THEN Fail
          ELSE Operators(s, level, <<<<Kind(s, left[2]), left[1], right[1]>>, right[2]>>, f)
Binary(s, level, p, f) ==
  IF level = UnaryLevel THEN UnaryExpression(s, p, f) ELSE Operators(s, level, Binary(s, level + 1, p, f), f)

Conditional(s, p, f) ==
  LET cond == Binary(s, 1, p, f)
      then == Closed(s, Conditional(s, cond[2] + 1, Sure(f)), ":")
      else == Conditional(s, then[2], Sure(f))
  IN IF cond = Fail THEN Fail
     ELSE IF Kind(s, cond[2]) # "?" THEN cond
     ELSE IF then = Fail THEN Fail
     ELSE IF else = Fail THEN Fail
     ELSE <<<<"?", cond[1], then[1], else[1]>>, else[2]>>

\* setupHereVariable: an @here variable is the whole operand or not there.
ParseOperand(s, f) ==
  LET parsed == Conditional(s, 1, f)
  IN IF parsed = Fail THEN Fail
     ELSE IF ContainsHere(parsed[1]) /\ parsed[1][1] # "here" THEN Fail ELSE parsed

-----------------------------------------------------------------------------
(* The grammar: the trees of the tokens from i to j, as a set.             *)

RECURSIVE Trees(_, _, _, _, _)
Atoms(s, i, j, f) ==
  {s[k] : k \in {k \in {i} : /\ i = j
                             /\ \/ s[k][1] \in {"number", "$"}
                                \/ s[k][1] = "local" /\ f.prefix
                                \/ s[k][1] = "id" /\ ~Ambiguous(f, s[k][2])}}
  \cup {<<"number", s[k][2]>> : k \in {k \in {i} : i = j /\ s[k][1] = "char"}}
  \cup {<<s[k][2], s[k + 2][2]>> : k \in {k \in {i} : /\ j = i + 3 /\ s[i][1] = "id" /\ s[i][2] \in Functions
                                                      /\ ~Ambiguous(f, s[i][2])
                                                      /\ s[i + 1][1] = "(" /\ s[i + 2][1] = "id" /\ s[j][1] = ")"}}
  \cup (IF s[i][1] = "(" /\ s[j][1] = ")" /\ f.unambiguous THEN Trees(s, i + 1, j - 1, 0, f) ELSE {})
HereVariables(s, i, j, f) ==
  IF ~(f.here /\ j >= i + 3 /\ s[i][1] = "{" /\ s[i + 1][1] = "@here" /\ s[i + 2][1] \in {"id", "keyword", "local"} /\ s[j][1] = "}")
  THEN {}
  ELSE IF j = i + 3 THEN {<<"here", s[i + 2][2], Fail>>}
  ELSE IF s[i + 3][1] # "=" THEN {}
  ELSE {<<"here", s[i + 2][2], v>> : v \in {v \in Trees(s, i + 4, j - 1, 0, Sure(f)) : ~ContainsHere(v)}}
Trees(s, i, j, level, f) ==
  IF i > j THEN {}
  ELSE IF level = 0 THEN
    Trees(s, i, j, 1, f) \cup
    UNION {{<<"?", c, t, e>> : c \in Trees(s, i, q - 1, 1, f), t \in Trees(s, q + 1, r - 1, 0, Sure(f)),
                               e \in Trees(s, r + 1, j, 0, Sure(f))} :
             <<q, r>> \in {x \in (i..j) \X (i..j) : x[1] < x[2] /\ s[x[1]][1] = "?" /\ s[x[2]][1] = ":"}}
  ELSE IF level < UnaryLevel THEN
    Trees(s, i, j, level + 1, f) \cup
    UNION {{<<s[k][1], a, b>> : a \in Trees(s, i, k - 1, level, f), b \in Trees(s, k + 1, j, level + 1, Sure(f))} :
             k \in {k \in i..j : s[k][1] \in Level[level]}}
  ELSE IF level = UnaryLevel THEN
    Trees(s, i, j, level + 1, f) \cup
    (IF s[i][1] \in Unary THEN {UnaryTree(s[i][1], a) : a \in Trees(s, i + 1, j, level + 1, Sure(f))} ELSE {})
  ELSE Atoms(s, i, j, f) \cup HereVariables(s, i, j, f)
=============================================================================
