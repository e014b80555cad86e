------------------------------- MODULE Lexer -------------------------------
(***************************************************************************)
(* Lexer.cpp: from characters to tokens.  A text is a string; after its    *)
(* last character comes the empty one.  A token is its kind and what it    *)
(* says, whether it is the first one of its line, the line it ends on, and *)
(* where it begins and what follows it.                                    *)
(***************************************************************************)
EXTENDS Naturals, Sequences, FiniteSets

CONSTANT NumberBits (* the width of the numbers the lexer accepts *)

ASSUME LexerAssumption == NumberBits \in Nat /\ NumberBits > 4

Char(s, p) == IF p \in 1..Len(s) THEN SubSeq(s, p, p) ELSE ""
Piece(s, p, n) == IF p + n - 1 <= Len(s) THEN SubSeq(s, p, p + n - 1) ELSE ""

\* The printable characters in order, but for the one of code 96.
Row(code) ==
  IF code = 32 THEN " !\"#$%&'()*+,-./0123456789:;<=>?@ABCDEFGHIJKLMNOPQRSTUVWXYZ[\\]^_" ELSE "abcdefghijklmnopqrstuvwxyz{|}~"
CharsFrom(first, last) ==
  {Char(Row(code), i) : <<code, i>> \in {<<code, c - code + 1>> : code \in {32, 97}, c \in first..last}} \ {""}
AsciiCode ==
  [c \in CharsFrom(32, 126) |-> CHOOSE k \in 32..126 : \E code \in {32, 97} : k >= code /\ Char(Row(code), k - code + 1) = c]

Digit == CharsFrom(48, 57)
HexDigit == Digit \cup CharsFrom(65, 70) \cup CharsFrom(97, 102)
Letter == CharsFrom(65, 90) \cup CharsFrom(97, 122)
Ident == Letter \cup Digit \cup {"_"}
CharToInt(c) ==
  LET code == AsciiCode[c] IN IF c \in Digit THEN code - 48 ELSE IF code < 97 THEN code - 55 ELSE code - 87

Keywords ==
  {"bool", "byte", "const", "dword", "else", "false", "if", "int", "long", "null", "sbyte", "string", "true", "void", "word"}
Blank == {" ", "\t", "\r", "\f"}
Punctuation ==
  {",", ";", ":", "?", "^", "~", "(", ")", "[", "]", "{", "}", "&", "&&", "|", "||", "=", "==", "!", "!=", "<", "<<",
   "<<=", "<=", ">", ">>", ">>=", ">=", "+", "+=", "-", "-=", "*", "*=", "%", "%=", "/", "/=", "@", "$", "#"}

Refused == <<>>
\* Where the characters of a set that begin at p end.
Skip(s, p, set) ==
  CHOOSE q \in p..Len(s) + 1 : Char(s, q) \notin set /\ \A k \in p..q - 1 : Char(s, k) \in set
Token(kind, says, end) == <<kind, says, end>>

-----------------------------------------------------------------------------
(* Numbers.                                                                *)

Limit(radix) ==
  CASE radix = 16 -> 2 ^ (NumberBits - 4) - 1 [] radix = 2 -> 2 ^ (NumberBits - 1) - 1
    [] radix = 10 -> (2 ^ NumberBits - 1) \div 10
DigitsOf(radix) == CASE radix = 16 -> HexDigit [] radix = 2 -> {"0", "1"} [] radix = 10 -> Digit

RECURSIVE Digits(_, _, _, _)
Digits(s, p, radix, value) ==
  IF Char(s, p) \notin DigitsOf(radix) THEN Token("number", value, p)
  ELSE IF value > Limit(radix) THEN Refused
  ELSE Digits(s, p + 1, radix, value * radix + CharToInt(Char(s, p)))

Radix(s, p) ==
  IF Char(s, p) # "0" THEN 10
  ELSE IF Char(s, p + 1) \in {"x", "X"} THEN 16 ELSE IF Char(s, p + 1) \in {"b", "B"} THEN 2 ELSE 10
NumberAt(s, p) ==
  LET radix == Radix(s, p)
  IN IF radix = 10 THEN Digits(s, p, 10, 0)
     ELSE IF Char(s, p + 2) \notin DigitsOf(radix) THEN Refused ELSE Digits(s, p + 2, radix, 0)

-----------------------------------------------------------------------------
(* Names and labels.                                                       *)

IsAtAt(s, p) == Piece(s, p, 2) = "@@"
\* A name may have one @@ in it.
WordEnd(s, p) ==
  LET q == Skip(s, p + 1, Ident) IN IF IsAtAt(s, q) THEN Skip(s, q + 2, Ident) ELSE q

NameAt(s, p) ==
  LET end == WordEnd(s, p)
      text == SubSeq(s, p, end - 1)
      hadAt == \E i \in p..end - 1 : Char(s, i) = "@"
      shadow == text \in {"af", "aF", "Af", "AF"} /\ Char(s, end) = "'"
  IN IF shadow THEN Token("id", text \o "'", end + 1)
     ELSE IF Char(s, end) = ":" THEN Token(IF hadAt THEN "full label" ELSE "label", text, end + 1)
     ELSE IF text \in Keywords THEN Token("keyword", text, end)
     ELSE Token("id", text, end)

LocalNameAt(s, p) ==
  LET end == Skip(s, p + 2, Ident)
      text == SubSeq(s, p + 2, end - 1)
  IN IF Char(s, end) = ":" THEN Token("local label", text, end + 1) ELSE Token("local", text, end)

IsAtHere(s, p) == Piece(s, p, 5) = "@here" /\ Char(s, p + 5) \notin Ident

-----------------------------------------------------------------------------
(* Literals.  (All control characters are "\t" here; of \e, what is written *)
(* is the number 27.)                                                      *)

Escaped ==
  [c \in {"\n", "\\", "'", "\"", "a", "b", "e", "f", "n", "r", "t", "v"} |->
     IF c = "e" THEN "27" ELSE IF c = "n" THEN "\n" ELSE IF c \in Letter THEN "\t" ELSE c]
RECURSIVE Quoted(_, _, _, _)
Quoted(s, p, quote, says) ==
  CASE Char(s, p) = quote -> <<says, p + 1>>
    [] Char(s, p) \in {"", "\n"} -> Refused
    [] Char(s, p) = "\\" ->
         IF Char(s, p + 1) \in DOMAIN Escaped THEN Quoted(s, p + 2, quote, says \o Escaped[Char(s, p + 1)]) ELSE Refused
    [] OTHER -> Quoted(s, p + 1, quote, says \o Char(s, p))

LiteralAt(s, p) ==
  LET quoted == Quoted(s, p + 1, Char(s, p), "")
  IN IF quoted = Refused THEN Refused
     ELSE IF Char(s, p) = "\"" THEN Token("string", quoted[1], quoted[2])
     ELSE IF quoted[1] \in DOMAIN AsciiCode THEN Token("char", AsciiCode[quoted[1]], quoted[2])
     ELSE Refused

-----------------------------------------------------------------------------
(* Lexer::scan.                                                            *)

\* The comment that begins at p ends before the position given, or is not closed.
ClosesAt(s, p) == {q \in p..Len(s) - 1 : Piece(s, q, 2) = "*/"}
IsLineComment(s, p, assembler) == Piece(s, p, 2) = "//" \/ (assembler /\ Char(s, p) = ";")
LineEnd(s, p) == CHOOSE q \in p..Len(s) + 1 : Char(s, q) \in {"", "\n"} /\ \A k \in p..q - 1 : Char(s, k) # "\n"
\* (From the second character on, the * that opens a comment would also close it.)
CommentEndOverlapping(s, p) ==
  IF ClosesAt(s, p + 1) = {} THEN Refused ELSE <<2 + CHOOSE q \in ClosesAt(s, p + 1) : \A k \in ClosesAt(s, p + 1) : q <= k>>
CommentEnd(s, p) ==
  IF ClosesAt(s, p + 2) = {} THEN Refused ELSE <<2 + CHOOSE q \in ClosesAt(s, p + 2) : \A k \in ClosesAt(s, p + 2) : q <= k>>

PunctuationAt(s, p) ==
  LET n == CHOOSE n \in {3, 2, 1} :
             /\ Piece(s, p, n) \in Punctuation
             /\ \A k \in n + 1..3 : Piece(s, p, k) \notin Punctuation
  IN Token(Piece(s, p, n), Piece(s, p, n), p + n)

TokenAt(s, p) ==
  CASE Char(s, p) \in Digit -> NumberAt(s, p)
    [] Char(s, p) \in Letter \cup {"_"} -> NameAt(s, p)
    [] IsAtAt(s, p) -> LocalNameAt(s, p)
    [] IsAtHere(s, p) -> Token("@here", "@here", p + 5)
    [] Char(s, p) \in {"\"", "'"} -> LiteralAt(s, p)
    [] Char(s, p) \in Punctuation /\ ~IsAtAt(s, p) /\ ~IsAtHere(s, p) -> PunctuationAt(s, p)
    [] OTHER -> Refused

LineOf(s, p) == 1 + Cardinality({i \in 1..p - 1 : Char(s, i) = "\n"})
Lexed(s, p, t, first) == [token |-> <<t[1], t[2]>>, first |-> first, line |-> LineOf(s, t[3]), from |-> p, next |-> t[3]]
Unlexed(p) == [token |-> Refused, from |-> p]

\* What is left of s from p on; fresh is mLineStart.
RECURSIVE Scan(_, _, _, _)
Scan(s, p, assembler, fresh) ==
  CASE Char(s, p) = "" -> <<>>
    [] Char(s, p) \in Blank -> Scan(s, p + 1, assembler, fresh)
    [] Char(s, p) = "\n" -> Scan(s, p + 1, assembler, TRUE)
    [] IsLineComment(s, p, assembler) -> Scan(s, LineEnd(s, p), assembler, fresh)
    [] Piece(s, p, 2) = "/*" ->
         LET end == CommentEnd(s, p) IN IF end = Refused THEN <<Unlexed(p)>> ELSE Scan(s, end[1], assembler, fresh)
    [] OTHER ->
         LET t == TokenAt(s, p)
         IN IF t = Refused THEN <<Unlexed(p)>> ELSE <<Lexed(s, p, t, fresh)>> \o Scan(s, t[3], assembler, FALSE)

-----------------------------------------------------------------------------
(* What a text should be scanned to: the characters from i to j make a     *)
(* lexeme, those from i up to j make a gap between two.                    *)

All(s, i, j, set) == \A k \in i..j : Char(s, k) \in set
IsNumber(s, i, j) ==
  \/ All(s, i, j, Digit)
  \/ \E radix \in {16, 2} : Radix(s, i) = radix /\ j >= i + 2 /\ All(s, i + 2, j, DigitsOf(radix))
IsName(s, i, j) ==
  /\ Char(s, i) \in Letter \cup {"_"}
  /\ \/ All(s, i, j, Ident)
     \/ \E k \in i..j - 1 : IsAtAt(s, k) /\ All(s, i, k - 1, Ident) /\ All(s, k + 2, j, Ident)
IsLocalName(s, i, j) == IsAtAt(s, i) /\ j > i /\ All(s, i + 2, j, Ident)
IsEscaped(s, i, k) == Cardinality({m \in i + 1..k - 1 : All(s, m, k - 1, {"\\"})}) % 2 = 1
IsLiteral(s, i, j) ==
  /\ Char(s, i) \in {"\"", "'"} /\ j > i /\ Char(s, j) = Char(s, i) /\ ~IsEscaped(s, i, j)
  /\ \A k \in i + 1..j - 1 :
       IF IsEscaped(s, i, k) THEN Char(s, k) \in DOMAIN Escaped ELSE Char(s, k) \notin {Char(s, i), "\n"}
IsLexeme(s, i, j) ==
  \/ IsNumber(s, i, j) \/ IsName(s, i, j) \/ IsLocalName(s, i, j) \/ IsLiteral(s, i, j)
  \/ Char(s, j) = ":" /\ (IsName(s, i, j - 1) \/ IsLocalName(s, i, j - 1))
  \/ SubSeq(s, i, j) \in {"af'", "aF'", "Af'", "AF'"}
  \/ SubSeq(s, i, j) \in Punctuation
  \/ SubSeq(s, i, j) = "@here" /\ Char(s, j + 1) \notin Ident

IsComment(s, i, j, assembler) ==
  \/ IsLineComment(s, i, assembler) /\ j = LineEnd(s, i)
  \/ Piece(s, i, 2) = "/*" /\ {k \in ClosesAt(s, i + 2) : k < j} = {j - 2}
RECURSIVE IsGap(_, _, _, _)
IsGap(s, i, j, assembler) ==
  \/ i = j
  \/ i < j /\ Char(s, i) \in Blank \cup {"\n"} /\ IsGap(s, i + 1, j, assembler)
  \/ \E k \in i + 1..j : IsComment(s, i, k, assembler) /\ IsGap(s, k, j, assembler)
EndsLine(s, i, j, assembler) ==
  \E k \in i..j - 1 : Char(s, k) = "\n" /\ IsGap(s, i, k, assembler) /\ IsGap(s, k + 1, j, assembler)

RECURSIVE ValueOf(_, _, _, _)
ValueOf(s, i, j, radix) == IF i > j THEN 0 ELSE CharToInt(Char(s, j)) + radix * ValueOf(s, i, j - 1, radix)
NumberOf(s, i, j) == IF Radix(s, i) = 10 THEN ValueOf(s, i, j, 10) ELSE ValueOf(s, i + 2, j, Radix(s, i))
IsOnePrintable(s, i, j) ==
  \/ j = i + 2 /\ Char(s, i + 1) \in DOMAIN AsciiCode
  \/ j = i + 3 /\ Char(s, i + 1) = "\\" /\ Char(s, i + 2) \in {"\\", "'", "\""}
IsMeant(s, i, j, t) ==
  CASE t[1] = "number" -> IsNumber(s, i, j) /\ t[2] = NumberOf(s, i, j)
    [] t[1] = "char" -> IsOnePrintable(s, i, j) /\ t[2] = AsciiCode[Char(s, j - 1)]
    [] t[1] = "string" -> Char(s, i) = "\"" /\ IsLiteral(s, i, j)
    [] t[1] \in {"local", "local label"} -> IsAtAt(s, i) /\ t[2] = SubSeq(s, i + 2, IF t[1] = "local" THEN j ELSE j - 1)
    [] t[1] \in {"label", "full label"} ->
         /\ SubSeq(s, i, j) = t[2] \o ":"
         /\ t[1] = "full label" <=> \E k \in i..j : IsAtAt(s, k)
    [] t[1] = "keyword" -> t[2] \in Keywords /\ SubSeq(s, i, j) = t[2]
    [] OTHER -> SubSeq(s, i, j) = t[2]

\* Why a text is not scanned any further than to i.
IsIllegible(s, i, assembler) ==
  \/ Piece(s, i, 2) = "/*" /\ ~\E j \in i..Len(s) + 1 : IsComment(s, i, j, assembler)
  \/ ~\E j \in i..Len(s) : IsLexeme(s, i, j)
  \/ Radix(s, i) # 10 /\ ~IsNumber(s, i, i + 2)
  \/ \E j \in i..Len(s) : IsNumber(s, i, j) /\ NumberOf(s, i, j) >= 2 ^ NumberBits
  \/ \E j \in i..Len(s) : Char(s, i) = "'" /\ IsLiteral(s, i, j) /\ ~IsOnePrintable(s, i, j)
=============================================================================
