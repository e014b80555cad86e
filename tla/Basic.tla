-------------------------------- MODULE Basic --------------------------------
(***************************************************************************)
(* BASIC programs (SpectrumBasicCompiler.cpp and what it calls of the      *)
(* vendored bas2tap.c): the source files that share a stem, in the order   *)
(* of their names, become one program.                                     *)
(*                                                                         *)
(* A source line is its number, or NoNumber, and what follows: a           *)
(* character, a directive that puts in a linked file or says where to      *)
(* start, or the beginning of a comment.  Of a compiled line there are its *)
(* number and its characters and bytes, without its length and its end.    *)
(***************************************************************************)
EXTENDS Integers, Sequences, SequencesExt, FiniteSetsExt

CONSTANTS
  MaxLine,   (* MAXLINELENGTH of bas2tap.h                                 *)
  LastLine   (* the greatest line number, 9999                             *)

ASSUME BasicAssumption == MaxLine \in Nat /\ LastLine \in Nat

NoNumber == -1
\* A byte of a linked file is put in as {XX}.
BytesAs == 4

\* The state of the compiler of a program: mLines, mStartLine, PreviousBasicLineNo of
\* bas2tap, the line it is reading, and the error it stopped with.
Fresh(previous) ==
  [lines |-> [x \in {} |-> <<>>], start |-> NoNumber, previous |-> previous,
   text |-> <<>>, length |-> 0, comment |-> FALSE, error |-> "none"]
\* (Without bas2tap_reset the last line of the program before would count.)
ResetNothing(previous) == Fresh(previous)
Reset(previous) == Fresh(NoNumber)

Refuse(c, why) == [c EXCEPT !.error = why]
AppendTo(c, bytes, length) ==
  IF c.length + length > MaxLine THEN Refuse(c, "long")
  ELSE [c EXCEPT !.text = @ \o bytes, !.length = @ + length]

\* (Without the check for conflicts the last directive would win.)
StartAtLast(c, number) == IF number \notin 1..LastLine THEN Refuse(c, "range") ELSE [c EXCEPT !.start = number]
StartAt(c, number) ==
  IF number \notin 1..LastLine THEN Refuse(c, "range")
  ELSE IF c.start \notin {NoNumber, number} THEN Refuse(c, "conflict")
  ELSE [c EXCEPT !.start = number]

\* A piece of a line; a comment hides the rest of it.
Read(c, piece, linked) ==
  CASE c.error # "none" \/ c.comment -> c
    [] piece[1] = "comment" -> [c EXCEPT !.comment = TRUE]
    [] piece[1] = "char" -> AppendTo(c, <<piece[2]>>, 1)
    [] piece[1] = "file" ->
         IF piece[2] \notin DOMAIN linked THEN Refuse(c, "nofile")
         ELSE AppendTo(c, linked[piece[2]].data, BytesAs * Len(linked[piece[2]].data))
    [] piece[1] = "autostart" -> StartAt(c, piece[2])
    [] OTHER -> Refuse(c, "directive")

\* bas2tap_PrepareLine, and the line's place in mLines.
Prepare(c, number) ==
  CASE c.error # "none" -> c
    [] number = NoNumber -> IF c.text = <<>> THEN c ELSE Refuse(c, "number")
    [] number # NoNumber /\ c.previous >= 0 /\ number <= c.previous -> Refuse(c, "order")
    [] number # NoNumber /\ c.previous < 0 /\ c.text = <<>> -> Refuse(c, "empty")
    [] number \in DOMAIN c.lines -> Refuse(c, "duplicate")
    [] OTHER ->
         [c EXCEPT !.previous = number,
            !.lines = [x \in DOMAIN @ \cup {number} |-> IF x = number THEN c.text ELSE @[x]]]

\* The line's number and its end are characters, too.
AddLine(c, line, linked) ==
  IF c.error # "none" THEN c
  ELSE LET begun == [c EXCEPT !.text = <<>>, !.comment = FALSE, !.length = IF line.number = NoNumber THEN 0 ELSE 1]
           read == FoldLeft(LAMBDA d, piece : Read(d, piece, linked), begun, line.pieces)
       IN IF read.error = "none" /\ read.length + 1 > MaxLine THEN Refuse(read, "long")
          ELSE Prepare(read, line.number)

\* compile: bas2tap_main takes the lines from mLines, in their order.
Compile(c) ==
  CASE c.error # "none" -> c
    [] \E number \in DOMAIN c.lines : number > LastLine -> Refuse(c, "number")
    [] c.start # NoNumber /\ c.start \notin DOMAIN c.lines -> Refuse(c, "noline")
    [] OTHER -> c
CompileProgram(files, linked, previous) ==
  Compile(FoldLeft(LAMBDA c, line : AddLine(c, line, linked), Reset(previous), FlattenSeq(files)))
CompiledData(c) ==
  LET numbers == SetToSortSeq(DOMAIN c.lines, <)
  IN FlattenSeq([j \in 1..Len(numbers) |-> <<numbers[j]>> \o c.lines[numbers[j]]])

-----------------------------------------------------------------------------
(* What the source says.                                                   *)

\* The pieces of a line that are not in a comment.
Seen(line) ==
  LET comments == {i \in DOMAIN line.pieces : line.pieces[i][1] = "comment"}
  IN IF comments = {} THEN line.pieces ELSE SubSeq(line.pieces, 1, Min(comments) - 1)
SeenOf(files, kind) ==
  UNION {{piece[2] : piece \in {x \in ToSet(Seen(line)) : x[1] = kind}} : line \in ToSet(FlattenSeq(files))}
Text(line, linked) ==
  FlattenSeq([i \in DOMAIN Seen(line) |->
    CASE Seen(line)[i][1] = "char" -> <<Seen(line)[i][2]>>
      [] Seen(line)[i][1] = "file" /\ Seen(line)[i][2] \in DOMAIN linked -> linked[Seen(line)[i][2]].data
      [] OTHER -> <<>>])
CharsOf(line) == Cardinality({i \in DOMAIN Seen(line) : Seen(line)[i][1] = "char"})
Numbered(files) == SelectSeq(FlattenSeq(files), LAMBDA line : line.number # NoNumber)
Numbers(files) == {line.number : line \in ToSet(Numbered(files))}
Ascending(files) == \A i, j \in DOMAIN Numbered(files) : i < j => Numbered(files)[i].number < Numbered(files)[j].number
Directives(files) == UNION {{piece[1] : piece \in ToSet(Seen(line))} : line \in ToSet(FlattenSeq(files))}

\* A program is the numbered lines of its files, one after another, their numbers
\* ascending, with the linked files they put in; it starts at a line that is there, if
\* and where some directive says so and none says otherwise.
IsProgramOf(program, files, linked) ==
  /\ program.data = FlattenSeq([j \in DOMAIN Numbered(files) |->
                      <<Numbered(files)[j].number>> \o Text(Numbered(files)[j], linked)])
  /\ Ascending(files)
  /\ SeenOf(files, "autostart") = {program.line} \ {NoNumber}
  /\ program.line \in Numbers(files) \cup {NoNumber}

\* Every error is one of the program's own files.
Deserves(files, linked, why) ==
  CASE why = "order" -> ~Ascending(files)
    [] why = "conflict" -> Cardinality(SeenOf(files, "autostart")) > 1
    [] why = "range" -> ~(SeenOf(files, "autostart") \subseteq 1..LastLine)
    [] why = "noline" -> ~(SeenOf(files, "autostart") \subseteq Numbers(files))
    [] why = "nofile" -> ~(SeenOf(files, "file") \subseteq DOMAIN linked)
    [] why = "empty" -> Text(Head(Numbered(files)), linked) = <<>>
    [] why = "number" -> \/ ~(Numbers(files) \subseteq 0..LastLine)
                         \/ \E line \in ToSet(FlattenSeq(files)) : line.number = NoNumber /\ Text(line, linked) # <<>>
    [] why = "long" -> \E line \in ToSet(FlattenSeq(files)) :
                         CharsOf(line) + BytesAs * (Len(Text(line, linked)) - CharsOf(line)) + 2 > MaxLine
    [] why = "directive" -> ~(Directives(files) \subseteq {"char", "file", "autostart", "comment"})
    [] OTHER -> FALSE
=============================================================================
