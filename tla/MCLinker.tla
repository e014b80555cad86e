------------------------------ MODULE MCLinker ------------------------------
(* Instances of Linker for TLC.  A word has the values 0..15 and a size_t    *)
(* the values 0..63, so that three sections fit below 64K with room between. *)
EXTENDS Linker

\* A project whose sections are empty and given no address.
Blank ==
  [fileName |-> [g \in File |-> g], start |-> [g \in File |-> None], until |-> [g \in File |-> None],
   file |-> [s \in Section |-> 1], name |-> [s \in Section |-> s],
   attachment |-> [s \in Section |-> "Lower"], compressed |-> [s \in Section |-> FALSE],
   base |-> [s \in Section |-> None], offset |-> [s \in Section |-> None],
   auto |-> [s \in Section |-> "no"], align |-> [s \in Section |-> None],
   length |-> [s \in Section |-> 2], packed |-> [s \in Section |-> 1],
   sizeNeeds |-> [s \in Section |-> {}], codeNeeds |-> [s \in Section |-> {}],
   usesHere |-> [s \in Section |-> TRUE], constNeeds |-> {}]

\* At most one section differs from the default.
OneOf(default, S) == {[s \in Section |-> IF s = j THEN x ELSE default] : j \in Section, x \in S \cup {default}}

\* One file of three sections: where they are attached, aligned and placed,
\* with one of them aligned or one of them empty.
Kinds ==
  {[auto |-> [s \in Section |-> x], compressed |-> [s \in Section |-> FALSE]] : x \in {"no", "packed"}}
    \cup {[auto |-> [s \in Section |-> "no"], compressed |-> c] : c \in OneOf(FALSE, {TRUE})}
Layouts ==
  {None, 1} \X {None, 5} \X [Section -> {"Lower", "Upper"}] \X OneOf(None, {4, 6}) \X Kinds
    \X {e \in (OneOf(None, {4}) \cup {<<None, 0, None>>}) \X OneOf(2, {0}) :
          e[1] = <<None, None, None>> \/ e[2] = <<2, 2, 2>>}
Layout(t) ==
  [Blank EXCEPT !.start = [g \in File |-> t[1]], !.until = [g \in File |-> t[2]],
                !.attachment = t[3], !.base = t[4], !.auto = t[5].auto,
                !.compressed = t[5].compressed, !.align = t[6][1], !.length = t[6][2]]

\* Two files: sections 1 and 2 in the first, section 3, which may be the same
\* section as 1, in the second.  One section's size and one section's code depend
\* on a fact about any section; section 1 or 3 may be compressed, 1 also without a
\* use of $.  The first file grows up from its start, or down from its end.
Needs(S) ==
  {[s \in Section |-> {fact \in {g} : s = j}] : j \in S \cup {0}, g \in Fact}
Dependencies ==
  {<<1, 1>>, <<3, 1>>, <<3, None>>} \X {<<0, TRUE>>, <<1, TRUE>>, <<1, FALSE>>, <<3, TRUE>>}
    \X Needs({1, 3}) \X Needs({2, 3})
Dependent(t) ==
  LET name3 == t[1][1]  start == t[1][2] IN
  [Blank EXCEPT !.fileName = <<1, 2>>, !.file = <<1, 1, 2>>, !.name = <<1, 2, name3>>,
                !.start = <<start, None>>, !.until = <<IF start = None THEN 14 ELSE None, None>>,
                !.attachment = [s \in Section |-> IF start = None THEN "Upper" ELSE "Lower"],
                !.base = <<None, None, 8>>, !.auto[2] = "packed",
                !.compressed = [s \in Section |-> s = t[2][1]], !.usesHere = [s \in Section |-> t[2][2]],
                !.sizeNeeds = t[3], !.codeNeeds = t[4], !.constNeeds = {<<"size", 3>>}]

\* Projects the constructor or generateCode rejects.
Oddities ==
  {1, 2} \X {1, 2} \X {1, 2} \X {None, 3} \X {None, 2, 9} \X {None, 3, 7} \X {None, 1, 3, 6}
    \X {None, 0, 4} \X {0, 2, 15}
Odd(t) ==
  [Blank EXCEPT !.fileName = <<1, t[1]>>, !.file = <<1, 1, t[2]>>, !.name = <<1, t[3], 3>>,
                !.start = <<2, t[4]>>, !.until = <<t[5], None>>, !.base = <<2, t[6], None>>,
                !.offset = <<None, t[7], None>>, !.auto[1] = "auto", !.align = <<2, None, t[8]>>,
                !.length[2] = t[9]]

LinkedProject(p) ==
  CASE p[1] = "layout" -> Layout(p[2]) [] p[1] = "dependent" -> Dependent(p[2]) [] p[1] = "odd" -> Odd(p[2])
LinkedProjects ==
  {LinkedProject(p) : p \in {"layout"} \X Layouts \cup {"dependent"} \X Dependencies \cup {"odd"} \X Oddities}
=============================================================================
