---------------------------- MODULE MCAssembler ----------------------------
(* Instances of Assembler: families of short programs. *)
EXTENDS Assembler

Text(op, name, local) == <<[op |-> op, name |-> name, local |-> local]>>
Control(op) == Text(op, <<>>, FALSE)
InMain == Text("section", <<"main">>, FALSE)
G(a) == Text("global", <<a>>, FALSE)
E(a) == Text("equ", <<a>>, FALSE)
EHere(a) == Text("equhere", <<a>>, FALSE)
U(a) == Text("use", <<a>>, FALSE)
UFull(a, x) == Text("use", <<a, x>>, FALSE)
LocalLabel(x) == Text("label", <<x>>, TRUE)
LocalEqu(x) == Text("equ", <<x>>, TRUE)
LocalUse(x) == Text("use", <<x>>, TRUE)
Open(c) == Text("if", c, FALSE)
IfElse(c, then, else) == Open(c) \o then \o Control("else") \o else \o Control("endif")
Rep(v, body) == Text("repeat", v, FALSE) \o body \o Control("endrepeat")

One == <<"one">>
Two == <<"two">>
Nothing == <<>>
BothConditions == {One, Two}
OneVariable == {<<"p">>}

\* Labels, constants and local names before, in the branches of and after an #if.
Fill == {Nothing, G("a"), E("a"), EHere("a"), LocalLabel("x"), LocalEqu("x"), U("a"), LocalUse("x")}
Branches ==
  {InMain \o pre \o IfElse(One, t, e) \o post \o U("a") :
     pre \in {Nothing, G("b")}, t \in Fill, e \in Fill, post \in Fill}
LocalBranches ==
  {InMain \o pre \o IfElse(One, G("a") \o t, e \o LocalLabel("x")) \o post \o u :
     pre \in {Nothing, G("c")}, t \in {Nothing, LocalLabel("x")}, e \in {Nothing, G("a"), G("b")},
     post \in {Nothing, LocalLabel("y"), G("d") \o LocalLabel("x")}, u \in {LocalUse("x"), UFull("a", "x")}}

\* Two conditions: one inside the other, or one after the other.
Few == {Nothing, G("a"), E("a"), EHere("a")}
Nested ==
  {InMain \o IfElse(One, IfElse(Two, x, y), z) \o w \o U("a") : x \in Few, y \in Few, z \in Few, w \in {Nothing, G("a")}}
Later ==
  {InMain \o IfElse(c, x, y) \o IfElse(d, z, w) \o U("a") :
     c \in {One}, d \in {One, Two}, x \in Few, y \in Few, z \in Few, w \in Few}
DeepPrefix ==
  {InMain \o G("c") \o IfElse(One, IfElse(Two, x, y), z) \o LocalUse("x") \o LocalLabel("x") :
     x \in {Nothing, G("a")}, y \in {Nothing, G("b")}, z \in {Nothing, G("d")}}

\* A condition inside itself: some branches are never taken.
Dead ==
  {InMain \o x \o IfElse(One, y, IfElse(One, z, w)) \o v \o U("a") :
     x \in Few, y \in Few, z \in Few, w \in Few, v \in Few}

\* Repeats in repeats, with variables, and #ifs in them.
Repeats ==
  {InMain \o Rep(v, x \o Rep(n, y) \o z) \o w \o U("a") :
     v \in {Nothing, <<"a">>}, n \in {Nothing, <<"a">>},
     x \in {Nothing, G("a"), U("a")}, y \in {Nothing, G("a"), U("a")}, z \in {Nothing, U("a")},
     w \in {Nothing, G("a"), E("a"), Rep(<<"a">>, U("a")), Rep(Nothing, G("a"))}}
IfInRepeat ==
  {InMain \o Rep(v, IfElse(One, x, y) \o z) \o w \o U("a") :
     v \in {Nothing, <<"a">>}, x \in Few, y \in Few, z \in {Nothing, U("a"), IfElse(One, G("a"), Nothing)},
     w \in {Nothing, G("a")}}
RepeatInBranch ==
  {InMain \o IfElse(One, Rep(Nothing, x), y) \o z \o U("a") :
     x \in Few \cup {IfElse(Two, t, e) : t \in Few, e \in Few},
     y \in Few \cup {Rep(Nothing, t) : t \in Few} \cup {Rep(Nothing, IfElse(Two, Nothing, t)) : t \in Few},
     z \in {Nothing, IfElse(Two, E("a"), Nothing), Rep(Nothing, IfElse(One, E("a"), G("a")))}}

\* Variables of the project, several files and sections.
Shadowing ==
  {InMain \o x \o y \o U("p") :
     x \in {Nothing, G("p"), E("p"), Rep(<<"p">>, U("p"))}, y \in {Nothing, IfElse(One, E("p"), Nothing), Rep(Nothing, G("p"))}}
Files ==
  {InMain \o G("a") \o Control("file") \o s \o x \o U("a") :
     s \in {Nothing, InMain, Text("section", <<"other">>, FALSE)},
     x \in {Nothing, G("a"), G("b"), LocalLabel("x"), Open(One), Open(One) \o InMain}}

\* Control lines in any order.
Controls ==
  {InMain, Open(One), Control("else"), Control("endif"), Control("repeat"), Control("endrepeat"),
   Control("file"), U("a"), G("a")}
Disordered == {w \o x \o y \o z : w \in Controls, x \in Controls, y \in Controls, z \in Controls}

\* Any five lines of these.
Lines == {Open(One), Control("else"), Control("endif"), Rep(<<"a">>, Nothing), Control("repeat"), G("a"), E("a"), U("a")}
Any ==
  {InMain \o Open(Two) \o v \o w \o x \o y \o Control("endif") \o U("a") :
     v \in Lines, w \in Lines, x \in Lines, y \in Lines}
  \cup {InMain \o Text("repeat", <<"b">>, FALSE) \o v \o w \o x \o y \o Control("endrepeat") \o U("a") :
     v \in Lines, w \in Lines, x \in Lines, y \in Lines}

AllPrograms ==
  Dead \cup Branches \cup LocalBranches \cup Nested \cup Later \cup DeepPrefix \cup Repeats \cup IfInRepeat
    \cup RepeatInBranch \cup Shadowing \cup Files \cup Disordered \cup Any
=============================================================================
