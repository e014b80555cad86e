------------------------------ MODULE MCOutputs ------------------------------
(* Instances of Outputs: banks of two bytes, sectors of two bytes and disks  *)
(* of seven sectors, for two linked files A and B and a BASIC program M.     *)
EXTENDS Outputs, TLC

Names == "plain" :> Plain @@ "BANK1" :> 1 @@ "BANK2" :> 2 @@ "BANK5" :> 5 @@ "BANK8" :> Invalid

LinkedFile(mark, load, size) == [load |-> load, data |-> [i \in 1..size |-> mark + i]]
Two(load1, size1, load2, size2) ==
  "A" :> LinkedFile(10, load1, size1) @@ "B" :> LinkedFile(20, load2, size2)
Line(number, pieces) == [number |-> number, pieces |-> pieces]
Char == <<"char", 65>>
Start10 == <<"autostart", 10>>
Start20 == <<"autostart", 20>>
Program(size) ==
  <<[name |-> "M", files |-> <<<<Line(NoNumber, <<Start10>>), Line(10, [i \in 1..(size - 1) |-> Char])>>>>]>>
Code(ref, name) == [ref |-> ref, refBasic |-> None, name |-> name]
BasicCode == [ref |-> None, refBasic |-> "M", name |-> "plain"]
NoFile == [ref |-> None, refBasic |-> None, name |-> "plain"]

None2 == [x \in {} |-> 0]
SnapOf(type, files, format, machine, set) ==
  [type |-> type, enabled |-> TRUE, files |-> files, format |-> format, machine |-> machine, set |-> set]
MediaOf(type, files) == SnapOf(type, files, 0, "auto", None2)
Project(linked, sources, wav, outputs) ==
  [linked |-> linked, sources |-> sources, wav |-> wav, outputs |-> outputs]

\* Two files anywhere, for the banks they may name.
Placed ==
  {Project(Two(p[1], p[2], p[3], p[4]), <<>>, FALSE,
           <<SnapOf(p[5], <<Code("A", p[6]), Code("B", p[7])>>, 0, "128k", None2)>>) :
     p \in (1..7) \X {0, 1, 2} \X (2..7) \X {1, 2, 3} \X {"Z80", "PC"}
           \X {"plain", "BANK2", "BANK5"} \X {"plain", "BANK1", "BANK5"}}
Wide ==
  {Project("A" :> LinkedFile(10, p[1], p[2]), <<>>, FALSE,
           <<SnapOf("Z80", <<Code("A", p[3])>>, 0, "auto", None2)>>) :
     p \in (1..7) \X (3..7) \X {"plain", "BANK1", "BANK2", "BANK8"}}

\* Every machine, and settings that have a say in format and machine.
Machines == {"auto", "16k", "48k", "128k", "+3", "pentagon", "scorpion", "didaktik", "+2", "+2A",
             "tc2048", "tc2068", "ts2068"}
AllSet ==
  "a" :> 1 @@ "f" :> 2 @@ "bc" :> 772 @@ "hl" :> 1286 @@ "de" :> 1800 @@ "a'" :> 9 @@ "f'" :> 10
  @@ "bc'" :> 2828 @@ "hl'" :> 3342 @@ "de'" :> 3856 @@ "pc" :> 32785 @@ "sp" :> 4627 @@ "iy" :> 5141
  @@ "ix" :> 5655 @@ "i" :> 24 @@ "r" :> 200 @@ "border" :> 5 @@ "im" :> 2 @@ "ei" :> 0
Settings == {None2, AllSet, "pc" :> 0, "7ffd" :> 11, "fffd" :> 7, "1ffd" :> 4, "border" :> 9, "im" :> 3,
             AllSet @@ "7ffd" :> 3}
Configurable ==
  {Project(Two(4, 2, 6, 2), <<>>, FALSE,
           <<SnapOf(p[1], <<Code("A", "plain"), Code("B", p[2])>>, p[3], p[4], p[5])>>) :
     p \in {"Z80", "PC"} \X {"plain", "BANK1"} \X (0..4) \X Machines \X Settings}

\* Tapes and disks, alone and several in a project, of up to four files where three fit.
Files == {Code("A", "plain"), Code("B", "plain"), BasicCode}
FileLists == {<<x, y>> : x \in Files, y \in Files} \cup {<<x, y, z>> : x \in Files, y \in Files, z \in Files}
               \cup {<<x, y, x, y>> : x \in Files, y \in Files} \cup {<<NoFile>>, <<Code("B", "plain"), NoFile>>}
Media ==
  {Project(p[1], IF p[2] = 0 THEN <<>> ELSE Program(p[2]), p[3],
           <<MediaOf("TRD", p[4]), [MediaOf("TAP", p[4]) EXCEPT !.enabled = p[5]], MediaOf("TAP", Tail(p[4])),
             SnapOf("Z80", <<Code("A", "plain")>>, 0, "auto", None2)>>) :
     p \in {Two(2, 0, 4, 3), Two(2, 1, 4, 2), "A" :> LinkedFile(10, 4, 2)} \X {0, 2, 3} \X BOOLEAN \X FileLists \X BOOLEAN}

\* BASIC programs of up to three lines in two files, alone and after another one.
Plainest ==
  {Line(10, <<Char>>), Line(20, <<Char, <<"comment">>, Start10>>), Line(20, <<Char, Start20>>), Line(20, <<>>),
   Line(31, <<Char>>), Line(NoNumber, <<Start10>>), Line(NoNumber, <<Start20>>)}
Lines ==
  Plainest \cup
  {Line(0, <<Char, <<"file", "A">>>>), Line(20, <<<<"file", "B">>>>), Line(20, <<<<"file", "Z">>>>),
   Line(30, [i \in 1..7 |-> Char]), Line(30, [i \in 1..6 |-> Char]),
   Line(NoNumber, <<<<"autostart", 0>>>>), Line(NoNumber, <<>>), Line(NoNumber, <<Char>>), Line(NoNumber, <<<<"directive">>>>)}
Listings == [1..1 -> Lines] \cup [1..2 -> Lines] \cup [1..3 -> Plainest]
Before == <<[name |-> "L", files |-> <<<<Line(30, <<Char>>)>>>>]>>
Programs ==
  {Project("A" :> LinkedFile(10, 4, 1) @@ "B" :> LinkedFile(20, 4, 2),
           p[1] \o <<[name |-> "M", files |-> <<SubSeq(p[2], 1, 1), SubSeq(p[2], 2, Len(p[2]))>>]>>, FALSE,
           <<MediaOf("TAP", <<BasicCode>>), MediaOf("TRD", <<BasicCode>>)>>) :
     p \in {<<>>, Before} \X Listings}

AllProjects == Placed \cup Wide \cup Configurable \cup Media \cup Programs
=============================================================================
