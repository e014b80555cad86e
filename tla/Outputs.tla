------------------------------- MODULE Outputs -------------------------------
(***************************************************************************)
(* The end of a build (Compiler.cpp, Project.cpp, Output/): the linked     *)
(* files and the compiled BASIC programs go into tapes, disks, snapshots   *)
(* and executables, output by output and file by file, and the snapshots   *)
(* and executables are run by the emulator.                                *)
(*                                                                         *)
(* A build ends at the first error; what it wrote before stays.  Not every *)
(* limit is checked: see DiskHolds and Misconfigured.                      *)
(***************************************************************************)
EXTENDS Snapshot, Basic

CONSTANTS
  SectorSize, SectorsPerTrack, TotalSectors, MaxFiles,  (* the enum of TRDOSWriter.cpp *)
  Linked,      (* the names linked files may have                          *)
  Basics,      (* the names of BASIC programs                              *)
  Projects     (* the projects considered                                  *)

None == "none"
Types == {"TAP", "TRD", "Z80", "PC"}
\* An output, as Project::load read it: registers it does not mention are not in the
\* domain of set.
OutputFile == [ref : Linked \cup {None}, refBasic : Basics \cup {None}, name : DOMAIN BankNamed]

\* The values that the setters of SpectrumSnapshotWriter take; border and mode are checked.
ByteSized == {"a", "f", "a'", "f'", "i", "r", "7ffd", "fffd", "1ffd"}
Words == {x \in Nat : x < 65536}
Value(x) == IF x \in ByteSized THEN 0..255
            ELSE IF x = "ei" THEN {0, 1} ELSE IF x \in {"border", "im"} THEN Int ELSE Words

ASSUME OutputsAssumption ==
  /\ {SectorSize, SectorsPerTrack, TotalSectors, MaxFiles} \subseteq Nat \ {0}
  /\ None \notin Linked \cup Basics
  /\ \A p \in Projects :
       /\ DOMAIN p.linked \subseteq Linked
       /\ \A f \in DOMAIN p.linked : p.linked[f].load \in Nat /\ p.linked[f].data \in Seq(0..255)
       /\ p.outputs \in Seq(ToSet(p.outputs)) /\ p.sources \in Seq(ToSet(p.sources)) /\ p.wav \in BOOLEAN
       /\ \A j \in 1..Len(p.sources) : p.sources[j].name \in Basics
       /\ \A j \in 1..Len(p.outputs) :
            LET o == p.outputs[j]
            IN /\ o.type \in Types /\ o.enabled \in BOOLEAN /\ o.files \in Seq(OutputFile)
               /\ o.format \in Int /\ o.machine \in Machines48 \cup Machines128 \cup {"auto"}
               /\ DOMAIN o.set \subseteq Register /\ \A x \in DOMAIN o.set : o.set[x] \in Value(x)
               /\ o.type \in {"Z80", "PC"} => \A i \in 1..Len(o.files) : o.files[i].refBasic = None

VARIABLES
  project,   \* linked and BASIC files, and the outputs; never changes
  pc,        \* where the compiler is, or what became of its result
  error,     \* why the build failed
  basic,     \* compiledBasicFiles, with the data and start line of each
  previous,  \* what bas2tap keeps from one program to the next
  n, k,      \* the output, and the file of it, that is next
  made,      \* the paths makePath has given out
  writer,    \* the snapshot writer of the output
  disk,      \* mFiles of the tape or disk writer
  written,   \* what was written to the output directory, by suffix
  played, emulator  \* what the emulator was started with, and its state
basicVars == <<basic, previous>>
vars == <<project, pc, error, basicVars, n, k, made, writer, disk, written, played, emulator>>

Output == project.outputs[n]
Snap == Output.type \in {"Z80", "PC"}

-----------------------------------------------------------------------------
\* initWriter: setPortFFFD sets the other port.
Configured(set) ==
  LET all == [x \in Register |-> IF x \in DOMAIN set THEN set[x] ELSE Defaults[x]]
  IN IF "fffd" \in DOMAIN set THEN [all EXCEPT !["7ffd"] = set["fffd"], !["fffd"] = Defaults["fffd"]]
     ELSE all
InitError(o) ==
  IF o.format \notin 0..3 THEN "format"
  ELSE IF Configured(o.set)["border"] \notin 0..7 THEN "border"
  ELSE IF Configured(o.set)["im"] \notin 0..2 THEN "mode"
  ELSE "none"

\* setWriteZ80File, called after initWriter without a format, sets it to Auto.
FormatOf(o) == IF o.type = "Z80" THEN 0 ELSE o.format

PathsOf(o) ==
  CASE o.type = "TAP" -> (IF project.wav THEN {"tap", "wav"} ELSE {"tap"})
    [] o.type = "TRD" -> {"scl", "trd"} [] o.type = "Z80" -> {"z80"} [] o.type = "PC" -> {"exe"}

Init ==
  /\ project \in Projects
  /\ pc = "basic" /\ basic = [x \in {} |-> <<>>] /\ previous = NoNumber
  /\ error = "none" /\ n = 1 /\ k = 1 /\ made = {}
  /\ writer = NewWriter(Defaults, 0, "auto") /\ disk = <<>>
  /\ written = [x \in {} |-> <<>>] /\ played = "none" /\ emulator = {}

Fail(why) ==
  /\ pc' = "failed" /\ error' = why
  /\ UNCHANGED <<project, basicVars, n, k, made, writer, disk, written, played, emulator>>

\* The BASIC programs, in the order of their names; any of their lines may be no BASIC.
NextProgram == project.sources[Cardinality(DOMAIN basic) + 1]
CompileBasic ==
  /\ pc = "basic" /\ Cardinality(DOMAIN basic) < Len(project.sources)
  /\ LET c == CompileProgram(NextProgram.files, project.linked, previous) IN
     /\ previous' = c.previous
     /\ \/ /\ c.error = "none" /\ UNCHANGED <<pc, error>>
           /\ basic' = [x \in DOMAIN basic \cup {NextProgram.name} |->
                         IF x \in DOMAIN basic THEN basic[x] ELSE [data |-> CompiledData(c), line |-> c.start]]
        \/ pc' = "failed" /\ error' = (IF c.error = "none" THEN "syntax" ELSE c.error) /\ UNCHANGED basic
  /\ UNCHANGED <<project, n, k, made, writer, disk, written, played, emulator>>
BasicDone ==
  /\ pc = "basic" /\ Cardinality(DOMAIN basic) = Len(project.sources)
  /\ pc' = "open"
  /\ UNCHANGED <<project, error, basicVars, n, k, made, writer, disk, written, played, emulator>>

\* The head of the loop over the outputs.
Skip ==
  /\ pc = "open" /\ n <= Len(project.outputs) /\ ~Output.enabled
  /\ n' = n + 1
  /\ UNCHANGED <<project, pc, error, basicVars, k, made, writer, disk, written, played, emulator>>
Open ==
  /\ pc = "open" /\ n <= Len(project.outputs) /\ Output.enabled
  /\ IF Snap /\ InitError(Output) # "none" THEN Fail(InitError(Output))
     ELSE IF PathsOf(Output) \cap made # {} THEN Fail("duplicate")
     ELSE /\ pc' = "add" /\ k' = 1 /\ made' = made \cup PathsOf(Output)
          /\ writer' = NewWriter(Configured(Output.set), FormatOf(Output), Output.machine) /\ disk' = <<>>
          /\ UNCHANGED <<project, error, basicVars, n, written, played, emulator>>

\* What a tape or disk writer keeps of a file.  On a disk BASIC programs end with their
\* start line; on a tape nothing is empty.  A header says where code is loaded and, on a
\* tape, where BASIC starts.
DiskFile(kind, name, data, start) == [kind |-> kind, name |-> name, data |-> data, start |-> start]
NoAutoStart == 32768
AutoStart(line) == <<128, 170, line % 256, line \div 256>>
BasicFile(b) ==
  LET line == IF basic[b].line = NoNumber THEN NoAutoStart ELSE basic[b].line
  IN DiskFile("basic", b, basic[b].data \o IF Output.type = "TRD" THEN AutoStart(line) ELSE <<>>, line)
CodeFile(f) ==
  DiskFile("code", f, IF Output.type = "TAP" /\ project.linked[f].data = <<>> THEN <<0>>
                      ELSE project.linked[f].data, project.linked[f].load % 65536)

Added == k' = k + 1 /\ UNCHANGED <<project, pc, error, basicVars, n, made, written, played, emulator>>
AddLinked(file) ==
  LET f == project.linked[file.ref]
      why == CodeError(writer, file.name, f.load, f.data) IN
  IF ~Snap THEN disk' = Append(disk, CodeFile(file.ref)) /\ UNCHANGED writer /\ Added
  ELSE IF why # "none" THEN Fail(why)
  ELSE writer' = AddCode(writer, file.name, f.load, f.data) /\ UNCHANGED disk /\ Added
AddFile ==
  /\ pc = "add" /\ k <= Len(Output.files)
  /\ LET file == Output.files[k] IN
     \/ file.ref \in DOMAIN project.linked /\ AddLinked(file)
     \/ file.ref \notin DOMAIN project.linked \cup {None} /\ Fail("missing")
     \/ /\ file.ref = None /\ file.refBasic \in DOMAIN basic
        /\ disk' = Append(disk, BasicFile(file.refBasic)) /\ UNCHANGED writer /\ Added
     \/ file.ref = None /\ file.refBasic \notin DOMAIN basic \cup {None} /\ Fail("missing")
     \/ file.ref = None /\ file.refBasic = None /\ Fail("unsupported")

-----------------------------------------------------------------------------
\* TRDOSWriter.  A sector holds the number of its file and its number in that file.
SectorsShort(file) == Len(file.data) \div SectorSize
Sectors(file) == (Len(file.data) + SectorSize - 1) \div SectorSize
Free == <<0, 0>>
Data == FlattenSeq([j \in 1..Len(disk) |-> [i \in 1..Sectors(disk[j]) |-> <<j, i>>]])
DiskHeader(j) ==
  [kind |-> disk[j].kind, start |-> IF disk[j].kind = "basic" THEN Len(disk[j].data) ELSE disk[j].start,
   length |-> Len(disk[j].data), sectors |-> Sectors(disk[j]) % 256]
SclFile == [count |-> Len(disk) % 256, headers |-> [j \in 1..Len(disk) |-> DiskHeader(j)], data |-> Data]

\* Only the files that have a catalogue entry move the sector on.
NextSector(j) == FoldFunction(+, SectorsPerTrack, [i \in 1..(j - 1) |-> Sectors(disk[i])])
TrdFile ==
  LET entries == Min({Len(disk), MaxFiles})
      sector == NextSector(entries + 1) IN
  [catalogue |-> [j \in 1..entries |->
     [header |-> DiskHeader(j), sector |-> NextSector(j) % SectorsPerTrack, track |-> NextSector(j) \div SectorsPerTrack]],
   nextSector |-> sector % SectorsPerTrack, nextTrack |-> sector \div SectorsPerTrack,
   count |-> Len(disk) % 256, freeSectors |-> (TotalSectors - sector) % 65536,
   data |-> Data \o [i \in 1..(TotalSectors - sector) |-> Free]]

\* SpectrumTapeWriter: a header block, and a data block of what follows.
TapFile ==
  FlattenSeq([j \in 1..Len(disk) |->
    <<[kind |-> disk[j].kind, length |-> Len(disk[j].data), start |-> disk[j].start], [data |-> disk[j].data]>>])

Content(suffix) ==
  CASE suffix \in {"tap", "wav"} -> TapFile [] suffix = "scl" -> SclFile [] suffix = "trd" -> TrdFile
    [] suffix = "z80" -> Z80File(writer)
    [] suffix = "exe" -> [state |-> ExeState(writer.regs), memory |-> Memory(writer)]

\* writeOutput, behind the last file.
Write ==
  /\ pc = "add" /\ k > Len(Output.files)
  /\ IF Output.type = "Z80" /\ Z80Error(writer) # "none" THEN Fail(Z80Error(writer))
     ELSE /\ written' = [x \in DOMAIN written \cup PathsOf(Output) |->
                           IF x \in PathsOf(Output) THEN Content(x) ELSE written[x]]
          /\ pc' = "open" /\ n' = n + 1
          /\ UNCHANGED <<project, error, basicVars, k, made, writer, disk, played, emulator>>

\* The runtime has no memory or no registers to write to.
RuntimeUnfit ==
  /\ pc = "add" /\ k > Len(Output.files) /\ Output.type = "PC"
  /\ Fail("runtime")

Finish ==
  /\ pc = "open" /\ n > Len(project.outputs)
  /\ pc' = "done"
  /\ UNCHANGED <<project, error, basicVars, n, k, made, writer, disk, written, played, emulator>>

-----------------------------------------------------------------------------
\* The runtime is started: main, then Game, load the snapshot or what the executable has.
PlaySnapshot ==
  /\ pc = "done" /\ "z80" \in DOMAIN written
  /\ LET loaded == LoadSnapshot(written["z80"]) IN
     /\ played' = "Z80"
     /\ IF loaded.error # "none" THEN pc' = "refused" /\ UNCHANGED emulator
        ELSE pc' = "playing" /\ emulator' = Start(loaded.state, loaded.memory)
  /\ UNCHANGED <<project, error, basicVars, n, k, made, writer, disk, written>>
PlayExe ==
  /\ pc = "done" /\ "exe" \in DOMAIN written
  /\ LET exe == written["exe"]
         state == [x \in Field |-> exe.state[CHOOSE j \in 1..Len(Fields) : Fields[j] = x]]
     IN emulator' = Start(state, exe.memory)
  /\ pc' = "playing" /\ played' = "PC"
  /\ UNCHANGED <<project, error, basicVars, n, k, made, writer, disk, written>>

Over == pc \in {"failed", "refused", "playing", "done"} /\ UNCHANGED vars
Next == CompileBasic \/ BasicDone \/ Skip \/ Open \/ AddFile \/ Write \/ RuntimeUnfit \/ Finish \/ PlaySnapshot \/ PlayExe \/ Over
Spec == Init /\ [][Next]_vars

-----------------------------------------------------------------------------
\* The addresses of a file of an output, and the memory cells they are.
Bytes(file) == project.linked[file.ref].data
Addresses(file) ==
  {project.linked[file.ref].load + i : i \in 0..(Len(Bytes(file)) - 1)}
Cell(file, address) ==
  Resolve(IF BankNamed[file.name] = Plain THEN 0 ELSE BankNamed[file.name], address)
Owners(o, cell) ==
  {own \in (1..Len(o.files)) \X (Page..(4 * Page - 1)) :
     own[2] \in Addresses(o.files[own[1]]) /\ Cell(o.files[own[1]], own[2]) = cell}

\* Whichever way a program takes into the emulator, each byte of its files is where the
\* linker meant it to run, in the bank its name asks for, and there is nothing else.
PlayedOutput == CHOOSE o \in ToSet(project.outputs) : o.type = played /\ o.enabled
LoadsWhatWasLinked ==
  pc = "playing" =>
    \A b \in Bank, p \in 0..(Page - 1) :
      LET owners == Owners(PlayedOutput, <<b, p>>) IN
      /\ owners = {} => emulator.memory[b][p] = 0
      /\ \A own \in owners :
           LET file == PlayedOutput.files[own[1]]
           IN emulator.memory[b][p] = Bytes(file)[own[2] - project.linked[file.ref].load + 1]

\* Settings that do not reach the emulator: port FFFD sets 7FFD instead, and 7FFD is not
\* stored for 48K machines nor, when no machine is named, in format 1.
Misconfigured(o) ==
  \/ "fffd" \in DOMAIN o.set
  \/ o.type = "Z80" /\ "7ffd" \in DOMAIN o.set /\ o.machine \in Machines48 \cup {"auto"}

\* The processor starts with the registers, ports and modes the project sets, whatever
\* format and machine are chosen or found out.
StartsAsConfigured ==
  pc = "playing" /\ ~Misconfigured(PlayedOutput) =>
    LET want(x) == IF x \in DOMAIN PlayedOutput.set THEN PlayedOutput.set[x] ELSE Defaults[x] IN
    /\ \A x \in DOMAIN emulator.regs : emulator.regs[x] = want(x)
    /\ emulator.currentBank = want("7ffd") % 8
    /\ emulator.shadowScreen = ((want("7ffd") \div 8) % 2 = 1)

\* A file is refused only if it can not be where it should, or its bytes would go where
\* those of another one are (or right before them); a snapshot only if the emulator does
\* not have the machine.  made is empty while BASIC is compiled, which has errors of its own.
Fixed(bank) == CASE bank = 2 -> (2 * Page)..(3 * Page - 1) [] bank = 5 -> Page..(2 * Page - 1) [] OTHER -> {}
Fits(file) ==
  IF BankNamed[file.name] = Plain THEN Addresses(file) \subseteq Page..(4 * Page - 1)
  ELSE \/ Addresses(file) \subseteq (3 * Page)..(4 * Page - 1)
       \/ Addresses(file) \subseteq Fixed(BankNamed[file.name])
RightBefore(file, other) ==
  /\ BankNamed[file.name] = Plain
  /\ \E a \in Addresses(other) : Resolve(0, project.linked[file.ref].load + Len(Bytes(file))) = Cell(other, a)
Meet(file, other) ==
  \/ \E a \in Addresses(file), b \in Addresses(other) : Cell(file, a) = Cell(other, b)
  \/ RightBefore(file, other)
RefusedForAReason ==
  /\ made # {} /\ error = "bounds" => ~Fits(Output.files[k])
  /\ made # {} /\ error = "overlap" => \E j \in 1..(k - 1) : Meet(Output.files[k], Output.files[j])
  /\ made # {} /\ error = "machine" =>
       /\ \E j \in 1..Len(Output.files) : BankNamed[Output.files[j].name] \notin {Plain, 0, 2, 5}
       /\ Output.machine \in Machines48 \cup {"auto"}
  /\ pc = "refused" =>
       PlayedOutput.machine \notin (Machines48 \ {"didaktik"}) \cup {"auto", "128k"} \/ "1ffd" \in DOMAIN PlayedOutput.set

\* Every BASIC program is what its own files say, in the order the linker's files and the
\* program's lines have, though bas2tap keeps its state from program to program.
BasicIsItsSources ==
  \A j \in 1..Cardinality(DOMAIN basic) :
    LET source == project.sources[j] IN IsProgramOf(basic[source.name], source.files, project.linked)

\* A program is refused only for what is in its own files; that its lines are no BASIC may
\* be said of any.
BasicRefusedForAReason ==
  pc = "failed" /\ made = {} /\ Cardinality(DOMAIN basic) < Len(project.sources) =>
    error = "syntax" \/ Deserves(NextProgram.files, project.linked, error)

\* What a file of a tape or disk output is there.
Length(o, file) ==
  IF file.ref # None THEN Max({Len(Bytes(file)), IF o.type = "TAP" THEN 1 ELSE 0})
  ELSE Len(basic[file.refBasic].data) + IF o.type = "TRD" THEN 4 ELSE 0
SectorAt(data, i) == IF i \in DOMAIN data THEN data[i] ELSE Free
LengthOn(o, j) == (Length(o, o.files[j]) + SectorSize - 1) \div SectorSize
\* TRDOSWriter checks neither the number of files nor the sectors they need.
DiskHolds(o) ==
  /\ Len(o.files) <= MaxFiles
  /\ SectorsPerTrack + FoldFunction(+, 0, [j \in 1..Len(o.files) |-> LengthOn(o, j)]) <= TotalSectors

\* Where a file goes, or where a BASIC program on a tape starts.
StartOn(o, file) ==
  IF file.ref # None THEN project.linked[file.ref].load
  ELSE IF o.type = "TRD" THEN Length(o, file)
  ELSE IF basic[file.refBasic].line = NoNumber THEN NoAutoStart ELSE basic[file.refBasic].line

\* What the headers and the catalogue say of a file - where it begins, how long it is, where
\* it goes or starts - leads to its data, on the tape and on either kind of disk, and the
\* rest of a disk is free.
MediaFindFiles ==
  \A o \in {project.outputs[j] : j \in 1..(n - 1)} :
    LET count == Len(o.files) IN
    /\ o.enabled /\ o.type = "TAP" =>
         /\ Len(written["tap"]) = 2 * count
         /\ \A j \in 1..count :
              /\ written["tap"][2 * j - 1].length = Length(o, o.files[j])
              /\ written["tap"][2 * j - 1].start = StartOn(o, o.files[j])
              /\ Len(written["tap"][2 * j].data) = Length(o, o.files[j])
    /\ o.enabled /\ o.type = "TRD" =>
         LET scl == written["scl"]
             offset(j) == FoldFunction(+, 0, [i \in 1..(j - 1) |-> scl.headers[i].sectors]) IN
         /\ scl.count = count /\ Len(scl.data) = offset(count + 1)
         /\ \A j \in 1..count : \A i \in 1..LengthOn(o, j) : SectorAt(scl.data, offset(j) + i) = <<j, i>>
    /\ o.enabled /\ o.type = "TRD" /\ DiskHolds(o) =>
         LET trd == written["trd"]
             place(e) == (e.track - 1) * SectorsPerTrack + e.sector IN
         /\ Len(trd.data) = TotalSectors - SectorsPerTrack
         /\ \A j \in 1..count :
              /\ trd.catalogue[j].header.start = StartOn(o, o.files[j])
              /\ trd.catalogue[j].header.length = Length(o, o.files[j])
              /\ trd.catalogue[j].header.sectors = LengthOn(o, j)
              /\ \A i \in 1..LengthOn(o, j) : SectorAt(trd.data, place(trd.catalogue[j]) + i) = <<j, i>>
         /\ LET next == (trd.nextTrack - 1) * SectorsPerTrack + trd.nextSector
            IN \A i \in 1..Len(trd.data) : trd.data[i] = Free <=> i > next /\ i <= next + trd.freeSectors
=============================================================================
