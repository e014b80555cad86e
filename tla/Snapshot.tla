------------------------------ MODULE Snapshot ------------------------------
(***************************************************************************)
(* A program on its way into the memory of a ZX Spectrum: the writer of    *)
(* .z80 snapshots and of executables (Output/SpectrumSnapshotWriter.cpp),  *)
(* the reader of snapshots and the emulator the executables are made of    *)
(* (Emulator/Snapshot.cpp, Emulator.cpp).                                  *)
(*                                                                         *)
(* There are eight banks of Page bytes.  The processor sees nothing it may *)
(* use in its first page, bank 5 in the second one, bank 2 in the third,   *)
(* and in the last one the bank that was output to port 7FFD.              *)
(***************************************************************************)
EXTENDS Integers, Sequences, SequencesExt, FiniteSetsExt

CONSTANTS
  Page,        (* size of a bank, 16384                                    *)
  BankNamed    (* the bank a file name asks for, Plain or Invalid          *)

Plain == -1    \* the name does not begin with BANK and a digit
Invalid == -2  \* it does, but goes on, or the digit is not a bank
Unset == 65535 \* mPort1FFD when nothing set it
Bank == 0..7

ASSUME SnapshotAssumption ==
  /\ Page \in Nat \ {0}
  /\ \A name \in DOMAIN BankNamed : BankNamed[name] \in Bank \cup {Plain, Invalid}

\* The registers in the order of SpectrumSnapshotWriter.h; ei is mInterruptsEnabled.
Register == {"a", "f", "bc", "hl", "de", "a'", "f'", "bc'", "hl'", "de'", "pc", "sp", "iy", "ix",
             "i", "r", "border", "im", "ei", "7ffd", "fffd", "1ffd"}
Defaults ==
  [x \in Register |->
     CASE x \in {"pc", "sp"} -> 32768 [] x = "border" -> 7 [] x = "1ffd" -> Unset
       [] x = "ei" -> 1 [] OTHER -> 0]

\* A writer: what initWriter configured and the pieces added so far.  format 0 is Auto.
NewWriter(regs, format, machine) ==
  [regs |-> regs, format |-> format, machine |-> machine, pieces |-> <<>>]

-----------------------------------------------------------------------------
\* addCodeFile.  A piece is what a file puts into one bank; its start counts as if the
\* bank were in the last page.

\* A plain file is cut where the pages meet.  (CutFromStart and others
\* named after a slip are mutants of what follows them, used by nothing.)
Windows == <<[bank |-> 5, lo |-> Page, hi |-> 2 * Page], [bank |-> 2, lo |-> 2 * Page, hi |-> 3 * Page],
             [bank |-> 0, lo |-> 3 * Page, hi |-> 4 * Page]>>
CutFromStart(w, start, data) ==
  LET from == Max({start, w.lo})
      size == Min({start + Len(data), w.hi}) - from
  IN [bank |-> w.bank, start |-> from + 3 * Page - w.lo, bytes |-> [j \in 1..size |-> data[j]]]
Cut(w, start, data) ==
  LET from == Max({start, w.lo})
      size == Min({start + Len(data), w.hi}) - from
      off1 == from - start
  IN [bank |-> w.bank, start |-> from + 3 * Page - w.lo, bytes |-> [j \in 1..size |-> data[off1 + j]]]
PieceIn(w, start, data) ==
  IF start + Len(data) > w.lo /\ start < w.hi THEN <<Cut(w, start, data)>> ELSE <<>>
Pieces(start, data) ==
  PieceIn(Windows[1], start, data) \o PieceIn(Windows[2], start, data) \o PieceIn(Windows[3], start, data)

\* Where the processor finds a piece of banks 0, 2 and 5.
AddressOf(piece) ==
  piece.start - (CASE piece.bank = 0 -> 0 [] piece.bank = 2 -> Page [] piece.bank = 5 -> 2 * Page)

\* Another file is met where it begins, be it at the first byte behind this one.
OverlapsPlain(writer, start, size) ==
  \E j \in 1..Len(writer.pieces) :
    LET it == writer.pieces[j]
    IN /\ it.bank \in {0, 2, 5}
       /\ start + size >= AddressOf(it) /\ start <= AddressOf(it) + Len(it.bytes) - 1

\* The start in the last page of a file for a bank: banks 2 and 5 may be given by the
\* address they always have as well.
BankStart(bank, start, size) ==
  LET base == CASE bank = 2 -> 2 * Page [] bank = 5 -> Page [] OTHER -> 3 * Page IN
  IF start >= base /\ start + size <= base + Page THEN start + 3 * Page - base
  ELSE IF start >= 3 * Page /\ start + size <= 4 * Page THEN start
  ELSE Invalid
OverlapsAnyBank(writer, bank, start, size) ==
  \E j \in 1..Len(writer.pieces) :
    LET it == writer.pieces[j]
    IN start + size - 1 >= it.start /\ start <= it.start + Len(it.bytes) - 1
OverlapsBank(writer, bank, start, size) ==
  \E j \in 1..Len(writer.pieces) :
    LET it == writer.pieces[j]
    IN it.bank = bank /\ start + size - 1 >= it.start /\ start <= it.start + Len(it.bytes) - 1

\* The error addCodeFile throws, "none" if it throws none; the order is the code's.
CodeError(writer, name, start, data) ==
  LET bank == BankNamed[name]
      size == Len(data) IN
  IF bank = Invalid THEN "bank"
  ELSE IF bank \notin {Plain, 0, 2, 5} /\ size # 0 /\ writer.format = 1 THEN "format"
  ELSE IF size = 0 THEN "none"
  ELSE IF bank = Plain THEN
    IF start < Page \/ start + size > 4 * Page THEN "bounds"
    ELSE IF OverlapsPlain(writer, start, size) THEN "overlap" ELSE "none"
  ELSE
    IF BankStart(bank, start, size) = Invalid THEN "bounds"
    ELSE IF OverlapsBank(writer, bank, BankStart(bank, start, size), size) THEN "overlap" ELSE "none"

AddCode(writer, name, start, data) ==
  LET bank == BankNamed[name]
      new == IF data = <<>> THEN <<>>
             ELSE IF bank = Plain THEN Pieces(start, data)
             ELSE <<[bank |-> bank, start |-> BankStart(bank, start, Len(data)), bytes |-> data]>>
  IN [writer EXCEPT !.format = IF bank # Plain /\ @ = 0 THEN 2 ELSE @,
                    !.pieces = @ \o new]

\* buildMemory.
Memory(writer) ==
  [b \in Bank |-> [o \in 0..(Page - 1) |->
     LET on == {j \in 1..Len(writer.pieces) :
                  LET it == writer.pieces[j]
                  IN it.bank = b /\ 3 * Page + o >= it.start /\ 3 * Page + o < it.start + Len(it.bytes)}
     IN IF on = {} THEN 0
        ELSE LET it == writer.pieces[Max(on)] IN it.bytes[3 * Page + o - it.start + 1]]]

-----------------------------------------------------------------------------
\* writeZ80File.
Machines48 == {"16k", "48k", "didaktik", "tc2048", "tc2068", "ts2068"}
Machines128 == {"128k", "+3", "pentagon", "scorpion", "+2", "+2A"}
Foreign(writer) == \E j \in 1..Len(writer.pieces) : writer.pieces[j].bank \notin {0, 2, 5}

\* What Auto stands for.  need128k asks for pieces of other banks while the format is still
\* Auto, which adding them ended.
Format(writer) ==
  IF writer.format # 0 THEN writer.format
  ELSE IF writer.regs["1ffd"] # Unset THEN 3
  ELSE IF writer.machine \notin {"auto", "48k"} \/ writer.regs["pc"] = 0 \/ Foreign(writer) THEN 2
  ELSE 1
Need128k(writer) ==
  /\ writer.format = 0 /\ writer.regs["1ffd"] = Unset
  /\ writer.machine \in {"auto", "48k"} /\ writer.regs["pc"] # 0 /\ Foreign(writer)
Machine(writer) ==
  IF writer.machine # "auto" THEN writer.machine
  ELSE IF writer.regs["1ffd"] # Unset THEN "+3"
  ELSE IF Need128k(writer) \/ writer.regs["7ffd"] # 0 THEN "128k"
  ELSE "48k"
Is48k(writer) == Machine(writer) \in Machines48

Z80Error(writer) ==
  IF Format(writer) = 1 /\ writer.regs["pc"] = 0 THEN "pc"
  ELSE IF Format(writer) # 3 /\ writer.regs["1ffd"] # Unset THEN "port"
  ELSE IF Is48k(writer) /\ Foreign(writer) THEN "machine"
  ELSE "none"

Byte(x) == <<x % 256>>
WordSwapped(x) == <<(x \div 256) % 256, x % 256>>
Word(x) == <<x % 256, (x \div 256) % 256>>
Zeros(n) == [j \in 1..n |-> 0]
MachineByte(machine, format) ==
  CASE machine \in {"16k", "48k"} -> 0 [] machine = "128k" -> (IF format = 2 THEN 3 ELSE 4)
    [] machine = "+3" -> 7 [] machine = "pentagon" -> 9 [] machine = "scorpion" -> 10
    [] machine = "didaktik" -> 11 [] machine = "+2" -> 12 [] machine = "+2A" -> 13
    [] machine = "tc2048" -> 14 [] machine = "tc2068" -> 15 [] machine = "ts2068" -> 128

Header(writer) ==
  LET r == writer.regs
      format == Format(writer)
      long == r["1ffd"] # Unset IN
  Byte(r["a"]) \o Byte(r["f"]) \o Word(r["bc"]) \o Word(r["hl"])
  \o Word(IF format = 1 THEN r["pc"] ELSE 0) \o Word(r["sp"]) \o Byte(r["i"]) \o Byte(r["r"])
  \o Byte(2 * (r["border"] % 8) + ((r["r"] \div 128) % 2))
  \o Word(r["de"]) \o Word(r["bc'"]) \o Word(r["de'"]) \o Word(r["hl'"])
  \o Byte(r["a'"]) \o Byte(r["f'"]) \o Word(r["iy"]) \o Word(r["ix"])
  \o Byte(r["ei"]) \o Byte(0) \o Byte(64 + (IF r["im"] <= 2 THEN r["im"] ELSE 0))
  \o IF format = 1 THEN <<>>
     ELSE Word(IF format = 2 THEN 23 ELSE IF long THEN 55 ELSE 54) \o Word(r["pc"])
          \o Byte(MachineByte(Machine(writer), format)) \o Byte(r["7ffd"]) \o Byte(0)
          \o Byte(IF Machine(writer) = "16k" THEN 128 ELSE 0) \o Byte(r["fffd"]) \o Zeros(16)
          \o IF format = 2 THEN <<>>
             ELSE Zeros(6) \o <<255, 255>> \o Zeros(23) \o IF long THEN Byte(r["1ffd"]) ELSE <<>>

BankBytes(writer, b) == [o \in 1..Page |-> Memory(writer)[b][o - 1]]
\* The banks in the order they are written, and the number each is written with.
Numbered48 == <<<<5, 8>>, <<2, 4>>, <<0, 5>>>>
Numbered128 == <<<<5, 8>>, <<2, 5>>, <<0, 3>>, <<1, 4>>, <<3, 6>>, <<4, 7>>, <<6, 9>>, <<7, 10>>>>
Z80File(writer) ==
  LET numbered == IF Is48k(writer) THEN Numbered48 ELSE Numbered128 IN
  Header(writer)
  \o IF Format(writer) = 1 THEN BankBytes(writer, 5) \o BankBytes(writer, 2) \o BankBytes(writer, 0)
     ELSE FlattenSeq([j \in 1..Len(numbered) |->
                        Word(65535) \o Byte(numbered[j][2]) \o BankBytes(writer, numbered[j][1])])

-----------------------------------------------------------------------------
\* struct SnapshotState, packed: every field is a byte.
Fields == <<"a", "f", "b", "c", "d", "e", "l", "h", "a'", "f'", "b'", "c'", "d'", "e'", "l'", "h'",
            "ixH", "ixL", "iyH", "iyL", "i", "r", "intMode", "intDisabled", "pcL", "pcH", "spL", "spH",
            "1ffd", "7ffd", "fffd", "border">>
Field == {Fields[j] : j \in 1..Len(Fields)}

\* writeExeFile: the state at REGISTERS in the runtime, byte by byte.
Low(x) == x % 256
High(x) == (x \div 256) % 256
ExeState(regs) ==
  <<regs["a"], regs["f"], High(regs["bc"]), Low(regs["bc"]), High(regs["de"]), Low(regs["de"]),
    Low(regs["hl"]), High(regs["hl"]), regs["a'"], regs["f'"], High(regs["bc'"]), Low(regs["bc'"]),
    High(regs["de'"]), Low(regs["de'"]), Low(regs["hl'"]), High(regs["hl'"]),
    High(regs["ix"]), Low(regs["ix"]), High(regs["iy"]), Low(regs["iy"]), regs["i"], regs["r"],
    regs["im"], 1 - regs["ei"], Low(regs["pc"]), High(regs["pc"]), Low(regs["sp"]), High(regs["sp"]),
    IF regs["1ffd"] = Unset THEN 0 ELSE Low(regs["1ffd"]), regs["7ffd"], regs["fffd"], regs["border"]>>

\* loadSnapshot of a file, B(n) being its byte at offset n.  Blocks are as long as Z80File
\* makes them, not compressed.
LoadState(file, ports) ==
  LET B(n) == file[n + 1]
      late == B(6) = 0 /\ B(7) = 0 IN
  [x \in Field |->
     CASE x = "a" -> B(0) [] x = "f" -> B(1) [] x = "c" -> B(2) [] x = "b" -> B(3)
       [] x = "l" -> B(4) [] x = "h" -> B(5)
       [] x = "pcL" -> (IF late THEN B(32) ELSE B(6)) [] x = "pcH" -> (IF late THEN B(33) ELSE B(7))
       [] x = "spL" -> B(8) [] x = "spH" -> B(9) [] x = "i" -> B(10)
       [] x = "r" -> (B(11) % 128) + 128 * (B(12) % 2) [] x = "border" -> (B(12) \div 2) % 8
       [] x = "e" -> B(13) [] x = "d" -> B(14) [] x = "c'" -> B(15) [] x = "b'" -> B(16)
       [] x = "e'" -> B(17) [] x = "d'" -> B(18) [] x = "l'" -> B(19) [] x = "h'" -> B(20)
       [] x = "a'" -> B(21) [] x = "f'" -> B(22) [] x = "iyL" -> B(23) [] x = "iyH" -> B(24)
       [] x = "ixL" -> B(25) [] x = "ixH" -> B(26)
       [] x = "intDisabled" -> (IF B(27) = 0 THEN 1 ELSE 0) [] x = "intMode" -> B(29) % 4
       [] OTHER -> ports[x]]

\* The hardware mode: whether it is a 48K one or a Timex, or not supported.
Mode(machine, v) ==
  CASE machine \in {0, 1} \/ (machine = 3 /\ v = 3) -> "48k"
    [] machine = 3 -> "128k"
    [] machine \in {14, 15, 128} -> "timex"
    [] OTHER -> "unsupported"

LoadSnapshot(file) ==
  LET B(n) == file[n + 1]
      late == B(6) = 0 /\ B(7) = 0
      length == B(30) + 256 * B(31)
      mode == Mode(B(34), IF length = 23 THEN 2 ELSE 3)
      ports == [x \in {"1ffd", "7ffd", "fffd"} |->
                  IF ~late THEN 0
                  ELSE CASE x = "7ffd" -> (IF mode = "128k" THEN B(35) ELSE 0)
                         [] x = "fffd" -> B(38)
                         [] x = "1ffd" -> (IF length = 55 THEN B(86) ELSE 0)]
      blocks == {off \in (32 + length)..(Len(file) - 1) : (off - 32 - length) % (3 + Page) = 0}
      target(number) == IF mode = "128k" THEN number - 3
                        ELSE CASE number = 4 -> 2 [] number = 5 -> 0 [] number = 8 -> 5 [] OTHER -> -1
      start(b) == IF ~late THEN CASE b = 5 -> {30} [] b = 2 -> {30 + Page} [] b = 0 -> {30 + 2 * Page} [] OTHER -> {}
                  ELSE {off + 3 : off \in {p \in blocks : target(B(p + 2)) = b}}
  IN IF late /\ (length \notin {23, 54, 55} \/ mode = "unsupported") THEN [error |-> "unsupported"]
     ELSE [error |-> "none",
           state |-> LoadState(file, ports),
           memory |-> [b \in Bank |-> [o \in 0..(Page - 1) |->
                         IF start(b) = {} THEN 0 ELSE B(Max(start(b)) + o)]]]

\* Emulator::loadSnapshot: the registers of the processor, the bank it sees in the last
\* page, whether the screen shown is the other one, and the border.
Pair(high, low) == 256 * high + low
CurrentBank(port7FFD) == port7FFD % 8
UseShadowScreen(port7FFD) == (port7FFD \div 8) % 2 = 1
Start(state, memory) ==
  [memory |-> memory, currentBank |-> CurrentBank(state["7ffd"]), shadowScreen |-> UseShadowScreen(state["7ffd"]),
   regs |-> [x \in Register \ {"1ffd", "7ffd", "fffd"} |->
     CASE x \in {"a", "f", "a'", "f'", "i", "r", "border"} -> state[x]
       [] x = "bc" -> Pair(state["b"], state["c"]) [] x = "de" -> Pair(state["d"], state["e"])
       [] x = "hl" -> Pair(state["h"], state["l"]) [] x = "bc'" -> Pair(state["b'"], state["c'"])
       [] x = "de'" -> Pair(state["d'"], state["e'"]) [] x = "hl'" -> Pair(state["h'"], state["l'"])
       [] x = "ix" -> Pair(state["ixH"], state["ixL"]) [] x = "iy" -> Pair(state["iyH"], state["iyL"])
       [] x = "pc" -> Pair(state["pcH"], state["pcL"]) [] x = "sp" -> Pair(state["spH"], state["spL"])
       [] x = "im" -> state["intMode"] [] x = "ei" -> 1 - state["intDisabled"]]]

\* Z80Memory::resolveAddress: the bank and the offset the processor accesses.
Resolve(bank, address) ==
  <<IF address < 2 * Page THEN 5 ELSE IF address < 3 * Page THEN 2 ELSE bank, address % Page>>
=============================================================================
