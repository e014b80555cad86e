# A verification of the ZX Spectrum Retro Toolkit

Retro Toolkit builds programs for the ZX Spectrum. From a project file, assembler and BASIC
sources and build scripts in Java it makes tapes, disks, snapshots and executables. The program
is one C++17 process with a Qt user interface, a compiler on a thread of its own, an embedded
Java virtual machine for the build scripts and, for executables, a runtime around an emulator.
Its own code is `src/Sources` without `Tests` (22,500 lines); `src/Libs` is vendored.

This directory holds TLA+ modules of its parts, configurations with which TLC checks them on
small instances, and proofs about seven of them. `PROJECT.json` lists components, runs, the lines
every definition translates, hazards and theorems. Paths below are under `src/Sources`, names
in `code` are those of the source or of the module of the same subject.

    tlc -workers 2 -config MCLinker.cfg MCLinker     # a run
    tlapm LinkerProofs.tla                           # the proofs of a part

## 1. The system

    project file ──► Project ─────────────────┐ settings of outputs
                        │ files, sections     │
    *.asm ─► Lexer ─► AssemblerParser ─► ProgramSection ─► Linker ─► output writers ─► .tap .trd
    build/*.java ─► JVM, Builder ─ files ─┘   ▲ passes       │ sizes, addresses        .z80 .exe
    *.bas ─► BASIC compiler ◄── labels ───────┴──────────────┘                            │
    all of it: Compiler::buildProject, on a BuildThread, for a BuildDialog            emulator

A build is one call of `Compiler::buildProject` (Compiler.cpp): load the project, run the build
scripts, parse every source file, link, compile BASIC, write the outputs. The dialog that
started it is told by queued signals and asks it to stop by a flag that is looked at whenever
progress is reported. All objects of the compiler live on a heap that frees nothing before it
is destroyed. An error is a C++ exception, the build ends, and what was written stays.

| part | state | operations | what is hard | what makes it correct |
|---|---|---|---|---|
| **Linker** (Compiler/Linker) | per section: size, base, file offset, labels, code; per file: resolved or not; offset of the copy | construct files, sweep, place up or down, relocate, emit, copy | everything may depend on anything; the order is what falls out of the sweeps; 16-bit and `size_t` arithmetic | it ends, gives up only when it must, never revises, bytes are where the addresses say, no overlap |
| **Sections** (ProgramSection, Label, MacroRepeat, MacroIf, DEFS) | per label a list of addresses, a read and a write position, saved positions; repeat variables; remembered sizes | three passes, each retried | a pass may stop in the middle; iterations have own labels | passes agree with one another; an operand means its own iteration's label |
| **Assembler** (Compiler/Assembler, Tree/Symbol*) | stack of contexts, symbol tables, symbols, instructions | one per kind of line | conditional symbols, nested repeats, local labels, lazily created #if instructions | names mean what the text says; nothing legal is refused |
| **Expressions** (Lexer, ExpressionParser, Tree/Expr, Value) | tokens, tree, evaluation marks | scan, parse, `canEvaluate*`, `evaluate*` | every operator works on the fewest bits that hold its operands | tokens are the longest lexemes, the tree is the grammar's, the bytes are the number's |
| **Build dialog and thread** (GUI/Build, MainWindow) | dialog, thread, queue of events, cancelation | build, close, progress, accept or reject | two threads, queued signals, a modal loop | an accepted dialog has an output; the dialog goes away |
| **JVM and calls into it** (Compiler/Java) | library, machine, environment, attached threads; calls in progress, the exception that waits | load, attach, detach, destroy at exit; call, return, throw, convert | one variable for all threads; partial failure while loading; natives that call Java code again; two kinds of exceptions | each thread uses its own environment; exit does not hang; no call is made while an exception waits, and none is lost |
| **Heap** (Common/GC) | arenas, list of finalizers | alloc, registerFinalizer, destroy | raw memory, an intrusive list | blocks are disjoint, destructors run once, everything is freed |
| **Build scripts** (Java/Tools) | files, times, dependency files, class files | compile, decide, run or skip, write | edits meanwhile, failures, ends of the process | outputs are up to date after a good build; no needless runs |
| **BASIC** (SpectrumBasicCompiler, bas2tap) | lines, start, what bas2tap keeps in variables of the process | add a file, compile | several files are one program, several programs one process | a program is its sources; errors have a reason |
| **Outputs** (Compiler/Output, Project, Compiler.cpp) | names given out, writer, files added | configure, add, write | three layouts of one memory; defaults that depend on what was added | a program runs where it was linked, as configured; headers lead to data |
| **Emulator** (Emulator, Runtimes/SDL2) | registers, banks, ports | load a snapshot, start | a byte contract with the writers, tested on neither side | see Outputs |
| Z80 instructions, code emitters, compressors, image tools, widgets, Common | | | | not modelled, section 7 |

Parts meet in these ways. The compiler **calls** the linker, which calls the passes of the
sections, which ask the linker (through `ISectionResolver`) for facts about other sections. The
JVM, its environment and the library handle are **shared** by all builds of a process. Dialog
and thread exchange **queued events**. Build scripts and compiler share the **file system**,
and the scripts' list of generated files. The writers and the emulator share only the
**bytes** of a file, or of an executable.

## 2. The modules

A module is named after its part, declares its parameters as CONSTANTS under a named
assumption, and has one action per operation, handler or loop step. Modules beginning with `MC`
only define instances. A definition that says it is a mutant, or is named after a slip
(`MinusUnwrapped`, `SectorsShort`), is a wrong variant of the definition after it: no action
uses it; `PROJECT.json` pairs it with the property that notices the difference.

**`Linker`** is `Linker::link` and everything it calls in Linker.cpp. `pc` names the loop the
code is in, and every iteration of a loop is a step:

    construct → ctorSize ctorFrom ctorUntil ctorTo ctorAnchor     LinkerFile::LinkerFile, per file
    → sweep → file → sizes → compress → place (placeTo, After, From, Next)    tryResolve, per file
    → generate → copy → symbols → linked | failed                 generateCode, per file; link

`size`, `base`, `offset`, `labels`, `code`, `attachment` are the fields of `LinkerSection`;
`hasUnresolved`, `didResolve`, `resolvedAll` the locals of the sweep; `image`, `out`, `written`,
`load` the output. What a section's expressions need is data of the project: sets of facts
(size, base, address or label of a name). `Answers` is the search for a section by name with its
"ambiguous" error, `Plus` and `Minus` wrap as `size_t` does.
**`LinkPromise`** is the abstract specification: sizes, bases, offsets and code are decided in
any order and never again, and the end is success with everything decided and disjoint, or
failure. `Linker` implements it with the obvious mapping (`KeepsPromise`).
**`LinkerProofs`** and **`LinkerPlaceProofs`** have the theorems of section 5.

**`ProgramSection`** is what `Linker` abstracts as "the passes of a section": `calculateSize`,
`resolveLabels` and `emitCode` over a flat program of labels, words, `DEFS`, `#repeat` and
`#if` and `#ensure`, and the order in which they are called for one section: the constructor of its file
tries to find the size before any section has a base (`Construct`), then `tryResolve` calls and retries them.
`cells`, `read`, `write`, `saved` are the label's list of addresses and its three kinds of
positions. A section that two files list is there twice, with sizes and `#repeat` counters of its
own and the labels and expressions of the original; both are constructed before either is resolved, and then
they take turns as the sweep has them.
**`SectionPromise`** is what the linker may rely on: the size of a section, its addresses and its
code are found once and never again, addresses follow a base, and code follows both unless it is
compressed, when it gives the size. `ProgramSection` implements it (`KeepsPromise`). What the
parser's contexts guarantee of a program is the assumption `WellNested`: a block closes inside what it
was opened in. **`ProgramSectionProofs`** has the theorems.

**`Assembler`** has an action per kind of line on the stack of contexts, the tables and the
symbols, with `Resolve` for what a name evaluates to when the conditions are known. Its properties
compare that with `Meaning`, which reads the text alone. **`AssemblerProofs`** has the theorems.

**`Lexer`**, **`ExprParser`** and **`Expr`** are operators: from characters to tokens with their
lines, the recursive descent, and evaluation with the code's bits and signs. A name is a constant, a label, a
repeat variable, or what the branches of `#if`s declared under it, each with a condition: `ConditionalCan` and
`ChosenLabelCan` are how Symbol.cpp answers for those, `Choice` how it picks one. **`Expression`** is the
life of one operand: scan, parse, labels and sections become known, ask, evaluate, write. Tokens
are compared with what a lexeme and a gap between two are (`IsLexeme`, `IsGap`), the tree with a
grammar and the number with that of unbounded arithmetic (`Exact`), in the properties' definitions.
These use RECURSIVE operators and the module Bitwise, so nothing is proved about them.

**`Build`** has the GUI thread (`BuildProject`, `HandleOutcome`, `HandleDone`, `UserCloses`,
`BuildReturns`, `Quit`), the worker (from `Connect` to `Finish`), the queue of events between
them, and the JVM: `LoadJvm` with every way a JDK can be unfit, `AttachJvm`, `DestroyCompiler`,
and `Unload` at the end of the program. A step of the worker is what happens between two
reports of progress, but for the phase with Java code, which is **`JavaCalls`**: the stack of calls
between C++ and Java (`frames`), the exception that waits in the environment (`pending`), where the
innermost C++ function is in looking for it (`cpp`), and the class loader. Its actions return,
throw, catch, call a native, check and convert as JVM.h, JNIThrowableRef and Exceptions do.
**`BuildProofs`** has the theorems about both.

**`GCHeap`** has both kinds of arenas, the intrusive list and the loops of the destructor, with
`Wild` for a pointer read from memory nobody has written. **`GCHeapProofs`** has its theorems.

**`Builder`** has the scripts' dependency check, reads and writes, and looks at files that register nothing
(`Peek`), on a file system with times, where the user edits and removes files, generated ones too, between any
two steps and a build may stop at any of them. `suspect` remembers the outputs whose content no dependency
file can vouch for. What a script has read or seen is a
function from its steps (`loaded`), and what SourceFiles reaches from a class is the least set of classes
closed under the names in class files (`Reached`). `InOrder` to `NoIdleScript` say what a project has to
observe for the theorems in **`BuilderProofs`**; TLC evaluates that the instance does.

**`Snapshot`** has the bytes: where `SpectrumSnapshotWriter` puts a file, the header and blocks
of a .z80 file, the state in an executable, and the same read by `loadSnapshot` and put into the
emulator by `Emulator::loadSnapshot`. **`Outputs`** is the loop over a project's outputs, the
tape and disk writers, and the start of the emulator. **`Basic`** is the compiler of BASIC
programs, which `Outputs` calls between the link and the writers, line by line as bas2tap sees them.
**`OutputsProofs`** has the theorems about snapshots and executables.

Composition: `Outputs` extends `Snapshot` and `Basic`, `Build` extends `JavaCalls`, `Expression` extends
`Lexer`, `ExprParser` and `Expr`, `Linker` instantiates `LinkPromise` and `ProgramSection`
`SectionPromise`. `Linker` and `ProgramSection` meet at an interface kept on
both sides: `Linker` treats sizes and code as data that need facts, `ProgramSection` treats the
linker as somebody who makes bases and other labels known at any time; composing them
would multiply their instances without a behaviour that neither has.

## 3. What is checked

Every property of a passing run is paired with a mutant of the code that breaks it in that run.

| run | instance | states | properties |
|---|---|---|---|
| `linker` | three sections in one file or two: every attachment with a base, an alignment or size 0, compression, start and end; rejected projects; sizes and code that depend on facts of each other, a name both files list | 948,437 | `TypeOK`; `ImageMatchesOffsets`: the bytes of a section are in the file where its offset says; `CodeRunsWhereLoaded`: code was emitted for the base the section ends with; `KeepsAttachment`: lower sections follow what is before them and upper ones precede what is after them, as aligned; `NoOverlap`; `LinkedIsComplete`; `GivesUpLast`: when link fails for something unresolved, nothing could have been resolved; `ResolvedOnce`; `KeepsPromise`; `LinkEnds` |
| `linker_upper` | one and two files | | finding 1 |
| `section` | 228 programs with two levels of blocks, in one file or two, two bases, sections of others known at any time | 305,972 | `OwnIteration`: an operand in a `#repeat` reads the label of its own iteration, the first one from outside; `LabelsAgree`: labels are where the code is emitted; `SizesAgree`; `Emitted`: once everything outside is known, code is emitted or an error found; `KeepsPromise` |
| `section_copy` | one program that two files list, whose size depends on another section | | finding 4 |
| `assembler` | 19,000 programs of up to 25 lines, each under every outcome of two conditions | 108,854 | `UsesMeanWhatTheyName`; `OnlyRealDuplicates`; `PlacedAsWritten` |
| `expressions` | 39,000 texts: all of a few characters of several alphabets; every operator on numbers at the edges of widths and on other operators; names declared in one or two branches of `#if`s, under conditions that hold or not or are known late; all of a few tokens | 792,842 | `ScansAsWritten`: tokens are the longest lexemes, with nothing but blanks and comments between them and with their own lines, and what is refused cannot be read; `ParsesAsGrammar`; `AskedMeansAvailable`: what is said to be evaluable evaluates, or the operation is undefined, or none or several of the conditions of a conditional constant in it hold; `WritesTheNumber` |
| `build` | three builds, seven kinds of JDK, with and without Java, three calls of and from natives below each call of the compiler | 127,378 | `TypeOK`; `AcceptedMeansBuilt`: and not canceled in time; `OwnEnv`: JNI is used with the environment of the thread that uses it, and only the main thread is attached at exit; `CallsClean`: no call while an exception waits; `ExceptionFails`: an exception that leaves Java code fails the build; `DialogCloses` |
| `build_retry` | one build | | finding 2 |
| `gcheap` | arenas of 8 bytes, blocks of 0, 3, 4 and 9, five allocations; objects registered once, twice and never | 100,648 | `BlocksDisjoint`; `FinalizedOnce`; `ArenasFreed` |
| `gcheap_twice` | the object registered first registers again | | finding 3 |
| `builder` | two scripts, one of which reads the other's output; six ticks | 2,850,323 | `FreshOutputs`: after a good build outputs are what running every script now would give, for scripts that register what they see, and but for suspect outputs (section 6); `SameSources`; `RunsOnlyAfterEdits` |
| `outputs` | 12,000 projects: two files anywhere in and around the memory, plain or for a bank; every machine, format and setting; tapes and disks up to capacity and beyond; BASIC of up to three lines in two files, after another program or alone | 77,632 | `LoadsWhatWasLinked`: in the emulator every byte is in the bank and at the address it was linked for, and the rest is zero; `BasicIsItsSources`; `BasicRefusedForAReason`; `RefusedForAReason`; `StartsAsConfigured`; `MediaFindFiles`: headers and catalogue lead to the data |

What the runs disagree with the repository about:

1. **An upper section at the end of a file stays upper** (`linker_upper`,
   `UpperAtEndBecomesLower`). The comment at Compiler/Linker/Linker.cpp:186 says that upper
   sections at the end of a file without an end become lower. The loop at :189 runs from the
   front and stops at the first section that is not upper.
2. **A failed load of the JVM is not retried** (`build_retry`, `RetryAfterFailedLoad`). The
   comment at Compiler/Java/JVM.cpp:214 says that unloading "allows user to change JVM path in
   settings and retry". The two failures after it (:224 and :258) throw with the library still
   loaded, `isLoaded()` stays true, and the next build uses a machine that is not there.
3. **Registering twice can finalize for ever** (`gcheap_twice`, `FinalizedOnce`).
   Doc/DeveloperNotes.md:17 says that `registerFinalizer` can be called several times. The first
   object ever registered has a null `mNext`, which Common/GC.cpp:16 takes for "not registered":
   the second call links it to itself.
4. **The copy of a section reads the original's repeat variable** (`section_copy`, `CopySizesAgree`).
   The clone of a `#repeat` counts for itself (Compiler/Assembler/MacroRepeat.cpp:158) but its `#if`s
   and words still name the variable of the original. It takes a section whose size the constructors of
   both files could not find (Linker.cpp:97), such as one with a `DEFS` of another section's label: one file lists
   X, which has the label, and S, another one S again and Y, whose label a word in S has. Once X is resolved, the
   original of S gets its size and labels, and its emission stops at that word in the second iteration,
   with its variable at 1. The copy's turn is next: it is sized with 1 in every iteration. Y is resolved, the
   original is emitted, its variable is 0 again, and the copy's code has another length: what
   Compiler/Linker/ProgramSection.cpp:94 calls an internal error. Tests/RepeatTests.cpp:42 says
   that the variable counts.

## 4. Bounds and fairness

| module | bounds | why they are enough |
|---|---|---|
| Linker | three sections, two files; words 0..15, `size_t` 0..63 | three sections are a chain with something before and after, and two in a file with one elsewhere; wrapped differences land in the upper half of `size_t`, so padding of more than `2 * WordMax` is exactly what cannot be allocated. The code relies on nothing about 65535 but that twice it fits in a `size_t` |
| ProgramSection | two nested blocks, words 0..30, bases 1 and 25 | the inner block runs in each iteration of the outer one, where positions are saved and restored; the second base makes values pass the end of the memory |
| Lexer, Expressions | texts of up to five characters of an alphabet or nine tokens; bytes of 5 bits, words of 8, doubles of 11, longs of 14, numbers of 11 | an alphabet holds what begins, ends and escapes a comment, a name, a literal or a number, and the longest decision looks at six characters (`@here` and the next, which texts of their own have); the four widths stay distinct, and numbers at and around every edge of a width are operands of every operator |
| Assembler | 25 lines, two conditions | the shortest programs in which a name is declared in both branches of a nested #if and used in a #repeat around it; one condition inside itself, for branches that are never taken |
| Build | `MaxBuilds` 3, `MaxCalls` 3 | a build that fails, one that finds what it left, and one after that; a native called by Java code, what it calls, and the message of an exception out of that |
| GCHeap | arenas of 8 bytes; 0, 3, 4, 9; five blocks | alignment, a full arena, the exact fit, a block that needs an arena of its own, and a small one after it |
| Builder | `MaxClock` 6; one input and one output change while a build runs | a good build, then an edit or removal, a build that stops, and one after that, with an edit within them |
| Outputs | pages of 2 bytes, sectors of 2, tracks of 2 sectors, 7 sectors, 3 files; lines of 8 characters up to number 30 | a line is as long as a line may be and longer, its number the last one and beyond; files end before, at and after the end of a page, sector and track; the disk is filled and overfilled |

`MaxClock`, `MaxBuilds`, `MaxCalls` and the number of allocations are the only bounds on counters;
each is a conjunct of a guard. Sizes of sections do not change during a link (the code computes a size
once and keeps it). Symmetry is not used: files and sections are ordered by the code.

**Fairness.** `Linker` is one thread that nothing stops: `WF_vars(Next)`. In `Build` the worker
runs (`WF(RunThread)`), the event loop delivers what is queued (`WF(HandleEvent)`), and the user
closes a dialog that can be closed at last (`WF(UserCloses)`); starting a build or leaving the
program is not fair, nobody has to. That the Java code of a build comes to an end is part of
`WF(RunThread)` and of `MaxCalls`: a script that runs for ever keeps the dialog open, as it should. In `ProgramSection` the linker's sweeps call the section
again while something is unresolved (`WF(Pass \/ TryResolve)`), but that something outside
becomes known is not assumed: `Emitted` is conditional on it. The other modules state safety
only and have no fairness.

Deadlock is checked in every run: where the code has its answer, a specification has an action
for that (`Finished`, `Over`) and no other state may be without a step.

## 5. What is proved

`LinkerProofs` proves, for every number of sections and files, every width of a word and every
set of projects:

| theorem | says |
|---|---|
| `TypeCorrect` | `[]TypeOK`: no step leaves the types, in particular every base and offset is a `size_t` |
| `Completeness` | `[]LinkedIsComplete`: when a sweep reports success every section has what `generateCode` reads unconditionally |
| `Disjointness` | `[]NoOverlap`: sections that are stored below 64K share no byte of the file. Above it a sum may wrap, and padding ends the program before |
| `DecisionsAreFinal` | `ResolvedOnce`: no step changes a size, base, offset, labels or code that is known |
| `Refinement` | `KeepsPromise`: `Linker` implements `LinkPromise` |
| `Invariance` | `[]IInv`, from which the others follow |

Assumed is `LinkerAssumption`: the constants are naturals, `4 * WordMax < SizeMod`, `None`
is no integer, projects have the type of projects, and sections are numbered file by file, which
is how the constructor of the linker creates them; and that `None` is no message (`NoneAssumption`).

The argument: none of the three invariants is inductive. That everything is complete in
`generate` depends on `resolvedAll` having been true at the end of a sweep, so `SweepInv` says
what it means in the middle of one: the files before the present one are complete. That in turn
depends on `mIsResolved` (`FileInv`) and, within `tryResolve`, on `hasUnresolved` while its third
loop passes (`PassedInv`). The delicate point is that the loop decides `hasUnresolved` for a section
before its last placement; `PassedInv` therefore has a part for the section the loop is at.
That no section is overwritten depends on the copy taking sections by increasing offset
(`LowestFacts`, from the sort in the code) and padding up to each (`CopyInv`), on files being
generated in turn (`TurnInv`) and on nothing having been copied earlier (`GenerateInv`).
`FreshInv` is there for finality: the constructor assigns bases and offsets without a check, and
may since nothing has assigned them; `KnownInv` for the same reason about size and offset.

There is one lemma per action (`ConstructFileKeeps` to `CheckSymbolsKeeps`), which together are
`NextInv`. What an action preserves because it belongs to a phase is in three lemmas
(`ConstructingStep`, `ResolvingStep`, `GenerateStep`); arithmetic that wraps is in `SizeTArithmetic`
and `ModFacts`. That there is a lowest section among those left (`LowestFacts`) follows from the
well-foundedness of the order on naturals, which the library proves.

Under the same assumptions, and over `IInv`, `LinkerPlaceProofs` proves where sections end up and how a link ends:

| theorem | says |
|---|---|
| `CodeIsWhereItRuns` | `[]CodeRunsWhereLoaded` |
| `PlacesFollowAttachment` | `[]KeepsAttachment` |
| `PlaceInvariance` | `[]PlaceInv`, from which these two follow |
| `GivesUpOnlyAtTheEnd` | `[]GivesUpLast` |
| `ImageIsWhereOffsetsSay` | `[]ImageMatchesOffsets` |

`KeepsAttachment` compares a section with its neighbour, but four loops place sections, from both ends. `PlaceInv`
says of each loop what `addr` is: the end of the section before it, which has a place and a size, or the start of the
file (`FromInv`), and the place of the section behind or the end of the file (`ToInv`); `AttachedInv` is
the property with what it silently needs, that the neighbour a place was computed from has one; `EndInv` says where the
constructor is; `CodeInv` and `BaseInv` relate code, base and place. Rounding
(`AlignedFacts`) makes the sums multiples of the alignment, wrapped or not. That a link gives up at a
fixpoint is `TriedInv`: in a sweep that has resolved nothing, whatever a loop has passed cannot be
resolved by that loop, and as nothing has changed since (`SameDone`) it cannot be now. `WrittenInv` counts
the bytes that were written: as many as `out` has moved from the lowest offset, or `out` has passed the end of
`size_t` and what is left lies below zero (`Wrapped`). For the latter sums of four words must stay
below `SizeMod`, hence the factor 4 in the assumption; the code has 65535 and 2^64.

`BuildProofs` proves, for any number of builds, any set of JDKs and any number of calls:

| theorem | says |
|---|---|
| `TypeCorrect` | `[]TypeOK`: in particular the dialog's queue never holds more than a signal and its answer |
| `AcceptedBuilds` | `[]AcceptedMeansBuilt` |
| `EnvIsOwn` | `[]OwnEnv` |
| `CallsAreClean` | `CallsClean`: no call is made, in either direction, while an exception waits |
| `Invariance` | `[]IInv` |

Assumed are `BuildAssumption` and `CallsAssumption`: the bounds are naturals, the JDKs are of the
kinds named, `None` is no natural. `IInv` relates the two threads: what the dialog shows is no later
than what the thread has done (`ThreadInv`), the events in the queue followed by what the thread still
has to do (`todo`) are one of three plans, so that an accept in the queue means that the output was
stored (`EventInv`), and the thread is attached exactly while it may use the environment, which is then
its own (`JvmInv`). Of `JavaCalls` it says that calls by C++ and by Java code alternate on the stack, that
an exception waits only where the code is about to look for it, and that neither outlives the phase
(`CallInv`).

`GCHeapProofs` proves, for any size of an arena, any sizes of blocks and any number of allocations:

| theorem | says |
|---|---|
| `TypeCorrect` | `[]TypeOK`: in particular `bytesLeft`, which is unsigned, is never decreased below zero |
| `Disjointness` | `[]BlocksDisjoint` |
| `AllArenasFreed` | `[]ArenasFreed` |
| `FinalizersRunOnce` | `FirstRegistersOnce` implies `[]FinalizedOnce` |
| `Invariance` | `[]IInv` |

Here the two parts of `IInv` are independent. `BlocksInv`: the blocks of an arena lie above its
`bytesLeft`, so that the next one, cut from the end of what is left, meets none. `ListInv`: the arenas
that were obtained and not freed are a list that begins at `mArena` and goes along `prev`, each once.
A large block's arena is put into that list behind its first element, a small one's before it, and
`~GCHeap` takes off the first; the list is a function whose existence the invariant states.
`FinalizedOnce` has an invariant of its own, `FInv`: `mNext` leads from each registered object to the one registered before
it, a null `mNext` is the first one's or means "not registered", and the destructor's walk has finalized
what was registered after the object it is at. `FirstRegistersOnce` is what finding 3 is the lack
of: the instance `gcheap` satisfies it, `gcheap_twice` does not.

`BuilderProofs` proves, for any number of scripts, classes and files, any scripts, edits and stops:

| theorem | says | for a project that is |
|---|---|---|
| `SkippingMakesNoDifference` | `[]FreshOutputs` | `InOrder`, `WritesOnce`, `KeepsClasses`, `NamesAll` |
| `SkippingAddsTheSameSources` | `[]SameSources` | and `AllSources` |
| `NothingToDoAfterAGoodBuild` | `RunsOnlyAfterEdits` | and `NoIdleScript` |
| `BuilderInvariance` | `[]BuilderInv` | as for the first |

`FreshOutputs` itself excepts scripts that do not register what they see (`RegistersAll`) and outputs that are
suspect. The conditions are about projects and users, none follows from the code, and where one does not
hold the code does not keep the promise: `InOrder`, each file is written by one script and read only by
scripts that run later; `WritesOnce`, a run writes a file once; `KeepsClasses`, no class is edited while a
build runs (an edit between javac and the script's start is recorded as used); `NamesAll`, class
files name what they depend on (constants that javac copies they do not); `AllSources`, all that is generated is
compiled (a skipped script gives the compiler every file it wrote); `NoIdleScript`, a script reads or writes something
(one that does not runs every time). Assumed are also `BuilderAssumption` and that a file with content is
not the absence of one (`NoneIsNoContent`).
`FreshOutputs` is far from inductive. `EvidenceInv` says what a dependency file is worth at any time,
also between builds: if it says that no class or input changed, then the script, run now, would write
what its outputs hold, but for those that are gone or suspect. It is kept because whoever could make it untrue makes the file's evidence
fail first: an edit is later than what is recorded, a script that starts has a reason to, which stays until
it has saved a new file (`RunInv`), and a file that an earlier script writes again gets the time of this
build, when what later scripts have recorded is older (`TimesInv`). A script that runs only because an output is gone still has a dependency file that holds:
`SeenInv` says that it has read what is there, so that it writes again what that file vouches for. `ReadInv` says
the same of what is recorded so far of the script that runs, of each file the time before the content; `QuietInv` that the scripts behind the
present one are up to date; `SettledInv` and `SourcesInv` serve the other two theorems.

`ProgramSectionProofs` proves, for any programs, nested as deeply as they may be, and any bases:

| theorem | says | for programs |
|---|---|---|
| `TypeCorrect` | `[]TypeOK` | any |
| `SectionInvariance` | `[]SectionInv` | any |
| `RepeatsReadTheirOwn` | `[]OwnIteration` | any |
| `AddressesAreSetOnce` | `[](NoAsserts /\ BlankInv)`: the assertions of Label.cpp hold, and only finished passes leave addresses | any |
| `AgreementInvariance` | `[]AgreeInv` | with `FixedSizes` |
| `LabelsAreWhereTheCodeIs` | `[]LabelsAgree` | with `FixedSizes` |
| `SizesStand` | `[]SizesAgree` | with `FixedSizes` |
| `SectionRefinement` | `KeepsPromise` | any |

Assumed are `ProgramSectionAssumption`: types, `WellNested`, and that `None` is neither a natural nor an
error. `FixedSizes`, which TLC finds true of the instance, says that no `DEFS` is as long as the
variable of a repeat: it would keep the length of the iteration sized last, and the passes do not agree
(section 6). `NoneIsNoFunction`, for the refinement, keeps "no addresses" apart from a list of them.
The proofs classify the steps first (`StepCases`): a pass starts, is skipped, fails, ends or moves to the
next instruction, or the linker learns something.
- `CounterInv` is the balance of `saved` with the blocks that are open. A label in an open repeat reads
  where it writes and has saved one position, the outermost repeat's labels the first; the
  lemmas about nesting (`AroundNext`, `AroundJump`) say which repeats a step enters and leaves.
  `RestInv` says where positions rest when nothing is open.
- `FreshInv` says that cells behind the write position are empty, hence that none is written twice.
- That two passes agree is what induction along a pass would show. In its place, `Cur` is what matters
  of a pass (instruction, variables of open repeats, write positions, length) and `Follow` what the program makes of it
  (`MoveFollows`). All that a pass goes through lies in every set that is `Closed` under `Follow`, and the trail of a
  finished pass is such a set (`PathInv`). On it the addresses (`LabelledInv`) and the length
  (`SizedInv`) are right, so they are right wherever the next pass goes.
- The refinement needs that labels imply a size: between a size pass that failed and the labels pass
  after it nothing is learned, so that the latter meets the same obstacle (`StuckInv`, with `Blocked` sets of the same
  kind), and hence `LabelSizeInv`.

`AssemblerProofs` proves, for any programs, nested as deeply as they may be, well formed or not, and any
conditions and variables of the project:

| theorem | says |
|---|---|
| `TypeCorrect` | `[]TypeOK` |
| `Placed` | `[]PlacedAsWritten` |
| `RefusedDuplicates` | `[]OnlyRealDuplicates` |
| `NamesMean` | `[]UsesMeanWhatTheyName` |
| `Invariance` | `[]IInv` |

Assumed is `AssemblerAssumption`: programs are sequences of lines of the kinds there are, names are not
empty, the project has finitely many variables. The properties compare what the parser built with what is
written, and the two go different ways: the parser sees a line once and keeps a stack, the text is
read by counting openings and ends. Each part of `IInv` says what one thing the parser keeps is in the text so far.
- `StackInv`: the contexts are the blocks that are open, and for each the openings since exceed the ends by what is
  above it; `ElseInv`: which branch each is in; `SectionInv`: all of them in the section the file was in before the first.
- `MacroInv`: the #ifs without an instruction are the innermost ones, so that those created together nest in
  one another (`Grown`); with `ItemInv` the paths of instructions are the blocks around their lines.
- `PrefixInv`: the prefix is the last global label that is not superseded (`Alive`), and what an #if keeps of its
  branches is the last one of each. Its delicate step is the end of an #if with labels in the second branch
  only, or in both (`AliveClosed`, `PrefixClosed`).
- `TableInv`: tables are numbered as the #repeats are written, and those around a table (`Around`, the
  least set closed under pass-through) are the tables of the #repeats around it. `NameInv`: the table of globals holds
  a symbol per name with one alternative per declaration, under the conditions of the #ifs up to the nearest #repeat;
  that of a #repeat holds its variable and the names declared inside it, never under one name.
- `FindIs` is what these come to: a search from a line finds the variable, the symbol of the declarations, the project's
  variable or nothing, as the text says. `UseInv` keeps that for later, when all names are known, and
  `MeaningIs` and `DuplicateMeets` draw the conclusions.

The proof of `RefusedDuplicates` found a case that the property had not allowed for and no short program of the run
had: two declarations that no outcome of the conditions lets meet, since one is in a branch that
is never taken, are refused all the same (section 6). `NeverCounts` names it, and the run now has such programs.

`OutputsProofs` proves, for banks of any size, any project and any files, names and settings:

| theorem | says |
|---|---|
| `Loads` | `[]LoadsWhatWasLinked` |
| `Starts` | `[]StartsAsConfigured` |
| `Refused` | `[]RefusedForAReason` |
| `Invariance` | `[]IInv`, from which these follow |

Assumed are `SnapshotAssumption` and `OutputsAssumption`: a name asks for a bank, for none or for one that does not
exist; what the linker made of a file is an address and bytes; and settings are what the setters of
SpectrumSnapshotWriter.h take (`Value`), where border and interrupt mode, which the code checks, may be any integers.
A file may be longer than the memory, lie anywhere in it or beyond, and be listed any number of times.
- What a file says of the memory is a relation between cells and bytes (`FileGives`), and so is what the pieces
  it was cut into do (`PutBy`). `WriterInv` says that the two relations are the same for the files so far, and that no two pieces
  share a cell (`Apart`). A file keeps that when its pieces are where its bytes are (`PlainPieces`: three
  windows that do not meet; the lemmas about a file for a bank, which the code moves into the last page first) and
  meet none that are there, which is what the checks before them find out.
- The reasons of refusals are the converse: when a check fails, some address does not fit, or a cell is
  in two files, or the last address of a plain file is right before another (`Reasons`).
- The header is written front to back and read at fixed offsets. `Head30` and `Tail9` say what is at each offset, with the
  lengths of the three formats; `Holds` compares registers one by one. Blocks are found by what precedes
  them: a loop whose blocks all have one length visits its multiples (`BlocksAt`), so that what
  is loaded is `Memory` again whichever of the three lists of banks was written.
- Between writing and starting other outputs are written. `PathsOnce` is why what the emulator opens is
  still the file of the one output of its type: a second one would have been given its path again, and was refused.
  `WrittenAre` and `PlayedIs` carry that from `Write` to `PlaySnapshot` and `PlayExe`.

Of `RefusedForAReason` the proof asked for a condition that its text had left to the reader: a reason is one
of the loop over outputs, not of a BASIC program before it.

Only model-checked are `LinkEnds` of the linker, `Emitted` of `ProgramSection`, of `Build`
`ExceptionFails` and `DialogCloses`, of `Outputs` `MediaFindFiles`, and all of `Expression` and `Basic`
(`BasicIsItsSources`, `BasicRefusedForAReason`). Liveness and ENABLED are
out of the prover's reach, and so is what recursive
definitions compute for all inputs (`Lexer`, `ExprParser`, `Expr`) and what folds over the lines of a program or the
files of a disk add up to (`Basic`, `MediaFindFiles`).

## 6. Abstractions, and what the properties leave out

What a model abstracts beside layout and wording, and behaviour of the code met on the way that
the properties exclude because nothing in the repository says it should be otherwise.

**Linker.** Conditions are applied, an instruction is a byte, debug information is left out.
- A relocated section can be linked outside the bounds of its file (Linker.cpp:731);
  `KeepsAttachment` is about order and alignment, not about bounds.

**ProgramSection.** Not modelled: repeat counts that are negative or too large,
strings, `DEFD`, local labels (a label of another name).
- A pass that stops in a later iteration leaves the label at that iteration
  (MacroRepeat.cpp:125), and until a later pass gets through, sections that ask for it read that
  iteration's address (Tests/RepeatTests.cpp:779 reads the first one's from outside of it).
  `OwnIteration` speaks of what is inside the repeat, and of others only once code and labels are there.
- `DEFS` of a repeat variable keeps the size of the last calculation, whichever iteration that
  was for (DataDirectives.cpp:203); `$` in a branch the first iteration does not take is evaluated
  against address 0 in a compressed section (MacroIf.cpp:72). The instance has neither.

**Assembler.** Conditions are arbitrary booleans fixed at the start, operands are names, a
repeat runs at least once.
- The condition of an #if with no instruction in it is never evaluated (FIXME at
  AssemblerContextIf.cpp:11); merging prefixes goes on where it seems to mean to return
  (:55-64); `#else` starts with the local-label prefix of the other branch.
- A project variable is shadowed at the top level and a duplicate inside an #if.
- A declaration in a branch that can never be taken, such as that of an #if in the second branch of an
  #if with the same condition, is refused like one that meets another.
- What a #repeat in an #if declares counts whether the branch is taken or not
  (AssemblerContextRepeat.cpp:9); in a branch that is not taken it is a label without an address.
  `UsesMeanWhatTheyName` and `OnlyRealDuplicates` say so in what they take for declared.

**Lexer.** The control characters that escape sequences stand for are one character.
- The range of a decimal number is checked before its last digit is added (Lexer.cpp:316), which lets
  4294967296 to 4294967299 through; `ScansAsWritten` allows for the last digit.
- `'\e'` writes the number 27 as two digits (:430) and is refused as too long; in `a?b:c` the `b:` is a
  label and the expression is refused.

**Expressions.** 64-bit arithmetic wraps; an operation C++ leaves undefined ends the evaluation
as `"undefined"` and the properties say nothing about it. A repeat variable has one value while an operand is
asked and written, and which of two errors of a conditional label is reported is left out.
- A constant declared in `#if`s, none or several of whose conditions hold, is said to be evaluable
  (Symbol.cpp:28-42), and evaluating it throws (Symbol.cpp:51-55, Expr.cpp:417-425). `AskedMeansAvailable` excepts
  these two errors, and claims that they come of such a name only (`Undecided`).
- An offset of a byte that is negative, from an address in the upper half (`label + -1`), is
  refused (Expr.cpp:75-82). A product or difference with a negative part can lose its top bits
  without an error (`200*-1`, `(3-5)*200`), and `~` drops the top bit. `WritesTheNumber` names these
  conditions (`Natural`, `Has({"~"}, ..)`).

**Builder.** An edit is later than everything before it, as on a file system with fine times.
Scripts read outputs through the project's paths only.
- What a script sees without registering it does not make it run again: whether a file exists
  (`inputFileExists`, Builder.java:76-80), and the tilesets that the native part of `loadTilemap` reads
  (Builder.java:113-117, Java/Natives/drunkfly_Tilemap.cpp:52-61), of which only the tilemap is registered.
  These are the steps `peek`; `FreshOutputs` is about scripts that have none (`RegistersAll`).
- The times of outputs are saved and never compared (Builder.java:45-51, 241-247). An output that is changed by hand is not
  made again. One that is gone makes its script run, but if the process ends while that run writes the file
  again, the torn file is there, the dependency file of the run before still matches, and the script is
  skipped. Such outputs are `suspect` until they are written or removed; of a run that had another reason
  (a newer class or input, no dependency file) the torn outputs are made again, which `FreshOutputs` claims.
- Dependencies through inner classes are not followed (SourceFiles.java:322-360).
- An edit between javac and the time recorded for it is missed (BuilderLauncher.java:49); the
  constants of `BuildSettings` are inlined by javac (Compiler.cpp:203-222), so that no recompilation
  sees a new value; a script that is skipped loses the flag its `addSource` had set
  (Builder.java:55, 204-205); an input that is gone fails every build (Builder.java:236).

**Build.** A cancelation while Java code runs takes effect at the next report of progress. Running out of
memory in JNI and threads of a build script are left out.

**GCHeap.** The first large block's link is memory nobody wrote (GC.cpp:66): it may be
null or anything else (`Wild`), and following the latter ends in `crashed`, of which `ArenasFreed`
says nothing.

**Outputs.** A file is two numbers and its bytes are distinct integers; headers are modelled byte
by byte. Not modelled: individual files below `files/` (a file named `<name>.B` would overwrite the
loader), names cut to eight or ten characters, failures of the file system, libspectrum's encoding of a tape,
the search for the markers in a runtime (one choice, `RuntimeUnfit`; files of fewer than four
bytes underflow there), and compressed blocks (the loop at Snapshot.cpp:159 does not count what a
run consumes).
- BASIC: bas2tap refuses a line that does not ascend, over all files of a program in the order of their
  names, so that the check for duplicates in `addFile` (SpectrumBasicCompiler.cpp) finds none; what is in
  the statements of a line is one character or an error. `isUsedByBasic` is never read.
- Catalogue entries of a disk hold lengths modulo 65536, and the TR-DOS writer does not check the
  disk's capacity (TRDOSWriter.cpp:215, :250): a build with assertions stops at :254, another one writes a
  longer image. `MediaFindFiles` is about files the disk holds (`DiskHolds`).
- A plain file that ends right before another is refused as overlapping
  (SpectrumSnapshotWriter.cpp:77-88); a BANK file is refused when the format is Auto and no machine is
  named (:242-271); `setPortFFFD` sets port 7FFD (SpectrumSnapshotWriter.h:58); the format
  configured for a .z80 is overwritten by a default (Compiler.cpp:462); port 7FFD is lost for
  format 1 (`Misconfigured`).
- A new project's file writes the start of a file without an attribute name and no PC outputs
  (Project.cpp:363-369, 493-500); saving is not modelled.

## 7. What is not modelled

| part | why |
|---|---|
| Z80 instructions | A table with a test per row; no state survives an instruction |
| Code emitters, compressors | Appending bytes, and vendored algorithms behind one call. `Linker` takes the packed size as data |
| Image and tile tools | Pure conversions of pixels |
| Dialogs and widgets | Layout, wording, settings; the build dialog is in `Build` |
| Common helpers | Strings, paths, reading and writing of files |
| Vendored libraries, tests | Third-party code, which is most of the repository's lines; tests are read as a reference of what is intended |

Of the parts that are partly modelled: the emulator beyond loading a snapshot and starting (its
processor and video are vendored or per-frame drawing), the project file beyond the settings of
outputs, and in the compiler pipeline everything between the steps named above.

## 8. The plan

The order is that of importance: what decides the bytes first, what surrounds it after.

1. `Linker`, `LinkPromise`, and `LinkerProofs` with them: done.
2. `ProgramSection`, the passes the linker calls, `SectionPromise` and `ProgramSectionProofs`: done.
3. `Build`, two threads and the JVM, with `JavaCalls`, and `BuildProofs`: done.
4. `GCHeap`, under everything else, and `GCHeapProofs`: done.
5. `Builder`, without inlined constants, and `BuilderProofs`: done.
6. `Assembler` and `AssemblerProofs`, then `Lexer`, `ExprParser`, `Expr`, `Expression`: done, without local labels in
   expressions of other files.
7. `Snapshot`, `Basic`, `Outputs` and `OutputsProofs`: done, without compressed blocks.

What is left, in order:

- **Proofs.** The part of `MediaFindFiles` that adds nothing up: headers of tape blocks and catalogue entries
  say of each file what it is. Where a file begins on a disk is a sum over those before it.
- **Models.** The compressed emitter as what it buffers; loading and saving of `Project`; compressed
  blocks in `Snapshot`; operands of Z80 instructions.
- **Compositions.** `Linker` over `SectionPromise`, so that one refinement leads from the passes to
  `LinkPromise`.
