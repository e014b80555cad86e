------------------------------ MODULE Builder ------------------------------
(***************************************************************************)
(* The build scripts of a project (Java/Tools: BuilderLauncher, Builder,   *)
(* SourceFiles): classes of build/*.java that read files of the project    *)
(* and generate others.  Every build compiles them all, but a script runs  *)
(* only if its class, a file it read or a file it wrote has changed since  *)
(* the run its dependency file records.  Meanwhile the user edits and      *)
(* removes files, generated ones too, and a build may stop anywhere: an    *)
(* exception, or the end of the process.                                   *)
(*                                                                         *)
(* What a script does is the content of its source: a sequence of reads,   *)
(* of peeks at files that are not registered, and of writes.  What it      *)
(* writes is a function of the classes it was compiled from and of what it *)
(* has read and seen so far.                                               *)
(***************************************************************************)
EXTENDS Integers, Sequences, FiniteSets

CONSTANTS
  Scripts,    (* the subclasses of Builder, in the order they run          *)
  Classes,    (* the scripts, the classes they use, RetroBuild.jar         *)
  Jars,       (* those of Classes that come in jars                        *)
  Refs,       (* the classes a class file names                            *)
  Inlined,    (* the classes whose constants javac copies into a class file *)
  Inputs,     (* the files of the project                                  *)
  Outputs,    (* the files scripts write                                   *)
  Versions,   (* contents of the files the user edits                      *)
  Program,    (* Program[s][v]: the steps of script s with content v       *)
  LiveEdits,  (* what the user edits while a build runs                    *)
  MaxClock,   (* bound: the clock, thus the edits and builds               *)
  Torn,       (* of a generated file: cut short, or changed by hand        *)
  None        (* no file, no value                                         *)

Script == {Scripts[i] : i \in DOMAIN Scripts}
Step == [op : {"read", "peek"}, file : Inputs \cup Outputs]
          \cup [op : {"write"}, file : Outputs, addSource : BOOLEAN]

ASSUME BuilderAssumption ==
  /\ Scripts \in Seq(Classes) /\ (\A m, n \in DOMAIN Scripts : Scripts[m] = Scripts[n] => m = n)
  /\ Classes \cap (Inputs \cup Outputs) = {} /\ Inputs \cap Outputs = {}
  /\ Jars \subseteq Classes /\ IsFiniteSet(Classes)
  /\ Refs \in [Classes -> SUBSET Classes] /\ Inlined \in [Classes -> SUBSET Classes]
  /\ Program \in [Script -> [Versions -> Seq(Step)]]
  /\ LiveEdits \subseteq Classes \cup Inputs \cup Outputs /\ MaxClock \in Nat
  /\ {None, Torn} \cap Versions = {}

File == Inputs \cup Outputs

VARIABLES
  clock,         \* time, in the granularity of File.lastModified
  data, mtime,   \* content and modification time of the sources and files
  class,         \* the versions the class files were compiled from
  pc,            \* where the build is, "idle" when none runs
  script, step,  \* the script and the step of its run() the build is at
  lastModified,  \* the argument of Builder.build, then classLastModified
  deps,          \* the dependency file of each script
  inputFiles, outputFiles,  \* of the Builder that runs
  loaded,        \* what run() has read, by step
  sources,       \* JVMThreadContext::mGeneratedFiles
  quiet,         \* nothing was edited since the build began
  settled,       \* nothing was edited since the last good build began
  suspect        \* the outputs whose content no dependency file can tell from that of a run

diskVars == <<clock, data, mtime>>
runVars == <<script, step, lastModified, inputFiles, outputFiles, loaded>>
historyVars == <<quiet, settled, suspect>>
vars == <<diskVars, class, pc, runVars, deps, sources, historyVars>>

-----------------------------------------------------------------------------
(* The classes a script depends on.                                        *)

\* SourceFiles.addClass follows the names in the class files, from the class itself:
\* it ends with the least set that holds the class and all that its members name.
Reached(graph, c) ==
  {d \in Classes :
     \A found \in SUBSET Classes : c \in found /\ (\A e \in found : graph[e] \subseteq found) => d \in found}
Known == [s \in Script |-> Reached(Refs, s) \cup Jars]
Uses == [s \in Script |-> Reached([c \in Classes |-> Refs[c] \cup Inlined[c]], s) \cup Jars]

Latest(times) == CHOOSE t \in times : \A u \in times : u <= t
SourcesModified(s) == Latest({mtime[c] : c \in Known[s]})

-----------------------------------------------------------------------------
(* The user.                                                               *)

MayEdit(f) == clock < MaxClock /\ (pc = "idle" \/ f \in LiveEdits)

\* An edit has a later time than anything before it.  (The times of outputs are saved
\* but not compared: one that is changed by hand is not noticed, one that is gone is.)
Edit(f, content) ==
  /\ MayEdit(f) /\ data[f] # content
  /\ clock' = clock + 1
  /\ data' = [data EXCEPT ![f] = content] /\ mtime' = [mtime EXCEPT ![f] = clock + 1]
  /\ quiet' = FALSE /\ settled' = FALSE
  /\ suspect' = IF f \in Outputs /\ content # None THEN suspect \cup {f} ELSE suspect \ {f}
  /\ UNCHANGED <<class, pc, runVars, deps, sources>>

\* Compiler::buildProject starts, later than what came before it.
StartBuild ==
  /\ pc = "idle" /\ clock < MaxClock
  /\ clock' = clock + 1
  /\ pc' = "compile"
  /\ sources' = {} /\ quiet' = TRUE
  /\ UNCHANGED <<data, mtime, class, runVars, deps, settled, suspect>>

-----------------------------------------------------------------------------
(* BuilderLauncher.                                                        *)

Stop ==
  /\ pc' = "idle" /\ settled' = FALSE
  /\ UNCHANGED <<clock, class, runVars, sources, quiet>>

\* javac compiles all scripts; they are loaded.
Compile ==
  /\ pc = "compile"
  /\ class' = [c \in Classes |-> data[c]]
  /\ pc' = "build" /\ script' = 1
  /\ UNCHANGED <<diskVars, step, lastModified, inputFiles, outputFiles, loaded, deps, sources, historyVars>>

Current == Scripts[script]
NextScript == pc' = "build" /\ script' = script + 1

\* The build goes on with the compiler proper, which reads the sources.
Finish ==
  /\ pc = "build" /\ script > Len(Scripts)
  /\ pc' = "done" /\ settled' = quiet
  /\ UNCHANGED <<diskVars, class, runVars, deps, sources, quiet, suspect>>

Return ==
  /\ pc = "done" /\ pc' = "idle"
  /\ UNCHANGED <<diskVars, class, runVars, deps, sources, historyVars>>

-----------------------------------------------------------------------------
(* Builder.build.                                                          *)

Building == pc = "build" /\ script \in DOMAIN Scripts
Recorded == deps[Current] # None
RecordedInputs == IF Recorded THEN deps[Current].inputs ELSE {}
RecordedOutputs == IF Recorded THEN deps[Current].outputs ELSE {}

\* resolveInputFile throws in loadDependencyInfo.
InputGone == \E in \in RecordedInputs : data[in.file] = None
FailToLoad ==
  /\ Building /\ InputGone
  /\ Stop
  /\ UNCHANGED <<data, mtime, deps, suspect>>

NewerSource == Recorded /\ SourcesModified(Current) > deps[Current].lastModified
NewerInput == \E in \in RecordedInputs : mtime[in.file] > in.lastModified
Changed ==
  \/ NewerSource
  \/ NewerInput
  \/ \E out \in RecordedOutputs : data[out] = None
  \/ RecordedInputs = {} /\ RecordedOutputs = {}

AddNoSources == UNCHANGED sources
AddCachedSources == sources' = sources \cup RecordedOutputs

Skip ==
  /\ Building /\ ~InputGone /\ ~Changed
  /\ AddCachedSources
  /\ NextScript
  /\ UNCHANGED <<diskVars, class, step, lastModified, inputFiles, outputFiles, loaded, deps, historyVars>>

FirstStep == step' = 1
Nothing == [j \in {} |-> None]

\* Old outputs are deleted first.  (Where a build stops between two deletions, it
\* stops as it does after the last: what made the script run is still there.)
Rebuild ==
  /\ Building /\ ~InputGone /\ Changed
  /\ data' = [f \in DOMAIN data |-> IF f \in RecordedOutputs THEN None ELSE data[f]]
  /\ lastModified' = SourcesModified(Current)
  /\ pc' = "run" /\ FirstStep /\ loaded' = Nothing
  /\ inputFiles' = {} /\ outputFiles' = {}
  /\ suspect' = suspect \ RecordedOutputs
  /\ UNCHANGED <<clock, mtime, class, script, deps, sources, quiet, settled>>

-----------------------------------------------------------------------------
(* run, of the script.                                                     *)

Steps == Program[Current][class[Current]]
Running(op) == pc = "run" /\ step <= Len(Steps) /\ Steps[step].op = op
Result == [classes |-> [c \in Uses[Current] |-> class[c]], reads |-> loaded]

\* loadBytes and the like: the time of the file is taken before its content.
RegisterInputFile ==
  /\ Running("read") /\ data[Steps[step].file] # None
  /\ inputFiles' = inputFiles \cup {[file |-> Steps[step].file, lastModified |-> mtime[Steps[step].file]]}
  /\ pc' = "load"
  /\ UNCHANGED <<diskVars, class, script, step, lastModified, outputFiles, loaded, deps, sources, historyVars>>

Load == loaded' = [j \in DOMAIN loaded \cup {step} |-> IF j = step THEN data[Steps[j].file] ELSE loaded[j]]
LoadThenRegister ==
  /\ pc = "load" /\ data[Steps[step].file] # None
  /\ Load
  /\ inputFiles' = {[in EXCEPT !.lastModified = mtime[in.file]] : in \in inputFiles}
  /\ pc' = "run" /\ step' = step + 1
  /\ UNCHANGED <<diskVars, class, script, lastModified, outputFiles, deps, sources, historyVars>>
LoadFile ==
  /\ pc = "load" /\ data[Steps[step].file] # None
  /\ Load
  /\ pc' = "run" /\ step' = step + 1
  /\ UNCHANGED <<diskVars, class, script, lastModified, inputFiles, outputFiles, deps, sources, historyVars>>

\* inputFileExists, and the tilesets that the native part of loadTilemap loads: the
\* script sees a file, or that there is none, and no input is registered.
Peek ==
  /\ Running("peek")
  /\ Load
  /\ step' = step + 1
  /\ UNCHANGED <<diskVars, class, pc, script, lastModified, inputFiles, outputFiles, deps, sources, historyVars>>

RegisterOutputFile ==
  /\ outputFiles' = outputFiles \cup {Steps[step].file}
  /\ sources' = IF Steps[step].addSource THEN sources \cup {Steps[step].file} ELSE sources
WriteFile ==
  /\ Running("write")
  /\ RegisterOutputFile
  /\ data' = [data EXCEPT ![Steps[step].file] = Result]
  /\ mtime' = [mtime EXCEPT ![Steps[step].file] = clock]
  /\ step' = step + 1
  /\ suspect' = suspect \ {Steps[step].file}
  /\ UNCHANGED <<clock, class, pc, script, lastModified, inputFiles, loaded, deps, quiet, settled>>

ForgetLastModified == 0
SavedLastModified == lastModified

SaveDependencyInfo ==
  /\ pc = "run" /\ step > Len(Steps)
  /\ deps' = [deps EXCEPT ![Current] =
                [lastModified |-> SavedLastModified, inputs |-> inputFiles, outputs |-> outputFiles]]
  /\ NextScript
  /\ UNCHANGED <<diskVars, class, step, lastModified, inputFiles, outputFiles, loaded, sources, historyVars>>

-----------------------------------------------------------------------------
(* The build stops: a compilation fails, a script throws, the process ends. *)

StopAnywhere ==
  /\ pc \in {"compile", "build", "run", "load"}
  /\ Stop
  /\ UNCHANGED <<data, mtime, deps, suspect>>

\* IO.writeFile deletes what it could not write; a process that ends does not.  The torn
\* output is replaced if the script runs again: for a class or an input that is newer
\* than the record it still has, or for want of one.  Where it ran only because an
\* output was gone, there is nothing left to tell.
RunsAgain == ~Recorded \/ NewerSource \/ NewerInput
StopWriting ==
  /\ Running("write")
  /\ \E rest \in {None, Torn} :
       /\ data' = [data EXCEPT ![Steps[step].file] = rest]
       /\ suspect' = IF rest = Torn /\ ~RunsAgain THEN suspect \cup {Steps[step].file}
                     ELSE suspect \ {Steps[step].file}
  /\ mtime' = [mtime EXCEPT ![Steps[step].file] = clock]
  /\ Stop
  /\ UNCHANGED deps

\* A torn dependency file cannot be read, like none.
StopSaving ==
  /\ pc = "run" /\ step > Len(Steps)
  /\ deps' = [deps EXCEPT ![Current] = None]
  /\ Stop
  /\ UNCHANGED <<data, mtime, suspect>>

-----------------------------------------------------------------------------
Init ==
  /\ clock = 1
  /\ \E v \in Versions :
       data = [f \in Classes \cup File |-> IF f \in Outputs THEN None ELSE v]
  /\ mtime = [f \in Classes \cup File |-> IF f \in Outputs THEN 0 ELSE 1]
  /\ class = [c \in Classes |-> None]
  /\ pc = "idle" /\ script = 1 /\ step = 1 /\ lastModified = 0
  /\ deps = [s \in Script |-> None]
  /\ inputFiles = {} /\ outputFiles = {} /\ loaded = Nothing /\ sources = {}
  /\ quiet = FALSE /\ settled = FALSE /\ suspect = {}

User ==
  \/ \E f \in Classes \cup Inputs, v \in Versions : Edit(f, v)
  \/ \E f \in Outputs : Edit(f, Torn)
  \/ \E f \in File : Edit(f, None)
  \/ StartBuild
Build ==
  \/ Compile \/ Finish \/ Return
  \/ FailToLoad \/ Skip \/ Rebuild
  \/ RegisterInputFile \/ LoadFile \/ Peek \/ WriteFile \/ SaveDependencyInfo
  \/ StopAnywhere \/ StopWriting \/ StopSaving
Rest == pc = "idle" /\ clock = MaxClock /\ UNCHANGED vars
Next == User \/ Build \/ Rest

Spec == Init /\ [][Next]_vars

-----------------------------------------------------------------------------
(* What is asked of the scripts and of the user.  Where one of these does  *)
(* not hold, Builder does not keep the promise: see each.                  *)

May(s, op, f) == \E v \in Versions : \E k \in DOMAIN Program[s][v] :
                   Program[s][v][k].op = op /\ Program[s][v][k].file = f

\* A file is written by one script, and read by scripts that run after that one.
\* (Otherwise a script deletes or replaces what another has read or written.)
InOrder ==
  \A m, n \in DOMAIN Scripts : \A f \in Outputs :
    May(Scripts[m], "write", f) => /\ May(Scripts[n], "write", f) => m = n
                                   /\ May(Scripts[n], "read", f) => m < n

\* A run of a script writes a file once.
WritesOnce ==
  \A s \in Script, v \in Versions : \A j, k \in DOMAIN Program[s][v] :
    /\ Program[s][v][j].op = "write" /\ Program[s][v][k].op = "write"
    /\ Program[s][v][j].file = Program[s][v][k].file
    => j = k

\* Classes are not edited while a build runs.  (A class that is edited after it was
\* compiled and before its script runs is recorded as if it had been used.)
KeepsClasses == LiveEdits \cap Classes = {}

\* A class file names the classes it depends on.  (It does not name a class of which
\* javac has only copied constants: SourceFiles then does not find it.)
NamesAll == \A c \in Classes : Inlined[c] \subseteq Refs[c]

\* What a script generates is compiled.  (A skipped script adds all it has written to
\* the sources, one that runs only what it writes by generateSource.)
AllSources ==
  \A s \in Script, v \in Versions : \A k \in DOMAIN Program[s][v] :
    Program[s][v][k].op = "write" => Program[s][v][k].addSource

\* Every script reads or writes a file.  (One that does neither runs in every build.)
NoIdleScript ==
  \A s \in Script, v \in Versions : \E k \in DOMAIN Program[s][v] : Program[s][v][k].op # "peek"

-----------------------------------------------------------------------------
\* What script s does, and what step k of it writes, if it ran now.
Plan(s) == Program[s][data[s]]
Writes(s) == {k \in DOMAIN Plan(s) : Plan(s)[k].op = "write"}
Reads(s, k) == {j \in 1 .. k : Plan(s)[j].op # "write"}
Wanted(s, k) ==
  [classes |-> [c \in Uses[s] |-> data[c]],
   reads |-> [j \in Reads(s, k) |-> data[Plan(s)[j].file]]]

\* What s sees of the files is registered.  (A file it only peeks at may change unnoticed.)
RegistersAll(s) == \A k \in DOMAIN Plan(s) : Plan(s)[k].op # "peek"

\* A build that ends well and was not disturbed leaves what all scripts would generate
\* from the files as they are, whatever was edited, removed, skipped or stopped before
\* (Builder.java:28-59 skips a script only if that makes no difference), except where a
\* script does not register what it sees and in outputs that are suspect: changed by
\* hand, or torn when the script ran only because an output was gone.
FreshOutputs ==
  pc = "done" /\ quiet =>
    \A s \in Script : RegistersAll(s) =>
      \A k \in Writes(s) : Plan(s)[k].file \notin suspect => data[Plan(s)[k].file] = Wanted(s, k)

\* The compiler gets the same generated files from a script that is skipped as from one
\* that runs (Builder.java:55-56, 204-205).
SameSources ==
  pc = "done" /\ quiet =>
    sources = UNION {{Plan(s)[k].file : k \in {j \in Writes(s) : Plan(s)[j].addSource}} : s \in Script}

\* After a good build, another one runs no script until the user edits something.
RunsOnlyAfterEdits == [][settled /\ pc = "build" => pc' # "run"]_vars
=============================================================================
