--------------------------- MODULE BuilderProofs ---------------------------
(***************************************************************************)
(* Proofs about Builder, for every project: any number of scripts, classes,*)
(* files and edits, and builds that stop anywhere.                         *)
(*                                                                         *)
(* The argument.  A dependency file is evidence: if it records that neither*)
(* a class nor a file read has changed, then the script, run now, would    *)
(* write what those of its outputs hold that are there and not suspect     *)
(* (EvidenceInv).  A script that runs although its record holds, because an*)
(* output is gone, reads what it has read before (SeenInv), so that what it*)
(* writes agrees with the record even if the build stops; and what it has  *)
(* recorded so far is evidence for what it has read (ReadInv).  Each build *)
(* has a time of its own, so a file that is written again is newer than    *)
(* what the scripts after it recorded (TimesInv).                          *)
(***************************************************************************)
EXTENDS Builder, WellFoundedInduction, TLAPS

-----------------------------------------------------------------------------
\* What a script generates is a file, and so is what it records.
NoneIsNoContent ==
  /\ \A c, r : [classes |-> c, reads |-> r] # None
  /\ \A t, in, out : [lastModified |-> t, inputs |-> in, outputs |-> out] # None

-----------------------------------------------------------------------------
(* The inductive invariant.                                                *)

At == pc \in {"run", "load"}
Compiled == At \/ pc \in {"build", "done"}
ReadFile == [file : File, lastModified : Nat]

TypeOK ==
  /\ clock \in Nat
  /\ data = [f \in Classes \cup File |-> data[f]]
  /\ mtime \in [Classes \cup File -> Nat]
  /\ pc \in {"idle", "compile", "build", "run", "load", "done"}
  /\ script \in 1 .. Len(Scripts) + 1 /\ step \in Nat \ {0} /\ lastModified \in Nat
  /\ deps = [s \in Script |-> deps[s]]
  /\ \A s \in Script : deps[s] # None =>
       deps[s] \in [lastModified : Nat, inputs : SUBSET ReadFile, outputs : SUBSET Outputs]
  /\ inputFiles \subseteq ReadFile /\ outputFiles \subseteq Outputs

\* Where the build is, and that it runs the classes that are there.
PlaceInv ==
  /\ At => script \in DOMAIN Scripts
  /\ pc = "done" => script = Len(Scripts) + 1
  /\ \A c \in Classes : data[c] \in Versions
  /\ Compiled => \A c \in Classes : class[c] = data[c]

\* What is recorded of a script is about files it may read and write.
OwnInv ==
  /\ \A s \in Script : deps[s] # None =>
       /\ \A f \in deps[s].outputs : May(s, "write", f)
       /\ \A in \in deps[s].inputs : May(s, "read", in.file)
  /\ At => /\ \A f \in outputFiles : May(Current, "write", f)
           /\ \A in \in inputFiles : May(Current, "read", in.file)

\* Nothing is recorded with a time to come, and nothing with the time of this build by
\* the scripts it has not come to.
Pending(n) == pc = "compile" \/ ((At \/ pc = "build") /\ script <= n)
TimesInv ==
  /\ \A f \in Classes \cup File : mtime[f] <= clock
  /\ \A s \in Script : deps[s] # None =>
       /\ deps[s].lastModified <= clock
       /\ \A in \in deps[s].inputs : in.lastModified <= clock
  /\ \A n \in DOMAIN Scripts : Pending(n) /\ deps[Scripts[n]] # None =>
       \A in \in deps[Scripts[n]].inputs : in.lastModified < clock
  /\ At => lastModified <= clock /\ \A in \in inputFiles : in.lastModified <= clock

\* The dependency file of s says that no class and no file it read has changed.
NothingNewer(s) ==
  /\ deps[s] # None
  /\ \A c \in Known[s] : mtime[c] <= deps[s].lastModified
  /\ \A in \in deps[s].inputs : mtime[in.file] <= in.lastModified

\* Step k of s has written data[file] from the classes there are and from what it has
\* read; of that, what is still there has not changed.
Wrote(s, k) ==
  LET made == data[Plan(s)[k].file]
  IN /\ made = [classes |-> [c \in Uses[s] |-> data[c]], reads |-> [j \in Reads(s, k) |-> made.reads[j]]]
     /\ \A j \in Reads(s, k) : data[Plan(s)[j].file] \in {None, made.reads[j]}

FilesWritten(s) == {Plan(s)[k].file : k \in Writes(s)}
Holds(s, k) ==
  \/ Plan(s)[k].file \in suspect \/ data[Plan(s)[k].file] = None
  \/ Wrote(s, k)
Evidence(s) ==
  NothingNewer(s) =>
    /\ deps[s].outputs = FilesWritten(s)
    /\ \A j \in DOMAIN Plan(s) : Plan(s)[j].op = "read" => \E in \in deps[s].inputs : in.file = Plan(s)[j].file
    /\ RegistersAll(s) => \A k \in Writes(s) : Holds(s, k)
EvidenceInv == \A s \in Script : Evidence(s)

\* The script that runs was compiled from the classes whose times it will record.
RunInv ==
  At =>
    /\ \A c \in Known[Current] : mtime[c] <= lastModified
    /\ step <= Len(Steps) + 1
    /\ pc = "load" => /\ step <= Len(Steps) /\ Steps[step].op = "read"
                      /\ \E in \in inputFiles : in.file = Steps[step].file

\* A script whose record still holds has read what is there.
SeenInv ==
  At /\ NothingNewer(Current) /\ RegistersAll(Current) =>
    \A j \in 1 .. step - 1 : Steps[j].op = "read" => data[Steps[j].file] \in {None, loaded[j]}

\* What the running script has read is unchanged or recorded with an earlier time, and
\* what it has written comes from it.
Reading(s, plan, n) ==
  /\ loaded = [j \in {j \in 1 .. n - 1 : plan[j].op # "write"} |-> loaded[j]]
  /\ \A j \in 1 .. n - 1 : plan[j].op = "read" => \E in \in inputFiles :
       /\ in.file = plan[j].file
       /\ data[in.file] = loaded[j] \/ in.lastModified < mtime[in.file]
  /\ outputFiles = {plan[k].file : k \in {k \in DOMAIN plan : plan[k].op = "write" /\ k < n}}
  /\ \A k \in DOMAIN plan : plan[k].op = "write" /\ k < n =>
       \/ plan[k].file \in suspect \/ data[plan[k].file] = None
       \/ data[plan[k].file] = [classes |-> [c \in Uses[s] |-> class[c]],
                                reads |-> [j \in {j \in 1 .. k : plan[j].op # "write"} |-> loaded[j]]]
ReadInv == At => Reading(Current, Steps, step)

\* In a build that is not disturbed, what was recorded so far stays true.
UpToDate(s) ==
  /\ NothingNewer(s)
  /\ \A in \in deps[s].inputs : data[in.file] # None
  /\ \A out \in deps[s].outputs : data[out] # None
QuietInv ==
  quiet =>
    /\ Compiled => \A n \in DOMAIN Scripts : n < script => UpToDate(Scripts[n])
    /\ At => /\ \A in \in inputFiles : mtime[in.file] <= in.lastModified /\ data[in.file] # None
             /\ \A out \in outputFiles : data[out] # None

BuilderInv ==
  TypeOK /\ PlaceInv /\ OwnInv /\ TimesInv /\ EvidenceInv /\ RunInv /\ SeenInv /\ ReadInv /\ QuietInv

\* After a good build, every record holds, and no script runs.
SettledInv ==
  settled => /\ \A s \in Script : UpToDate(s)
             /\ ~At /\ (pc = "idle" \/ quiet)

\* The compiler has got what the scripts so far have written.
SourcesInv ==
  /\ pc = "compile" => sources = {}
  /\ Compiled => sources = {f \in Outputs : \/ \E n \in DOMAIN Scripts : n < script /\ f \in FilesWritten(Scripts[n])
                                            \/ At /\ f \in outputFiles}

-----------------------------------------------------------------------------
(* The constants.                                                          *)

LEMMA ScriptFacts ==
  /\ DOMAIN Scripts = 1 .. Len(Scripts) /\ Len(Scripts) \in Nat
  /\ \A n \in DOMAIN Scripts : Scripts[n] \in Script
  /\ \A s \in Script : \E n \in DOMAIN Scripts : Scripts[n] = s
  /\ Script \subseteq Classes
BY BuilderAssumption DEF Script

LEMMA ReachedFacts ==
  ASSUME NEW graph, NEW c \in Classes
  PROVE  Reached(graph, c) \subseteq Classes /\ c \in Reached(graph, c)
BY DEF Reached

\* The classes a script uses are among those whose times are compared.
LEMMA UsesAreKnown ==
  ASSUME NamesAll, NEW s \in Script
  PROVE  s \in Known[s] /\ Known[s] \subseteq Classes /\ Uses[s] \subseteq Known[s]
<1> DEFINE graph == [c \in Classes |-> Refs[c] \cup Inlined[c]]
<1>1. s \in Classes
  BY ScriptFacts
<1>2. Known[s] = Reached(Refs, s) \cup Jars /\ Uses[s] = Reached(graph, s) \cup Jars
  BY DEF Known, Uses
<1>3. Reached(graph, s) \subseteq Reached(Refs, s)
  <2> SUFFICES ASSUME NEW d \in Reached(graph, s), NEW found \in SUBSET Classes,
                      s \in found, \A e \in found : Refs[e] \subseteq found
               PROVE  d \in found
    BY DEF Reached
  <2>1. \A e \in found : graph[e] \subseteq found
    BY DEF NamesAll
  <2> HIDE DEF graph
  <2> QED BY <2>1 DEF Reached
<1> QED BY <1>1, <1>2, <1>3, ReachedFacts, BuilderAssumption

\* A set of times that are past has a latest one.
LEMMA LatestIs ==
  ASSUME NEW S \in SUBSET Nat, NEW b \in Nat, \A t \in S : t <= b, S # {}
  PROVE  Latest(S) \in S /\ \A u \in S : u <= Latest(S)
<1> DEFINE R == OpToRel(<, Nat)
           T == {n \in Nat : n <= b /\ b - n \in S}
<1>1. PICK t \in S : TRUE
  OBVIOUS
<1>2. b - t \in T
  <2> b - t \in Nat /\ b - (b - t) = t  BY <1>1
  <2> QED BY <1>1
<1>3. PICK m \in T : \A k \in T : ~(<<k, m>> \in R)
  <2>1. IsWellFoundedOn(R, Nat)
    BY NatLessThanWellFounded, Zenon
  <2>2. T \subseteq Nat /\ T # {}
    BY <1>2
  <2> HIDE DEF R, T
  <2> QED BY <2>1, <2>2, WFMin
<1>4. \A k \in T : ~(k < m)
  BY <1>3 DEF OpToRel
<1>5. \A u \in S : u <= b - m
  <2> TAKE u \in S
  <2>1. u \in Nat /\ u <= b /\ b - u \in Nat
    OBVIOUS
  <2>2. b - (b - u) = u
    BY <2>1
  <2>3. b - u \in T
    BY <2>1, <2>2
  <2>4. ~(b - u < m) /\ m \in Nat
    BY <2>3, <1>4
  <2> HIDE DEF T
  <2> QED BY <2>1, <2>4
<1> QED BY <1>3, <1>5 DEF Latest

-----------------------------------------------------------------------------
(* The state.                                                              *)

\* What a script does is among what it may do.
LEMMA PlanFacts ==
  ASSUME PlaceInv, NEW s \in Script
  PROVE  /\ Plan(s) \in Seq(Step) /\ Len(Plan(s)) \in Nat /\ DOMAIN Plan(s) = 1 .. Len(Plan(s))
         /\ \A k \in DOMAIN Plan(s) :
              /\ Plan(s)[k].op \in {"read", "peek", "write"} /\ Plan(s)[k].file \in File
              /\ May(s, Plan(s)[k].op, Plan(s)[k].file)
              /\ Plan(s)[k].op = "write" => Plan(s)[k].file \in Outputs
<1>1. data[s] \in Versions
  BY ScriptFacts DEF PlaceInv
<1>2. Plan(s) \in Seq(Step)
  BY <1>1, BuilderAssumption DEF Plan
<1>3. DOMAIN Plan(s) = 1 .. Len(Plan(s)) /\ Len(Plan(s)) \in Nat
  BY <1>2
<1>4. ASSUME NEW k \in DOMAIN Plan(s)
      PROVE  /\ Plan(s)[k].op \in {"read", "peek", "write"} /\ Plan(s)[k].file \in File
             /\ Plan(s)[k].op = "write" => Plan(s)[k].file \in Outputs
  <2>1. Plan(s)[k] \in Step
    BY <1>2, <1>3
  <2> QED BY <2>1 DEF Step, File
<1>5. \A k \in DOMAIN Plan(s) : May(s, Plan(s)[k].op, Plan(s)[k].file)
  BY <1>1 DEF May, Plan
<1> QED BY <1>2, <1>3, <1>4, <1>5

LEMMA RunningFacts ==
  ASSUME PlaceInv, At
  PROVE  Current \in Script /\ Current \in Classes /\ Steps = Plan(Current) /\ class[Current] = data[Current]
BY ScriptFacts DEF PlaceInv, Compiled, Current, Steps, Plan

LEMMA SourcesModifiedIs ==
  ASSUME TypeOK, TimesInv, NamesAll, NEW s \in Script
  PROVE  /\ SourcesModified(s) \in Nat /\ SourcesModified(s) <= clock
         /\ \A c \in Known[s] : mtime[c] <= SourcesModified(s)
         /\ \E c \in Known[s] : mtime[c] = SourcesModified(s)
<1> DEFINE S == {mtime[c] : c \in Known[s]}
<1>1. s \in Known[s] /\ Known[s] \subseteq Classes
  BY UsesAreKnown
<1>2. S \in SUBSET Nat /\ S # {} /\ clock \in Nat /\ \A t \in S : t <= clock
  BY <1>1 DEF TypeOK, TimesInv
<1>3. Latest(S) \in S /\ \A u \in S : u <= Latest(S)
  <2> HIDE DEF S
  <2> QED BY <1>2, LatestIs
<1> QED BY <1>2, <1>3 DEF SourcesModified

-----------------------------------------------------------------------------
(* What the steps change.                                                  *)

\* The content of f is replaced, at time t.
Replaces(f, t) ==
  /\ data' = [g \in Classes \cup File |-> data'[g]]
  /\ \A g \in Classes \cup File : g # f => data'[g] = data[g] /\ mtime'[g] = mtime[g]
  /\ mtime' \in [Classes \cup File -> Nat] /\ mtime'[f] = t

\* Both ways a file is written, whole and torn.
WritesFile ==
  /\ Running("write")
  /\ Replaces(Steps[step].file, clock)
  /\ \A f : f # Steps[step].file => (f \in suspect' <=> f \in suspect)
  /\ UNCHANGED <<clock, class, script, lastModified, inputFiles, loaded, deps>>

LEMMA Writing ==
  ASSUME TypeOK, PlaceInv, WriteFile \/ StopWriting
  PROVE  /\ WritesFile /\ At /\ step \in DOMAIN Steps
         /\ Steps[step].file \in Outputs /\ May(Current, "write", Steps[step].file)
<1>1. Running("write") /\ At
  BY DEF WriteFile, StopWriting, Running, At
<1>2. Steps = Plan(Current) /\ Current \in Script
  BY <1>1, RunningFacts
<1>3. step \in DOMAIN Steps
  BY <1>1, <1>2, PlanFacts DEF Running, TypeOK
<1>4. Steps[step].file \in Outputs /\ May(Current, "write", Steps[step].file)
  BY <1>1, <1>2, <1>3, PlanFacts DEF Running
<1>5. WritesFile
  <2>1. CASE WriteFile
    BY <2>1, <1>4 DEF WriteFile, WritesFile, TypeOK, File, Replaces
  <2>2. CASE StopWriting
    BY <2>2, <1>4 DEF StopWriting, WritesFile, TypeOK, File, Stop, runVars, Replaces
  <2> QED BY <2>1, <2>2
<1> QED BY <1>1, <1>3, <1>4, <1>5

\* An edit, of whatever is edited.
Edits ==
  \E f \in Classes \cup File :
    /\ clock' = clock + 1 /\ Replaces(f, clock + 1)
    /\ f \in Classes => data'[f] \in Versions
    /\ f \in Outputs => f \in suspect' \/ data'[f] = None
    /\ \A g : g # f => (g \in suspect' <=> g \in suspect)
    /\ pc # "idle" => f \in File
    /\ quiet' = FALSE /\ settled' = FALSE
    /\ UNCHANGED <<class, pc, runVars, deps, sources>>

LEMMA Editing ==
  ASSUME TypeOK, KeepsClasses, NEW f \in Classes \cup File, NEW v, v \in Versions \/ f \in File
  PROVE  Edit(f, v) => Edits
<1> SUFFICES ASSUME Edit(f, v) PROVE Edits
  OBVIOUS
<1>1. Replaces(f, clock + 1) /\ data'[f] = v
  <2> DEFINE D == Classes \cup File
  <2>1. data = [g \in D |-> data[g]] /\ mtime \in [D -> Nat] /\ clock + 1 \in Nat
    BY DEF TypeOK
  <2>2. data' = [data EXCEPT ![f] = v] /\ mtime' = [mtime EXCEPT ![f] = clock + 1]
    BY DEF Edit
  <2> HIDE DEF D
  <2>3. data' = [g \in D |-> IF g = f THEN v ELSE data[g]]
    BY <2>1, <2>2
  <2>4. mtime' \in [D -> Nat] /\ mtime' = [g \in D |-> IF g = f THEN clock + 1 ELSE mtime[g]]
    BY <2>1, <2>2
  <2> QED BY <2>3, <2>4 DEF Replaces, D
<1>2. f \in Classes => data'[f] \in Versions
  BY <1>1, BuilderAssumption DEF File
<1> QED BY <1>1, <1>2 DEF Edits, Edit, MayEdit, KeepsClasses

\* Every step, by what it does to the state that the invariant is about.
LEMMA StepCases ==
  ASSUME TypeOK, KeepsClasses, [Next]_vars
  PROVE  \/ UNCHANGED vars
         \/ Edits \/ StartBuild
         \/ Compile \/ Finish \/ Return \/ Skip \/ Rebuild
         \/ RegisterInputFile \/ LoadFile \/ Peek \/ WriteFile \/ SaveDependencyInfo
         \/ FailToLoad \/ StopAnywhere \/ StopWriting \/ StopSaving
<1>1. ASSUME User PROVE Edits \/ StartBuild
  <2>1. ASSUME NEW f \in Classes \cup Inputs, NEW v \in Versions, Edit(f, v) PROVE Edits
    BY <2>1, Editing DEF File
  <2>2. ASSUME NEW f \in File, NEW v, Edit(f, v) PROVE Edits
    BY <2>2, Editing
  <2> QED BY <1>1, <2>1, <2>2 DEF User, File
<1> QED BY <1>1 DEF Next, Build, Rest

-----------------------------------------------------------------------------
(* Types and places.                                                       *)

LEMMA TypeInit == Init => TypeOK
BY ScriptFacts DEF Init, TypeOK, File, Nothing

LEMMA TypeStep ==
  ASSUME TypeOK, PlaceInv, TimesInv, NamesAll, KeepsClasses, [Next]_vars
  PROVE  TypeOK'
<1> USE DEF TypeOK
<1>0. Len(Scripts) \in Nat /\ DOMAIN Scripts = 1 .. Len(Scripts)
  BY ScriptFacts
<1>1. CASE UNCHANGED vars
  BY <1>1 DEF vars, diskVars, runVars, historyVars
<1>2. CASE Edits
  BY <1>2 DEF Edits, Replaces, runVars
<1>3. CASE StartBuild
  BY <1>3 DEF StartBuild, runVars
<1>4. CASE Compile \/ Finish \/ Return
  BY <1>4, <1>0 DEF Compile, Finish, Return, diskVars, historyVars, runVars
<1>5. CASE Skip
  BY <1>5, <1>0 DEF Skip, NextScript, Building, diskVars, historyVars
<1>6. CASE Rebuild
  <2>1. Current \in Script /\ Building
    BY <1>6, ScriptFacts DEF Rebuild, Building, Current
  <2>2. lastModified' \in Nat
    BY <1>6, <2>1, SourcesModifiedIs DEF Rebuild
  <2> QED BY <1>6, <2>2 DEF Rebuild, FirstStep, historyVars
<1>7. CASE RegisterInputFile \/ LoadFile \/ Peek
  <2>1. CASE RegisterInputFile
    <3>1. At /\ step \in DOMAIN Plan(Current) /\ Steps = Plan(Current) /\ Current \in Script
      BY <2>1, RunningFacts, PlanFacts DEF RegisterInputFile, Running, At
    <3>2. Steps[step].file \in File
      BY <3>1, PlanFacts
    <3>3. [file |-> Steps[step].file, lastModified |-> mtime[Steps[step].file]] \in ReadFile
      BY <3>2 DEF ReadFile, File
    <3> QED BY <2>1, <3>3 DEF RegisterInputFile, diskVars, historyVars
  <2>2. CASE LoadFile
    BY <2>2 DEF LoadFile, diskVars, historyVars
  <2>3. CASE Peek
    BY <2>3 DEF Peek, diskVars, historyVars
  <2> QED BY <1>7, <2>1, <2>2, <2>3
<1>8. CASE WriteFile
  <2>1. WritesFile /\ Steps[step].file \in Outputs
    BY <1>8, Writing
  <2> QED BY <1>8, <2>1 DEF WriteFile, WritesFile, Replaces, RegisterOutputFile, historyVars
<1>9. CASE SaveDependencyInfo
  <2>1. At
    BY <1>9 DEF SaveDependencyInfo, At
  <2>2. Current \in Script /\ script \in DOMAIN Scripts
    BY <2>1, RunningFacts DEF PlaceInv
  <2>3. [lastModified |-> SavedLastModified, inputs |-> inputFiles, outputs |-> outputFiles]
          \in [lastModified : Nat, inputs : SUBSET ReadFile, outputs : SUBSET Outputs]
    BY DEF SavedLastModified
  <2> QED BY <1>9, <1>0, <2>2, <2>3 DEF SaveDependencyInfo, NextScript, diskVars, historyVars
<1>10. CASE FailToLoad \/ StopAnywhere
  BY <1>10 DEF FailToLoad, StopAnywhere, Stop, runVars
<1>11. CASE StopWriting
  <2>1. WritesFile /\ Steps[step].file \in Outputs
    BY <1>11, Writing
  <2> QED BY <1>11, <2>1 DEF StopWriting, WritesFile, Replaces, Stop, runVars
<1>12. CASE StopSaving
  <2>1. At
    BY <1>12 DEF StopSaving, At
  <2> QED BY <1>12, <2>1, RunningFacts DEF StopSaving, Stop, runVars
<1> QED BY StepCases, <1>1, <1>2, <1>3, <1>4, <1>5, <1>6, <1>7, <1>8, <1>9, <1>10, <1>11, <1>12

LEMMA PlaceInit == Init => PlaceInv
BY BuilderAssumption DEF Init, PlaceInv, At, Compiled, File

LEMMA PlaceStep ==
  ASSUME TypeOK, PlaceInv, NamesAll, KeepsClasses, [Next]_vars
  PROVE  PlaceInv'
<1> USE DEF PlaceInv, At, Compiled
<1>0. Len(Scripts) \in Nat /\ DOMAIN Scripts = 1 .. Len(Scripts) /\ Classes \cap File = {}
  BY ScriptFacts, BuilderAssumption DEF File
<1>1. CASE UNCHANGED vars
  BY <1>1 DEF vars, diskVars, runVars, historyVars
<1>2. CASE Edits
  BY <1>2, <1>0 DEF Edits, Replaces, runVars, TypeOK, File
<1>3. CASE StartBuild \/ Compile \/ Finish \/ Return \/ Skip
  BY <1>3, <1>0 DEF StartBuild, Compile, Finish, Return, Skip, Building, NextScript, diskVars, historyVars,
     runVars, TypeOK
<1>4. CASE Rebuild
  <2>1. script \in DOMAIN Scripts /\ pc = "build"
    BY <1>4 DEF Rebuild, Building
  <2>2. Current \in Script
    BY <2>1, ScriptFacts DEF Current
  <2>3. RecordedOutputs \subseteq File
    BY <2>2 DEF RecordedOutputs, Recorded, TypeOK, File
  <2>4. \A c \in Classes : data'[c] = data[c]
    BY <1>4, <1>0, <2>3 DEF Rebuild, TypeOK
  <2> QED BY <1>4, <2>1, <2>4 DEF Rebuild, historyVars
<1>5. CASE RegisterInputFile \/ LoadFile \/ Peek \/ SaveDependencyInfo
  BY <1>5, <1>0 DEF RegisterInputFile, LoadFile, Peek, Running, SaveDependencyInfo, NextScript, diskVars, historyVars, TypeOK
<1>6. CASE WriteFile \/ StopWriting
  <2>1. WritesFile /\ Steps[step].file \in File
    BY <1>6, Writing DEF File
  <2>2. \A c \in Classes : data'[c] = data[c]
    BY <2>1, <1>0 DEF WritesFile, Replaces, TypeOK
  <2> QED BY <1>6, <2>1, <2>2 DEF WritesFile, WriteFile, StopWriting, Running, Stop, historyVars
<1>7. CASE FailToLoad \/ StopAnywhere \/ StopSaving
  BY <1>7 DEF FailToLoad, StopAnywhere, StopSaving, Stop, runVars
<1> QED BY StepCases, <1>1, <1>2, <1>3, <1>4, <1>5, <1>6, <1>7

-----------------------------------------------------------------------------
(* What is recorded, and when.                                             *)

LEMMA OwnInit == Init => OwnInv
BY DEF Init, OwnInv, At

LEMMA OwnStep ==
  ASSUME TypeOK, PlaceInv, OwnInv, NamesAll, KeepsClasses, [Next]_vars
  PROVE  OwnInv'
<1> USE DEF OwnInv, At
<1>1. CASE UNCHANGED vars
  BY <1>1 DEF vars, diskVars, runVars, historyVars, Current
<1>2. CASE Edits
  BY <1>2 DEF Edits, runVars, Current
<1>3. CASE StartBuild \/ Compile \/ Finish \/ Return \/ Skip
  BY <1>3 DEF StartBuild, Compile, Finish, Return, Skip, NextScript, runVars
<1>4. CASE Rebuild
  BY <1>4 DEF Rebuild, Current
<1>5. CASE RegisterInputFile
  <2>1. At /\ step \in DOMAIN Plan(Current) /\ Steps = Plan(Current) /\ Current \in Script
    BY <1>5, RunningFacts, PlanFacts DEF RegisterInputFile, Running, TypeOK
  <2>2. May(Current, "read", Steps[step].file)
    BY <1>5, <2>1, PlanFacts DEF RegisterInputFile, Running
  <2>3. \A in \in inputFiles' : May(Current, "read", in.file)
    BY <1>5, <2>1, <2>2 DEF RegisterInputFile
  <2> QED BY <1>5, <2>1, <2>3 DEF RegisterInputFile, Current
<1>6. CASE LoadFile \/ Peek
  BY <1>6 DEF LoadFile, Peek, Running, Current
<1>7. CASE WriteFile \/ StopWriting
  <2>1. WritesFile /\ At /\ May(Current, "write", Steps[step].file)
    BY <1>7, Writing
  <2>2. CASE WriteFile
    BY <2>1, <2>2 DEF WriteFile, RegisterOutputFile, Current
  <2>3. CASE StopWriting
    BY <2>3, <2>1 DEF WritesFile, StopWriting, Stop
  <2> QED BY <1>7, <2>2, <2>3
<1>8. CASE SaveDependencyInfo
  <2>1. At /\ deps' = [deps EXCEPT ![Current] =
                         [lastModified |-> SavedLastModified, inputs |-> inputFiles, outputs |-> outputFiles]]
    BY <1>8 DEF SaveDependencyInfo
  <2>2. ASSUME NEW s \in Script, deps'[s] # None
        PROVE  /\ \A f \in deps'[s].outputs : May(s, "write", f)
               /\ \A in \in deps'[s].inputs : May(s, "read", in.file)
    <3>1. CASE s = Current
      <4>1. deps'[s].outputs = outputFiles /\ deps'[s].inputs = inputFiles
        BY <2>1, <3>1 DEF TypeOK
      <4> QED BY <2>1, <3>1, <4>1
    <3>2. CASE s # Current
      BY <2>1, <2>2, <3>2 DEF TypeOK
    <3> QED BY <3>1, <3>2
  <2> QED BY <1>8, <2>2 DEF SaveDependencyInfo, NextScript
<1>9. CASE FailToLoad \/ StopAnywhere
  BY <1>9 DEF FailToLoad, StopAnywhere, Stop
<1>10. CASE StopSaving
  <2>1. \A s \in Script : deps'[s] # None => deps'[s] = deps[s]
    BY <1>10 DEF StopSaving, TypeOK
  <2> QED BY <1>10, <2>1 DEF StopSaving, Stop
<1> QED BY StepCases, <1>1, <1>2, <1>3, <1>4, <1>5, <1>6, <1>7, <1>8, <1>9, <1>10

LEMMA TimesInit == Init => TimesInv
BY DEF Init, TimesInv, At, Pending

\* The scripts a build has not come to have records of earlier builds.
LEMMA TimesStep ==
  ASSUME TypeOK, PlaceInv, TimesInv, NamesAll, KeepsClasses, [Next]_vars
  PROVE  TimesInv'
<1> USE DEF TimesInv, At, Pending
<1>0. /\ Len(Scripts) \in Nat /\ DOMAIN Scripts = 1 .. Len(Scripts)
      /\ \A n \in DOMAIN Scripts : Scripts[n] \in Script
      /\ \A m, n \in DOMAIN Scripts : Scripts[m] = Scripts[n] => m = n
      /\ clock \in Nat /\ script \in Nat
  BY ScriptFacts, BuilderAssumption DEF TypeOK
<1>T. /\ mtime \in [Classes \cup File -> Nat]
      /\ \A s \in Script : deps[s] # None =>
           /\ deps[s].lastModified \in Nat
           /\ \A in \in deps[s].inputs : in.lastModified \in Nat
      /\ lastModified \in Nat /\ \A in \in inputFiles : in.lastModified \in Nat
  BY DEF TypeOK, ReadFile
<1>1. CASE UNCHANGED vars
  BY <1>1 DEF vars, diskVars, runVars, historyVars
<1>2. CASE Edits
  <2>1. /\ clock' = clock + 1 /\ UNCHANGED <<pc, script, lastModified, inputFiles, deps>>
        /\ \A f \in Classes \cup File : mtime'[f] <= clock + 1
    BY <1>2, <1>0, <1>T DEF Edits, Replaces, runVars
  <2>2. \A s \in Script : deps'[s] # None =>
          /\ deps'[s].lastModified <= clock'
          /\ \A in \in deps'[s].inputs : in.lastModified <= clock'
    BY <2>1, <1>0, <1>T
  <2>3. \A n \in DOMAIN Scripts : Pending(n)' /\ deps'[Scripts[n]] # None =>
          \A in \in deps'[Scripts[n]].inputs : in.lastModified < clock'
    BY <2>1, <1>0, <1>T
  <2>4. At' => lastModified' <= clock' /\ \A in \in inputFiles' : in.lastModified <= clock'
    BY <2>1, <1>0, <1>T
  <2> QED BY <2>1, <2>2, <2>3, <2>4
<1>3. CASE StartBuild
  <2>1. clock' = clock + 1 /\ pc' = "compile" /\ UNCHANGED <<mtime, deps>>
    BY <1>3 DEF StartBuild
  <2> QED BY <2>1, <1>0, <1>T
<1>4. CASE Compile \/ Finish \/ Return
  BY <1>4, <1>0 DEF Compile, Finish, Return, diskVars, runVars
<1>5. CASE Skip
  BY <1>5, <1>0 DEF Skip, NextScript, Building, diskVars
<1>6. CASE Rebuild
  <2>1. Current \in Script /\ Building
    BY <1>6, ScriptFacts DEF Rebuild, Building, Current
  <2>2. lastModified' <= clock
    BY <1>6, <2>1, SourcesModifiedIs DEF Rebuild
  <2> QED BY <1>6, <2>1, <2>2 DEF Rebuild, Building
<1>7. CASE RegisterInputFile
  <2>1. At /\ step \in DOMAIN Plan(Current) /\ Steps = Plan(Current) /\ Current \in Script
    BY <1>7, RunningFacts, PlanFacts DEF RegisterInputFile, Running, TypeOK
  <2>2. mtime[Steps[step].file] <= clock
    BY <2>1, PlanFacts
  <2>3. \A in \in inputFiles' : in.lastModified <= clock
    BY <1>7, <2>1, <2>2 DEF RegisterInputFile
  <2>4. UNCHANGED <<clock, mtime, deps, script, lastModified>> /\ pc = "run" /\ pc' = "load"
    BY <1>7 DEF RegisterInputFile, Running, diskVars
  <2>5. \A n \in DOMAIN Scripts : Pending(n)' => Pending(n)
    BY <2>4
  <2> QED BY <2>1, <2>3, <2>4, <2>5
<1>8. CASE LoadFile \/ Peek
  BY <1>8 DEF LoadFile, Peek, Running, diskVars
<1>9. CASE WriteFile \/ StopWriting
  <2>1. WritesFile /\ At /\ Steps[step].file \in Outputs
    BY <1>9, Writing
  <2>2. \A f \in Classes \cup File : mtime'[f] <= clock
    BY <2>1, <1>0, <1>T DEF WritesFile, Replaces
  <2>3. UNCHANGED <<clock, script, lastModified, inputFiles, deps>> /\ pc' \in {pc, "idle"}
    BY <1>9, <2>1 DEF WritesFile, WriteFile, StopWriting, Stop
  <2> QED BY <2>1, <2>2, <2>3
<1>10. CASE SaveDependencyInfo
  <2>1. /\ pc = "run" /\ pc' = "build" /\ script' = script + 1 /\ UNCHANGED <<clock, mtime>>
        /\ deps' = [deps EXCEPT ![Current] =
                      [lastModified |-> SavedLastModified, inputs |-> inputFiles, outputs |-> outputFiles]]
    BY <1>10 DEF SaveDependencyInfo, NextScript, diskVars
  <2>2. /\ script \in DOMAIN Scripts
        /\ \A s \in Script : s # Current => deps'[s] = deps[s]
        /\ deps'[Current].lastModified = lastModified /\ deps'[Current].inputs = inputFiles
    BY <2>1, RunningFacts DEF PlaceInv, TypeOK, SavedLastModified
  <2>3. \A n \in DOMAIN Scripts : script + 1 <= n => Scripts[n] # Current
    BY <2>2, <1>0 DEF Current
  <2>4. ASSUME NEW s \in Script, deps'[s] # None
        PROVE  deps'[s].lastModified <= clock /\ \A in \in deps'[s].inputs : in.lastModified <= clock
    BY <2>1, <2>2, <2>4
  <2>5. ASSUME NEW n \in DOMAIN Scripts, script + 1 <= n, deps'[Scripts[n]] # None
        PROVE  \A in \in deps'[Scripts[n]].inputs : in.lastModified < clock
    <3>1. deps'[Scripts[n]] = deps[Scripts[n]] /\ script <= n
      BY <2>2, <2>3, <2>5, <1>0
    <3> QED BY <2>1, <2>5, <3>1
  <2> QED BY <2>1, <2>4, <2>5
<1>11. CASE FailToLoad \/ StopAnywhere
  BY <1>11 DEF FailToLoad, StopAnywhere, Stop
<1>12. CASE StopSaving
  <2>1. \A s \in Script : deps'[s] # None => deps'[s] = deps[s]
    BY <1>12 DEF StopSaving, TypeOK
  <2> QED BY <1>12, <2>1, <1>0 DEF StopSaving, Stop
<1> QED BY StepCases, <1>1, <1>2, <1>3, <1>4, <1>5, <1>6, <1>7, <1>8, <1>9, <1>10, <1>11, <1>12

-----------------------------------------------------------------------------
(* Evidence.                                                               *)

\* Times only grow, so what is newer than a record stays newer.
LEMMA NewerStays ==
  ASSUME TypeOK, NamesAll, OwnInv, mtime' \in [Classes \cup File -> Nat],
         \A f \in Classes \cup File : mtime[f] <= mtime'[f],
         NEW s \in Script, deps'[s] = deps[s], NothingNewer(s)'
  PROVE  NothingNewer(s)
<1>1. deps[s] # None
  BY DEF NothingNewer
<1>2. /\ deps[s].lastModified \in Nat
      /\ \A in \in deps[s].inputs : in.lastModified \in Nat /\ in.file \in File
  BY <1>1 DEF TypeOK, ReadFile
<1>3. Known[s] \subseteq Classes
  BY UsesAreKnown
<1>4. \A c \in Known[s] : mtime[c] <= deps[s].lastModified
  BY <1>2, <1>3 DEF NothingNewer, TypeOK
<1>5. \A in \in deps[s].inputs : mtime[in.file] <= in.lastModified
  BY <1>2 DEF NothingNewer, TypeOK
<1> QED BY <1>1, <1>4, <1>5 DEF NothingNewer

\* A step leaves the evidence about s alone if it gives what it changes a time later
\* than the record of s, except for files that disappear, and what s writes stays, goes
\* or becomes suspect.
Leaves(s) ==
  /\ deps'[s] = deps[s]
  /\ \A c \in Known[s] :
       \/ mtime'[c] = mtime[c] /\ data'[c] = data[c]
       \/ mtime'[c] \in Nat /\ clock < mtime'[c]
  /\ deps[s] # None => \A in \in deps[s].inputs :
       \/ mtime'[in.file] = mtime[in.file] /\ data'[in.file] \in {data[in.file], None}
       \/ mtime'[in.file] \in Nat /\ in.lastModified < mtime'[in.file]
  /\ \A f \in Outputs : May(s, "write", f) =>
       \/ f \in suspect' \/ data'[f] = None
       \/ data'[f] = data[f] /\ f \notin suspect

LEMMA EvidenceKept ==
  ASSUME TypeOK, PlaceInv, OwnInv, TimesInv, NamesAll, NEW s \in Script, Evidence(s), Leaves(s)
  PROVE  Evidence(s)'
<1> SUFFICES ASSUME NothingNewer(s)'
             PROVE  /\ deps'[s].outputs = FilesWritten(s)'
                    /\ \A j \in DOMAIN Plan(s)' : Plan(s)'[j].op = "read" =>
                         \E in \in deps'[s].inputs : in.file = Plan(s)'[j].file
                    /\ RegistersAll(s)' => \A k \in Writes(s)' : Holds(s, k)'
  BY DEF Evidence
<1>1. deps[s] # None /\ deps'[s] = deps[s]
  BY DEF NothingNewer, Leaves
<1>2. s \in Known[s] /\ Known[s] \subseteq Classes /\ Uses[s] \subseteq Known[s]
  BY UsesAreKnown
<1>3. \A c \in Known[s] : mtime'[c] = mtime[c] /\ data'[c] = data[c]
  <2> SUFFICES ASSUME NEW c \in Known[s], mtime'[c] \in Nat, clock < mtime'[c] PROVE FALSE
    BY DEF Leaves
  <2>1. deps[s].lastModified <= clock /\ deps[s].lastModified \in Nat /\ clock \in Nat
    BY <1>1 DEF TimesInv, TypeOK
  <2>2. mtime'[c] <= deps[s].lastModified
    BY <1>1 DEF NothingNewer
  <2> QED BY <2>1, <2>2
<1>4. \A in \in deps[s].inputs : mtime'[in.file] = mtime[in.file] /\ data'[in.file] \in {data[in.file], None}
  <2> SUFFICES ASSUME NEW in \in deps[s].inputs, mtime'[in.file] \in Nat, in.lastModified < mtime'[in.file]
               PROVE  FALSE
    BY <1>1 DEF Leaves
  <2>1. in.lastModified \in Nat
    BY <1>1 DEF TypeOK, ReadFile
  <2>2. mtime'[in.file] <= in.lastModified
    BY <1>1 DEF NothingNewer
  <2> QED BY <2>1, <2>2
<1>5. NothingNewer(s)
  BY <1>1, <1>3, <1>4 DEF NothingNewer
<1>6. Plan(s)' = Plan(s)
  BY <1>2, <1>3 DEF Plan
<1>7. Writes(s)' = Writes(s) /\ \A k : Reads(s, k)' = Reads(s, k)
  BY <1>6 DEF Writes, Reads
<1>8. FilesWritten(s)' = FilesWritten(s)
  BY <1>6, <1>7 DEF FilesWritten
<1>9. ASSUME RegistersAll(s), NEW k \in Writes(s)
      PROVE  Holds(s, k)'
  <2>1. k \in DOMAIN Plan(s) /\ Plan(s)[k].file \in Outputs /\ May(s, "write", Plan(s)[k].file)
    BY <1>9, PlanFacts DEF Writes
  <2>2. SUFFICES ASSUME Plan(s)[k].file \notin suspect', data'[Plan(s)[k].file] # None PROVE Wrote(s, k)'
    BY <1>6 DEF Holds
  <2>3. data'[Plan(s)[k].file] = data[Plan(s)[k].file] /\ Plan(s)[k].file \notin suspect
    BY <2>1, <2>2 DEF Leaves
  <2>4. [c \in Uses[s] |-> data'[c]] = [c \in Uses[s] |-> data[c]]
    BY <1>2, <1>3
  <2>5. ASSUME NEW j \in Reads(s, k)
        PROVE  data'[Plan(s)[j].file] \in {data[Plan(s)[j].file], None}
    <3>1. j \in DOMAIN Plan(s) /\ Plan(s)[j].op = "read"
      BY <1>9, <2>1, PlanFacts DEF Reads, RegistersAll
    <3>2. PICK in \in deps[s].inputs : in.file = Plan(s)[j].file
      BY <3>1, <1>5 DEF Evidence
    <3> QED BY <3>2, <1>4
  <2>6. Wrote(s, k)
    BY <1>5, <1>9, <2>2, <2>3 DEF Evidence, Holds
  <2>7. data'[Plan(s)[k].file] =
          [classes |-> [c \in Uses[s] |-> data'[c]],
           reads |-> [j \in Reads(s, k) |-> data'[Plan(s)[k].file].reads[j]]]
    BY <2>3, <2>4, <2>6 DEF Wrote
  <2>8. \A j \in Reads(s, k) : data'[Plan(s)[j].file] \in {None, data'[Plan(s)[k].file].reads[j]}
    BY <2>3, <2>5, <2>6 DEF Wrote
  <2> QED BY <1>6, <1>7, <2>7, <2>8 DEF Wrote
<1>10. RegistersAll(s)' = RegistersAll(s)
  BY <1>6 DEF RegistersAll
<1> QED BY <1>1, <1>5, <1>6, <1>7, <1>8, <1>9, <1>10 DEF Evidence

LEMMA SkippedIsUpToDate ==
  ASSUME TypeOK, TimesInv, NamesAll, Building, ~InputGone, ~Changed
  PROVE  UpToDate(Current) /\ RecordedOutputs = deps[Current].outputs
<1>1. Current \in Script
  BY ScriptFacts DEF Building, Current
<1>2. Recorded
  BY DEF Changed, RecordedInputs, RecordedOutputs
<1>3. \A c \in Known[Current] : mtime[c] <= deps[Current].lastModified
  <2>1. SourcesModified(Current) <= deps[Current].lastModified
    BY <1>1, <1>2, SourcesModifiedIs DEF Changed, NewerSource, TypeOK, Recorded
  <2> QED BY <1>1, <1>2, <2>1, SourcesModifiedIs, UsesAreKnown DEF TypeOK, Recorded
<1>4. \A in \in deps[Current].inputs : mtime[in.file] <= in.lastModified
  BY <1>1, <1>2 DEF Changed, NewerInput, RecordedInputs, TypeOK, Recorded, ReadFile
<1>5. \A in \in deps[Current].inputs : data[in.file] # None
  BY <1>2 DEF InputGone, RecordedInputs
<1>6. \A out \in deps[Current].outputs : data[out] # None
  BY <1>2 DEF Changed, RecordedOutputs
<1> QED BY <1>2, <1>3, <1>4, <1>5, <1>6 DEF UpToDate, NothingNewer, Recorded, RecordedOutputs

\* A script whose record holds runs again neither for a class nor for an input.
LEMMA RecordHolds ==
  ASSUME TypeOK, TimesInv, NamesAll, script \in DOMAIN Scripts, NothingNewer(Current)
  PROVE  Recorded /\ ~NewerSource /\ ~NewerInput /\ ~RunsAgain
<1>1. Current \in Script
  BY ScriptFacts DEF Current
<1>2. Recorded
  BY DEF Recorded, NothingNewer
<1>3. ~NewerSource
  BY <1>1, <1>2, SourcesModifiedIs DEF NewerSource, NothingNewer, TypeOK, Recorded
<1>4. ~NewerInput
  BY <1>1, <1>2 DEF NewerInput, RecordedInputs, NothingNewer, TypeOK, Recorded, ReadFile
<1> QED BY <1>2, <1>3, <1>4 DEF RunsAgain

\* A script that neither reads nor writes is the only one that runs without a reason.
LEMMA UpToDateIsSkipped ==
  ASSUME TypeOK, PlaceInv, TimesInv, EvidenceInv, NamesAll, NoIdleScript,
         Building, UpToDate(Current)
  PROVE  ~Changed
<1>1. Current \in Script
  BY ScriptFacts DEF Building, Current
<1>2. NothingNewer(Current) /\ Recorded /\ ~NewerSource /\ ~NewerInput
  BY RecordHolds DEF Building, UpToDate
<1>3. RecordedOutputs = deps[Current].outputs /\ RecordedInputs = deps[Current].inputs
  BY <1>2 DEF RecordedOutputs, RecordedInputs
<1>4. /\ deps[Current].outputs = FilesWritten(Current)
      /\ \A j \in DOMAIN Plan(Current) : Plan(Current)[j].op = "read" =>
           \E in \in deps[Current].inputs : in.file = Plan(Current)[j].file
  BY <1>1, <1>2 DEF EvidenceInv, Evidence
<1>5. PICK k \in DOMAIN Plan(Current) : Plan(Current)[k].op # "peek"
  <2>1. data[Current] \in Versions
    BY <1>1, ScriptFacts DEF PlaceInv
  <2> QED BY <1>1, <2>1 DEF NoIdleScript, Plan
<1>6. RecordedInputs # {} \/ RecordedOutputs # {}
  <2>1. CASE Plan(Current)[k].op = "read"
    BY <1>3, <1>4, <1>5, <2>1
  <2>2. CASE Plan(Current)[k].op = "write"
    BY <1>3, <1>4, <1>5, <2>2 DEF FilesWritten, Writes
  <2> QED BY <1>1, <1>5, <2>1, <2>2, PlanFacts
<1> QED BY <1>2, <1>3, <1>6 DEF Changed, UpToDate

LEMMA EvidenceInit == Init => EvidenceInv
BY DEF Init, EvidenceInv, Evidence, NothingNewer

\* The file that the running script writes does not concern another script, except for
\* one that comes later in this build, for which it is newer than what it has recorded.
LEMMA WritingLeavesOthers ==
  ASSUME TypeOK, PlaceInv, OwnInv, TimesInv, NamesAll, InOrder, WriteFile \/ StopWriting,
         NEW s \in Script, s # Current
  PROVE  Leaves(s)
<1> DEFINE f == Steps[step].file
<1>1. WritesFile /\ At /\ f \in Outputs /\ May(Current, "write", f)
  BY Writing
<1>2. /\ deps' = deps /\ Replaces(f, clock)
      /\ mtime \in [Classes \cup File -> Nat] /\ clock \in Nat /\ Classes \cap File = {} /\ f \in File
  BY <1>1, BuilderAssumption DEF WritesFile, TypeOK, File
<1>3. \A c \in Known[s] : mtime'[c] = mtime[c] /\ data'[c] = data[c]
  BY <1>2, UsesAreKnown DEF Replaces
<1>4. PICK n \in DOMAIN Scripts : Scripts[n] = s
  BY ScriptFacts
<1>5. script \in DOMAIN Scripts /\ n \in Int /\ script \in Int
  BY <1>1, ScriptFacts DEF PlaceInv
<1>6. ASSUME deps[s] # None, NEW in \in deps[s].inputs
      PROVE  \/ mtime'[in.file] = mtime[in.file] /\ data'[in.file] \in {data[in.file], None}
             \/ mtime'[in.file] \in Nat /\ in.lastModified < mtime'[in.file]
  <2>1. in.file \in File
    BY <1>6 DEF TypeOK, ReadFile
  <2>2. CASE in.file # f
    BY <1>2, <2>1, <2>2 DEF Replaces
  <2>3. CASE in.file = f
    <3>1. May(s, "read", f)
      BY <1>6, <2>3 DEF OwnInv
    <3>2. script < n
      BY <1>1, <1>4, <1>5, <3>1 DEF InOrder, Current
    <3>3. in.lastModified < clock
      BY <1>1, <1>4, <1>5, <1>6, <3>2 DEF TimesInv, Pending
    <3> QED BY <1>2, <2>3, <3>3 DEF Replaces
  <2> QED BY <2>2, <2>3
<1>7. ASSUME NEW g \in Outputs, May(s, "write", g)
      PROVE  data'[g] = data[g] /\ (g \in suspect' <=> g \in suspect)
  <2>1. g # f
    BY <1>1, <1>4, <1>5, <1>7 DEF InOrder, Current
  <2> QED BY <1>1, <1>2, <2>1 DEF WritesFile, Replaces, File
<1> HIDE DEF f
<1>8. deps[s] # None => \A in \in deps[s].inputs :
        \/ mtime'[in.file] = mtime[in.file] /\ data'[in.file] \in {data[in.file], None}
        \/ mtime'[in.file] \in Nat /\ in.lastModified < mtime'[in.file]
  BY <1>6
<1>9. deps'[s] = deps[s]
  BY <1>2
<1> QED BY <1>3, <1>7, <1>8, <1>9, Zenon DEF Leaves

\* The files that are deleted before it runs are missed by no record.
LEMMA RebuildLeaves ==
  ASSUME TypeOK, PlaceInv, OwnInv, InOrder, NamesAll, Rebuild, NEW s \in Script
  PROVE  Leaves(s)
<1>1. script \in DOMAIN Scripts /\ Current \in Script
  BY ScriptFacts DEF Rebuild, Building, Current
<1>2. RecordedOutputs \subseteq Outputs /\ \A f \in RecordedOutputs : May(Current, "write", f)
  BY <1>1 DEF RecordedOutputs, Recorded, TypeOK, OwnInv
<1>3. /\ deps' = deps /\ mtime' = mtime
      /\ \A f \in Classes \cup File : data'[f] = IF f \in RecordedOutputs THEN None ELSE data[f]
  BY DEF Rebuild, TypeOK
<1>4. Known[s] \subseteq Classes /\ Classes \cap File = {}
  BY UsesAreKnown, BuilderAssumption DEF File
<1>5. \A c \in Known[s] : data'[c] = data[c]
  BY <1>2, <1>3, <1>4 DEF File
<1>6. ASSUME deps[s] # None, NEW in \in deps[s].inputs PROVE data'[in.file] \in {data[in.file], None}
  <2>1. in.file \in File
    BY <1>6 DEF TypeOK, ReadFile
  <2> QED BY <1>3, <2>1
<1>7. \A g \in Outputs : \/ g \in suspect' \/ data'[g] = None
                         \/ data'[g] = data[g] /\ g \notin suspect
  <2>1. suspect' = suspect \ RecordedOutputs
    BY DEF Rebuild
  <2> QED BY <1>3, <2>1 DEF File
<1>8. deps[s] # None => \A in \in deps[s].inputs :
        \/ mtime'[in.file] = mtime[in.file] /\ data'[in.file] \in {data[in.file], None}
        \/ mtime'[in.file] \in Nat /\ in.lastModified < mtime'[in.file]
  BY <1>3, <1>6
<1>9. deps'[s] = deps[s] /\ \A c \in Known[s] : mtime'[c] = mtime[c]
  BY <1>3
<1> QED BY <1>5, <1>7, <1>8, <1>9, Zenon DEF Leaves

LEMMA EditLeaves ==
  ASSUME TypeOK, TimesInv, NamesAll, Edits, NEW s \in Script
  PROVE  Leaves(s)
<1>1. PICK f \in Classes \cup File :
        /\ Replaces(f, clock + 1)
        /\ f \in Outputs => f \in suspect' \/ data'[f] = None
        /\ \A g : g # f => (g \in suspect' <=> g \in suspect)
  BY DEF Edits
<1>2. clock \in Nat /\ clock + 1 \in Nat /\ clock < clock + 1 /\ deps' = deps
  BY DEF Edits, TypeOK
<1>3. \A c \in Known[s] :
        \/ mtime'[c] = mtime[c] /\ data'[c] = data[c]
        \/ mtime'[c] \in Nat /\ clock < mtime'[c]
  BY <1>1, <1>2, UsesAreKnown DEF Replaces
<1>4. ASSUME deps[s] # None, NEW in \in deps[s].inputs
      PROVE  \/ mtime'[in.file] = mtime[in.file] /\ data'[in.file] \in {data[in.file], None}
             \/ mtime'[in.file] \in Nat /\ in.lastModified < mtime'[in.file]
  <2>1. in.file \in File /\ in.lastModified \in Nat /\ in.lastModified <= clock
    BY <1>4 DEF TypeOK, TimesInv, ReadFile
  <2>2. CASE in.file = f
    BY <1>1, <1>2, <2>1, <2>2 DEF Replaces
  <2>3. CASE in.file # f
    BY <1>1, <2>1, <2>3 DEF Replaces
  <2> QED BY <2>2, <2>3
<1>5. \A g \in Outputs : \/ g \in suspect' \/ data'[g] = None
                         \/ data'[g] = data[g] /\ g \notin suspect
  BY <1>1 DEF Replaces, File
<1>6. deps'[s] = deps[s]
  BY <1>2
<1> QED BY <1>3, <1>4, <1>5, <1>6, Zenon DEF Leaves

\* A script that has done all its steps has written all its files.
LEMMA AllWritten ==
  ASSUME TypeOK, PlaceInv, RunInv, ReadInv, SaveDependencyInfo
  PROVE  outputFiles = FilesWritten(Current)
<1>1. At /\ step > Len(Steps)
  BY DEF SaveDependencyInfo, At
<1>2. Steps = Plan(Current) /\ Len(Steps) \in Nat /\ step \in Nat /\ DOMAIN Steps = 1 .. Len(Steps)
  BY <1>1, RunningFacts, PlanFacts DEF TypeOK
<1>3. {k \in DOMAIN Steps : Steps[k].op = "write" /\ k < step} = Writes(Current)
  BY <1>1, <1>2 DEF Writes
<1> QED BY <1>1, <1>2, <1>3 DEF ReadInv, Reading, FilesWritten

\* The record that a script leaves is evidence, from what ReadInv says of the run.
LEMMA SavedIsEvidence ==
  ASSUME TypeOK, PlaceInv, RunInv, ReadInv, NamesAll, SaveDependencyInfo, NEW s \in Script, s = Current
  PROVE  Evidence(s)'
<1>1. /\ At /\ step > Len(Steps) /\ data' = data /\ mtime' = mtime /\ suspect' = suspect
      /\ deps'[s] = [lastModified |-> lastModified, inputs |-> inputFiles, outputs |-> outputFiles]
  BY DEF SaveDependencyInfo, At, diskVars, historyVars, TypeOK, SavedLastModified
<1>2. /\ Steps = Plan(s) /\ Len(Steps) \in Nat /\ step \in Nat /\ step = Len(Steps) + 1
      /\ DOMAIN Steps = 1 .. Len(Steps)
  BY <1>1, RunningFacts, PlanFacts DEF RunInv, TypeOK
<1>3. Plan(s)' = Plan(s)
  BY <1>1 DEF Plan
<1>4. Writes(s)' = Writes(s) /\ (\A k : Reads(s, k)' = Reads(s, k)) /\ FilesWritten(s)' = FilesWritten(s)
  BY <1>3 DEF Writes, Reads, FilesWritten
<1>5. \A k \in Writes(s) : k \in DOMAIN Steps /\ k \in Nat /\ k < step
  BY <1>2 DEF Writes
<1>6. outputFiles = FilesWritten(s)
  BY AllWritten
<1>7. \A j \in DOMAIN Plan(s) : Plan(s)[j].op = "read" => \E in \in inputFiles :
         /\ in.file = Plan(s)[j].file
         /\ data[in.file] = loaded[j] \/ in.lastModified < mtime[in.file]
  BY <1>1, <1>2 DEF ReadInv, Reading
<1>R. RegistersAll(s)' = RegistersAll(s)
  BY <1>3 DEF RegistersAll
<1>8. SUFFICES ASSUME \A in \in inputFiles : mtime[in.file] <= in.lastModified,
                      RegistersAll(s), NEW k \in Writes(s)
               PROVE  Holds(s, k)'
  BY <1>1, <1>3, <1>4, <1>6, <1>7, <1>R DEF Evidence, NothingNewer
<1>H. SUFFICES ASSUME Plan(s)[k].file \notin suspect, data[Plan(s)[k].file] # None PROVE Wrote(s, k)'
  BY <1>1, <1>3 DEF Holds
<1> DEFINE made == data[Plan(s)[k].file]
<1>9. made = [classes |-> [c \in Uses[s] |-> class[c]], reads |-> [j \in Reads(s, k) |-> loaded[j]]]
  BY <1>1, <1>2, <1>5, <1>H DEF ReadInv, Reading, Reads, Writes
<1>10. [c \in Uses[s] |-> class[c]] = [c \in Uses[s] |-> data[c]]
  BY <1>1, UsesAreKnown DEF PlaceInv, Compiled
<1>11. \A j \in Reads(s, k) : made.reads[j] = loaded[j]
  BY <1>9
<1>12. \A j \in Reads(s, k) : data[Plan(s)[j].file] = made.reads[j]
  <2> TAKE j \in Reads(s, k)
  <2>1. j \in DOMAIN Plan(s) /\ Plan(s)[j].op = "read"
    BY <1>1, <1>2, <1>5, <1>8, RunningFacts, PlanFacts DEF Reads, RegistersAll
  <2>2. PICK in \in inputFiles :
          /\ in.file = Plan(s)[j].file
          /\ data[in.file] = loaded[j] \/ in.lastModified < mtime[in.file]
    BY <2>1, <1>7
  <2>3. in.file \in File /\ in.lastModified \in Nat /\ mtime[in.file] \in Nat
    BY DEF TypeOK, ReadFile
  <2>4. data[in.file] = loaded[j]
    BY <2>2, <2>3, <1>8
  <2> QED BY <2>2, <2>4, <1>11
<1>13. made = [classes |-> [c \in Uses[s] |-> data[c]], reads |-> [j \in Reads(s, k) |-> made.reads[j]]]
  <2>1. [j \in Reads(s, k) |-> made.reads[j]] = [j \in Reads(s, k) |-> loaded[j]]
    BY <1>11
  <2> HIDE DEF made
  <2> QED BY <1>9, <1>10, <2>1
<1>14. Wrote(s, k)
  BY <1>12, <1>13 DEF Wrote
<1> QED BY <1>1, <1>14 DEF Wrote, Plan, Reads

LEMMA TimesGrow ==
  ASSUME TypeOK, PlaceInv, TimesInv, Edits \/ WriteFile \/ StopWriting \/ UNCHANGED mtime
  PROVE  mtime' \in [Classes \cup File -> Nat] /\ \A f \in Classes \cup File : mtime[f] <= mtime'[f]
<1>1. mtime \in [Classes \cup File -> Nat] /\ clock \in Nat
  BY DEF TypeOK
<1>2. CASE Edits
  BY <1>1, <1>2 DEF Edits, Replaces, TimesInv
<1>3. CASE WriteFile \/ StopWriting
  BY <1>1, <1>3, Writing DEF WritesFile, Replaces, TimesInv
<1>4. CASE UNCHANGED mtime
  BY <1>1, <1>4
<1> QED BY <1>2, <1>3, <1>4

\* What the running script reads is not what it writes, and it writes a file once.
LEMMA WritesElsewhere ==
  ASSUME TypeOK, PlaceInv, OwnInv, InOrder, WritesOnce, WriteFile \/ StopWriting
  PROVE  /\ \A j \in DOMAIN Steps : Steps[j].op = "read" => Steps[j].file # Steps[step].file
         /\ \A k \in DOMAIN Steps : Steps[k].op = "write" /\ k < step => Steps[k].file # Steps[step].file
         /\ \A in \in inputFiles : in.file # Steps[step].file
<1>1. /\ At /\ step \in DOMAIN Steps /\ Steps[step].op = "write" /\ Steps[step].file \in Outputs
      /\ May(Current, "write", Steps[step].file)
  BY Writing DEF WritesFile, Running
<1>2. script \in DOMAIN Scripts /\ Current \in Script /\ Steps = Plan(Current) /\ data[Current] \in Versions
  BY <1>1, RunningFacts DEF PlaceInv
<1>3. ~May(Current, "read", Steps[step].file)
  BY <1>1, <1>2, ScriptFacts DEF InOrder, Current
<1>4. \A j \in DOMAIN Steps : Steps[j].op = "read" => May(Current, "read", Steps[j].file)
  BY <1>2, PlanFacts
<1>5. \A k \in DOMAIN Steps : Steps[k].op = "write" /\ k < step => Steps[k].file # Steps[step].file
  <2> SUFFICES ASSUME NEW k \in DOMAIN Steps, Steps[k].op = "write", k < step, Steps[k].file = Steps[step].file
               PROVE  FALSE
    OBVIOUS
  <2>1. k = step
    BY <1>1, <1>2 DEF WritesOnce, Plan
  <2> QED BY <2>1, <1>1, <1>2, PlanFacts
<1>6. \A in \in inputFiles : in.file # Steps[step].file
  BY <1>1, <1>3 DEF OwnInv
<1> QED BY <1>3, <1>4, <1>5, <1>6

\* What the running script writes agrees with the record that still holds, or is torn
\* and suspect.
LEMMA WritingKeepsEvidence ==
  ASSUME TypeOK, PlaceInv, OwnInv, TimesInv, EvidenceInv, SeenInv, ReadInv,
         NamesAll, InOrder, WritesOnce, WriteFile \/ StopWriting, NEW s \in Script, s = Current
  PROVE  Evidence(s)'
<1> DEFINE f == Steps[step].file
<1>1. WritesFile /\ At /\ step \in DOMAIN Steps /\ f \in Outputs
  BY Writing
<1>2. /\ deps' = deps /\ class' = class /\ loaded' = loaded /\ Replaces(f, clock) /\ Steps[step].op = "write"
      /\ \A g : g # f => (g \in suspect' <=> g \in suspect)
  BY <1>1 DEF WritesFile, Running
<1>3. /\ Steps = Plan(s) /\ DOMAIN Plan(s) = 1 .. Len(Plan(s)) /\ Len(Plan(s)) \in Nat /\ step \in Nat
      /\ script \in DOMAIN Scripts /\ f \in File
      /\ \A k \in DOMAIN Plan(s) : Plan(s)[k].file \in File
  BY <1>1, RunningFacts, PlanFacts DEF PlaceInv, TypeOK, File
<1> HIDE DEF f
<1>4. SUFFICES ASSUME NothingNewer(s)' PROVE Evidence(s)'
  BY DEF Evidence
<1>5. NothingNewer(s) /\ Evidence(s)
  BY <1>2, <1>4, TimesGrow, NewerStays DEF EvidenceInv
<1>6. ~RunsAgain
  BY <1>3, <1>5, RecordHolds
<1>7. \A c \in Classes : data'[c] = data[c]
  BY <1>2, <1>3, BuilderAssumption DEF Replaces, File
<1>8. Plan(s)' = Plan(s)
  BY <1>7, ScriptFacts DEF Plan
<1>9. /\ Writes(s)' = Writes(s) /\ (\A k : Reads(s, k)' = Reads(s, k)) /\ FilesWritten(s)' = FilesWritten(s)
      /\ RegistersAll(s)' = RegistersAll(s)
  BY <1>8 DEF Writes, Reads, FilesWritten, RegistersAll
<1>10. ASSUME RegistersAll(s), NEW k \in Writes(s) PROVE Holds(s, k)'
  <2>1. k \in DOMAIN Plan(s) /\ Plan(s)[k].op = "write" /\ Plan(s)[k].file \in File
    BY <1>3 DEF Writes
  <2>2. \A j \in Reads(s, k) : /\ j \in DOMAIN Plan(s) /\ Plan(s)[j].op = "read"
                              /\ data'[Plan(s)[j].file] = data[Plan(s)[j].file]
    <3> TAKE j \in Reads(s, k)
    <3>1. j \in DOMAIN Plan(s) /\ Plan(s)[j].op = "read"
      BY <1>3, <1>10, <2>1, RunningFacts, PlanFacts DEF Reads, RegistersAll
    <3>2. Plan(s)[j].file # f
      BY <1>3, <3>1, WritesElsewhere DEF f
    <3> QED BY <1>2, <1>3, <3>1, <3>2 DEF Replaces
  <2>3. CASE Plan(s)[k].file # f
    <3>1. data'[Plan(s)[k].file] = data[Plan(s)[k].file] /\ (Plan(s)[k].file \in suspect' <=> Plan(s)[k].file \in suspect)
      BY <1>2, <2>1, <2>3 DEF Replaces
    <3>2. SUFFICES ASSUME Wrote(s, k) PROVE Wrote(s, k)'
      BY <1>5, <1>8, <1>10, <3>1 DEF Evidence, Holds
    <3>3. [c \in Uses[s] |-> data'[c]] = [c \in Uses[s] |-> data[c]]
      BY <1>7, UsesAreKnown
    <3>4. data'[Plan(s)[k].file] =
            [classes |-> [c \in Uses[s] |-> data'[c]],
             reads |-> [j \in Reads(s, k) |-> data'[Plan(s)[k].file].reads[j]]]
      BY <3>1, <3>2, <3>3 DEF Wrote
    <3>5. \A j \in Reads(s, k) : data'[Plan(s)[j].file] \in {None, data'[Plan(s)[k].file].reads[j]}
      BY <2>2, <3>1, <3>2 DEF Wrote
    <3> QED BY <1>8, <1>9, <3>4, <3>5 DEF Wrote
  <2>4. CASE Plan(s)[k].file = f /\ WriteFile
    <3>1. k = step
      <4>1. data[s] \in Versions
        BY <1>1, RunningFacts DEF PlaceInv
      <4> QED BY <1>1, <1>2, <1>3, <2>1, <2>4, <4>1 DEF WritesOnce, Plan, f
    <3>2. Reading(s, Steps, step)
      BY <1>1 DEF ReadInv
    <3>3. loaded = [j \in Reads(s, k) |-> loaded[j]]
      <4>1. {j \in 1 .. step - 1 : Steps[j].op # "write"} = Reads(s, k)
        BY <1>2, <1>3, <3>1 DEF Reads
      <4> QED BY <3>2, <4>1 DEF Reading
    <3>4. data'[f] = [classes |-> [c \in Uses[s] |-> data[c]], reads |-> loaded]
      <4>1. data'[f] = Result
        BY <1>3, <2>4 DEF WriteFile, TypeOK, f
      <4>2. [c \in Uses[s] |-> class[c]] = [c \in Uses[s] |-> data[c]]
        BY <1>1, UsesAreKnown DEF PlaceInv, Compiled
      <4> QED BY <4>1, <4>2 DEF Result
    <3>5. \A j \in Reads(s, k) : data'[Plan(s)[j].file] \in {None, loaded[j]}
      <4> TAKE j \in Reads(s, k)
      <4>1. j \in 1 .. step - 1
        BY <1>2, <1>3, <2>2, <3>1 DEF Reads
      <4> QED BY <1>1, <1>3, <1>5, <1>10, <2>2, <4>1 DEF SeenInv
    <3>6. [c \in Uses[s] |-> data'[c]] = [c \in Uses[s] |-> data[c]]
      BY <1>7, UsesAreKnown
    <3>7. data'[f].reads = loaded
      BY <3>4
    <3>8. data'[f] = [classes |-> [c \in Uses[s] |-> data'[c]], reads |-> [j \in Reads(s, k) |-> data'[f].reads[j]]]
      BY <3>3, <3>4, <3>6, <3>7
    <3>9. \A j \in Reads(s, k) : data'[Plan(s)[j].file] \in {None, data'[f].reads[j]}
      BY <3>5, <3>7
    <3>10. data'[Plan(s)[k].file] =
             [classes |-> [c \in Uses[s] |-> data'[c]],
              reads |-> [j \in Reads(s, k) |-> data'[Plan(s)[k].file].reads[j]]]
      BY <2>4, <3>8
    <3>11. \A j \in Reads(s, k) : data'[Plan(s)[j].file] \in {None, data'[Plan(s)[k].file].reads[j]}
      BY <2>4, <3>9
    <3>12. Wrote(s, k)'
      BY <1>8, <1>9, <3>10, <3>11 DEF Wrote
    <3> QED BY <3>12 DEF Holds
  <2>5. CASE Plan(s)[k].file = f /\ StopWriting
    <3>1. data'[f] = None \/ f \in suspect'
      BY <1>3, <1>6, <2>5 DEF StopWriting, TypeOK, f
    <3> QED BY <1>8, <2>5, <3>1 DEF Holds
  <2> QED BY <2>3, <2>4, <2>5
<1> QED BY <1>2, <1>5, <1>8, <1>9, <1>10 DEF Evidence

LEMMA EvidenceStep ==
  ASSUME TypeOK, PlaceInv, OwnInv, TimesInv, EvidenceInv, RunInv, SeenInv, ReadInv,
         NamesAll, KeepsClasses, InOrder, WritesOnce, [Next]_vars
  PROVE  EvidenceInv'
<1> SUFFICES ASSUME NEW s \in Script PROVE Evidence(s)'
  BY DEF EvidenceInv
<1>0. Evidence(s) /\ (Leaves(s) => Evidence(s)')
  BY EvidenceKept DEF EvidenceInv
<1>1. ASSUME UNCHANGED <<data, mtime, suspect>>, deps'[s] = deps[s] PROVE Leaves(s)
  BY <1>1 DEF Leaves
<1>3. CASE UNCHANGED <<data, mtime, deps, suspect>>
  BY <1>0, <1>1, <1>3
<1>4. CASE Edits
  BY <1>0, <1>4, EditLeaves
<1>5. CASE Rebuild
  BY <1>0, <1>5, RebuildLeaves
<1>6. CASE WriteFile \/ StopWriting
  BY <1>0, <1>6, WritingLeavesOthers, WritingKeepsEvidence
<1>7. CASE SaveDependencyInfo
  <2>1. CASE s # Current
    BY <1>0, <1>1, <1>7, <2>1 DEF SaveDependencyInfo, diskVars, historyVars, TypeOK
  <2>2. CASE s = Current
    BY <1>7, <2>2, SavedIsEvidence
  <2> QED BY <2>1, <2>2
<1>8. CASE StopSaving
  <2>1. CASE s # Current
    BY <1>0, <1>1, <1>8, <2>1 DEF StopSaving, TypeOK
  <2>2. CASE s = Current
    BY <1>8, <2>2 DEF StopSaving, TypeOK, Evidence, NothingNewer
  <2> QED BY <2>1, <2>2
<1>9. CASE UNCHANGED vars \/ StartBuild \/ Compile \/ Finish \/ Return \/ Skip \/ RegisterInputFile \/ LoadFile \/ Peek
           \/ FailToLoad \/ StopAnywhere
  BY <1>9, <1>3 DEF vars, diskVars, historyVars, StartBuild, Compile, Finish, Return, Skip, RegisterInputFile, LoadFile,
     Peek, FailToLoad, StopAnywhere
<1> QED BY StepCases, <1>4, <1>5, <1>6, <1>7, <1>8, <1>9

-----------------------------------------------------------------------------
(* The script that runs.                                                   *)

LEMMA RunInit == Init => RunInv /\ SeenInv /\ ReadInv /\ QuietInv
BY DEF Init, RunInv, SeenInv, ReadInv, QuietInv, At

LEMMA RunStep ==
  ASSUME TypeOK, PlaceInv, TimesInv, RunInv, NamesAll, KeepsClasses, [Next]_vars
  PROVE  RunInv'
<1>0. Classes \cap File = {} /\ Outputs \subseteq File /\ Inputs \subseteq File
  BY BuilderAssumption DEF File
<1>1. CASE UNCHANGED vars
  BY <1>1 DEF RunInv, At, vars, diskVars, runVars, Current, Steps
<1>2. CASE Edits
  <2>1. SUFFICES ASSUME At PROVE RunInv'
    BY <1>2 DEF RunInv, At, Edits
  <2>2. PICK f \in File : Replaces(f, clock + 1)
    BY <1>2, <2>1 DEF Edits, At
  <2>3. UNCHANGED <<pc, script, class, deps, step, lastModified, inputFiles>>
    BY <1>2 DEF Edits, runVars
  <2>5. \A c \in Known[Current] : mtime'[c] = mtime[c]
    BY <1>0, <2>1, <2>2, RunningFacts, UsesAreKnown DEF Replaces
  <2> QED BY <2>1, <2>3, <2>5 DEF RunInv, At, Current, Steps
<1>3. CASE Rebuild
  <2>1. Building /\ Changed /\ UNCHANGED <<mtime, deps, class, script>> /\ pc' = "run" /\ step' = 1
        /\ lastModified' = SourcesModified(Current)
    BY <1>3 DEF Rebuild, FirstStep
  <2>2. Current \in Script /\ Current' = Current /\ Compiled
    BY <2>1, ScriptFacts DEF Building, Current, Compiled
  <2>3. Steps' = Plan(Current)
    BY <2>1, <2>2, ScriptFacts DEF Steps, Current, Plan, PlaceInv
  <2>5. \A c \in Known[Current] : mtime[c] <= lastModified'
    BY <2>1, <2>2, SourcesModifiedIs
  <2>6. Len(Steps') \in Nat
    BY <2>2, <2>3, PlanFacts
  <2> QED BY <2>1, <2>2, <2>5, <2>6 DEF RunInv
<1>4. CASE RegisterInputFile \/ LoadFile \/ Peek
  <2>1. At /\ UNCHANGED <<script, class, deps, mtime, lastModified>>
    BY <1>4 DEF RegisterInputFile, LoadFile, Peek, Running, At, diskVars
  <2>3. Len(Steps) \in Nat /\ step \in Nat /\ Current' = Current /\ Steps' = Steps
    BY <2>1, RunningFacts, PlanFacts DEF TypeOK, Current, Steps
  <2>4. CASE RegisterInputFile
    <3>1. \E in \in inputFiles' : in.file = Steps[step].file
      <4> DEFINE new == [file |-> Steps[step].file, lastModified |-> mtime[Steps[step].file]]
      <4>1. new \in inputFiles' /\ new.file = Steps[step].file
        BY <2>4 DEF RegisterInputFile
      <4> QED BY <4>1
    <3> QED BY <2>1, <2>3, <2>4, <3>1 DEF RunInv, RegisterInputFile, Running
  <2>5. CASE LoadFile
    BY <2>1, <2>3, <2>5 DEF RunInv, LoadFile
  <2>6. CASE Peek
    BY <2>1, <2>3, <2>6 DEF RunInv, Peek, Running
  <2> QED BY <1>4, <2>4, <2>5, <2>6
<1>5. CASE WriteFile
  <2>1. At /\ WritesFile /\ Steps[step].file \in Outputs /\ step \in DOMAIN Steps /\ pc' = "run" /\ step' = step + 1
    BY <1>5, Writing DEF WriteFile, Running
  <2>2. UNCHANGED <<script, class, deps, lastModified>>
    BY <2>1 DEF WritesFile
  <2>4. \A c \in Known[Current] : mtime'[c] = mtime[c]
    BY <1>0, <2>1, RunningFacts, UsesAreKnown DEF Replaces, WritesFile
  <2>5. Len(Steps) \in Nat /\ step <= Len(Steps) /\ step \in Nat /\ Current' = Current /\ Steps' = Steps
    BY <2>1, <2>2, RunningFacts, PlanFacts DEF TypeOK, Current, Steps
  <2> QED BY <2>1, <2>2, <2>4, <2>5 DEF RunInv
<1>6. CASE StartBuild \/ Compile \/ Finish \/ Return \/ Skip \/ SaveDependencyInfo
           \/ FailToLoad \/ StopAnywhere \/ StopWriting \/ StopSaving
  <2>1. ~At'
    BY <1>6 DEF At, StartBuild, Compile, Finish, Return, Skip, NextScript, SaveDependencyInfo,
       FailToLoad, StopAnywhere, StopWriting, StopSaving, Stop
  <2> QED BY <2>1 DEF RunInv
<1> QED BY StepCases, <1>1, <1>2, <1>3, <1>4, <1>5, <1>6

\* While the record of the running script holds, what it has read does not change.
LEMMA SeenStep ==
  ASSUME TypeOK, PlaceInv, OwnInv, TimesInv, EvidenceInv, RunInv, SeenInv, ReadInv,
         NamesAll, KeepsClasses, InOrder, WritesOnce, [Next]_vars
  PROVE  SeenInv'
<1> SUFFICES ASSUME At', NothingNewer(Current)', RegistersAll(Current)',
                    NEW j \in 1 .. step' - 1, Steps'[j].op = "read"
             PROVE  data'[Steps'[j].file] \in {None, loaded'[j]}
  BY DEF SeenInv
<1> DEFINE s == Current
<1>1. CASE Rebuild
  BY <1>1 DEF Rebuild, FirstStep
<1>2. CASE StartBuild \/ Compile \/ Finish \/ Return \/ Skip \/ SaveDependencyInfo
           \/ FailToLoad \/ StopAnywhere \/ StopWriting \/ StopSaving
  BY <1>2 DEF At, StartBuild, Compile, Finish, Return, Skip, NextScript, SaveDependencyInfo,
     FailToLoad, StopAnywhere, StopWriting, StopSaving, Stop
<1>3. CASE UNCHANGED vars \/ Edits \/ RegisterInputFile \/ LoadFile \/ Peek \/ WriteFile
  <2>1. At /\ UNCHANGED <<script, class, deps>>
    BY <1>3, Writing DEF vars, runVars, diskVars, Edits, RegisterInputFile, LoadFile, Peek, WriteFile, WritesFile,
       Running, At
  <2>2. /\ s \in Script /\ s' = s /\ Steps' = Steps /\ Steps = Plan(s) /\ Len(Steps) \in Nat
        /\ DOMAIN Steps = 1 .. Len(Steps) /\ step \in Nat /\ step <= Len(Steps) + 1
    BY <2>1, RunningFacts, PlanFacts DEF Current, Steps, TypeOK, RunInv
  <2>3. Plan(s)' = Plan(s)
    <3>1. Compiled /\ Compiled' /\ PlaceInv'
      BY <2>1, PlaceStep DEF Compiled
    <3>2. data'[s] = data[s]
      BY <2>1, <2>2, <3>1, ScriptFacts DEF PlaceInv
    <3> QED BY <2>2, <3>2 DEF Plan
  <2>4. RegistersAll(s) /\ NothingNewer(s)'
    BY <2>2, <2>3 DEF RegistersAll, NothingNewer
  <2>5. NothingNewer(s)
    <3>1. Edits \/ WriteFile \/ UNCHANGED mtime
      BY <1>3 DEF vars, diskVars, RegisterInputFile, LoadFile, Peek
    <3> QED BY <2>1, <2>2, <2>4, <3>1, TimesGrow, NewerStays
  <2>6. ASSUME NEW k \in 1 .. step - 1, Steps[k].op = "read"
        PROVE  data[Steps[k].file] \in {None, loaded[k]} /\ k \in DOMAIN Steps /\ k \in DOMAIN loaded
    BY <2>1, <2>2, <2>4, <2>5, <2>6 DEF SeenInv, ReadInv, Reading
  <2>7. CASE UNCHANGED vars \/ RegisterInputFile
    <3>1. UNCHANGED <<data, step, loaded>>
      BY <2>7 DEF vars, runVars, diskVars, RegisterInputFile
    <3> QED BY <2>2, <2>6, <3>1
  <2>8. CASE LoadFile \/ Peek
    <3>1. data' = data /\ step' = step + 1 /\ Load
      BY <2>8 DEF LoadFile, Peek, diskVars
    <3>2. CASE j = step
      BY <2>2, <3>1, <3>2 DEF Load
    <3>3. CASE j # step
      <4>1. j \in 1 .. step - 1 /\ Steps[j].op = "read"
        BY <2>2, <3>1, <3>3
      <4>2. loaded'[j] = loaded[j]
        BY <2>6, <3>1, <3>3, <4>1 DEF Load
      <4> QED BY <2>2, <2>6, <3>1, <4>1, <4>2
    <3> QED BY <3>2, <3>3
  <2>9. CASE Edits
    <3>1. PICK f \in Classes \cup File : Replaces(f, clock + 1)
      BY <2>9 DEF Edits
    <3>2. UNCHANGED <<step, loaded>>
      BY <2>9 DEF Edits, runVars
    <3>3. j \in 1 .. step - 1 /\ Steps[j].op = "read" /\ j \in DOMAIN Steps
      BY <2>2, <2>6, <3>2
    <3>4. PICK in \in deps[s].inputs : in.file = Steps[j].file
      BY <2>2, <2>5, <3>3 DEF EvidenceInv, Evidence
    <3>5. in.file \in File /\ in.lastModified \in Nat /\ in.lastModified <= clock /\ clock \in Nat
      BY <2>2, <2>5 DEF NothingNewer, TypeOK, TimesInv, ReadFile
    <3>6. mtime'[in.file] <= in.lastModified
      BY <2>1, <2>2, <2>4 DEF NothingNewer
    <3>7. in.file # f
      BY <3>1, <3>5, <3>6 DEF Replaces
    <3>8. data'[in.file] = data[in.file]
      BY <3>1, <3>5, <3>7 DEF Replaces
    <3> QED BY <2>2, <2>6, <3>2, <3>3, <3>4, <3>8
  <2>10. CASE WriteFile
    <3>1. /\ WritesFile /\ step \in DOMAIN Steps /\ step' = step + 1 /\ Steps[step].op = "write"
          /\ loaded' = loaded /\ Replaces(Steps[step].file, clock)
      BY <2>10, Writing DEF WriteFile, WritesFile, Running
    <3>2. j \in 1 .. step - 1 /\ Steps[j].op = "read" /\ j \in DOMAIN Steps
      BY <2>2, <2>6, <3>1
    <3>3. Steps[j].file # Steps[step].file /\ Steps[j].file \in File
      BY <2>2, <2>10, <3>2, WritesElsewhere, PlanFacts
    <3>4. data'[Steps[j].file] = data[Steps[j].file]
      BY <3>1, <3>3 DEF Replaces
    <3> QED BY <2>2, <2>6, <3>1, <3>2, <3>4
  <2> QED BY <1>3, <2>7, <2>8, <2>9, <2>10
<1> QED BY StepCases, <1>1, <1>2, <1>3

\* A step that leaves alone what the script has done so far.
LEMMA ReadingKept ==
  ASSUME Reading(Current, Steps, step), UNCHANGED <<script, class, step, outputFiles, loaded>>,
         \A j \in 1 .. step - 1 : Steps[j].op = "read" => \E in \in inputFiles' :
           /\ in.file = Steps[j].file
           /\ data'[in.file] = loaded[j] \/ in.lastModified < mtime'[in.file],
         \A k \in DOMAIN Steps : Steps[k].op = "write" =>
           \/ Steps[k].file \in suspect' \/ data'[Steps[k].file] = None
           \/ data'[Steps[k].file] = data[Steps[k].file] /\ Steps[k].file \notin suspect
  PROVE  ReadInv'
<1>1. Current' = Current /\ Steps' = Steps
  BY DEF Current, Steps
<1>2. loaded = [j \in {j \in 1 .. step - 1 : Steps[j].op # "write"} |-> loaded[j]]
  BY DEF Reading
<1>3. outputFiles = {Steps[k].file : k \in {k \in DOMAIN Steps : Steps[k].op = "write" /\ k < step}}
  BY DEF Reading
<1>4. \A k \in DOMAIN Steps : Steps[k].op = "write" /\ k < step =>
        \/ Steps[k].file \in suspect' \/ data'[Steps[k].file] = None
        \/ data'[Steps[k].file] = [classes |-> [c \in Uses[Current] |-> class[c]],
                                   reads |-> [j \in {j \in 1 .. k : Steps[j].op # "write"} |-> loaded[j]]]
  BY DEF Reading
<1>5. loaded' = [j \in {j \in 1 .. step' - 1 : Steps'[j].op # "write"} |-> loaded'[j]]
  BY <1>1, <1>2
<1>6. outputFiles' = {Steps'[k].file : k \in {k \in DOMAIN Steps' : Steps'[k].op = "write" /\ k < step'}}
  BY <1>1, <1>3
<1>7. \A k \in DOMAIN Steps' : Steps'[k].op = "write" /\ k < step' =>
        \/ Steps'[k].file \in suspect' \/ data'[Steps'[k].file] = None
        \/ data'[Steps'[k].file] = [classes |-> [c \in Uses[Current'] |-> class'[c]],
                                    reads |-> [j \in {j \in 1 .. k : Steps'[j].op # "write"} |-> loaded'[j]]]
  BY <1>1, <1>4
<1>8. \A j \in 1 .. step' - 1 : Steps'[j].op = "read" => \E in \in inputFiles' :
        /\ in.file = Steps'[j].file
        /\ data'[in.file] = loaded'[j] \/ in.lastModified < mtime'[in.file]
  BY <1>1
<1> QED BY <1>5, <1>6, <1>7, <1>8 DEF ReadInv, Reading

LEMMA ReadStep ==
  ASSUME TypeOK, PlaceInv, OwnInv, TimesInv, RunInv, ReadInv,
         NamesAll, KeepsClasses, InOrder, WritesOnce, [Next]_vars
  PROVE  ReadInv'
<1>0. Classes \cap File = {} /\ Outputs \subseteq File /\ Inputs \subseteq File /\ Inputs \cap Outputs = {}
  BY BuilderAssumption DEF File
<1>S. ASSUME At
      PROVE  /\ Current \in Script /\ Len(Steps) \in Nat /\ DOMAIN Steps = 1 .. Len(Steps) /\ step \in Nat \ {0}
             /\ step <= Len(Steps) + 1
             /\ \A k \in DOMAIN Steps : /\ Steps[k].op \in {"read", "peek", "write"} /\ Steps[k].file \in File
                                        /\ Steps[k].op = "write" => Steps[k].file \in Outputs
             /\ Reading(Current, Steps, step)
  BY <1>S, RunningFacts, PlanFacts DEF TypeOK, RunInv, ReadInv
<1>1. CASE UNCHANGED vars
  <2>1. SUFFICES ASSUME At PROVE ReadInv'
    BY <1>1 DEF ReadInv, At, vars
  <2> QED BY <1>1, <1>S, <2>1, ReadingKept DEF Reading, vars, diskVars, runVars, historyVars
<1>2. CASE Edits
  <2>1. SUFFICES ASSUME At PROVE ReadInv'
    BY <1>2 DEF ReadInv, At, Edits
  <2>2. PICK f \in File : /\ Replaces(f, clock + 1)
                          /\ f \in Outputs => f \in suspect' \/ data'[f] = None
                          /\ \A g : g # f => (g \in suspect' <=> g \in suspect)
    BY <1>2, <2>1 DEF Edits, At
  <2>3. UNCHANGED <<script, class, step, inputFiles, outputFiles, loaded>> /\ clock \in Nat
    BY <1>2 DEF Edits, runVars, TypeOK
  <2>5. ASSUME NEW j \in 1 .. step - 1, Steps[j].op = "read"
        PROVE  \E in \in inputFiles :
                 /\ in.file = Steps[j].file
                 /\ data'[in.file] = loaded[j] \/ in.lastModified < mtime'[in.file]
    <3>1. PICK in \in inputFiles : /\ in.file = Steps[j].file
                                   /\ data[in.file] = loaded[j] \/ in.lastModified < mtime[in.file]
      BY <1>S, <2>1, <2>5 DEF Reading
    <3>2. in.file \in File /\ in.lastModified \in Nat /\ in.lastModified <= clock
      BY <2>1 DEF TypeOK, ReadFile, TimesInv
    <3>3. CASE in.file = f
      BY <2>2, <2>3, <3>1, <3>2, <3>3 DEF Replaces
    <3>4. CASE in.file # f
      BY <2>2, <3>1, <3>2, <3>4 DEF Replaces
    <3> QED BY <3>3, <3>4
  <2>6. \A k \in DOMAIN Steps : Steps[k].op = "write" =>
          \/ Steps[k].file \in suspect' \/ data'[Steps[k].file] = None
          \/ data'[Steps[k].file] = data[Steps[k].file] /\ Steps[k].file \notin suspect
    BY <1>0, <1>S, <2>1, <2>2 DEF Replaces
  <2>7. Reading(Current, Steps, step)
    BY <1>S, <2>1
  <2> QED BY <2>3, <2>5, <2>6, <2>7, ReadingKept
<1>3. CASE Rebuild
  <2>1. /\ pc' = "run" /\ step' = 1 /\ inputFiles' = {} /\ outputFiles' = {} /\ loaded' = Nothing
        /\ Building /\ UNCHANGED <<script, class>>
    BY <1>3 DEF Rebuild, FirstStep
  <2>2. Current \in Script /\ Steps' = Plan(Current)
    BY <2>1, ScriptFacts DEF Building, Current, Compiled, Steps, Plan, PlaceInv
  <2>3. DOMAIN Steps' = 1 .. Len(Plan(Current))
    BY <2>2, PlanFacts
  <2>4. {j \in 1 .. step' - 1 : Steps'[j].op # "write"} = {}
        /\ {k \in DOMAIN Steps' : Steps'[k].op = "write" /\ k < step'} = {}
    BY <2>1, <2>3
  <2>5. loaded' = [j \in {} |-> loaded'[j]]
    BY <2>1 DEF Nothing
  <2> QED BY <2>1, <2>3, <2>4, <2>5 DEF ReadInv, Reading
<1>4. CASE RegisterInputFile
  <2>1. /\ At /\ UNCHANGED <<data, mtime, suspect, class, script, step, outputFiles, loaded>> /\ inputFiles \subseteq inputFiles'
    BY <1>4 DEF RegisterInputFile, Running, At, diskVars, historyVars
  <2>2. Reading(Current, Steps, step)
    BY <1>S, <2>1
  <2> QED BY <2>1, <2>2, ReadingKept DEF Reading
<1>5. CASE LoadFile \/ Peek
  <2>1. /\ At /\ UNCHANGED <<data, mtime, suspect, class, script, outputFiles, inputFiles>> /\ step' = step + 1
        /\ Load
    BY <1>5 DEF LoadFile, Peek, Running, At, diskVars, historyVars
  <2>2. Reading(Current, Steps, step)
    BY <1>S, <2>1
  <2>3. /\ step \in DOMAIN Steps /\ Steps[step].op # "write"
        /\ Steps[step].op = "read" => \E in \in inputFiles : in.file = Steps[step].file
    <3>1. CASE LoadFile
      BY <1>S, <2>1, <3>1 DEF RunInv, LoadFile
    <3>2. CASE Peek
      BY <1>S, <2>1, <3>2 DEF Peek, Running
    <3> QED BY <1>5, <3>1, <3>2
  <2>4. Current' = Current /\ Steps' = Steps
    BY <2>1 DEF Current, Steps
  <2>5. {j \in 1 .. step' - 1 : Steps[j].op # "write"} = {j \in 1 .. step - 1 : Steps[j].op # "write"} \cup {step}
    BY <1>S, <2>1, <2>3
  <2>6. DOMAIN loaded = {j \in 1 .. step - 1 : Steps[j].op # "write"}
    BY <2>2 DEF Reading
  <2>7. /\ loaded' = [j \in DOMAIN loaded \cup {step} |-> loaded'[j]]
        /\ loaded'[step] = data[Steps[step].file]
        /\ \A j \in DOMAIN loaded : loaded'[j] = loaded[j]
    <3>1. step \notin DOMAIN loaded
      BY <1>S, <2>1, <2>6
    <3> QED BY <2>1, <3>1 DEF Load
  <2>8. ASSUME NEW j \in 1 .. step' - 1, Steps[j].op = "read"
        PROVE  \E in \in inputFiles :
                 /\ in.file = Steps[j].file
                 /\ data[in.file] = loaded'[j] \/ in.lastModified < mtime[in.file]
    <3>1. CASE j = step
      BY <2>3, <2>7, <2>8, <3>1
    <3>2. CASE j # step
      <4>1. j \in 1 .. step - 1 /\ loaded'[j] = loaded[j]
        BY <1>S, <2>1, <2>6, <2>7, <2>8, <3>2
      <4> QED BY <2>2, <2>8, <4>1 DEF Reading
    <3> QED BY <3>1, <3>2
  <2>9. \A k \in DOMAIN Steps : Steps[k].op = "write" /\ k < step' => k < step
    BY <1>S, <2>1, <2>3
  <2>10. {k \in DOMAIN Steps : Steps[k].op = "write" /\ k < step'}
           = {k \in DOMAIN Steps : Steps[k].op = "write" /\ k < step}
    BY <1>S, <2>1, <2>9
  <2>11. ASSUME NEW k \in DOMAIN Steps, Steps[k].op = "write", k < step
         PROVE  [j \in {j \in 1 .. k : Steps[j].op # "write"} |-> loaded'[j]]
                  = [j \in {j \in 1 .. k : Steps[j].op # "write"} |-> loaded[j]]
    <3>1. \A j \in 1 .. k : Steps[j].op # "write" => j \in DOMAIN loaded
      BY <1>S, <2>1, <2>6, <2>11
    <3> QED BY <2>7, <3>1
  <2>12. loaded' = [j \in {j \in 1 .. step' - 1 : Steps[j].op # "write"} |-> loaded'[j]]
    BY <2>5, <2>6, <2>7
  <2>13. \A k \in DOMAIN Steps : Steps[k].op = "write" /\ k < step' =>
           \/ Steps[k].file \in suspect \/ data[Steps[k].file] = None
           \/ data[Steps[k].file] = [classes |-> [c \in Uses[Current] |-> class[c]],
                                     reads |-> [j \in {j \in 1 .. k : Steps[j].op # "write"} |-> loaded'[j]]]
    BY <2>2, <2>9, <2>11 DEF Reading
  <2>14. outputFiles = {Steps[k].file : k \in {k \in DOMAIN Steps : Steps[k].op = "write" /\ k < step'}}
    BY <2>2, <2>10 DEF Reading
  <2> QED BY <2>1, <2>4, <2>8, <2>12, <2>13, <2>14 DEF ReadInv, Reading
<1>6. CASE WriteFile
  <2>1. /\ At /\ WritesFile /\ step \in DOMAIN Steps /\ Steps[step].file \in Outputs /\ step' = step + 1
        /\ outputFiles' = outputFiles \cup {Steps[step].file} /\ data' = [data EXCEPT ![Steps[step].file] = Result]
    BY <1>6, Writing DEF WriteFile, RegisterOutputFile
  <2>2. /\ UNCHANGED <<class, script, inputFiles, loaded>> /\ Replaces(Steps[step].file, clock)
        /\ Steps[step].op = "write" /\ \A f : f # Steps[step].file => (f \in suspect' <=> f \in suspect)
    BY <2>1 DEF WritesFile, Running
  <2>3. Reading(Current, Steps, step)
    BY <1>S, <2>1
  <2>4. Current' = Current /\ Steps' = Steps
    BY <2>2 DEF Current, Steps
  <2>5. \A n \in {step' - 1, step} :
          {j \in 1 .. n : Steps[j].op # "write"} = {j \in 1 .. step - 1 : Steps[j].op # "write"}
    BY <1>S, <2>1, <2>2
  <2>6. loaded' = [j \in {j \in 1 .. step' - 1 : Steps[j].op # "write"} |-> loaded'[j]]
    BY <2>2, <2>3, <2>5 DEF Reading
  <2>7. ASSUME NEW j \in 1 .. step' - 1, Steps[j].op = "read"
        PROVE  \E in \in inputFiles :
                 /\ in.file = Steps[j].file
                 /\ data'[in.file] = loaded[j] \/ in.lastModified < mtime'[in.file]
    <3>1. j \in 1 .. step - 1
      BY <1>S, <2>1, <2>2, <2>7
    <3>2. PICK in \in inputFiles : /\ in.file = Steps[j].file
                                   /\ data[in.file] = loaded[j] \/ in.lastModified < mtime[in.file]
      BY <2>3, <2>7, <3>1 DEF Reading
    <3>3. in.file \in File /\ in.file # Steps[step].file
      BY <1>6, WritesElsewhere DEF TypeOK, ReadFile
    <3>4. data'[in.file] = data[in.file] /\ mtime'[in.file] = mtime[in.file]
      BY <2>2, <3>3 DEF Replaces
    <3> QED BY <3>2, <3>4
  <2>8. {k \in DOMAIN Steps : Steps[k].op = "write" /\ k < step'}
          = {k \in DOMAIN Steps : Steps[k].op = "write" /\ k < step} \cup {step}
    BY <1>S, <2>1, <2>2
  <2>9. outputFiles' = {Steps[k].file : k \in {k \in DOMAIN Steps : Steps[k].op = "write" /\ k < step'}}
    BY <2>1, <2>3, <2>8 DEF Reading
  <2>10. ASSUME NEW k \in DOMAIN Steps, Steps[k].op = "write", k < step'
         PROVE  \/ Steps[k].file \in suspect' \/ data'[Steps[k].file] = None
                \/ data'[Steps[k].file] = [classes |-> [c \in Uses[Current] |-> class[c]],
                                          reads |-> [j \in {j \in 1 .. k : Steps[j].op # "write"} |-> loaded[j]]]
    <3>1. CASE k = step
      <4>1. loaded = [j \in {j \in 1 .. k : Steps[j].op # "write"} |-> loaded[j]]
        BY <2>3, <2>5, <3>1 DEF Reading
      <4>2. data'[Steps[k].file] = Result
        BY <1>0, <2>1, <3>1 DEF TypeOK
      <4> QED BY <4>1, <4>2 DEF Result
    <3>2. CASE k # step
      <4>1. k < step
        BY <1>S, <2>1, <2>10, <3>2
      <4>2. Steps[k].file # Steps[step].file /\ Steps[k].file \in File
        BY <1>6, <1>S, <2>1, <2>10, <4>1, WritesElsewhere
      <4>3. data'[Steps[k].file] = data[Steps[k].file]
        BY <2>2, <4>2 DEF Replaces
      <4> QED BY <2>2, <2>3, <2>10, <4>1, <4>2, <4>3 DEF Reading
    <3> QED BY <3>1, <3>2
  <2> QED BY <2>2, <2>4, <2>6, <2>7, <2>9, <2>10 DEF ReadInv, Reading
<1>7. CASE StartBuild \/ Compile \/ Finish \/ Return \/ Skip \/ SaveDependencyInfo
           \/ FailToLoad \/ StopAnywhere \/ StopWriting \/ StopSaving
  <2>1. ~At'
    BY <1>7 DEF At, StartBuild, Compile, Finish, Return, Skip, NextScript, SaveDependencyInfo,
       FailToLoad, StopAnywhere, StopWriting, StopSaving, Stop
  <2> QED BY <2>1 DEF ReadInv
<1> QED BY StepCases, <1>1, <1>2, <1>3, <1>4, <1>5, <1>6, <1>7

-----------------------------------------------------------------------------
(* A build that is not disturbed.                                          *)

\* What the running script does to the files is of no concern to those before it.
LEMMA UpToDateStays ==
  ASSUME TypeOK, PlaceInv, OwnInv, InOrder, NamesAll, Rebuild \/ WriteFile,
         NEW n \in DOMAIN Scripts, n < script, UpToDate(Scripts[n])
  PROVE  UpToDate(Scripts[n])'
<1> DEFINE s == Scripts[n]
<1>0. s \in Script /\ script \in DOMAIN Scripts /\ n \in Int /\ script \in Int
  <2>1. script \in DOMAIN Scripts
    BY Writing DEF Rebuild, Building, PlaceInv
  <2> QED BY <2>1, ScriptFacts
<1>1. deps[s] # None /\ deps' = deps
  BY Writing DEF UpToDate, NothingNewer, Rebuild, WritesFile
<1>2. \A in \in deps[s].inputs : in.file \in File /\ May(s, "read", in.file)
  BY <1>0, <1>1 DEF TypeOK, OwnInv, ReadFile
<1>3. \A f \in Outputs : May(Current, "write", f) => ~May(s, "read", f) /\ ~May(s, "write", f)
  BY <1>0 DEF InOrder, Current
<1>7. \A out \in deps[s].outputs : out \in Outputs /\ out \in File /\ May(s, "write", out)
  BY <1>0, <1>1 DEF TypeOK, OwnInv, File
<1>4. Classes \cap File = {} /\ Known[s] \subseteq Classes
  BY <1>0, UsesAreKnown, BuilderAssumption DEF File
<1>5. /\ \A c \in Known[s] : mtime'[c] = mtime[c]
      /\ \A in \in deps[s].inputs : mtime'[in.file] = mtime[in.file] /\ data'[in.file] = data[in.file]
      /\ \A out \in deps[s].outputs : data'[out] = data[out]
  <2>1. CASE Rebuild
    <3>1. \A f \in RecordedOutputs : f \in Outputs /\ May(Current, "write", f)
      BY <1>0, ScriptFacts DEF RecordedOutputs, Recorded, TypeOK, OwnInv, Current
    <3>2. mtime' = mtime /\ \A f \in Classes \cup File : f \notin RecordedOutputs => data'[f] = data[f]
      BY <2>1 DEF Rebuild, TypeOK
    <3> QED BY <1>2, <1>3, <1>7, <3>1, <3>2
  <2>2. CASE WriteFile
    <3>1. /\ Replaces(Steps[step].file, clock)
          /\ Steps[step].file \in Outputs /\ May(Current, "write", Steps[step].file)
      BY <2>2, Writing DEF WritesFile
    <3>2. Steps[step].file \in File
      BY <3>1 DEF File
    <3>3. \A c \in Known[s] : mtime'[c] = mtime[c]
      BY <1>4, <3>1, <3>2 DEF Replaces
    <3>4. \A in \in deps[s].inputs : in.file # Steps[step].file
      BY <1>2, <1>3, <3>1
    <3>5. \A out \in deps[s].outputs : out # Steps[step].file
      BY <1>3, <1>7, <3>1
    <3> QED BY <1>2, <1>7, <3>1, <3>3, <3>4, <3>5 DEF Replaces
  <2> QED BY <2>1, <2>2
<1> HIDE DEF s
<1>6. UpToDate(s) => UpToDate(s)'
  BY <1>1, <1>5 DEF UpToDate, NothingNewer
<1> QED BY <1>6 DEF s

LEMMA QuietStep ==
  ASSUME TypeOK, PlaceInv, OwnInv, TimesInv, RunInv, QuietInv,
         NamesAll, KeepsClasses, InOrder, WritesOnce, NoneIsNoContent, [Next]_vars
  PROVE  QuietInv'
<1> USE DEF At, Compiled
<1>0. /\ Len(Scripts) \in Nat /\ DOMAIN Scripts = 1 .. Len(Scripts)
      /\ \A n \in DOMAIN Scripts : Scripts[n] \in Script
      /\ \A m, n \in DOMAIN Scripts : Scripts[m] = Scripts[n] => m = n
      /\ script \in Nat
  BY ScriptFacts, BuilderAssumption DEF TypeOK
<1>1. CASE UNCHANGED vars
  BY <1>1 DEF QuietInv, UpToDate, NothingNewer, vars, diskVars, runVars, historyVars
<1>2. CASE Edits
  BY <1>2 DEF QuietInv, Edits
<1>3. CASE StartBuild \/ Return \/ FailToLoad \/ StopAnywhere \/ StopWriting \/ StopSaving
  BY <1>3 DEF QuietInv, StartBuild, Return, FailToLoad, StopAnywhere, StopWriting, StopSaving, Stop
<1>4. CASE Compile
  BY <1>0, <1>4 DEF QuietInv, Compile
<1>5. CASE Finish
  BY <1>5 DEF QuietInv, UpToDate, NothingNewer, Finish, diskVars, runVars
<1>6. CASE Skip
  <2>1. /\ Building /\ ~InputGone /\ ~Changed /\ UNCHANGED <<data, mtime, deps, quiet>>
        /\ pc' = "build" /\ script' = script + 1
    BY <1>6 DEF Skip, NextScript, diskVars, historyVars
  <2>2. UpToDate(Current)
    BY <2>1, SkippedIsUpToDate
  <2>3. ASSUME quiet, NEW n \in DOMAIN Scripts, n < script' PROVE UpToDate(Scripts[n])
    <3>1. CASE n = script
      BY <2>2, <3>1 DEF Current
    <3>2. CASE n < script
      BY <2>1, <2>3, <3>2 DEF QuietInv, Building
    <3> QED BY <1>0, <2>1, <2>3, <3>1, <3>2
  <2> QED BY <2>1, <2>3 DEF QuietInv, UpToDate, NothingNewer
<1>7. CASE Rebuild
  <2>1. pc = "build" /\ script' = script /\ quiet' = quiet /\ inputFiles' = {} /\ outputFiles' = {}
    BY <1>7 DEF Rebuild, Building
  <2>2. quiet => \A n \in DOMAIN Scripts : n < script => UpToDate(Scripts[n])'
    BY <1>7, <2>1, UpToDateStays DEF QuietInv
  <2> QED BY <2>1, <2>2 DEF QuietInv
<1>8. CASE RegisterInputFile
  <2>1. /\ At /\ UNCHANGED <<data, mtime, deps, script, quiet, outputFiles>> /\ data[Steps[step].file] # None
        /\ inputFiles' = inputFiles \cup {[file |-> Steps[step].file, lastModified |-> mtime[Steps[step].file]]}
    BY <1>8 DEF RegisterInputFile, Running, diskVars, historyVars
  <2>2. step \in DOMAIN Steps /\ Steps[step].file \in File
    <3>1. Steps = Plan(Current) /\ Current \in Script
      BY <2>1, RunningFacts
    <3>2. step \in DOMAIN Steps
      BY <1>8, <3>1, PlanFacts DEF RegisterInputFile, Running, TypeOK
    <3> QED BY <3>1, <3>2, PlanFacts
  <2>3. mtime[Steps[step].file] \in Nat
    BY <2>2 DEF TypeOK
  <2>4. quiet => \A in \in inputFiles' : mtime[in.file] <= in.lastModified /\ data[in.file] # None
    BY <2>1, <2>3 DEF QuietInv
  <2> QED BY <2>1, <2>4 DEF QuietInv, UpToDate, NothingNewer
<1>9. CASE LoadFile \/ Peek
  <2>1. At /\ UNCHANGED <<data, mtime, deps, script, quiet, inputFiles, outputFiles>>
    BY <1>9 DEF LoadFile, Peek, Running, diskVars, historyVars
  <2> QED BY <2>1 DEF QuietInv, UpToDate, NothingNewer
<1>10. CASE WriteFile
  <2>1. /\ At /\ UNCHANGED <<script, quiet, inputFiles>> /\ Replaces(Steps[step].file, clock)
        /\ Steps[step].file \in Outputs /\ outputFiles' = outputFiles \cup {Steps[step].file}
        /\ data' = [data EXCEPT ![Steps[step].file] = Result]
    BY <1>10, Writing DEF WriteFile, WritesFile, RegisterOutputFile
  <2>2. quiet => \A n \in DOMAIN Scripts : n < script => UpToDate(Scripts[n])'
    BY <1>10, <2>1, UpToDateStays DEF QuietInv
  <2>3. \A in \in inputFiles : in.file \in File /\ in.file # Steps[step].file
    BY <1>10, WritesElsewhere DEF TypeOK, ReadFile
  <2>4. \A in \in inputFiles : mtime'[in.file] = mtime[in.file] /\ data'[in.file] = data[in.file]
    BY <2>1, <2>3 DEF Replaces
  <2>5. data'[Steps[step].file] # None
    <3>1. data'[Steps[step].file] = Result
      BY <2>1 DEF TypeOK, File
    <3> QED BY <3>1, Zenon DEF Result, NoneIsNoContent
  <2>6. \A out \in outputFiles : out \in Outputs /\ (out # Steps[step].file => data'[out] = data[out])
    BY <2>1 DEF TypeOK, Replaces, File
  <2>7. quiet => \A out \in outputFiles' : data'[out] # None
    BY <2>1, <2>5, <2>6 DEF QuietInv
  <2> QED BY <2>1, <2>2, <2>4, <2>7 DEF QuietInv
<1>11. CASE SaveDependencyInfo
  <2>1. /\ At /\ UNCHANGED <<data, mtime, quiet>> /\ pc' = "build" /\ script' = script + 1
        /\ deps' = [deps EXCEPT ![Current] =
                      [lastModified |-> SavedLastModified, inputs |-> inputFiles, outputs |-> outputFiles]]
    BY <1>11 DEF SaveDependencyInfo, NextScript, diskVars, historyVars
  <2>2. script \in DOMAIN Scripts /\ Current \in Script
    BY <2>1, RunningFacts DEF PlaceInv
  <2>3. /\ \A s \in Script : s # Current => deps'[s] = deps[s]
        /\ deps'[Current] = [lastModified |-> lastModified, inputs |-> inputFiles, outputs |-> outputFiles]
    BY <2>1, <2>2 DEF TypeOK, SavedLastModified
  <2>4. ASSUME quiet, NEW n \in DOMAIN Scripts, n < script', NEW s, s = Scripts[n] PROVE UpToDate(s)'
    <3>1. CASE n = script
      <4>1. s = Current
        BY <2>4, <3>1 DEF Current
      <4>2. deps'[s] # None /\ deps'[s].lastModified = lastModified /\ deps'[s].inputs = inputFiles
        BY <2>3, <4>1 DEF NoneIsNoContent
      <4>3. deps'[s].outputs = outputFiles
        BY <2>3, <4>1
      <4> QED BY <2>1, <2>4, <4>1, <4>2, <4>3 DEF QuietInv, RunInv, UpToDate, NothingNewer
    <3>2. CASE n < script
      <4>1. s # Current /\ s \in Script
        BY <1>0, <2>2, <2>4, <3>2 DEF Current
      <4>2. deps'[s] = deps[s] /\ UpToDate(s)
        BY <2>1, <2>3, <2>4, <3>2, <4>1 DEF QuietInv
      <4> QED BY <2>1, <4>2 DEF UpToDate, NothingNewer
    <3> QED BY <1>0, <2>1, <2>4, <3>1, <3>2
  <2>5. quiet => \A n \in DOMAIN Scripts : n < script' => UpToDate(Scripts[n])'
    BY <2>4
  <2> QED BY <2>1, <2>5 DEF QuietInv
<1> QED BY StepCases, <1>1, <1>2, <1>3, <1>4, <1>5, <1>6, <1>7, <1>8, <1>9, <1>10, <1>11

-----------------------------------------------------------------------------
(* The theorems.                                                           *)

\* In every state of every build, whatever was edited, skipped or stopped before, the
\* dependency files are evidence of what is in the outputs (Builder.java:24-80).
THEOREM BuilderInvariance ==
  ASSUME InOrder, WritesOnce, KeepsClasses, NamesAll, NoneIsNoContent
  PROVE  Spec => []BuilderInv
<1>1. Init => BuilderInv
  BY TypeInit, PlaceInit, OwnInit, TimesInit, EvidenceInit, RunInit DEF BuilderInv
<1>2. BuilderInv /\ [Next]_vars => BuilderInv'
  <2> SUFFICES ASSUME BuilderInv, [Next]_vars PROVE BuilderInv'
    OBVIOUS
  <2>1. TypeOK' /\ PlaceInv'
    BY TypeStep, PlaceStep DEF BuilderInv
  <2>2. OwnInv' /\ TimesInv'
    BY OwnStep, TimesStep DEF BuilderInv
  <2>3. EvidenceInv'
    BY EvidenceStep DEF BuilderInv
  <2>4. RunInv' /\ SeenInv' /\ ReadInv' /\ QuietInv'
    BY RunStep, SeenStep, ReadStep, QuietStep DEF BuilderInv
  <2> QED BY <2>1, <2>2, <2>3, <2>4 DEF BuilderInv
<1> QED BY <1>1, <1>2, PTL DEF Spec

\* A build that ends well and was not disturbed leaves what all scripts would generate
\* from the files as they are (Builder.java:28-59).
THEOREM SkippingMakesNoDifference ==
  ASSUME InOrder, WritesOnce, KeepsClasses, NamesAll, NoneIsNoContent
  PROVE  Spec => []FreshOutputs
<1>1. BuilderInv => FreshOutputs
  <2> SUFFICES ASSUME BuilderInv, pc = "done", quiet, NEW s \in Script, RegistersAll(s), NEW k \in Writes(s),
                      Plan(s)[k].file \notin suspect
               PROVE  data[Plan(s)[k].file] = Wanted(s, k)
    BY DEF FreshOutputs
  <2>1. PICK n \in DOMAIN Scripts : Scripts[n] = s /\ n < script
    BY ScriptFacts DEF BuilderInv, PlaceInv
  <2>2. UpToDate(s)
    BY <2>1 DEF BuilderInv, QuietInv, Compiled
  <2>3. /\ Wrote(s, k)
        /\ \A j \in DOMAIN Plan(s) : Plan(s)[j].op = "read" => \E in \in deps[s].inputs : in.file = Plan(s)[j].file
    BY <2>2 DEF UpToDate, BuilderInv, EvidenceInv, Evidence, Holds, FilesWritten
  <2> DEFINE made == data[Plan(s)[k].file]
  <2>4. \A j \in Reads(s, k) : data[Plan(s)[j].file] = made.reads[j]
    <3> TAKE j \in Reads(s, k)
    <3>1. j \in DOMAIN Plan(s) /\ Plan(s)[j].op = "read"
      BY PlanFacts DEF BuilderInv, Reads, Writes, RegistersAll
    <3>2. data[Plan(s)[j].file] # None
      BY <2>2, <2>3, <3>1 DEF UpToDate
    <3> QED BY <2>3, <3>2 DEF Wrote
  <2>5. [j \in Reads(s, k) |-> data[Plan(s)[j].file]] = [j \in Reads(s, k) |-> made.reads[j]]
    BY <2>4
  <2>6. made = [classes |-> [c \in Uses[s] |-> data[c]], reads |-> [j \in Reads(s, k) |-> made.reads[j]]]
    BY <2>3 DEF Wrote
  <2> QED BY <2>5, <2>6 DEF Wanted
<1> QED BY <1>1, BuilderInvariance, PTL

LEMMA SettledStep ==
  ASSUME BuilderInv, SettledInv, KeepsClasses, NamesAll, NoneIsNoContent, NoIdleScript, [Next]_vars
  PROVE  SettledInv' /\ (settled /\ pc = "build" => pc' # "run")
<1> USE DEF At
<1>0. TypeOK /\ PlaceInv /\ TimesInv /\ EvidenceInv
  BY DEF BuilderInv
<1>1. ASSUME Rebuild PROVE ~settled
  <2>1. Building /\ Changed
    BY <1>1 DEF Rebuild
  <2>2. Current \in Script
    BY <2>1, ScriptFacts DEF Building, Current
  <2>3. ~UpToDate(Current)
    BY <1>0, <2>1, UpToDateIsSkipped
  <2> QED BY <2>2, <2>3 DEF SettledInv
<1>2. CASE settled'
  <2>1. CASE Finish
    <3>1. /\ quiet /\ pc = "build" /\ pc' = "done" /\ script > Len(Scripts)
          /\ UNCHANGED <<data, mtime, deps, quiet>>
      BY <1>2, <2>1 DEF Finish, diskVars
    <3>2. \A s \in Script : UpToDate(s)
      BY <3>1, ScriptFacts DEF BuilderInv, QuietInv, Compiled, TypeOK
    <3> QED BY <3>1, <3>2 DEF SettledInv, UpToDate, NothingNewer
  <2>2. CASE ~Finish
    <3>1. settled
      BY <1>0, <1>2, <2>2, StepCases DEF vars, historyVars, Edits, StartBuild, Compile, Return, Skip, Rebuild,
         RegisterInputFile, LoadFile, Peek, WriteFile, SaveDependencyInfo, FailToLoad, StopAnywhere, StopWriting,
         StopSaving, Stop
    <3>2. (\A s \in Script : UpToDate(s)) /\ ~At /\ (pc = "idle" \/ quiet)
      BY <3>1 DEF SettledInv
    <3>3. UNCHANGED vars \/ StartBuild \/ Compile \/ Return \/ Skip
      BY <1>0, <1>1, <1>2, <2>2, <3>1, <3>2, StepCases DEF Edits, RegisterInputFile, LoadFile, Peek, WriteFile,
         SaveDependencyInfo, FailToLoad, StopAnywhere, StopWriting, StopSaving, Stop, Running
    <3>4. UNCHANGED <<data, mtime, deps>> /\ ~At' /\ (pc' = "idle" \/ quiet')
      <4>1. CASE UNCHANGED vars
        BY <3>2, <4>1 DEF vars, diskVars, historyVars
      <4>2. CASE StartBuild
        BY <4>2 DEF StartBuild
      <4>3. CASE Compile \/ Skip
        BY <3>2, <4>3 DEF Compile, Skip, Building, NextScript, diskVars, historyVars
      <4>4. CASE Return
        BY <4>4 DEF Return, diskVars
      <4> QED BY <3>3, <4>1, <4>2, <4>3, <4>4
    <3> QED BY <3>2, <3>4 DEF SettledInv, UpToDate, NothingNewer
  <2> QED BY <2>1, <2>2
<1>3. settled /\ pc = "build" => pc' # "run"
  BY <1>0, <1>1, StepCases DEF vars, runVars, Edits, StartBuild, Compile, Finish, Return, Skip, NextScript,
     RegisterInputFile, LoadFile, Peek, WriteFile, SaveDependencyInfo, FailToLoad, StopAnywhere, StopWriting,
     StopSaving, Stop, Running
<1> QED BY <1>2, <1>3 DEF SettledInv

\* After a good build that nothing disturbed, builds run no script until something is
\* edited (Builder.java:28-59, 254-286).
THEOREM NothingToDoAfterAGoodBuild ==
  ASSUME InOrder, WritesOnce, KeepsClasses, NamesAll, NoneIsNoContent, NoIdleScript
  PROVE  Spec => RunsOnlyAfterEdits
<1>1. Init => SettledInv
  BY DEF Init, SettledInv
<1>2. BuilderInv /\ SettledInv /\ [Next]_vars => SettledInv' /\ (settled /\ pc = "build" => pc' # "run")
  BY SettledStep
<1>3. BuilderInv /\ SettledInv /\ [Next]_vars => [settled /\ pc = "build" => pc' # "run"]_vars
  BY <1>2
<1> QED BY <1>1, <1>2, <1>3, BuilderInvariance, PTL DEF Spec, RunsOnlyAfterEdits

LEMMA SourcesStep ==
  ASSUME BuilderInv, BuilderInv', SourcesInv, KeepsClasses, NamesAll, AllSources, [Next]_vars
  PROVE  SourcesInv'
<1> USE DEF At, Compiled
<1>0. /\ TypeOK /\ PlaceInv /\ TimesInv /\ EvidenceInv /\ RunInv /\ ReadInv
      /\ Len(Scripts) \in Nat /\ DOMAIN Scripts = 1 .. Len(Scripts) /\ script \in Nat
      /\ \A n \in DOMAIN Scripts : Scripts[n] \in Script
  BY ScriptFacts DEF BuilderInv, TypeOK
<1>1. ASSUME Compiled, Compiled', UNCHANGED class
      PROVE  \A n \in DOMAIN Scripts : FilesWritten(Scripts[n])' = FilesWritten(Scripts[n])
  <2>1. \A c \in Classes : data'[c] = data[c]
    BY <1>1 DEF BuilderInv, PlaceInv
  <2>2. ASSUME NEW s \in Script PROVE FilesWritten(s)' = FilesWritten(s)
    <3>1. data'[s] = data[s]
      BY <2>1, ScriptFacts
    <3> QED BY <3>1 DEF FilesWritten, Writes, Plan
  <2> QED BY <1>0, <2>2
<1>2. Compiled => sources = {f \in Outputs : \/ \E n \in DOMAIN Scripts : n < script /\ f \in FilesWritten(Scripts[n])
                                             \/ At /\ f \in outputFiles}
  BY DEF SourcesInv
<1>3. CASE UNCHANGED vars
  <2>1. UNCHANGED <<pc, class, sources, script, outputFiles>>
    BY <1>3 DEF vars, runVars
  <2> QED BY <1>1, <1>2, <2>1 DEF SourcesInv
<1>4. CASE Edits
  <2>1. UNCHANGED <<pc, class, sources, script, outputFiles>>
    BY <1>4 DEF Edits, runVars
  <2> QED BY <1>1, <1>2, <2>1 DEF SourcesInv
<1>5. CASE StartBuild
  BY <1>5 DEF SourcesInv, StartBuild
<1>6. CASE Compile
  <2>1. pc' = "build" /\ script' = 1 /\ sources' = {}
    BY <1>6 DEF Compile, SourcesInv
  <2> QED BY <1>0, <2>1 DEF SourcesInv
<1>7. CASE Return \/ FailToLoad \/ StopAnywhere \/ StopWriting \/ StopSaving
  BY <1>7 DEF SourcesInv, Return, FailToLoad, StopAnywhere, StopWriting, StopSaving, Stop
<1>8. CASE Finish
  <2>1. pc = "build" /\ pc' = "done" /\ UNCHANGED <<class, sources, script>>
    BY <1>8 DEF Finish, runVars
  <2> QED BY <1>1, <1>2, <2>1 DEF SourcesInv
<1>9. CASE Skip
  <2>1. /\ Building /\ ~InputGone /\ ~Changed /\ pc' = "build" /\ script' = script + 1 /\ UNCHANGED class
        /\ sources' = sources \cup RecordedOutputs
    BY <1>9 DEF Skip, NextScript, AddCachedSources
  <2>2. RecordedOutputs = FilesWritten(Current)
    <3>1. Current \in Script
      BY <2>1, <1>0 DEF Building, Current
    <3> QED BY <1>0, <2>1, <3>1, SkippedIsUpToDate DEF EvidenceInv, Evidence, UpToDate
  <2>3. RecordedOutputs \subseteq Outputs
    BY <1>0, <2>1 DEF Building, RecordedOutputs, Recorded, TypeOK, Current
  <2>4. \A n \in DOMAIN Scripts : n < script' <=> n < script \/ n = script
    BY <1>0, <2>1
  <2>5. sources' = {f \in Outputs : \E n \in DOMAIN Scripts : n < script' /\ f \in FilesWritten(Scripts[n])}
    BY <1>2, <2>1, <2>2, <2>3, <2>4 DEF Building, Current
  <2> QED BY <1>1, <2>1, <2>5 DEF SourcesInv, Building
<1>10. CASE Rebuild
  <2>1. pc = "build" /\ pc' = "run" /\ outputFiles' = {} /\ UNCHANGED <<class, sources, script>>
    BY <1>10 DEF Rebuild, Building
  <2> QED BY <1>1, <1>2, <2>1 DEF SourcesInv
<1>11. CASE RegisterInputFile \/ LoadFile \/ Peek
  <2>1. At /\ At' /\ pc' # "compile" /\ UNCHANGED <<class, sources, script, outputFiles>>
    BY <1>11 DEF RegisterInputFile, LoadFile, Peek, Running
  <2> QED BY <1>1, <1>2, <2>1 DEF SourcesInv
<1>12. CASE WriteFile
  <2>1. /\ At /\ step \in DOMAIN Steps /\ Steps[step].op = "write" /\ Steps[step].file \in Outputs
        /\ UNCHANGED <<pc, class, script>>
        /\ outputFiles' = outputFiles \cup {Steps[step].file}
        /\ sources' = IF Steps[step].addSource THEN sources \cup {Steps[step].file} ELSE sources
    BY <1>0, <1>12, Writing DEF WriteFile, RegisterOutputFile, Running
  <2>2. Steps[step].addSource
    BY <1>0, <2>1, RunningFacts DEF PlaceInv, AllSources, Plan
  <2> QED BY <1>1, <1>2, <2>1, <2>2 DEF SourcesInv
<1>13. CASE SaveDependencyInfo
  <2>1. At /\ pc' = "build" /\ script' = script + 1 /\ UNCHANGED <<class, sources>> /\ script \in DOMAIN Scripts
    BY <1>0, <1>13 DEF SaveDependencyInfo, NextScript, PlaceInv
  <2>2. outputFiles = FilesWritten(Scripts[script])
    BY <1>0, <1>13, AllWritten DEF Current
  <2>3. \A n \in DOMAIN Scripts : n < script' <=> n < script \/ n = script
    BY <1>0, <2>1
  <2>4. sources' = {f \in Outputs : \E n \in DOMAIN Scripts : n < script' /\ f \in FilesWritten(Scripts[n])}
    BY <1>2, <2>1, <2>2, <2>3
  <2> QED BY <1>1, <2>1, <2>4 DEF SourcesInv
<1> QED BY <1>0, StepCases, <1>3, <1>4, <1>5, <1>6, <1>7, <1>8, <1>9, <1>10, <1>11, <1>12, <1>13

\* The compiler gets the same generated files from a script that is skipped as from one
\* that runs (Builder.java:55-56, 204-205).
THEOREM SkippingAddsTheSameSources ==
  ASSUME InOrder, WritesOnce, KeepsClasses, NamesAll, NoneIsNoContent, AllSources
  PROVE  Spec => []SameSources
<1>1. Init => SourcesInv
  BY DEF Init, SourcesInv, Compiled, At
<1>2. BuilderInv /\ BuilderInv' /\ SourcesInv /\ [Next]_vars => SourcesInv'
  BY SourcesStep
<1>3. BuilderInv /\ SourcesInv => SameSources
  <2> SUFFICES ASSUME BuilderInv, SourcesInv, pc = "done"
               PROVE  sources = UNION {{Plan(s)[k].file : k \in {j \in Writes(s) : Plan(s)[j].addSource}} : s \in Script}
    BY DEF SameSources
  <2>1. PlaceInv /\ script = Len(Scripts) + 1
    BY DEF BuilderInv, PlaceInv
  <2>2. \A f : f \in sources <=> f \in Outputs /\ \E s \in Script : f \in FilesWritten(s)
    <3>1. sources = {f \in Outputs : \E n \in DOMAIN Scripts : n < script /\ f \in FilesWritten(Scripts[n])}
      BY DEF SourcesInv, Compiled, At
    <3>2. \A n \in DOMAIN Scripts : n < script
      BY <2>1, ScriptFacts
    <3> QED BY <3>1, <3>2, ScriptFacts
  <2>3. ASSUME NEW s \in Script
        PROVE  FilesWritten(s) = {Plan(s)[k].file : k \in {j \in Writes(s) : Plan(s)[j].addSource}}
    <3>1. \A j \in Writes(s) : Plan(s)[j].addSource
      BY <2>1, ScriptFacts DEF PlaceInv, AllSources, Writes, Plan
    <3> QED BY <3>1 DEF FilesWritten
  <2>4. \A s \in Script : FilesWritten(s) \subseteq Outputs
    BY <2>1, PlanFacts DEF FilesWritten, Writes
  <2>5. sources = UNION {FilesWritten(s) : s \in Script}
    BY <2>2, <2>4
  <2> QED BY <2>3, <2>5
<1> QED BY <1>1, <1>2, <1>3, BuilderInvariance, PTL DEF Spec
=============================================================================
