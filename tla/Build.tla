------------------------------- MODULE Build --------------------------------
(***************************************************************************)
(* Building a project from the main window (GUI/Build, GUI/MainWindow.cpp) *)
(* and the Java Virtual Machine builds share (Compiler/Java/JVM.cpp).      *)
(*                                                                         *)
(* The GUI thread shows a modal BuildDialog, whose QThread runs the        *)
(* compiler and tells the dialog what happened through queued signals.     *)
(* The user may ask to close the dialog at any time.  The JVM is loaded by *)
(* the first build that needs it, into the process, and later builds, on   *)
(* other threads, attach to it; JVM::env is one variable for all threads.  *)
(*                                                                         *)
(* What the compiler does between two calls of compilerProgress is one     *)
(* step, but for the phase in which it calls Java code (JavaCalls).        *)
(* Messages and progress change only texts and are left out.               *)
(***************************************************************************)
EXTENDS Naturals, Sequences, JavaCalls

CONSTANTS
  MaxBuilds,  (* bound: number of times the user builds                    *)
  Jdk,        (* kinds of JDK the settings may name, a subset of JdkKind   *)
  None        (* null                                                      *)

\* A JDK whose library is missing or cannot be opened, has no JNI_CreateJavaVM, has
\* no compiler beside it, refuses to create a JVM, creates one that lacks a class
\* the compiler needs, or works.  "unset": the settings name none.
JdkKind == {"unset", "missing", "nosymbol", "notools", "refuses", "bare", "full"}

ASSUME BuildAssumption == MaxBuilds \in Nat /\ Jdk \subseteq JdkKind /\ None \notin Nat

GuiThread == 0
Worker == 1..MaxBuilds
Thread == {GuiThread} \cup Worker

Phases == {"project", "jvm", "java", "rest"}

VARIABLES
  gui,         \* what the GUI thread is doing; "crashed" when the program died
  build,       \* number of the current build, which is also its thread
  java, jdk,   \* does the project have Java files; the JDK in the settings
  worker,      \* where the thread of the build is
  todo,        \* what is left for it to do once the compiler stopped
  cancel,      \* BuildThread::mCancelRequested
  outcome,     \* the signal compile() ends with
  posted,      \* events queued for the dialog
  output,      \* BuildDialog::mLinkerOutput is set
  result,      \* what QDialog::exec returned
  status,      \* the text of the status label
  dll, vm,     \* jvmDll is set; jvm: "none" for null, or the kind of the JDK it came from
  env,         \* the thread env belongs to
  attached,    \* threads attached to the JVM
  initialized, \* JVMGlobalContext::mWasInitialized
  detach       \* Compiler::mShouldDetachJVM

dialogVars == <<build, java, jdk, result, status>>
jvmVars == <<dll, vm, env, attached, initialized, detach>>
vars == <<gui, dialogVars, worker, todo, cancel, outcome, posted, output, jvmVars, callVars>>

IsLoaded == dll \/ vm # "none" \/ env # None

-----------------------------------------------------------------------------
(* The GUI thread.                                                         *)

BuildProject ==
  /\ gui = "idle" /\ build < MaxBuilds
  /\ gui' = "dialog" /\ build' = build + 1
  /\ java' \in BOOLEAN /\ jdk' \in Jdk
  /\ worker' = "started" /\ todo' = <<>>
  /\ cancel' = FALSE /\ detach' = FALSE
  /\ outcome' = None /\ result' = None /\ output' = FALSE
  /\ status' = "building"
  /\ UNCHANGED <<posted, dll, vm, env, attached, initialized, callVars>>

\* The worker's BuildThread exists and cancelRequested is connected to it.
Connected == worker \in Phases \/ (worker = "ending" /\ todo # <<>>)

\* While the thread runs, done() asks it to cancel and leaves the dialog open, even
\* for the accept or reject the thread itself asked for.
DoneAtOnce(r) == gui' = "returned" /\ result' = r /\ UNCHANGED cancel
DoneOnlyAfterCancel(r) ==
  IF cancel THEN UNCHANGED <<cancel, gui, result>>
  ELSE IF worker # "finished" THEN cancel' = Connected /\ UNCHANGED <<gui, result>>
  ELSE gui' = "returned" /\ result' = r /\ UNCHANGED cancel
Done(r) ==
  IF worker # "finished"
    THEN cancel' = (cancel \/ Connected) /\ UNCHANGED <<gui, result>>
    ELSE gui' = "returned" /\ result' = r /\ UNCHANGED cancel

HandleOutcome ==
  /\ gui = "dialog" /\ posted # <<>> /\ Head(posted) \in {"success", "failure", "canceled"}
  /\ posted' = Tail(posted)
  /\ status' = IF Head(posted) = "failure" THEN "error" ELSE "ready"
  /\ UNCHANGED <<gui, build, java, jdk, result, worker, todo, cancel, outcome, output, jvmVars, callVars>>

HandleDone ==
  /\ gui = "dialog" /\ posted # <<>> /\ Head(posted) \in {"accept", "reject"}
  /\ posted' = Tail(posted)
  /\ Done(IF Head(posted) = "accept" THEN "Accepted" ELSE "Rejected")
  /\ UNCHANGED <<build, java, jdk, status, worker, todo, outcome, output, jvmVars, callVars>>

UserCloses ==
  /\ gui = "dialog"
  /\ Done("Rejected")
  /\ UNCHANGED <<build, java, jdk, status, worker, todo, outcome, posted, output, jvmVars, callVars>>

\* buildProject uses the output if exec returned Accepted, and destroys the dialog
\* with the events still queued for it.
BuildReturns ==
  /\ gui = "returned"
  /\ gui' = "idle" /\ worker' = "none" /\ posted' = <<>>
  /\ UNCHANGED <<dialogVars, todo, cancel, outcome, output, jvmVars, callVars>>

-----------------------------------------------------------------------------
(* The thread of the build: BuildDialog.cpp:22-49, BuildThread::compile.   *)

Connect ==
  /\ worker = "started"
  /\ worker' = "project"
  /\ UNCHANGED <<gui, dialogVars, todo, cancel, outcome, posted, output, jvmVars, callVars>>

\* A CompilerError or Canceled is caught, and told, while the compiler still exists,
\* any other exception and success are told after its destructor.
StopWithoutReturn(o, inside) ==
  /\ worker' = "ending"
  /\ outcome' = o
  /\ todo' = IF inside THEN <<"tell", "close", "destroy", "tell", "close", "store">>
                       ELSE <<"destroy", "tell", "close", "store">>
Stop(o, inside) ==
  /\ worker' = "ending"
  /\ outcome' = o
  /\ todo' = IF inside THEN <<"tell", "close", "destroy", "store">>
                       ELSE <<"destroy", "tell", "close", "store">>

Continue(next) == worker' = next /\ UNCHANGED <<outcome, todo>>

\* checkCancelation at the compilerProgress call that begins a phase.
CancelCompile ==
  /\ worker \in Phases /\ cancel /\ (worker = "java" => AtProgress)
  /\ Stop("canceled", TRUE)
  /\ UNCHANGED <<gui, dialogVars, cancel, posted, output, jvmVars, callVars>>

Compile ==
  /\ worker \in {"project", "rest"} /\ ~cancel
  /\ \/ \E inside \in BOOLEAN : Stop("failure", inside)
     \/ worker = "project" /\ Continue(IF java THEN "jvm" ELSE "rest")
     \/ worker = "rest" /\ Stop("success", FALSE)
  /\ UNCHANGED <<gui, dialogVars, cancel, posted, output, jvmVars, callVars>>

\* JVM::isAttached asks the JVM about the current thread.
IsAttachedIfUsed == env # None
IsAttached == build \in attached

\* JVM::attachCurrentThread.  When JVMGlobalContext cannot find a class it detaches
\* again, but stays marked as initialized.
AttachJvm ==
  /\ worker = "jvm" /\ ~cancel /\ IsLoaded
  /\ detach' = ~IsAttached
  /\ env' = IF IsAttached THEN env ELSE build
  /\ initialized' = TRUE
  /\ \/ /\ IsAttached \/ vm = "full"
        /\ attached' = IF IsAttached THEN attached ELSE attached \cup {build}
        /\ Continue("java") /\ EnterJava
     \/ /\ ~IsAttached /\ vm = "bare"
        /\ UNCHANGED attached
        /\ Stop("failure", TRUE) /\ UNCHANGED callVars
  /\ UNCHANGED <<gui, dialogVars, cancel, posted, output, dll, vm>>

\* mShouldDetachJVM is set before JVM::load, which may throw after it attached.
MarkDetach == detach' = (jdk # "unset")

\* JVM::load.  Only a library without JNI_CreateJavaVM is unloaded again.
LoadJvm ==
  /\ worker = "jvm" /\ ~cancel /\ ~IsLoaded
  /\ MarkDetach
  /\ dll' = (jdk \in {"notools", "refuses", "bare", "full"})
  /\ IF jdk \in {"bare", "full"}
       THEN vm' = jdk /\ env' = build /\ attached' = attached \cup {build} /\ initialized' = TRUE
       ELSE UNCHANGED <<vm, env, attached, initialized>>
  /\ IF jdk = "full" THEN Continue("java") /\ EnterJava ELSE Stop("failure", TRUE) /\ UNCHANGED callVars
  /\ UNCHANGED <<gui, dialogVars, cancel, posted, output>>

\* The phase in which the compiler calls Java code.
StaysInJava == worker = "java" /\ UNCHANGED <<worker, outcome, todo>>
LeavesJava(o, inside) == worker = "java" /\ Stop(o, inside)
OtherwiseUnchanged == UNCHANGED <<gui, dialogVars, cancel, posted, output, jvmVars>>

RunJava ==
  /\ StaysInJava
  /\ RunCalls \/ CompilerCalls(cancel)
  /\ OtherwiseUnchanged

JavaDone ==
  /\ worker = "java"
  /\ CompilerContinues
  /\ Continue(IF stage' = "done" THEN "rest" ELSE "java")
  /\ OtherwiseUnchanged

\* javac or main ended with an exception, or javac found an error.
JavaFailed ==
  /\ LeavesJava("failure", TRUE)
  /\ CompilerFailed \/ (CallReturned /\ stage \in {"game", "scripts"})
  /\ LeaveCalls
  /\ OtherwiseUnchanged

\* BuildSettings.java is written for both parts of the project.
Generate ==
  /\ AtProgress /\ stage = "generate" /\ ~cancel
  /\ \/ StaysInJava /\ Generated
     \/ \E inside \in BOOLEAN : LeavesJava("failure", inside) /\ UNCHANGED callVars
  /\ OtherwiseUnchanged

Does(step) == worker = "ending" /\ todo # <<>> /\ Head(todo) = step /\ todo' = Tail(todo)

Tell ==
  /\ Does("tell")
  /\ posted' = Append(posted, outcome)
  /\ UNCHANGED <<gui, dialogVars, worker, cancel, outcome, output, jvmVars, callVars>>

Close ==
  /\ Does("close")
  /\ posted' = Append(posted, IF outcome = "success" THEN "accept" ELSE "reject")
  /\ UNCHANGED <<gui, dialogVars, worker, cancel, outcome, output, jvmVars, callVars>>

\* ~Compiler and JVM::detachCurrentThread, which uses jvm whenever the library is
\* loaded.
DestroyCompiler ==
  /\ Does("destroy")
  /\ \/ /\ detach /\ IsLoaded /\ vm = "none"
        /\ gui' = "crashed" /\ worker' = "none" /\ UNCHANGED attached
     \/ /\ detach /\ IsLoaded /\ vm # "none"
        /\ attached' = attached \ {build} /\ UNCHANGED <<gui, worker>>
     \/ /\ ~(detach /\ IsLoaded)
        /\ UNCHANGED <<gui, worker, attached>>
  /\ loader' = FALSE
  /\ UNCHANGED <<dialogVars, cancel, outcome, posted, output, dll, vm, env, initialized, detach>>
  /\ UNCHANGED <<stage, frames, pending, cpp, fuel>>

Store ==
  /\ Does("store")
  /\ output' = (outcome = "success")
  /\ UNCHANGED <<gui, dialogVars, worker, cancel, outcome, posted, jvmVars, callVars>>

Finish ==
  /\ worker = "ending" /\ todo = <<>>
  /\ worker' = "finished"
  /\ UNCHANGED <<gui, dialogVars, todo, cancel, outcome, posted, output, jvmVars, callVars>>

-----------------------------------------------------------------------------
(* Leaving the program: the destructors of main, then atexit.              *)

Quit ==
  /\ gui = "idle"
  /\ gui' = "quit"
  /\ UNCHANGED <<dialogVars, worker, todo, cancel, outcome, posted, output, jvmVars, callVars>>

\* ~JVMGlobalContext attaches, and so looks for the classes once more; what that
\* throws leaves a destructor.
DestroyContext ==
  /\ gui = "quit"
  /\ gui' = IF initialized /\ vm = "bare" THEN "crashed" ELSE "exiting"
  /\ initialized' = FALSE
  /\ env' = IF initialized THEN GuiThread ELSE env
  /\ UNCHANGED <<dialogVars, worker, todo, cancel, outcome, posted, output, dll, vm, attached, detach, callVars>>

\* JVM::unloadPermanently, registered once there is a JVM.  DestroyJavaVM waits for
\* the threads that are still attached.
Unload ==
  /\ gui = "exiting"
  /\ attached = {}
  /\ gui' = "exited"
  /\ IF vm = "none" THEN UNCHANGED <<dll, vm, env>> ELSE dll' = FALSE /\ vm' = "none" /\ env' = None
  /\ UNCHANGED <<dialogVars, worker, todo, cancel, outcome, posted, output, attached, initialized, detach, callVars>>

-----------------------------------------------------------------------------
Init ==
  /\ gui = "idle" /\ build = 0 /\ java = FALSE /\ jdk = "unset"
  /\ worker = "none" /\ todo = <<>> /\ cancel = FALSE
  /\ outcome = None /\ posted = <<>> /\ output = FALSE /\ result = None /\ status = "ready"
  /\ dll = FALSE /\ vm = "none" /\ env = None /\ attached = {} /\ initialized = FALSE
  /\ detach = FALSE
  /\ InitCalls

RunThread ==
  \/ Connect \/ CancelCompile \/ Compile \/ AttachJvm \/ LoadJvm
  \/ RunJava \/ JavaDone \/ JavaFailed \/ Generate
  \/ Tell \/ Close \/ DestroyCompiler \/ Store \/ Finish
HandleEvent == HandleOutcome \/ HandleDone

Over == gui \in {"crashed", "exited"} /\ UNCHANGED vars

Next ==
  \/ BuildProject \/ HandleEvent \/ UserCloses \/ BuildReturns
  \/ RunThread
  \/ Quit \/ DestroyContext \/ Unload
  \/ Over

\* The threads run, the event loop handles what is queued, and the user asks again
\* to close a dialog that stays open.
Fairness == WF_vars(RunThread) /\ WF_vars(HandleEvent) /\ WF_vars(UserCloses)

Spec == Init /\ [][Next]_vars /\ Fairness

-----------------------------------------------------------------------------
Signal == {"success", "failure", "canceled"}
Event == Signal \cup {"accept", "reject"}

\* Every variable has the type of the field or local it stands for; compile posts
\* at most one signal and what follows from it.
TypeOK ==
  /\ gui \in {"idle", "dialog", "returned", "quit", "exiting", "exited", "crashed"}
  /\ build \in 0..MaxBuilds /\ java \in BOOLEAN /\ jdk \in JdkKind
  /\ worker \in Phases \cup {"none", "started", "ending", "finished"}
  /\ todo \in Seq({"tell", "close", "destroy", "store"})
  /\ cancel \in BOOLEAN /\ output \in BOOLEAN
  /\ outcome \in Signal \cup {None}
  /\ posted \in Seq(Event) /\ Len(posted) <= 2
  /\ result \in {None, "Accepted", "Rejected"} /\ status \in {"ready", "building", "error"}
  /\ dll \in BOOLEAN /\ vm \in {"none", "bare", "full"} /\ env \in Thread \cup {None}
  /\ attached \subseteq Thread
  /\ initialized \in BOOLEAN /\ detach \in BOOLEAN
  /\ stage \in Stages /\ frames \in Seq(Frame) /\ pending \in BOOLEAN
  /\ cpp \in {"run", "check", "clear", "throw"} /\ loader \in BOOLEAN /\ fuel \in 0..MaxCalls

\* When exec returns Accepted, MainWindow.cpp:120 uses what the thread stored in the
\* dialog: the build did succeed, its thread is done storing, and the status label
\* was already told, whatever the order of the events and of the user's clicks.
AcceptedMeansBuilt ==
  gui = "returned" /\ result = "Accepted" =>
    outcome = "success" /\ output /\ worker = "finished" /\ status = "ready"

\* JNI is called with the env of the calling thread, though JVM::env is shared by all
\* builds and never reset: while Java code is compiled and run, and when ~Compiler
\* releases the class loader (JVM.cpp:357).  A thread that ended is not attached any
\* more: DestroyJavaVM would wait for it for ever when the program exits (JVM.cpp:304).
\* However the Java phase ends, no exception waits in the env and no class loader of
\* the build is left, even if the message of an exception raises another.
OwnEnv ==
  /\ worker = "java" => env = build /\ build \in attached
  /\ Connected /\ build \in attached => env = build
  /\ worker \in {"none", "finished"} => attached = {}
  /\ worker # "java" => InCompiler /\ ~pending /\ ~loader

\* JNI must not be called while an exception waits: neither the compiler, nor a native
\* method, nor rethrow, which asks the exception for its message.
CallsClean == [][Len(frames') > Len(frames) => ~pending']_vars

\* An exception that comes out of the Java code the compiler called makes the build
\* fail: it is neither lost nor told as a cancelation, though the user may cancel
\* while Java code runs.
ExceptionFails == worker = "java" /\ InCompiler /\ pending ~> outcome = "failure"

\* A dialog whose user keeps asking closes: neither done() nor ~BuildDialog waits for
\* a thread that waits for the GUI.
DialogCloses == gui = "dialog" ~> gui # "dialog"

\* JVM.cpp:214: "unloading here allows user to change JVM path in settings and
\* retry".  A library in which no JVM could be created is not kept.
RetryAfterFailedLoad == worker = "ending" /\ outcome = "failure" /\ dll => vm # "none"
=============================================================================
