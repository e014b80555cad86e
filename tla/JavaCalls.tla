----------------------------- MODULE JavaCalls ------------------------------
(***************************************************************************)
(* The calls between the compiler and Java code on the thread of a build   *)
(* (Compiler/Java: JVM, JNIThrowableRef, Exceptions, JVMThreadContext, the *)
(* natives, and the accessors CMakeEmbedClasses.cmake generates).          *)
(*                                                                         *)
(* The compiler calls Java code, which calls native methods, which call    *)
(* Java code again.  Every one of these calls may end with an exception:   *)
(* Java exceptions wait in the JNIEnv until C++ asks for them, and C++     *)
(* exceptions must not pass a Java frame.  Running out of memory inside    *)
(* JNI is left out, and so are threads a build script starts.              *)
(***************************************************************************)
EXTENDS Naturals, Sequences, SequencesExt

CONSTANT
  MaxCalls    (* bound: calls of natives and from natives, for each call    *)
              (* the compiler makes                                         *)

ASSUME CallsAssumption == MaxCalls \in Nat

VARIABLES
  stage,      \* what the compiler does in Java, in this order
  frames,     \* calls in progress, the innermost last
  pending,    \* a Java exception waits in the JNIEnv, or is on its way in Java code
  cpp,        \* where the innermost C++ function is, when no Java code runs
  loader,     \* JVMThreadContext::mClassLoader is set
  fuel        \* calls that may still be made

callVars == <<stage, frames, pending, cpp, loader, fuel>>

Stages == {"version", "generate", "game", "scripts", "tools", "done"}

NextStage ==
  [version |-> "generate", generate |-> "game", game |-> "scripts", scripts |-> "tools",
   tools |-> "done", done |-> "done"]

\* A call by the compiler or a native method; the call of getMessage on an exception;
\* a native method.
Frame == {"call", "message", "native"}

InCompiler == frames = <<>>
InNative == frames # <<>> /\ Last(frames) = "native"
InJava == frames # <<>> /\ Last(frames) # "native"

InitCalls ==
  stage = "done" /\ frames = <<>> /\ pending = FALSE /\ cpp = "run" /\ loader = FALSE /\ fuel = 0

EnterJava == stage' = "version" /\ UNCHANGED <<frames, pending, cpp, loader, fuel>>

-----------------------------------------------------------------------------
(* Java code.                                                              *)

\* C++ code that called an accessor looks for an exception, the one that asked for
\* the message only drops what getMessage threw.
LeaveJava ==
  /\ frames' = Front(frames)
  /\ cpp' = IF Last(frames) = "message" THEN "clear" ELSE "check"
  /\ UNCHANGED <<stage, loader, fuel>>

JavaReturns == InJava /\ ~pending /\ LeaveJava /\ UNCHANGED pending

\* An exception the code throws, or one it does not catch.
JavaThrows == InJava /\ pending' = TRUE /\ LeaveJava

JavaCatches ==
  /\ InJava /\ pending
  /\ pending' = FALSE
  /\ UNCHANGED <<stage, frames, cpp, loader, fuel>>

JavaCallsNative ==
  /\ InJava /\ ~pending /\ stage # "version" /\ fuel > 0
  /\ frames' = Append(frames, "native") /\ cpp' = "run" /\ fuel' = fuel - 1
  /\ UNCHANGED <<stage, pending, loader>>

-----------------------------------------------------------------------------
(* Native methods.                                                         *)

NativeCalls ==
  /\ InNative /\ cpp = "run" /\ fuel > 0
  /\ frames' = Append(frames, "call") /\ fuel' = fuel - 1
  /\ UNCHANGED <<stage, pending, cpp, loader>>

NativeReturns ==
  /\ InNative /\ cpp = "run"
  /\ frames' = Front(frames)
  /\ UNCHANGED <<stage, pending, cpp, loader, fuel>>

\* A malformed XML file, an unknown tile, ...
NativeThrows ==
  /\ InNative /\ cpp = "run"
  /\ cpp' = "throw"
  /\ UNCHANGED <<stage, frames, pending, loader, fuel>>

\* JCATCH turns what was thrown into an exception of the Java code.
NativeFails ==
  /\ InNative /\ cpp = "throw"
  /\ pending' = TRUE /\ frames' = Front(frames) /\ cpp' = "run"
  /\ UNCHANGED <<stage, loader, fuel>>

NativeContinues ==
  /\ InNative /\ cpp = "check" /\ ~pending
  /\ cpp' = "run"
  /\ UNCHANGED <<stage, frames, pending, loader, fuel>>

-----------------------------------------------------------------------------
(* What both do with an exception.                                         *)

\* The destructor of ClassLoaderRAII releases the class loader when runClass returns.
StillLoaded == loader /\ InNative

\* catchCurrent, and rethrow asks for the message.
ClearLater == UNCHANGED pending
ClearCaught == pending' = FALSE
RethrowCurrent ==
  /\ ~InJava /\ cpp = "check" /\ pending
  /\ ClearCaught
  /\ loader' = StillLoaded
  /\ frames' = Append(frames, "message")
  /\ UNCHANGED <<stage, cpp, fuel>>

\* The catch (...) of rethrowCurrentException.
KeepRaised == UNCHANGED pending
DropRaised == pending' = FALSE
Rethrown ==
  /\ ~InJava /\ cpp = "clear"
  /\ DropRaised
  /\ cpp' = "throw"
  /\ UNCHANGED <<stage, frames, loader, fuel>>

RunCalls ==
  \/ JavaReturns \/ JavaThrows \/ JavaCatches \/ JavaCallsNative
  \/ NativeCalls \/ NativeReturns \/ NativeThrows \/ NativeFails \/ NativeContinues
  \/ RethrowCurrent \/ Rethrown

-----------------------------------------------------------------------------
(* Compiler::buildProject, between two calls.                              *)

\* It tells the listener how far it is, but not before the calls for the version and
\* of main.
AtProgress == InCompiler /\ cpp = "run" /\ stage # "version" /\ ~loader

MayCall(cancel) ==
  InCompiler /\ cpp = "run" /\ stage \in {"version", "game", "scripts", "tools"} /\ (AtProgress => ~cancel)

CompilerCalls(cancel) ==
  /\ MayCall(cancel)
  /\ frames' = <<"call">> /\ fuel' = MaxCalls
  /\ UNCHANGED <<stage, pending, cpp, loader>>

\* ExceptionCheck, in majorVersion, construct, JVM::compile and JVM::runClass.
UnnoticedByCompile == ~pending \/ stage \in {"game", "scripts"}
Unnoticed == ~pending

CallReturned == InCompiler /\ cpp = "check" /\ Unnoticed

\* The class loader is kept from its constructor to the end of main.
CompilerContinues ==
  /\ CallReturned
  /\ cpp' = "run"
  /\ IF stage = "tools" /\ ~loader
       THEN loader' = TRUE /\ UNCHANGED stage
       ELSE loader' = StillLoaded /\ stage' = NextStage[stage]
  /\ UNCHANGED <<frames, pending, fuel>>

Generated ==
  /\ AtProgress /\ stage = "generate"
  /\ stage' = NextStage[stage]
  /\ UNCHANGED <<frames, pending, cpp, loader, fuel>>

\* An exception leaves buildProject.
CompilerFailed == InCompiler /\ cpp = "throw"

LeaveCalls == cpp' = "run" /\ UNCHANGED <<stage, frames, pending, loader, fuel>>
=============================================================================
