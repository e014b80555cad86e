----------------------------- MODULE BuildProofs -----------------------------
(***************************************************************************)
(* Theorems about Build, for any number of builds, any set of JDKs and any *)
(* number of calls between C++ and Java code.                              *)
(***************************************************************************)
EXTENDS Build, SequenceTheorems, TLAPS

-----------------------------------------------------------------------------
(* Facts about sequences.                                                  *)

\* The stack without its innermost call.
LEMMA FrontFacts ==
  ASSUME NEW S, NEW s \in Seq(S), s # <<>>
  PROVE  /\ Front(s) \in Seq(S) /\ Len(Front(s)) = Len(s) - 1
         /\ \A i \in 1..Len(s) - 1 : Front(s)[i] = s[i]
         /\ Len(s) \in Nat \ {0} /\ Last(s) = s[Len(s)]
<1>1. Len(s) \in Nat /\ Len(s) # 0
  BY EmptySeq
<1>2. \A i \in 1..Len(s) - 1 : 1 <= i /\ i <= Len(s)
  BY <1>1, SMT
<1>3. \A i \in 1..Len(s) - 1 : s[i] \in S
  BY <1>1, <1>2, ElementOfSeq
<1> DEFINE n == Len(s) - 1
<1>4. /\ SubSeq(s, 1, n) \in Seq(S)
      /\ Len(SubSeq(s, 1, n)) = IF 1 <= n THEN n - 1 + 1 ELSE 0
      /\ \A i \in 1..n - 1 + 1 : SubSeq(s, 1, n)[i] = s[1 + i - 1]
  <2>1. n \in Int /\ 1 \in Int /\ \A i \in 1..n : s[i] \in S
    BY <1>1, <1>3
  <2> HIDE DEF n
  <2>2. QED BY <2>1, SubSeqProperties
<1>5. n >= 0 /\ Len(SubSeq(s, 1, n)) = n
  <2>1. n \in Nat
    BY <1>1
  <2> HIDE DEF n
  <2>2. (IF 1 <= n THEN n - 1 + 1 ELSE 0) = n
    BY <2>1
  <2>3. QED BY <2>1, <2>2, <1>4
<1>6. ASSUME NEW i \in 1..n
      PROVE  SubSeq(s, 1, n)[i] = s[i]
  <2>1. i \in 1..n - 1 + 1 /\ 1 + i - 1 = i
    BY <1>1
  <2>2. QED BY <2>1, <1>4
<1>7. Front(s) = SubSeq(s, 1, n) /\ Last(s) = s[Len(s)]
  BY DEF Front, Last
<1>8. QED BY <1>1, <1>4, <1>5, <1>6, <1>7

\* What a thread still has to do once the compiler stopped, before and after it told
\* the dialog, and as long as ~Compiler has not run.
WillTell ==
  {<<"tell", "close", "destroy", "store">>, <<"destroy", "tell", "close", "store">>, <<"tell", "close", "store">>}
WillClose == {<<"close", "destroy", "store">>, <<"close", "store">>}
HasClosed == {<<"destroy", "store">>, <<"store">>, <<>>}
WillDestroy ==
  {<<"tell", "close", "destroy", "store">>, <<"destroy", "tell", "close", "store">>,
   <<"close", "destroy", "store">>, <<"destroy", "store">>}
Plan == WillTell \cup WillClose \cup HasClosed

\* What is left of a plan when its first step is done.
LEMMA TodoFacts ==
  ASSUME NEW t \in Plan, t # <<>>
  PROVE  /\ Head(t) = "tell" => t \in WillTell /\ Tail(t) \in WillClose /\ (t \in WillDestroy => Tail(t) \in WillDestroy)
         /\ Head(t) = "close" => t \in WillClose /\ Tail(t) \in HasClosed \ {<<>>} /\ (t \in WillDestroy => Tail(t) \in WillDestroy)
         /\ Head(t) = "destroy" =>
              /\ t \in WillTell => Tail(t) \in WillTell
              /\ t \in HasClosed => Tail(t) \in HasClosed
              /\ t \notin WillClose
              /\ Tail(t) \in Plan /\ Tail(t) # <<>> /\ t # <<>>
         /\ Head(t) = "store" => Tail(t) = <<>> /\ t = <<"store">> /\ t \in HasClosed
<1>1. CASE t = <<"tell", "close", "destroy", "store">>
  <2>1. Head(t) = "tell" /\ Tail(t) = <<"close", "destroy", "store">>
    BY <1>1
  <2>2. QED BY <1>1, <2>1 DEF WillTell, WillClose, HasClosed, WillDestroy
<1>2. CASE t = <<"destroy", "tell", "close", "store">>
  <2>1. Head(t) = "destroy" /\ Tail(t) = <<"tell", "close", "store">>
    BY <1>2
  <2>2. QED BY <1>2, <2>1 DEF WillTell, WillClose, HasClosed, WillDestroy, Plan
<1>3. CASE t = <<"tell", "close", "store">>
  <2>1. Head(t) = "tell" /\ Tail(t) = <<"close", "store">>
    BY <1>3
  <2>2. QED BY <1>3, <2>1 DEF WillTell, WillClose, HasClosed, WillDestroy
<1>4. CASE t = <<"close", "destroy", "store">>
  <2>1. Head(t) = "close" /\ Tail(t) = <<"destroy", "store">>
    BY <1>4
  <2>2. QED BY <1>4, <2>1 DEF WillTell, WillClose, HasClosed, WillDestroy
<1>5. CASE t = <<"close", "store">>
  <2>1. Head(t) = "close" /\ Tail(t) = <<"store">>
    BY <1>5
  <2>2. QED BY <1>5, <2>1 DEF WillTell, WillClose, HasClosed, WillDestroy
<1>6. CASE t = <<"destroy", "store">>
  <2>1. Head(t) = "destroy" /\ Tail(t) = <<"store">>
    BY <1>6
  <2>2. QED BY <1>6, <2>1 DEF WillTell, WillClose, HasClosed, WillDestroy, Plan
<1>7. CASE t = <<"store">>
  <2>1. Head(t) = "store" /\ Tail(t) = <<>>
    BY <1>7
  <2>2. QED BY <1>7, <2>1 DEF WillTell, WillClose, HasClosed, WillDestroy
<1>8. QED BY <1>1, <1>2, <1>3, <1>4, <1>5, <1>6, <1>7 DEF Plan, WillTell, WillClose, HasClosed

-----------------------------------------------------------------------------
(* The inductive invariant.                                                *)

Types ==
  /\ gui \in {"idle", "dialog", "returned", "quit", "exiting", "exited", "crashed"}
  /\ build \in 0..MaxBuilds /\ java \in BOOLEAN /\ jdk \in JdkKind
  /\ worker \in Phases \cup {"none", "started", "ending", "finished"}
  /\ cancel \in BOOLEAN /\ output \in BOOLEAN
  /\ outcome \in Signal \cup {None}
  /\ result \in {None, "Accepted", "Rejected"} /\ status \in {"ready", "building", "error"}
  /\ dll \in BOOLEAN /\ vm \in {"none", "bare", "full"} /\ env \in Thread \cup {None}
  /\ attached \subseteq Thread
  /\ initialized \in BOOLEAN /\ detach \in BOOLEAN
  /\ stage \in Stages /\ frames \in Seq(Frame) /\ pending \in BOOLEAN
  /\ cpp \in {"run", "check", "clear", "throw"} /\ loader \in BOOLEAN /\ fuel \in 0..MaxCalls

\* The thread runs only under a dialog, which returns only when the thread is done.
ThreadInv ==
  /\ worker # "none" => gui \in {"dialog", "returned"}
  /\ gui = "returned" => worker = "finished"
  /\ worker = "ending" => todo \in Plan

\* The dialog hears how the build ended, in this order, and nothing else.
Answer == IF outcome = "success" THEN "accept" ELSE "reject"
Silent == worker \in {"none", "started"} \cup Phases \/ (worker = "ending" /\ todo \in WillTell)
Told == worker = "ending" /\ todo \in WillClose
Closed == (worker = "ending" /\ todo \in HasClosed) \/ worker = "finished"
EventInv ==
  /\ Silent => posted = <<>> \/ gui = "crashed"
  /\ Told => posted \in {<<>>, <<outcome>>}
  /\ Closed => posted \in {<<>>, <<Answer>>, <<outcome, Answer>>}
  /\ (Told /\ posted = <<>>) \/ (Closed /\ posted \in {<<>>, <<Answer>>}) =>
       status = IF outcome = "failure" THEN "error" ELSE "ready"
  /\ worker \in {"ending", "finished"} => outcome \in Signal
  /\ (worker = "ending" /\ todo = <<>>) \/ worker = "finished" => output = (outcome = "success")
  /\ gui = "crashed" => Len(posted) <= 2 /\ posted \in Seq(Event)
  /\ gui = "crashed" => todo \in Seq({"tell", "close", "destroy", "store"})
  /\ worker \notin {"none", "ending"} => todo = <<>>
  /\ worker = "none" /\ gui # "crashed" => todo = <<>>
  /\ gui = "returned" /\ result = "Accepted" => outcome = "success" /\ status = "ready"

\* Only the thread of the build is attached, through its own env, until ~Compiler.
JvmInv ==
  /\ attached # {} =>
       /\ attached = {build} /\ env = build /\ vm # "none" /\ detach
       /\ worker \in {"java", "rest"} \/ (worker = "ending" /\ todo \in WillDestroy)
  /\ worker = "java" => build \in attached

\* Java code calls only natives, natives and the compiler call only Java code, and no
\* exception waits where C++ code runs on.
Alternating(f) ==
  /\ f # <<>> => f[1] # "native"
  /\ \A i \in 1..Len(f) - 1 : (f[i] = "native") # (f[i + 1] = "native")
CallInv ==
  /\ Alternating(frames)
  /\ ~InJava /\ cpp \in {"run", "throw"} => ~pending
  /\ frames # <<>> /\ frames[1] = "message" => ~loader
  /\ InCompiler /\ cpp \in {"clear", "throw"} => ~loader
  /\ loader => stage = "tools"
  /\ worker # "java" => frames = <<>> /\ ~pending /\ ~loader /\ cpp = "run"

IInv == Types /\ ThreadInv /\ EventInv /\ JvmInv /\ CallInv

\* Before the first build nothing runs, nothing is queued and no JVM is loaded.
LEMMA Initially == Init => IInv
<1> SUFFICES ASSUME Init PROVE IInv
  OBVIOUS
<1> USE DEF Init, InitCalls
<1>1. Types
  <2>1. 0 \in 0..MaxBuilds /\ 0 \in 0..MaxCalls /\ <<>> \in Seq(Frame)
    BY BuildAssumption, CallsAssumption
  <2>2. QED BY <2>1 DEF Types, JdkKind, Phases, Thread, Stages
<1>2. ThreadInv
  BY DEF ThreadInv
<1>3. EventInv
  BY DEF EventInv, Silent, Told, Closed, Phases
<1>4. JvmInv
  BY DEF JvmInv
<1>5. CallInv
  <2>1. Alternating(<<>>)
    BY DEF Alternating
  <2>2. QED BY <2>1 DEF CallInv, InJava, InCompiler
<1>6. QED BY <1>1, <1>2, <1>3, <1>4, <1>5 DEF IInv

-----------------------------------------------------------------------------
(* Calls between C++ and Java code.                                        *)

\* A call of the other language keeps the frames alternating.
LEMMA Deeper ==
  ASSUME frames \in Seq(Frame), Alternating(frames), NEW x \in Frame,
         (x = "native") = InJava
  PROVE  /\ Append(frames, x) \in Seq(Frame) /\ Alternating(Append(frames, x))
         /\ Append(frames, x)[1] = IF frames = <<>> THEN x ELSE frames[1]
         /\ Len(Append(frames, x)) = Len(frames) + 1
         /\ Last(Append(frames, x)) = x /\ Append(frames, x) # <<>>
<1> DEFINE g == Append(frames, x)
<1>1. /\ g \in Seq(Frame) /\ g # <<>> /\ Len(g) = Len(frames) + 1
      /\ \A i \in 1..Len(frames) : g[i] = frames[i]
      /\ g[Len(frames) + 1] = x /\ Len(frames) \in Nat
  BY AppendProperties
<1> HIDE DEF g
<1>2. Last(g) = x
  BY <1>1 DEF Last
<1>3. frames # <<>> => Len(frames) >= 1
  BY <1>1, EmptySeq
<1>4. frames = <<>> => Len(frames) = 0
  OBVIOUS
<1>5. g[1] = IF frames = <<>> THEN x ELSE frames[1]
  BY <1>1, <1>3, <1>4
<1>6. frames # <<>> => (x = "native") # (frames[Len(frames)] = "native")
  BY DEF InJava, Last
<1>7. g[1] # "native"
  <2>1. frames = <<>> => x # "native"
    BY DEF InJava
  <2>2. QED BY <1>5, <2>1 DEF Alternating
<1>8. ASSUME NEW i \in 1..Len(g) - 1
      PROVE  (g[i] = "native") # (g[i + 1] = "native")
  <2>1. CASE i = Len(frames)
    <3>1. frames # <<>>
      BY <1>4, <2>1
    <3>2. g[i] = frames[Len(frames)] /\ g[i + 1] = x
      BY <1>1, <2>1
    <3>3. QED BY <1>6, <3>1, <3>2
  <2>2. CASE i # Len(frames)
    <3>1. i \in 1..Len(frames) - 1 /\ i \in 1..Len(frames) /\ i + 1 \in 1..Len(frames)
      BY <1>1, <2>2
    <3>2. g[i] = frames[i] /\ g[i + 1] = frames[i + 1]
      BY <1>1, <3>1
    <3>3. QED BY <3>1, <3>2 DEF Alternating
  <2>3. QED BY <2>1, <2>2
<1>9. QED BY <1>1, <1>2, <1>5, <1>7, <1>8 DEF Alternating, g

\* So does a return.
LEMMA Shallower ==
  ASSUME frames \in Seq(Frame), Alternating(frames), frames # <<>>
  PROVE  /\ Front(frames) \in Seq(Frame) /\ Alternating(Front(frames))
         /\ Front(frames) # <<>> => Front(frames)[1] = frames[1]
         /\ Front(frames) # <<>> => (Last(Front(frames)) = "native") # (Last(frames) = "native")
         /\ Len(Front(frames)) < Len(frames)
         /\ Last(frames) = "native" => Front(frames) # <<>>
         /\ Front(frames) = <<>> => frames[1] = Last(frames)
<1> DEFINE g == Front(frames)
<1>1. /\ g \in Seq(Frame) /\ Len(g) = Len(frames) - 1
      /\ \A i \in 1..Len(frames) - 1 : g[i] = frames[i]
      /\ Len(frames) \in Nat \ {0} /\ Last(frames) = frames[Len(frames)]
  BY FrontFacts
<1> HIDE DEF g
<1>2. g # <<>> => Len(g) >= 1
  BY <1>1, EmptySeq
<1>3. g = <<>> => Len(frames) = 1
  BY <1>1
<1>4. g # <<>> => g[1] = frames[1]
  BY <1>1, <1>2
<1>5. Alternating(g)
  <2>1. g # <<>> => g[1] # "native"
    BY <1>4 DEF Alternating
  <2>2. ASSUME NEW i \in 1..Len(g) - 1
        PROVE  (g[i] = "native") # (g[i + 1] = "native")
    <3>1. i \in 1..Len(frames) - 1 /\ i + 1 \in 1..Len(frames) - 1
      BY <1>1
    <3>2. QED BY <1>1, <3>1 DEF Alternating
  <2>3. QED BY <2>1, <2>2 DEF Alternating
<1>6. ASSUME g # <<>>
      PROVE  (Last(g) = "native") # (Last(frames) = "native")
  <2>1. Len(g) \in 1..Len(frames) - 1 /\ Len(g) + 1 = Len(frames)
    BY <1>1, <1>2, <1>6
  <2>2. Last(g) = frames[Len(g)]
    BY <1>1, <2>1 DEF Last
  <2>3. (frames[Len(g)] = "native") # (frames[Len(g) + 1] = "native")
    BY <2>1 DEF Alternating
  <2>4. QED BY <1>1, <2>1, <2>2, <2>3
<1>7. g = <<>> => frames[1] = Last(frames) /\ Last(frames) # "native"
  BY <1>1, <1>3 DEF Alternating
<1>8. QED BY <1>1, <1>4, <1>5, <1>6, <1>7 DEF g

\* What CallInv and Types say of the calls alone.
Calls ==
  /\ Alternating(frames)
  /\ ~InJava /\ cpp \in {"run", "throw"} => ~pending
  /\ frames # <<>> /\ frames[1] = "message" => ~loader
  /\ InCompiler /\ cpp \in {"clear", "throw"} => ~loader
  /\ loader => stage = "tools"
  /\ stage \in Stages /\ frames \in Seq(Frame) /\ pending \in BOOLEAN
  /\ cpp \in {"run", "check", "clear", "throw"} /\ loader \in BOOLEAN /\ fuel \in 0..MaxCalls

\* A Java method that returns or throws gives control to the C++ code that called it.
LEMMA JavaLeaves ==
  ASSUME Calls, InJava, LeaveJava, pending' \in BOOLEAN
  PROVE  Calls'
<1>1. frames # <<>> /\ Last(frames) # "native"
  BY DEF InJava
<1>2. /\ frames' \in Seq(Frame) /\ Alternating(frames')
      /\ frames' # <<>> => frames'[1] = frames[1]
      /\ frames' = <<>> => frames[1] = Last(frames)
  BY <1>1, Shallower DEF Calls, LeaveJava
<1>3. cpp' \in {"clear", "check"} /\ (cpp' = "clear" => Last(frames) = "message")
  BY DEF LeaveJava
<1>4. UNCHANGED <<stage, loader, fuel>>
  BY DEF LeaveJava
<1>5. QED BY <1>1, <1>2, <1>3, <1>4 DEF Calls, InCompiler

\* Every step of Java code and natives keeps the calls well formed.
LEMMA CallsGoOn ==
  ASSUME Calls, RunCalls
  PROVE  Calls'
<1>1. CASE JavaReturns
  BY <1>1, JavaLeaves DEF JavaReturns, Calls
<1>2. CASE JavaThrows
  BY <1>2, JavaLeaves DEF JavaThrows
<1>3. CASE JavaCatches
  BY <1>3 DEF JavaCatches, Calls, InJava, InCompiler
<1>4. CASE JavaCallsNative
  <2>1. InJava /\ frames' = Append(frames, "native") /\ cpp' = "run" /\ ~pending /\ UNCHANGED <<stage, pending, loader>>
    BY <1>4 DEF JavaCallsNative
  <2>2. fuel' \in 0..MaxCalls
    BY <1>4, CallsAssumption DEF JavaCallsNative, Calls
  <2>3. frames' \in Seq(Frame) /\ Alternating(frames') /\ frames' # <<>> /\ frames'[1] = frames[1]
    BY <2>1, Deeper DEF Calls, Frame, InJava
  <2>4. QED BY <2>1, <2>2, <2>3 DEF Calls, InCompiler, InJava
<1>5. CASE NativeCalls
  <2>1. InNative /\ frames' = Append(frames, "call") /\ cpp = "run" /\ UNCHANGED <<stage, pending, cpp, loader>>
    BY <1>5 DEF NativeCalls
  <2>2. fuel' \in 0..MaxCalls
    BY <1>5, CallsAssumption DEF NativeCalls, Calls
  <2>3. frames' \in Seq(Frame) /\ Alternating(frames') /\ frames' # <<>> /\ frames'[1] = frames[1] /\ Last(frames') = "call"
    BY <2>1, Deeper DEF Calls, Frame, InJava, InNative
  <2>4. QED BY <2>1, <2>2, <2>3 DEF Calls, InCompiler, InJava
<1>6. CASE NativeReturns \/ NativeFails
  <2>1. InNative /\ frames' = Front(frames) /\ cpp' = "run" /\ pending' \in BOOLEAN /\ UNCHANGED <<stage, loader, fuel>>
    BY <1>6 DEF NativeReturns, NativeFails, Calls
  <2>2. frames # <<>> /\ Last(frames) = "native"
    BY <2>1 DEF InNative
  <2>3. /\ frames' \in Seq(Frame) /\ Alternating(frames') /\ frames' # <<>>
        /\ frames'[1] = frames[1] /\ Last(frames') # "native"
    BY <2>1, <2>2, Shallower DEF Calls
  <2>4. QED BY <2>1, <2>2, <2>3 DEF Calls, InCompiler, InJava
<1>7. CASE NativeThrows
  <2>1. InNative /\ cpp = "run" /\ UNCHANGED <<stage, frames, pending, loader, fuel>> /\ cpp' = "throw"
    BY <1>7 DEF NativeThrows
  <2>2. ~InJava /\ ~InCompiler
    BY <2>1 DEF InJava, InNative, InCompiler
  <2>3. QED BY <2>1, <2>2 DEF Calls, InJava, InCompiler
<1>8. CASE NativeContinues
  <2>1. InNative /\ cpp' = "run" /\ ~pending /\ UNCHANGED <<stage, frames, pending, loader, fuel>>
    BY <1>8 DEF NativeContinues
  <2>2. ~InCompiler
    BY <2>1 DEF InNative, InCompiler
  <2>3. QED BY <2>1, <2>2 DEF Calls, InJava, InCompiler
<1>9. CASE RethrowCurrent
  <2>1. cpp = "check" /\ pending' = FALSE /\ frames' = Append(frames, "message") /\ UNCHANGED <<stage, cpp, fuel>>
    BY <1>9 DEF RethrowCurrent, ClearCaught
  <2>2. loader' = (loader /\ InNative)
    BY <1>9 DEF RethrowCurrent, StillLoaded
  <2>3. /\ frames' \in Seq(Frame) /\ Alternating(frames') /\ frames' # <<>>
        /\ frames'[1] = IF frames = <<>> THEN "message" ELSE frames[1]
    <3>1. ("message" = "native") = InJava /\ "message" \in Frame
      BY <1>9 DEF RethrowCurrent, InJava, Frame
    <3>2. QED BY <2>1, <3>1, Deeper DEF Calls
  <2>4. loader' \in BOOLEAN /\ (loader' => loader) /\ (frames = <<>> => ~loader')
    <3>1. loader' \in BOOLEAN
      BY <2>2, Zenon
    <3>2. loader' => loader /\ InNative
      BY <2>2, Zenon
    <3>3. QED BY <3>1, <3>2 DEF InNative
  <2>5. frames'[1] = "message" => ~loader'
    BY <2>3, <2>4 DEF Calls
  <2>6. loader' => stage' = "tools"
    BY <2>1, <2>4 DEF Calls
  <2>7. QED BY <2>1, <2>3, <2>4, <2>5, <2>6 DEF Calls, InCompiler
<1>10. CASE Rethrown
  BY <1>10 DEF Rethrown, DropRaised, Calls, InJava, InCompiler
<1>11. QED BY <1>1, <1>2, <1>3, <1>4, <1>5, <1>6, <1>7, <1>8, <1>9, <1>10 DEF RunCalls

\* So does every step of the compiler in the Java phase; it is over only when nothing is in progress.
LEMMA CompilerGoesOn ==
  ASSUME Calls, NEW c \in BOOLEAN, CompilerCalls(c) \/ CompilerContinues \/ Generated
  PROVE  Calls' /\ (stage' = "done" => frames' = <<>> /\ ~pending' /\ ~loader' /\ cpp' = "run")
<1>1. CASE CompilerCalls(c)
  <2>1. frames' = <<"call">> /\ fuel' = MaxCalls /\ UNCHANGED <<stage, pending, cpp, loader>>
    BY <1>1 DEF CompilerCalls
  <2>2. stage # "done"
    BY <1>1 DEF CompilerCalls, MayCall
  <2>3. Alternating(<<"call">>) /\ <<"call">> \in Seq(Frame) /\ <<"call">>[1] = "call" /\ Last(<<"call">>) = "call"
    BY DEF Alternating, Frame, Last
  <2>4. QED BY <2>1, <2>2, <2>3, CallsAssumption DEF Calls, InJava, InCompiler
<1>2. CASE CompilerContinues
  <2>1. frames = <<>> /\ ~pending /\ cpp' = "run" /\ UNCHANGED <<frames, pending, fuel>>
    BY <1>2 DEF CompilerContinues, CallReturned, Unnoticed, InCompiler
  <2>2. CASE stage = "tools" /\ ~loader
    <3>1. loader' = TRUE /\ stage' = stage
      BY <1>2, <2>2 DEF CompilerContinues
    <3>2. QED BY <2>1, <2>2, <3>1 DEF Calls, InJava, InCompiler
  <2>3. CASE ~(stage = "tools" /\ ~loader)
    <3>1. loader' = FALSE
      <4>1. ~InNative
        BY <2>1 DEF InNative
      <4>2. loader' = StillLoaded
        BY <1>2, <2>3 DEF CompilerContinues
      <4>3. QED BY <4>1, <4>2, Zenon DEF StillLoaded
    <3>2. stage' \in Stages
      BY <1>2, <2>3 DEF CompilerContinues, Calls, Stages, NextStage
    <3>3. QED BY <2>1, <3>1, <3>2 DEF Calls, InJava, InCompiler
  <2>4. QED BY <2>2, <2>3
<1>3. CASE Generated
  <2>1. frames = <<>> /\ stage' = "game" /\ ~loader /\ cpp = "run" /\ UNCHANGED <<frames, pending, cpp, loader, fuel>>
    BY <1>3 DEF Generated, AtProgress, InCompiler, NextStage
  <2>2. QED BY <2>1 DEF Calls, InJava, InCompiler, Stages
<1>4. QED BY <1>1, <1>2, <1>3

\* The compiler leaves the Java phase with nothing in progress.
LEMMA AtProgressClean ==
  ASSUME Calls, AtProgress
  PROVE  frames = <<>> /\ ~pending /\ ~loader /\ cpp = "run"
BY DEF Calls, AtProgress, InCompiler, InJava

\* A phase that fails leaves no frame and no exception waiting.
LEMMA FailedClean ==
  ASSUME Calls, CompilerFailed \/ (CallReturned /\ stage \in {"game", "scripts"}), LeaveCalls
  PROVE  Calls' /\ frames' = <<>> /\ ~pending' /\ ~loader' /\ cpp' = "run"
<1>1. frames = <<>> /\ ~InJava
  BY DEF CompilerFailed, CallReturned, InCompiler, InJava
<1>2. ~pending /\ ~loader
  BY <1>1 DEF CompilerFailed, CallReturned, Unnoticed, Calls, InCompiler
<1>3. cpp' = "run" /\ UNCHANGED <<stage, frames, pending, loader, fuel>>
  BY DEF LeaveCalls
<1>4. QED BY <1>1, <1>2, <1>3 DEF Calls, InJava, InCompiler

\* The steps that concern neither the calls nor the thread's phase.
GuiStep ==
  \/ BuildProject \/ HandleEvent \/ UserCloses \/ BuildReturns
  \/ Quit \/ DestroyContext \/ Unload \/ Over \/ UNCHANGED vars

\* The GUI thread makes no call, and starts a thread only where none runs.
LEMMA GuiSteps ==
  ASSUME ThreadInv, GuiStep
  PROVE  UNCHANGED callVars /\ (worker' = worker \/ (worker \in {"none", "finished"} /\ worker' \in {"none", "started"}))
<1>1. CASE BuildProject
  BY <1>1 DEF BuildProject, ThreadInv
<1>2. CASE HandleEvent
  BY <1>2 DEF HandleEvent, HandleOutcome, HandleDone, Done
<1>3. CASE UserCloses
  BY <1>3 DEF UserCloses, Done
<1>4. CASE BuildReturns
  BY <1>4 DEF BuildReturns, ThreadInv
<1>5. CASE Quit \/ DestroyContext \/ Unload \/ Over \/ UNCHANGED vars
  BY <1>5 DEF Quit, DestroyContext, Unload, Over, vars
<1>6. QED BY <1>1, <1>2, <1>3, <1>4, <1>5 DEF GuiStep

\* The calls stay well formed, and outside the Java phase there are none.
LEMMA CallStep ==
  ASSUME Types, ThreadInv, CallInv, [Next]_vars
  PROVE  CallInv' /\ Calls'
<1>1. Calls
  BY DEF Types, CallInv, Calls
<1>2. SUFFICES Calls' /\ (worker' # "java" => frames' = <<>> /\ ~pending' /\ ~loader' /\ cpp' = "run")
  BY DEF Calls, CallInv
<1>3. UNCHANGED callVars => Calls'
  BY <1>1 DEF Calls, callVars, InJava, InCompiler
<1>4. worker # "java" => frames = <<>> /\ ~pending /\ ~loader /\ cpp = "run"
  BY DEF CallInv
<1>5. CASE GuiStep
  BY <1>3, <1>4, <1>5, GuiSteps DEF callVars
<1>6. CASE Connect \/ Compile \/ Tell \/ Close \/ Store \/ Finish
  <2>1. worker # "java" /\ UNCHANGED callVars
    BY <1>6 DEF Connect, Compile, Tell, Close, Store, Finish, Does
  <2>2. QED BY <1>3, <1>4, <2>1 DEF callVars
<1>7. CASE CancelCompile
  <2>1. UNCHANGED callVars /\ (worker = "java" => AtProgress)
    BY <1>7 DEF CancelCompile
  <2>2. frames = <<>> /\ ~pending /\ ~loader /\ cpp = "run"
    BY <1>1, <1>4, <2>1, AtProgressClean
  <2>3. QED BY <1>3, <2>1, <2>2 DEF callVars
<1>8. CASE AttachJvm \/ LoadJvm
  <2>1. worker = "jvm" /\ (EnterJava \/ UNCHANGED callVars)
    BY <1>8 DEF AttachJvm, LoadJvm
  <2>2. UNCHANGED <<frames, pending, cpp, loader, fuel>>
    BY <2>1 DEF EnterJava, callVars
  <2>3. stage' \in Stages
    BY <1>1, <2>1 DEF EnterJava, callVars, Stages, Calls
  <2>4. QED BY <1>1, <1>4, <2>1, <2>2, <2>3 DEF Calls, InJava, InCompiler
<1>9. CASE RunJava
  <2>1. worker' = "java" /\ (RunCalls \/ CompilerCalls(cancel))
    BY <1>9 DEF RunJava, StaysInJava
  <2>2. QED BY <1>1, <2>1, CallsGoOn, CompilerGoesOn DEF Types
<1>10. CASE JavaDone
  <2>1. CompilerContinues /\ (worker' = IF stage' = "done" THEN "rest" ELSE "java")
    BY <1>10 DEF JavaDone, Continue
  <2>2. QED BY <1>1, <2>1, CompilerGoesOn DEF Types
<1>11. CASE JavaFailed
  BY <1>1, <1>11, FailedClean DEF JavaFailed
<1>12. CASE Generate
  <2>1. CASE StaysInJava /\ Generated
    BY <1>1, <2>1, CompilerGoesOn DEF StaysInJava, Types
  <2>2. CASE ~(StaysInJava /\ Generated)
    <3>1. AtProgress /\ UNCHANGED callVars
      BY <1>12, <2>2 DEF Generate
    <3>2. QED BY <1>1, <1>3, <3>1, AtProgressClean DEF callVars
  <2>3. QED BY <2>1, <2>2
<1>13. CASE DestroyCompiler
  <2>1. worker = "ending" /\ loader' = FALSE /\ UNCHANGED <<stage, frames, pending, cpp, fuel>>
    BY <1>13 DEF DestroyCompiler, Does
  <2>2. QED BY <1>1, <1>4, <2>1 DEF Calls, InJava, InCompiler
<1>14. QED BY <1>5, <1>6, <1>7, <1>8, <1>9, <1>10, <1>11, <1>12, <1>13 DEF Next, RunThread, GuiStep

-----------------------------------------------------------------------------
(* The thread and the virtual machine.                                     *)

\* Where a build stops, it has told nothing yet.
LEMMA Stopped ==
  ASSUME NEW o, NEW inside \in BOOLEAN, Stop(o, inside)
  PROVE  /\ worker' = "ending" /\ outcome' = o
         /\ todo' \in WillTell \cap WillDestroy
BY DEF Stop, WillTell, WillDestroy

\* The steps of the thread in its phases: it goes on to another phase or stops.
PhaseStep == Connect \/ CancelCompile \/ Compile \/ AttachJvm \/ LoadJvm \/ RunJava \/ JavaDone \/ JavaFailed \/ Generate
\* Its steps after the compiler stopped.
EndStep == Tell \/ Close \/ DestroyCompiler \/ Store \/ Finish

\* A step of a phase changes nothing of the dialog.
LEMMA PhaseSteps ==
  ASSUME Types, PhaseStep
  PROVE  /\ worker \in {"started"} \cup Phases
         /\ UNCHANGED <<gui, dialogVars, cancel, posted, output>>
         /\ \/ worker' \in Phases /\ UNCHANGED <<outcome, todo>>
            \/ worker' = "ending" /\ outcome' \in Signal /\ todo' \in WillTell \cap WillDestroy
<1> USE DEF Phases, Signal
<1>1. CASE Connect
  BY <1>1 DEF Connect
<1>2. CASE CancelCompile
  BY <1>2, Stopped DEF CancelCompile
<1>3. CASE Compile
  BY <1>3, Stopped DEF Compile, Continue
<1>4. CASE AttachJvm
  BY <1>4, Stopped DEF AttachJvm, Continue
<1>5. CASE LoadJvm
  BY <1>5, Stopped DEF LoadJvm, Continue
<1>6. CASE RunJava
  BY <1>6 DEF RunJava, StaysInJava, OtherwiseUnchanged
<1>7. CASE JavaDone
  BY <1>7 DEF JavaDone, Continue, OtherwiseUnchanged
<1>8. CASE JavaFailed
  BY <1>8, Stopped DEF JavaFailed, LeavesJava, OtherwiseUnchanged
<1>9. CASE Generate
  BY <1>9, Stopped DEF Generate, StaysInJava, LeavesJava, OtherwiseUnchanged
<1>10. QED BY <1>1, <1>2, <1>3, <1>4, <1>5, <1>6, <1>7, <1>8, <1>9 DEF PhaseStep

\* Every step is one of the GUI, of a phase, or after the compiler stopped.
LEMMA NextSteps ==
  ASSUME [Next]_vars
  PROVE  GuiStep \/ PhaseStep \/ EndStep
BY DEF Next, RunThread, GuiStep, PhaseStep, EndStep

\* A dialog outlives its thread.
LEMMA ThreadStep ==
  ASSUME Types, ThreadInv, [Next]_vars
  PROVE  ThreadInv'
<1>1. CASE PhaseStep
  <2>1. gui = "dialog"
    BY <1>1, PhaseSteps DEF ThreadInv, Phases
  <2>2. gui' = gui
    BY <1>1, PhaseSteps
  <2>3. todo' \in WillTell => todo' \in Plan
    BY DEF Plan
  <2>4. QED BY <1>1, <2>1, <2>2, <2>3, PhaseSteps DEF ThreadInv, Phases
<1>2. CASE Tell \/ Close \/ Store
  <2>1. worker = "ending" /\ worker' = "ending" /\ gui' = gui /\ todo # <<>> /\ todo' = Tail(todo)
        /\ Head(todo) \in {"tell", "close", "store"}
    BY <1>2 DEF Tell, Close, Store, Does
  <2>2. Tail(todo) \in Plan
    BY <2>1, TodoFacts DEF ThreadInv, Plan, HasClosed
  <2>3. QED BY <2>1, <2>2 DEF ThreadInv
<1>3. CASE DestroyCompiler
  <2>1. worker = "ending" /\ todo # <<>> /\ todo' = Tail(todo) /\ Head(todo) = "destroy"
    BY <1>3 DEF DestroyCompiler, Does
  <2>2. Tail(todo) \in Plan
    BY <2>1, TodoFacts DEF ThreadInv
  <2>3. gui = "dialog"
    BY <2>1 DEF ThreadInv
  <2>4. (gui' = "crashed" /\ worker' = "none") \/ UNCHANGED <<gui, worker>>
    BY <1>3 DEF DestroyCompiler
  <2>5. QED BY <2>1, <2>2, <2>3, <2>4 DEF ThreadInv
<1>4. CASE Finish
  BY <1>4 DEF Finish, ThreadInv, dialogVars
<1>5. CASE BuildProject
  BY <1>5 DEF BuildProject, ThreadInv
<1>6. CASE HandleEvent \/ UserCloses
  <2>1. UNCHANGED <<worker, todo>> /\ gui = "dialog" /\ (gui' = "dialog" \/ (gui' = "returned" /\ worker = "finished"))
    BY <1>6 DEF HandleEvent, HandleOutcome, HandleDone, UserCloses, Done
  <2>2. QED BY <2>1 DEF ThreadInv
<1>7. CASE BuildReturns \/ Quit \/ DestroyContext \/ Unload \/ Over \/ UNCHANGED vars
  BY <1>7 DEF BuildReturns, Quit, DestroyContext, Unload, Over, vars, ThreadInv
<1>8. QED BY <1>1, <1>2, <1>3, <1>4, <1>5, <1>6, <1>7, NextSteps DEF GuiStep, EndStep

\* A thread that is gone is not attached to the JVM, and env belongs to the thread that uses it.
LEMMA JvmStep ==
  ASSUME Types, ThreadInv, JvmInv, [Next]_vars
  PROVE  JvmInv'
<1>1. CASE GuiStep
  <2>1. worker' = worker \/ (worker \in {"none", "finished"} /\ worker' \in {"none", "started"})
    BY <1>1, GuiSteps
  <2>2. attached' = attached
    BY <1>1 DEF GuiStep, BuildProject, HandleEvent, HandleOutcome, HandleDone, UserCloses, BuildReturns, Quit,
       DestroyContext, Unload, Over, vars, jvmVars
  <2>3. CASE worker \in {"none", "finished", "started"} \/ attached = {}
    BY <2>1, <2>2, <2>3 DEF JvmInv
  <2>4. CASE worker \notin {"none", "finished", "started"}
    <3>1. gui = "dialog"
      BY <2>4 DEF ThreadInv, Types, Phases
    <3>2. UNCHANGED <<build, worker, todo, jvmVars>>
      BY <1>1, <3>1, <2>4 DEF GuiStep, BuildProject, HandleEvent, HandleOutcome, HandleDone, UserCloses, BuildReturns, Quit,
         DestroyContext, Unload, Over, vars, jvmVars, dialogVars
    <3>3. QED BY <3>2 DEF JvmInv, jvmVars
  <2>5. QED BY <2>3, <2>4
<1>2. CASE Connect \/ CancelCompile \/ Compile \/ RunJava \/ JavaDone \/ JavaFailed \/ Generate
  <2>1. UNCHANGED <<build, jvmVars>>
    BY <1>2 DEF Connect, CancelCompile, Compile, RunJava, JavaDone, JavaFailed, Generate, OtherwiseUnchanged, dialogVars
  <2>2. worker' = "java" => worker = "java"
    BY <1>2, Stopped DEF Connect, CancelCompile, Compile, RunJava, JavaDone, JavaFailed, Generate, Continue, StaysInJava, LeavesJava
  <2>3. worker \in {"java", "rest"} => worker' \in {"java", "rest"} \/ (worker' = "ending" /\ todo' \in WillDestroy)
    BY <1>2, Stopped DEF Connect, CancelCompile, Compile, RunJava, JavaDone, JavaFailed, Generate, Continue, StaysInJava, LeavesJava
  <2>4. worker # "ending"
    BY <1>2 DEF Connect, CancelCompile, Compile, RunJava, JavaDone, JavaFailed, Generate, StaysInJava, LeavesJava, Phases
  <2>5. QED BY <2>1, <2>2, <2>3, <2>4 DEF JvmInv, jvmVars
<1>3. CASE AttachJvm
  <2>1. worker = "jvm" /\ attached = {} /\ build' = build
    BY <1>3 DEF AttachJvm, JvmInv, dialogVars
  <2>2. detach' = TRUE /\ env' = build /\ vm' = vm
    BY <1>3, <2>1 DEF AttachJvm, IsAttached
  <2>3. CASE vm = "full" /\ attached' = {build} /\ worker' = "java"
    BY <2>1, <2>2, <2>3 DEF JvmInv
  <2>4. CASE attached' = {} /\ worker' = "ending"
    BY <2>4 DEF JvmInv
  <2>5. QED BY <1>3, <2>1, <2>3, <2>4, Stopped DEF AttachJvm, IsAttached, Continue
<1>4. CASE LoadJvm
  <2>1. worker = "jvm" /\ attached = {} /\ build' = build
    BY <1>4 DEF LoadJvm, JvmInv, dialogVars
  <2>2. CASE jdk \in {"bare", "full"}
    <3>1. attached' = {build} /\ env' = build /\ vm' # "none"
      BY <1>4, <2>1, <2>2 DEF LoadJvm
    <3>2. detach'
      BY <1>4, <2>2, Zenon DEF LoadJvm, MarkDetach
    <3>3. worker' = "java" \/ (worker' = "ending" /\ todo' \in WillDestroy)
      BY <1>4, Stopped DEF LoadJvm, Continue
    <3>4. QED BY <2>1, <3>1, <3>2, <3>3 DEF JvmInv
  <2>3. CASE jdk \notin {"bare", "full"}
    <3>1. attached' = {} /\ worker' = "ending"
      BY <1>4, <2>1, <2>3, Stopped DEF LoadJvm
    <3>2. QED BY <3>1 DEF JvmInv
  <2>4. QED BY <2>2, <2>3
<1>5. CASE Tell \/ Close \/ Store \/ Finish
  <2>1. worker = "ending" /\ UNCHANGED <<build, jvmVars>> /\ worker' \in {"ending", "finished"}
    BY <1>5 DEF Tell, Close, Store, Finish, Does, dialogVars
  <2>2. todo \in WillDestroy => worker' = "ending" /\ todo' \in WillDestroy
    <3>1. todo \in WillDestroy => todo # <<>> /\ todo # <<"store">>
      BY DEF WillDestroy
    <3>2. QED BY <1>5, <2>1, <3>1, TodoFacts DEF Tell, Close, Store, Finish, Does, ThreadInv
  <2>3. QED BY <2>1, <2>2 DEF JvmInv, jvmVars
<1>6. CASE DestroyCompiler
  <2>1. worker = "ending" /\ worker' # "java" /\ build' = build
    BY <1>6 DEF DestroyCompiler, Does, dialogVars
  <2>2. attached' = {}
    BY <1>6, <2>1 DEF DestroyCompiler, JvmInv, IsLoaded
  <2>3. QED BY <2>1, <2>2 DEF JvmInv
<1>7. QED BY <1>1, <1>2, <1>3, <1>4, <1>5, <1>6, NextSteps DEF PhaseStep, EndStep

-----------------------------------------------------------------------------
(* What the dialog hears.                                                  *)

\* The answer of a build is told apart from its signal.
LEMMA Distinct ==
  ASSUME outcome \in Signal
  PROVE  /\ Answer \in {"accept", "reject"} /\ Answer \in Event /\ outcome \in Event
         /\ outcome \notin {"accept", "reject"}
         /\ Answer = "accept" <=> outcome = "success"
BY DEF Answer, Signal, Event

\* A queue with one more event.
LEMMA Enqueued ==
  ASSUME NEW q \in Seq(Event), NEW y \in Event
  PROVE  /\ Append(q, y) \in Seq(Event) /\ Len(Append(q, y)) = Len(q) + 1
         /\ \A i \in 1..Len(q) : Append(q, y)[i] = q[i]
         /\ Append(q, y)[Len(q) + 1] = y
BY AppendProperties

\* Queues of one or two events.
LEMMA Queues ==
  ASSUME NEW x \in Event, NEW y \in Event
  PROVE  /\ Append(<<>>, x) = <<x>> /\ Append(<<x>>, y) = <<x, y>>
         /\ Head(<<x>>) = x /\ Tail(<<x>>) = <<>>
         /\ Head(<<x, y>>) = x /\ Tail(<<x, y>>) = <<y>>
         /\ <<x>> # <<>> /\ <<x, y>> # <<>>
<1>1. Append(<<>>, x) = <<x>>
  OBVIOUS
<1>2. Append(<<x>>, y) = <<x, y>>
  <2> DEFINE s == <<x>>
             t == <<x, y>>
             u == Append(s, y)
  <2>1. s \in Seq(Event) /\ Len(s) = 1 /\ s[1] = x
    OBVIOUS
  <2>2. t \in Seq(Event) /\ Len(t) = 2 /\ t[1] = x /\ t[2] = y
    OBVIOUS
  <2>3. /\ u \in Seq(Event) /\ Len(u) = Len(s) + 1 /\ \A i \in 1..Len(s) : u[i] = s[i]
        /\ u[Len(s) + 1] = y
    <3> HIDE DEF s, t
    <3>1. QED BY <2>1, Enqueued
  <2> HIDE DEF s, t, u
  <2>4. Len(u) = 2 /\ u[1] = x /\ u[2] = y
    BY <2>1, <2>3
  <2>5. \A i \in 1..Len(u) : u[i] = t[i]
    BY <2>2, <2>4
  <2>6. u = t
    BY <2>2, <2>3, <2>4, <2>5, SeqEqual
  <2>7. QED BY <2>6 DEF s, t, u
<1>3. Head(<<x>>) = x /\ Head(<<x, y>>) = x
  OBVIOUS
<1>4. Tail(<<x>>) = <<>>
  OBVIOUS
<1>5. Tail(<<x, y>>) = <<y>>
  OBVIOUS
<1>6. QED BY <1>1, <1>2, <1>3, <1>4, <1>5

\* Closed and told, in terms of the queue.
LEMMA EventFacts ==
  ASSUME EventInv, outcome \in Signal, posted # <<>>, worker \in {"ending", "finished"}, worker = "ending" => todo \in Plan,
         gui # "crashed"
  PROVE  \/ Told /\ posted = <<outcome>> /\ Head(posted) = outcome /\ Tail(posted) = <<>>
         \/ Closed /\ posted = <<Answer>> /\ Head(posted) = Answer /\ Tail(posted) = <<>>
         \/ Closed /\ posted = <<outcome, Answer>> /\ Head(posted) = outcome /\ Tail(posted) = <<Answer>>
<1>0. Answer \in Event /\ outcome \in Event
  BY Distinct
<1>1. Silent \/ Told \/ Closed
  BY DEF Silent, Told, Closed, Plan
<1>2. ~Silent
  BY DEF EventInv
<1>3. CASE Told
  BY <1>0, <1>3, Queues DEF EventInv
<1>4. CASE Closed
  <2>1. CASE posted = <<Answer>>
    BY <1>0, <1>4, <2>1, Queues
  <2>2. CASE posted = <<outcome, Answer>>
    BY <1>0, <1>4, <2>2, Queues
  <2>3. QED BY <1>4, <2>1, <2>2 DEF EventInv
<1>5. QED BY <1>1, <1>2, <1>3, <1>4

\* A thread is silent, has told, or has closed.
LEMMA OneOfThree ==
  /\ Silent => ~Told /\ ~Closed
  /\ Told => ~Closed
<1>1. ~("ending" \in {"none", "started"} \cup Phases) /\ ~("finished" \in {"none", "started"} \cup Phases)
  BY DEF Phases
<1>2. \A t \in WillTell : t \notin WillClose /\ t \notin HasClosed
  BY DEF WillTell, WillClose, HasClosed
<1>3. \A t \in WillClose : t \notin HasClosed
  BY DEF WillClose, HasClosed
<1>4. QED BY <1>1, <1>2, <1>3 DEF Silent, Told, Closed

\* A plan is a sequence of steps.
LEMMA PlanTypes ==
  ASSUME NEW t \in Plan
  PROVE  t \in Seq({"tell", "close", "destroy", "store"})
<1>1. <<"tell", "close", "destroy", "store">> \in Seq({"tell", "close", "destroy", "store"})
  OBVIOUS
<1>2. <<"destroy", "tell", "close", "store">> \in Seq({"tell", "close", "destroy", "store"})
  OBVIOUS
<1>3. <<"tell", "close", "store">> \in Seq({"tell", "close", "destroy", "store"})
  OBVIOUS
<1>4. <<"close", "destroy", "store">> \in Seq({"tell", "close", "destroy", "store"})
  OBVIOUS
<1>5. <<"close", "store">> \in Seq({"tell", "close", "destroy", "store"})
  OBVIOUS
<1>6. <<"destroy", "store">> \in Seq({"tell", "close", "destroy", "store"})
  OBVIOUS
<1>7. <<"store">> \in Seq({"tell", "close", "destroy", "store"}) /\ <<>> \in Seq({"tell", "close", "destroy", "store"})
  OBVIOUS
<1>8. QED BY <1>1, <1>2, <1>3, <1>4, <1>5, <1>6, <1>7 DEF Plan, WillTell, WillClose, HasClosed

\* The queue holds at most the signal of a build and its answer.
LEMMA QueueTypes ==
  ASSUME EventInv, Types, ThreadInv
  PROVE  posted \in Seq(Event) /\ Len(posted) <= 2 /\ todo \in Seq({"tell", "close", "destroy", "store"})
<1>1. <<>> \in Seq(Event) /\ Len(<<>>) = 0 /\ <<>> \in Seq({"tell", "close", "destroy", "store"})
  OBVIOUS
<1>2. CASE gui = "crashed"
  BY <1>2 DEF EventInv
<1>3. CASE gui # "crashed"
  <2>1. posted \in Seq(Event) /\ Len(posted) <= 2
    <3>1. CASE Silent
      <4>1. posted = <<>>
        BY <1>3, <3>1 DEF EventInv
      <4>2. QED BY <1>1, <4>1
    <3>2. CASE ~Silent
      <4>1. worker \in {"ending", "finished"} /\ (worker = "ending" => todo \in Plan)
        BY <3>2 DEF Silent, Types, ThreadInv
      <4>2. Answer \in Event /\ outcome \in Event
        BY <4>1, Distinct DEF EventInv
      <4>3. posted \in {<<>>, <<outcome>>, <<Answer>>, <<outcome, Answer>>}
        BY <3>2, <4>1 DEF EventInv, Silent, Told, Closed, Plan
      <4>4. <<outcome>> \in Seq(Event) /\ Len(<<outcome>>) <= 2 /\ <<Answer>> \in Seq(Event) /\ Len(<<Answer>>) <= 2
        BY <4>2
      <4>5. <<outcome, Answer>> \in Seq(Event) /\ Len(<<outcome, Answer>>) <= 2
        BY <4>2
      <4>6. CASE posted = <<>>
        BY <1>1, <4>6
      <4>7. QED BY <4>3, <4>4, <4>5, <4>6
    <3>3. QED BY <3>1, <3>2
  <2>2. todo \in Seq({"tell", "close", "destroy", "store"})
    <3>1. CASE worker = "ending"
      <4>1. todo \in Plan
        BY <3>1 DEF ThreadInv
      <4>2. QED BY <4>1, PlanTypes
    <3>2. CASE worker # "ending"
      BY <1>1, <1>3, <3>2 DEF EventInv
    <3>3. QED BY <3>1, <3>2
  <2>3. QED BY <2>1, <2>2
<1>4. QED BY <1>2, <1>3

\* The GUI thread takes the events in the order they were posted.
LEMMA GuiEvents ==
  ASSUME Types, ThreadInv, EventInv, GuiStep
  PROVE  EventInv'
<1> DEFINE Shown == IF outcome = "failure" THEN "error" ELSE "ready"
<1>0. \A t \in WillTell \cup WillClose : t # <<>>
  BY DEF WillTell, WillClose
<1>1. CASE BuildProject
  <2>1. worker = "none" /\ posted = <<>>
    BY <1>1 DEF BuildProject, ThreadInv, EventInv, Silent
  <2>2. worker' = "started" /\ todo' = <<>> /\ posted' = <<>> /\ gui' = "dialog"
    BY <1>1, <2>1 DEF BuildProject
  <2>3. QED BY <2>2 DEF EventInv, Silent, Told, Closed
<1>2. CASE HandleOutcome
  <2>1. /\ gui = "dialog" /\ posted # <<>> /\ Head(posted) \in Signal /\ posted' = Tail(posted)
        /\ status' = IF Head(posted) = "failure" THEN "error" ELSE "ready"
        /\ UNCHANGED <<gui, worker, todo, outcome, output, result>>
    BY <1>2 DEF HandleOutcome, Signal
  <2>2. ~Silent /\ worker \in {"ending", "finished"} /\ outcome \in Signal
    BY <2>1 DEF EventInv, Silent, Types
  <2>3. worker = "ending" => todo \in Plan
    BY DEF ThreadInv
  <2>4. Answer \notin Signal
    BY <2>2, Distinct DEF Signal
  <2>5. \/ Told /\ posted = <<outcome>> /\ Head(posted) = outcome /\ posted' = <<>>
        \/ Closed /\ posted = <<outcome, Answer>> /\ Head(posted) = outcome /\ posted' = <<Answer>>
    BY <2>1, <2>2, <2>3, <2>4, EventFacts
  <2>6. status' = Shown /\ Answer' = Answer
    BY <2>1, <2>5 DEF Answer
  <2>7. (Silent' <=> Silent) /\ (Told' <=> Told) /\ (Closed' <=> Closed)
    BY <2>1 DEF Silent, Told, Closed
  <2>8. ~(gui' = "returned")
    BY <2>1
  <2>9. QED BY <2>1, <2>2, <2>5, <2>6, <2>7, <2>8, OneOfThree DEF EventInv
<1>3. CASE HandleDone
  <2>1. /\ gui = "dialog" /\ posted # <<>> /\ Head(posted) \in {"accept", "reject"} /\ posted' = Tail(posted)
        /\ UNCHANGED <<worker, todo, outcome, output, status>>
        /\ Done(IF Head(posted) = "accept" THEN "Accepted" ELSE "Rejected")
    BY <1>3 DEF HandleDone
  <2>2. ~Silent /\ worker \in {"ending", "finished"} /\ outcome \in Signal
    BY <2>1 DEF EventInv, Silent, Types
  <2>3. worker = "ending" => todo \in Plan
    BY DEF ThreadInv
  <2>4. outcome \notin {"accept", "reject"} /\ (Answer = "accept" <=> outcome = "success")
    BY <2>2, Distinct
  <2>5. Closed /\ posted = <<Answer>> /\ Head(posted) = Answer /\ posted' = <<>>
    BY <2>1, <2>2, <2>3, <2>4, EventFacts
  <2>6. status = Shown /\ Answer' = Answer
    BY <2>1, <2>5 DEF EventInv, Answer
  <2>7. (Silent' <=> Silent) /\ (Told' <=> Told) /\ (Closed' <=> Closed)
    BY <2>1 DEF Silent, Told, Closed
  <2>8. gui' \in {"dialog", "returned"}
    BY <2>1 DEF Done
  <2>9. gui' = "returned" /\ result' = "Accepted" => outcome = "success"
    BY <2>1, <2>4, <2>5 DEF Done
  <2>10. outcome = "success" => status' = "ready"
    BY <2>1, <2>6
  <2>11. QED BY <2>1, <2>2, <2>5, <2>6, <2>7, <2>8, <2>9, <2>10, OneOfThree DEF EventInv
<1>4. CASE UserCloses
  <2>1. gui = "dialog" /\ Done("Rejected") /\ UNCHANGED <<status, worker, todo, outcome, posted, output>>
    BY <1>4 DEF UserCloses
  <2>2. gui' \in {"dialog", "returned"} /\ (gui' = "returned" => result' = "Rejected")
    BY <2>1 DEF Done
  <2>3. (Silent' <=> Silent) /\ (Told' <=> Told) /\ (Closed' <=> Closed) /\ Answer' = Answer
    BY <2>1 DEF Silent, Told, Closed, Answer
  <2>4. QED BY <2>1, <2>2, <2>3 DEF EventInv
<1>5. CASE BuildReturns
  <2>1. worker = "finished" /\ gui' = "idle" /\ worker' = "none" /\ posted' = <<>> /\ todo' = todo
    BY <1>5 DEF BuildReturns, ThreadInv
  <2>2. todo' = <<>>
    BY <1>5, <2>1 DEF EventInv
  <2>3. QED BY <2>1, <2>2 DEF EventInv, Silent, Told, Closed
<1>6. CASE Quit \/ DestroyContext \/ Unload
  <2>1. worker = "none" /\ gui # "crashed" /\ gui' # "returned"
    BY <1>6 DEF Quit, DestroyContext, Unload, ThreadInv
  <2>2. UNCHANGED <<worker, todo, posted>>
    BY <1>6 DEF Quit, DestroyContext, Unload
  <2>3. posted = <<>> /\ todo = <<>>
    BY <2>1 DEF EventInv, Silent
  <2>4. posted \in Seq(Event) /\ Len(posted) <= 2 /\ todo \in Seq({"tell", "close", "destroy", "store"})
    BY QueueTypes
  <2>5. QED BY <2>1, <2>2, <2>3, <2>4 DEF EventInv, Silent, Told, Closed
<1>7. CASE Over \/ UNCHANGED vars
  <2>1. UNCHANGED vars
    BY <1>7 DEF Over
  <2>2. QED BY <2>1 DEF vars, dialogVars, EventInv, Silent, Told, Closed, Answer
<1>8. QED BY <1>1, <1>2, <1>3, <1>4, <1>5, <1>6, <1>7 DEF GuiStep, HandleEvent

\* The thread posts the signal of its build, then the answer that goes with it.
LEMMA ThreadEvents ==
  ASSUME Types, ThreadInv, EventInv, PhaseStep \/ EndStep
  PROVE  EventInv'
<1>0. \A t \in WillTell \cup WillClose : t # <<>>
  BY DEF WillTell, WillClose
<1>1. CASE PhaseStep
  <2>1. worker \in {"started"} \cup Phases /\ gui = "dialog"
    BY <1>1, PhaseSteps DEF ThreadInv, Phases
  <2>2. posted = <<>> /\ todo = <<>>
    BY <2>1 DEF EventInv, Silent, Phases
  <2>3. UNCHANGED <<gui, posted>>
    BY <1>1, PhaseSteps
  <2>4. CASE worker' \in Phases /\ UNCHANGED <<outcome, todo>>
    <3>1. Silent' /\ worker' \notin {"none", "ending", "finished"}
      BY <2>4 DEF Silent, Phases
    <3>2. QED BY <2>1, <2>2, <2>3, <2>4, <3>1 DEF EventInv, Told, Closed
  <2>5. CASE worker' = "ending" /\ outcome' \in Signal /\ todo' \in WillTell
    <3>1. Silent' /\ ~Told' /\ ~Closed'
      <4>1. Silent'
        BY <2>5 DEF Silent
      <4>2. todo' \notin WillClose /\ todo' \notin HasClosed
        BY <2>5 DEF WillTell, WillClose, HasClosed
      <4>3. QED BY <2>5, <4>1, <4>2 DEF Told, Closed
    <3>2. todo' # <<>>
      BY <1>0, <2>5
    <3>3. QED BY <2>1, <2>2, <2>3, <2>5, <3>1, <3>2 DEF EventInv
  <2>6. QED BY <1>1, <2>4, <2>5, PhaseSteps
<1> DEFINE Waits == worker = "ending" /\ gui = "dialog" /\ outcome \in Signal /\ todo \in Plan
<1>2. CASE Tell
  <2>1. worker = "ending" /\ todo # <<>> /\ Head(todo) = "tell" /\ todo' = Tail(todo) /\ posted' = Append(posted, outcome)
        /\ UNCHANGED <<gui, worker, outcome, output, status, result>>
    BY <1>2 DEF Tell, Does, dialogVars
  <2>2. Waits
    BY <2>1 DEF ThreadInv, EventInv
  <2>3. todo \in WillTell /\ todo' \in WillClose
    BY <2>1, <2>2, TodoFacts
  <2>4. posted = <<>> /\ posted' = <<outcome>>
    <3>1. posted = <<>>
      BY <2>2, <2>3 DEF EventInv, Silent
    <3>2. outcome \in Event
      BY <2>2, Distinct
    <3>3. QED BY <2>1, <3>1, <3>2, Queues
  <2>5. Told' /\ posted' # <<>> /\ todo' # <<>>
    <3>1. outcome \in Event
      BY <2>2, Distinct
    <3>2. QED BY <1>0, <2>1, <2>3, <2>4, <3>1, Queues DEF Told
  <2>6. ~Silent' /\ ~Closed'
    <3>1. todo' \notin WillTell /\ todo' \notin HasClosed
      BY <2>3 DEF WillTell, WillClose, HasClosed
    <3>2. QED BY <2>1, <3>1 DEF Silent, Closed, Phases
  <2>7. QED BY <2>1, <2>2, <2>4, <2>5, <2>6 DEF EventInv
<1>3. CASE Close
  <2>1. worker = "ending" /\ todo # <<>> /\ Head(todo) = "close" /\ todo' = Tail(todo)
        /\ posted' = Append(posted, Answer) /\ UNCHANGED <<gui, worker, outcome, output, status, result>>
    BY <1>3 DEF Close, Does, dialogVars, Answer
  <2>2. Waits
    BY <2>1 DEF ThreadInv, EventInv
  <2>3. todo \in WillClose /\ todo' \in HasClosed /\ todo' # <<>>
    BY <2>1, <2>2, TodoFacts
  <2>4. Told /\ Closed' /\ Answer' = Answer
    BY <2>1, <2>3 DEF Told, Closed, Answer
  <2>5. ~Silent' /\ ~Told'
    <3>1. todo' \notin WillTell /\ todo' \notin WillClose
      BY <2>3 DEF WillTell, WillClose, HasClosed
    <3>2. QED BY <2>1, <3>1 DEF Silent, Told, Phases
  <2>6. outcome \in Event /\ Answer \in Event /\ outcome # Answer
    BY <2>2, Distinct
  <2>7. (posted = <<>> /\ posted' = <<Answer>>) \/ (posted = <<outcome>> /\ posted' = <<outcome, Answer>>)
    <3>1. Append(<<>>, Answer) = <<Answer>> /\ Append(<<outcome>>, Answer) = <<outcome, Answer>>
      BY <2>6, Queues
    <3>2. posted = <<>> \/ posted = <<outcome>>
      BY <2>4 DEF EventInv
    <3>3. QED BY <2>1, <3>1, <3>2
  <2>8. posted' \in {<<>>, <<Answer>>} => posted = <<>>
    <3>1. <<outcome, Answer>> # <<>> /\ <<outcome, Answer>> # <<Answer>>
      BY <2>6, Queues
    <3>2. QED BY <2>7, <3>1
  <2>9. QED BY <2>1, <2>2, <2>3, <2>4, <2>5, <2>7, <2>8 DEF EventInv
<1>4. CASE DestroyCompiler
  <2>1. worker = "ending" /\ todo # <<>> /\ Head(todo) = "destroy" /\ todo' = Tail(todo)
        /\ UNCHANGED <<outcome, posted, output, status, result>>
        /\ ((gui' = "crashed" /\ worker' = "none") \/ UNCHANGED <<gui, worker>>)
    BY <1>4 DEF DestroyCompiler, Does, dialogVars
  <2>2. Waits
    BY <2>1 DEF ThreadInv, EventInv
  <2>3. /\ todo \in WillTell => todo' \in WillTell
        /\ todo \in HasClosed => todo' \in HasClosed
        /\ todo \notin WillClose /\ todo' \in Plan /\ todo' # <<>>
    BY <2>1, <2>2, TodoFacts
  <2>4. CASE gui' = "crashed" /\ worker' = "none"
    <3>1. todo' \in Seq({"tell", "close", "destroy", "store"})
      BY <2>3, PlanTypes
    <3>2. posted \in Seq(Event) /\ Len(posted) <= 2
      BY QueueTypes
    <3>3. QED BY <2>1, <2>4, <3>1, <3>2 DEF EventInv, Silent, Told, Closed, Phases
  <2>5. CASE UNCHANGED <<gui, worker>>
    <3>1. todo' \notin WillClose
      BY <2>2, <2>3 DEF Plan, WillTell, WillClose, HasClosed
    <3>2. (Silent' => Silent) /\ ~Told' /\ (Closed' => Closed) /\ Answer' = Answer
      <4>1. todo \in WillTell \/ todo \in HasClosed
        BY <2>2, <2>3 DEF Plan
      <4>2. \A t \in WillTell : t \notin HasClosed
        BY DEF WillTell, HasClosed
      <4>3. QED BY <2>1, <2>3, <2>5, <3>1, <4>1, <4>2 DEF Silent, Told, Closed, Answer
    <3>3. QED BY <2>1, <2>2, <2>3, <2>5, <3>2 DEF EventInv
  <2>6. QED BY <2>1, <2>4, <2>5
<1>5. CASE Store
  <2>1. worker = "ending" /\ todo # <<>> /\ Head(todo) = "store" /\ todo' = Tail(todo) /\ output' = (outcome = "success")
        /\ UNCHANGED <<gui, worker, outcome, posted, status, result>>
    BY <1>5 DEF Store, Does, dialogVars
  <2>2. Waits
    BY <2>1 DEF ThreadInv, EventInv
  <2>3. todo \in HasClosed /\ todo' = <<>>
    BY <2>1, <2>2, TodoFacts
  <2>4. Closed /\ Closed' /\ ~Silent' /\ ~Told' /\ Answer' = Answer
    <3>1. <<>> \in HasClosed /\ <<>> \notin WillTell /\ <<>> \notin WillClose
      BY <1>0 DEF HasClosed
    <3>2. QED BY <2>1, <2>3, <3>1 DEF Closed, Silent, Told, Answer, Phases
  <2>5. QED BY <2>1, <2>2, <2>3, <2>4 DEF EventInv
<1>6. CASE Finish
  <2>1. worker = "ending" /\ todo = <<>> /\ worker' = "finished" /\ UNCHANGED <<gui, todo, outcome, posted, output, status, result>>
    BY <1>6 DEF Finish, dialogVars
  <2>2. Waits
    BY <2>1 DEF ThreadInv, EventInv
  <2>3. Closed /\ Closed' /\ ~Silent' /\ ~Told' /\ Answer' = Answer
    BY <2>1 DEF Closed, Silent, Told, Answer, HasClosed, Phases
  <2>4. QED BY <2>1, <2>2, <2>3 DEF EventInv
<1>7. QED BY <1>1, <1>2, <1>3, <1>4, <1>5, <1>6 DEF EndStep

-----------------------------------------------------------------------------
(* Types, and the theorems.                                                *)

\* Every step keeps the types.
LEMMA TypeStep ==
  ASSUME Types, ThreadInv, EventInv, CallInv, [Next]_vars
  PROVE  Types'
<1> DEFINE GuiTypes ==
             /\ gui \in {"idle", "dialog", "returned", "quit", "exiting", "exited", "crashed"}
             /\ build \in 0..MaxBuilds /\ java \in BOOLEAN /\ jdk \in JdkKind
             /\ cancel \in BOOLEAN
             /\ result \in {None, "Accepted", "Rejected"} /\ status \in {"ready", "building", "error"}
           ThreadTypes ==
             /\ worker \in Phases \cup {"none", "started", "ending", "finished"}
             /\ output \in BOOLEAN /\ outcome \in Signal \cup {None}
           JvmTypes ==
             /\ dll \in BOOLEAN /\ vm \in {"none", "bare", "full"} /\ env \in Thread \cup {None}
             /\ attached \subseteq Thread
             /\ initialized \in BOOLEAN /\ detach \in BOOLEAN
<1>1. Calls'
  BY CallStep
<1>2. build \in Thread /\ GuiThread \in Thread
  BY BuildAssumption DEF Types, Thread, Worker, GuiThread
<1>3. CASE GuiStep
  <2>1. GuiTypes'
    <3>1. CASE BuildProject
      <4>1. build' \in 0..MaxBuilds
        BY <3>1, BuildAssumption DEF BuildProject, Types
      <4>2. java' \in BOOLEAN /\ jdk' \in JdkKind
        BY <3>1, BuildAssumption DEF BuildProject
      <4>3. QED BY <3>1, <4>1, <4>2 DEF BuildProject
    <3>2. CASE HandleEvent
      BY <3>2, Zenon DEF HandleEvent, HandleOutcome, HandleDone, Done, Types, jvmVars
    <3>3. CASE UserCloses
      BY <3>3, Zenon DEF UserCloses, Done, Types
    <3>4. CASE BuildReturns \/ Quit \/ DestroyContext \/ Unload \/ Over \/ UNCHANGED vars
      BY <3>4 DEF BuildReturns, Quit, DestroyContext, Unload, Over, vars, dialogVars, Types
    <3>5. QED BY <1>3, <3>1, <3>2, <3>3, <3>4 DEF GuiStep
  <2>2. ThreadTypes'
    <3>1. worker' \in Phases \cup {"none", "started", "ending", "finished"}
      BY <1>3, GuiSteps DEF Types
    <3>2. output' \in BOOLEAN /\ outcome' \in Signal \cup {None}
      BY <1>3 DEF GuiStep, BuildProject, HandleEvent, HandleOutcome, HandleDone, UserCloses, BuildReturns, Quit,
         DestroyContext, Unload, Over, vars, Types
    <3>3. QED BY <3>1, <3>2
  <2>3. JvmTypes'
    BY <1>2, <1>3 DEF GuiStep, BuildProject, HandleEvent, HandleOutcome, HandleDone, UserCloses, BuildReturns, Quit,
       DestroyContext, Unload, Over, vars, jvmVars, Types
  <2>4. QED BY <1>1, <2>1, <2>2, <2>3 DEF Types, Calls
<1>4. CASE PhaseStep
  <2>1. GuiTypes' /\ ThreadTypes'
    BY <1>4, PhaseSteps DEF Types, dialogVars
  <2>2. JvmTypes'
    <3>1. CASE AttachJvm
      BY <1>2, <3>1 DEF AttachJvm, IsAttached, Types
    <3>2. CASE LoadJvm
      <4>1. detach' = (jdk # "unset")
        BY <3>2, Zenon DEF LoadJvm, MarkDetach
      <4>2. detach' \in BOOLEAN
        BY <4>1
      <4>3. dll' = (jdk \in {"notools", "refuses", "bare", "full"})
        BY <3>2, Zenon DEF LoadJvm
      <4>4. dll' \in BOOLEAN
        BY <4>3
      <4>5. /\ vm' \in {"none", "bare", "full"} /\ env' \in Thread \cup {None}
            /\ attached' \subseteq Thread /\ initialized' \in BOOLEAN
        <5>1. CASE jdk \in {"bare", "full"}
          BY <1>2, <3>2, <5>1 DEF LoadJvm, Types
        <5>2. CASE jdk \notin {"bare", "full"}
          BY <3>2, <5>2 DEF LoadJvm, Types
        <5>3. QED BY <5>1, <5>2
      <4>6. QED BY <4>2, <4>4, <4>5
    <3>3. CASE ~(AttachJvm \/ LoadJvm)
      BY <1>4, <3>3 DEF PhaseStep, Connect, CancelCompile, Compile, RunJava, JavaDone, JavaFailed, Generate,
         OtherwiseUnchanged, jvmVars, Types
    <3>4. QED BY <3>1, <3>2, <3>3
  <2>3. QED BY <1>1, <2>1, <2>2 DEF Types, Calls
<1>5. CASE EndStep
  <2>1. GuiTypes'
    BY <1>5 DEF EndStep, Tell, Close, DestroyCompiler, Store, Finish, Does, dialogVars, Types
  <2>2. ThreadTypes'
    <3>1. worker' \in {"none", "ending", "finished"} /\ outcome' = outcome
      BY <1>5 DEF EndStep, Tell, Close, DestroyCompiler, Store, Finish, Does, Types
    <3>2. output' \in BOOLEAN
      BY <1>5 DEF EndStep, Tell, Close, DestroyCompiler, Store, Finish, Types
    <3>3. QED BY <3>1, <3>2 DEF Types
  <2>3. JvmTypes'
    BY <1>5 DEF EndStep, Tell, Close, DestroyCompiler, Store, Finish, jvmVars, Types
  <2>4. QED BY <1>1, <2>1, <2>2, <2>3 DEF Types, Calls
<1>6. QED BY <1>3, <1>4, <1>5, NextSteps

\* The invariant is inductive.
LEMMA Inductive == IInv /\ [Next]_vars => IInv'
<1> SUFFICES ASSUME IInv, [Next]_vars PROVE IInv'
  OBVIOUS
<1>1. EventInv'
  BY GuiEvents, ThreadEvents, NextSteps DEF IInv
<1>2. QED BY <1>1, TypeStep, ThreadStep, JvmStep, CallStep DEF IInv

\* The inductive invariant of Build: types, which step of a build goes with which
\* state of the dialog, of its queue and of the virtual machine, and the calls.
THEOREM Invariance == Spec => []IInv
<1>1. QED BY Initially, Inductive, PTL DEF Spec

\* Every variable keeps its type, however many builds are made, and the dialog's
\* queue never holds more than the signal of a build and its answer.
THEOREM TypeCorrect == Spec => []TypeOK
<1>1. IInv => TypeOK
  BY QueueTypes DEF IInv, Types, TypeOK
<1>2. QED BY <1>1, Invariance, PTL

\* exec returns Accepted only for a build that succeeded, stored its output and told
\* the status label.
THEOREM AcceptedBuilds == Spec => []AcceptedMeansBuilt
<1>1. IInv => AcceptedMeansBuilt
  <2> SUFFICES ASSUME IInv, gui = "returned", result = "Accepted"
               PROVE  outcome = "success" /\ output /\ worker = "finished" /\ status = "ready"
    BY DEF AcceptedMeansBuilt
  <2>1. worker = "finished" /\ outcome = "success" /\ status = "ready"
    BY DEF IInv, ThreadInv, EventInv
  <2>2. output = (outcome = "success")
    BY <2>1 DEF IInv, EventInv
  <2>3. output
    BY <2>1, <2>2, Zenon
  <2>4. QED BY <2>1, <2>3
<1>2. QED BY <1>1, Invariance, PTL

\* Every thread uses JNI with its own env and leaves the virtual machine as it found it.
THEOREM EnvIsOwn == Spec => []OwnEnv
<1>1. IInv => OwnEnv
  <2> SUFFICES ASSUME IInv PROVE OwnEnv
    OBVIOUS
  <2>1. worker = "java" => env = build /\ build \in attached
    BY DEF IInv, JvmInv
  <2>2. Connected /\ build \in attached => env = build
    BY DEF IInv, JvmInv
  <2>3. worker \in {"none", "finished"} => attached = {}
    BY DEF IInv, JvmInv
  <2>4. worker # "java" => InCompiler /\ ~pending /\ ~loader
    BY DEF IInv, CallInv, InCompiler
  <2>5. QED BY <2>1, <2>2, <2>3, <2>4 DEF OwnEnv
<1>2. QED BY <1>1, Invariance, PTL

\* No call is made, from Java or from C++, while an exception waits.
THEOREM CallsAreClean == Spec => CallsClean
<1>1. ASSUME IInv, [Next]_vars
      PROVE  [Len(frames') > Len(frames) => ~pending']_vars
  <2>1. frames \in Seq(Frame) /\ Len(frames) \in Nat
    BY <1>1 DEF IInv, Types
  <2>2. SUFFICES ASSUME Len(frames') > Len(frames) PROVE ~pending'
    OBVIOUS
  <2>3. frames' # frames
    BY <2>1, <2>2
  <2>4. Calls
    BY <1>1 DEF IInv, Types, CallInv, Calls
  <2>5. RunJava
    <3>1. ~GuiStep
      BY <1>1, <2>3, GuiSteps DEF IInv, callVars
    <3>2. ~EndStep
      BY <2>3 DEF EndStep, Tell, Close, DestroyCompiler, Store, Finish, callVars
    <3>3. PhaseStep
      BY <1>1, <3>1, <3>2, NextSteps
    <3>4. QED BY <2>3, <3>3 DEF PhaseStep, Connect, CancelCompile, Compile, AttachJvm, LoadJvm, EnterJava, JavaDone,
             CompilerContinues, JavaFailed, LeaveCalls, Generate, Generated, callVars
  <2>6. CASE JavaReturns \/ JavaThrows \/ NativeReturns \/ NativeFails
    <3>1. frames # <<>> /\ frames' = Front(frames)
      BY <2>6 DEF JavaReturns, JavaThrows, LeaveJava, NativeReturns, NativeFails, InJava, InNative
    <3>2. Len(frames') < Len(frames)
      BY <2>4, <3>1, Shallower DEF Calls
    <3>3. QED BY <2>1, <2>2, <3>2, <2>4, Shallower, <3>1 DEF Calls
  <2>7. CASE JavaCatches \/ NativeThrows \/ NativeContinues \/ Rethrown
    BY <2>3, <2>7 DEF JavaCatches, NativeThrows, NativeContinues, Rethrown
  <2>8. CASE JavaCallsNative \/ NativeCalls \/ RethrowCurrent \/ CompilerCalls(cancel)
    BY <2>4, <2>8 DEF JavaCallsNative, NativeCalls, RethrowCurrent, ClearCaught, CompilerCalls, MayCall, Calls, InJava,
       InNative, InCompiler
  <2>9. QED BY <2>5, <2>6, <2>7, <2>8 DEF RunJava, RunCalls
<1>2. QED BY <1>1, Invariance, PTL DEF Spec, CallsClean
=============================================================================
