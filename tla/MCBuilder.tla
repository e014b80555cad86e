------------------------------ MODULE MCBuilder ------------------------------
(* Instances of Builder: script A reads input i, or sees it unregistered,   *)
(* and writes x; script B, which runs after A, may read x and writes y.     *)
EXTENDS Builder, TLC
CONSTANTS A, B, Helper, Jar, i, x, y

Read(f) == [op |-> "read", file |-> f]
Look(f) == [op |-> "peek", file |-> f]
Write(f) == [op |-> "write", file |-> f, addSource |-> TRUE]

TwoScripts == <<A, B>>
\* What a script does depends on its content, 1 or 2.
Plain ==
  (A :> <<<<Read(i), Write(x)>>, <<Look(i), Write(x)>>>>) @@ (B :> <<<<Read(x), Write(y)>>, <<Read(i), Read(x), Write(y)>>>>)

NoRefs == [c \in Classes |-> {}]
HelperRefs == [c \in Classes |-> IF c = A THEN {Helper} ELSE {}]

\* What the theorems about Builder ask of scripts and user holds of these instances.
ASSUME WellBehaved == InOrder /\ WritesOnce /\ KeepsClasses /\ NamesAll /\ AllSources /\ NoIdleScript
=============================================================================
