----------------------------- MODULE LinkPromise -----------------------------
(***************************************************************************)
(* What Linker::link promises, without saying how: it decides sizes,       *)
(* bases, file offsets and code of the sections, in any order, never goes  *)
(* back on a decision, and either fails or ends with every section decided *)
(* and no two sections of a file sharing an addressable byte.              *)
(***************************************************************************)
EXTENDS Integers

CONSTANTS Section, None, Addressable

VARIABLES
  fileOf,                    \* the output file every section belongs to
  size, base, offset, code,  \* what is decided for a section, None before
  outcome                    \* "linking", "linked" or "failed"

decisions == <<size, base, offset, code>>
promiseVars == <<fileOf, decisions, outcome>>

Keeps(old, new) == \A s \in Section : old[s] # None => new[s] = old[s]

Decided ==
  \A s \in Section : size[s] # None /\ base[s] # None /\ offset[s] # None /\ code[s] # None

Apart(s, t) ==
  fileOf[s] = fileOf[t] /\ size[s] > 0 /\ size[t] > 0
    /\ offset[s] <= Addressable /\ offset[t] <= Addressable
    => offset[s] + size[s] <= offset[t] \/ offset[t] + size[t] <= offset[s]

Init ==
  /\ outcome = "linking"
  /\ \A s \in Section : size[s] = None /\ base[s] = None /\ offset[s] = None /\ code[s] = None

Decide ==
  /\ outcome = "linking" /\ outcome' = "linking"
  /\ Keeps(size, size') /\ Keeps(base, base') /\ Keeps(offset, offset') /\ Keeps(code, code')
  /\ UNCHANGED fileOf

Succeed ==
  /\ outcome = "linking" /\ outcome' = "linked"
  /\ Decided
  /\ \A s, t \in Section : s # t => Apart(s, t)
  /\ UNCHANGED <<fileOf, decisions>>

Reject ==
  /\ outcome = "linking" /\ outcome' = "failed"
  /\ UNCHANGED <<fileOf, decisions>>

Next == Decide \/ Succeed \/ Reject

Spec == Init /\ [][Next]_promiseVars
=============================================================================
