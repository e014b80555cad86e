--------------------------- MODULE SectionPromise ---------------------------
(***************************************************************************)
(* What the linker counts on when it asks a section for its size, the      *)
(* addresses of its labels and its code, in any order and any number of    *)
(* times: each is found at most once for every file that lists the         *)
(* section, from what was found before it, and is not revised.             *)
(***************************************************************************)
EXTENDS Integers

CONSTANTS Listing, None

VARIABLES
  packed,                    \* is the section compressed
  base,                      \* where it is, for each listing, None before that is known
  size, address, code        \* what was found: the code by the base it is for

found == <<size, address, code>>
promiseVars == <<packed, base, found>>

Kept(old, new) == \A s \in Listing : old[s] # None => new[s] = old[s]
New(old, new) == {s \in Listing : old[s] = None /\ new[s] # None}

Init == \A s \in Listing : size[s] = None /\ address[s] = None /\ code[s] = None

Place ==
  /\ Kept(base, base')
  /\ UNCHANGED <<packed, found>>

\* Code that is not compressed is for the base and follows size and addresses; code
\* that is compressed gives the size, and may come before there is a base.
Find ==
  /\ UNCHANGED <<packed, base>>
  /\ Kept(size, size') /\ Kept(address, address') /\ Kept(code, code')
  /\ \A s \in New(address, address') : base[s] # None
  /\ \A s \in New(code, code') :
       /\ size'[s] # None
       /\ code'[s] = base[s] \/ (packed /\ base[s] = None /\ code'[s] = 0)
       /\ ~packed => size[s] # None /\ address[s] # None

Next == Place \/ Find
Spec == Init /\ [][Next]_promiseVars
=============================================================================
