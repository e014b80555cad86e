------------------------------ MODULE MCGCHeap ------------------------------
(* Instances of GCHeap: an arena of eight bytes, blocks up to and beyond the *)
(* size that gets an arena of its own, and three objects, one of a class     *)
(* without a finalizer and one whose class and base class both register it.  *)
EXTENDS GCHeap

DerivedSecond == <<1, 2, 0>>
DerivedFirst == <<2, 0, 1>>
=============================================================================
