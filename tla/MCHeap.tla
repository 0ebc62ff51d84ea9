------------------------------- MODULE MCHeap -------------------------------
(* Instances of Heap for TLC: HdrSize is the 12 bytes of a release build and *)
(* Word, 2^32, is 2^16.                                                      *)
EXTENDS Heap
=============================================================================
