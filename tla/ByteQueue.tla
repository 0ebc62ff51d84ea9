----------------------------- MODULE ByteQueue -----------------------------
(***************************************************************************)
(* What one direction of a MIDI port promises: bytes go in at one end and  *)
(* come out at the other in the same order, none twice and none that was   *)
(* not put in.  A lossy direction may also forget bytes (a receiver that   *)
(* nobody reads); the other one may not.                                   *)
(***************************************************************************)
EXTENDS Naturals, Sequences, SequencesExt

CONSTANTS Bytes, Lossy

VARIABLES queue,   \* bytes on their way, the oldest first
          taken    \* the bytes the last Take is delivering

vars == <<queue, taken>>

Init == queue = <<>> /\ taken = <<>>

(* Bytes come one at a time from a wire, or several at once from a writer. *)
Put == /\ IsPrefix(queue, queue') /\ queue' # queue
       /\ \A i \in DOMAIN queue' : queue'[i] \in Bytes
       /\ UNCHANGED taken

Take == \E n \in 1 .. Len(queue) :
          /\ taken' = SubSeq(queue, 1, n)
          /\ queue' = SubSeq(queue, n + 1, Len(queue))

(* The bytes of q from the places from[1] < from[2] < ..., in their order. *)
Thinned(q) ==
  {[i \in DOMAIN from |-> q[from[i]]] :
     from \in {f \in UNION {[1 .. n -> DOMAIN q] : n \in 0 .. Len(q)} :
                 \A i, j \in DOMAIN f : i < j => f[i] < f[j]}}

Lose == Lossy /\ queue' \in Thinned(queue) /\ UNCHANGED taken

Delivered == taken # <<>> /\ taken' = <<>> /\ UNCHANGED queue

Next == Put \/ Take \/ Lose \/ Delivered

Spec == Init /\ [][Next]_vars
=============================================================================
