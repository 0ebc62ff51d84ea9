----------------------------- MODULE MCRawMidi -----------------------------
(* Instances of RawMidi for TLC. *)
EXTENDS RawMidi
=============================================================================
