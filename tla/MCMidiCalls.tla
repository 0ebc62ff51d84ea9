---------------------------- MODULE MCMidiCalls ----------------------------
(* Instances of MidiCalls for TLC. *)
EXTENDS MidiCalls
=============================================================================
