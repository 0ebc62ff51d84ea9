---------------------------- MODULE MCFmVoices ----------------------------
(* Instances of FmVoices for TLC. *)
EXTENDS FmVoices
AllPrograms == {<<>>, <<FALSE>>, <<TRUE>>, <<FALSE, TRUE>>}
=============================================================================
