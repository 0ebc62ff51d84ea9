------------------------------ MODULE MCPages ------------------------------
(* Instances of Pages for TLC: 64 KB are four pages. *)
EXTENDS Pages
Pages14 == 2 .. 15
=============================================================================
