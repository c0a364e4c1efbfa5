---------------------------- MODULE MCPlayground ----------------------------
(* Playground, as it is. *)
EXTENDS Playground
=============================================================================
