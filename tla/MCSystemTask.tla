---------------------------- MODULE MCSystemTask ----------------------------
(* SystemTask on small instances. *)
EXTENDS SystemTask
=============================================================================
