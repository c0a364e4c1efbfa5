----------------------------- MODULE MCWebAuth -----------------------------
(* WebAuth with interchangeable tabs. *)
EXTENDS WebAuth

Symmetry == Permutations(Tabs)
=============================================================================
