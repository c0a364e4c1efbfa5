--------------------------- MODULE MCUserSession ---------------------------
(* UserSession with interchangeable requests. *)
EXTENDS UserSession, TLC

Symmetry == Permutations(Procs)
=============================================================================
