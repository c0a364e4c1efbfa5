--------------------------- MODULE MCTaskPolling ---------------------------
(* TaskPolling on small instances. *)
EXTENDS TaskPolling
=============================================================================
