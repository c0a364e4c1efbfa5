---------------------------- MODULE RefreshChain ----------------------------
(***************************************************************************)
(* A login session as the holders of its refresh tokens see it. The secret  *)
(* of a generation is derived from the one before it                        *)
(* (deriveNextRefreshSecret), so a token is the number of its generation.   *)
(* Only the newest generation rotates; the one before it is answered with   *)
(* the newest while the replay window is open, and ends the session when it *)
(* comes later.                                                             *)
(***************************************************************************)
EXTENDS Naturals

(* open: now <= previous_valid_until *)
Rows == [status : {"active", "over"}, gen : Nat, open : BOOLEAN]
NewRow == [status |-> "active", gen |-> 1, open |-> FALSE]

Current(r, g) == r.status = "active" /\ g = r.gen
Recoverable(r, g) == r.status = "active" /\ g + 1 = r.gen /\ r.open
Replayed(r, g) == r.status = "active" /\ g + 1 = r.gen /\ ~r.open

Rotated(r) == [status |-> r.status, gen |-> r.gen + 1, open |-> TRUE]
Ended(r) == [r EXCEPT !.status = "over"]
Closed(r) == [status |-> r.status, gen |-> r.gen, open |-> FALSE]
=============================================================================
