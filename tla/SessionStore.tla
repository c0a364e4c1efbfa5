---------------------------- MODULE SessionStore ----------------------------
(***************************************************************************)
(* What the session table promises to everyone who holds a refresh token,   *)
(* however many servers work on it at once: one chain of generations, of    *)
(* which a client is only ever given a member, each token with one          *)
(* successor; one end, and no way back.                                     *)
(***************************************************************************)
EXTENDS RefreshChain

VARIABLES row,      \* the session
          answers   \* pairs <<presented, given>> the clients have received

Init == row = NewRow /\ answers = {}

(* The window is already over when the rotation itself was held up *)
Rotate ==
    /\ row.status = "active"
    /\ row' \in {Rotated(row), Closed(Rotated(row))}
    /\ UNCHANGED answers

Answer ==
    /\ \E g \in 0..(row.gen - 1) : answers' = answers \cup {<<g, g + 1>>}
    /\ UNCHANGED row

End == row.status = "active" /\ row' = Ended(row) /\ UNCHANGED answers

Close == row' = Closed(row) /\ UNCHANGED answers

Next == Rotate \/ Answer \/ End \/ Close

Spec == Init /\ [][Next]_<<row, answers>>
=============================================================================
