----------------------------- MODULE MCPermission -----------------------------
(* Instance of Permission for TLC: two requests of one session, one of them for two     *)
(* resources, and one of another session made by ask.                                   *)
EXTENDS Permission

CONSTANTS q1, q2, q3, s1, s2, r1, r2

MCSessionOf == [q \in Request |-> IF q = q3 THEN s2 ELSE s1]
MCResourcesOf == [q \in Request |-> IF q = q2 THEN {r1, r2} ELSE {r1}]
MCSaveOf == [q \in Request |-> IF q = q3 THEN {} ELSE {r1}]
MCConfig == {[r \in Resource |-> IF r = r1 THEN "ask" ELSE e] : e \in {"allow", "deny"}}
=============================================================================
