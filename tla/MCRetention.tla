----------------------------- MODULE MCRetention -----------------------------
(* Instances of Retention for TLC. *)
EXTENDS Retention

CONSTANTS w1, t1, t2, r1, r2, r3

(* A positive keep_recent and a negative one. *)
MCKeeps == {-1, 1}

(* Payloads nobody checks: everything is stale, and the slice is empty or   *)
(* one of a negative number.                                                *)
MCDispatchKeeps == {-1, 0}
MCDispatchAges == {-1}

(* Two plans: one with room for more rows than a search returns. *)
MCCap == [t \in Tenants |-> IF t = t1 THEN 3 ELSE 1]
=============================================================================
