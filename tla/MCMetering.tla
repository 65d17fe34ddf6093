----------------------------- MODULE MCMetering ------------------------------
(* Instances of Metering for TLC. *)
EXTENDS Metering, TLC

CONSTANTS w1, w2, w3, t1, t2

(* Two steps of the plan ladder, small enough to be used up. *)
MCLimits == [p \in {"free", "pro"} |-> IF p = "free" THEN 1 ELSE 2]

MCSymmetry == Permutations(Workers) \cup Permutations(Tenants)
=============================================================================
