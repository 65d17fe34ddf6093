---------------------------- MODULE MCMemoryVault ----------------------------
(* Instances of MemoryVault for TLC. *)
EXTENDS MemoryVault, TLC

CONSTANTS w1, w2, w3, t1, t2, m1, m2, m3, m4

(* Two steps of the plan ladder: the third adds nothing to the race. *)
MCCaps == [p \in {"free", "pro"} |-> IF p = "free" THEN 1 ELSE 2]

MCSymmetry ==
    Permutations(Workers) \cup Permutations(Tenants) \cup Permutations(MemoryIds)
=============================================================================
