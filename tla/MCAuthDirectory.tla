--------------------------- MODULE MCAuthDirectory ---------------------------
(* Instances of AuthDirectory for TLC. *)
EXTENDS AuthDirectory, TLC

CONSTANTS w1, w2, e1, e2, t1, t2, t3

MCSymmetry ==
    Permutations(Workers) \cup Permutations(Emails) \cup Permutations(TenantIds)
=============================================================================
