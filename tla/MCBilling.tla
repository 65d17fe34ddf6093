------------------------------ MODULE MCBilling ------------------------------
(* Instances of Billing for TLC. *)
EXTENDS Billing

CONSTANTS w1, t1, t2, s1, s2
=============================================================================
