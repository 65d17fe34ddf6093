------------------------------- MODULE MCChat --------------------------------
(* Instances of Chat for TLC. *)
EXTENDS Chat, TLC

CONSTANTS w1, w2, t1, t2

(* Two steps of the plan ladder, small enough to be used up. *)
MCLimits == [p \in {"free", "pro"} |-> IF p = "free" THEN 1 ELSE 2]

File(n, t, p) == [name |-> n, tier |-> t, preference |-> p]

(* A commander with a specialist described twice; and a deployment of which *)
(* the second file does not parse.                                          *)
MCDeployments ==
    { <<File("ops", 1, "auto"), File("res", 2, "code"), File("res", 2, "auto")>>,
      <<File("res", 2, "code"), Unparsable>> }

(* A long text about code. *)
MCMessages == {[research |-> FALSE, code |-> TRUE, short |-> FALSE]}

MCSymmetry == Permutations(Workers) \cup Permutations(Tenants)
=============================================================================
