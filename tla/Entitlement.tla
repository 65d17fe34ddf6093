----------------------------- MODULE Entitlement -----------------------------
(***************************************************************************)
(* What billing promises, without sessions, events, answers or workers: a  *)
(* tenant buys plans, and its plan becomes a paid one only if it bought    *)
(* that plan, or while the door is open, and the free one only if it chose *)
(* it.  Other operations on the directory may put back a copy they took    *)
(* earlier in the life of the process, and a restart may lose it all.      *)
(* A plan bought once may be granted again: the code keeps no record of    *)
(* what it has applied.                                                    *)
(***************************************************************************)
CONSTANTS Tenants, PaidPlans, None

VARIABLES
    plan,       \* plan[t]: the plan of t, None for an unknown tenant
    bought,     \* pairs of a tenant and a plan it completed a checkout of
    open,       \* whether anybody may set plans
    held        \* copies of plan that may be put back

vars == <<plan, bought, open, held>>

Init ==
    /\ plan \in [Tenants -> PaidPlans \cup {"free"}] /\ bought = {}
    /\ open \in BOOLEAN
    /\ \A d \in held, t \in Tenants : d[t] \in {plan[t], None}

Buy(t, p) == bought' = bought \cup {<<t, p>>} /\ UNCHANGED <<plan, open, held>>

Grant(t, p) ==
    /\ plan[t] # None
    /\ open \/ p = "free" \/ <<t, p>> \in bought
    /\ plan' = [plan EXCEPT ![t] = p]
    /\ UNCHANGED <<bought, open, held>>

TakeCopy == held' = held \cup {plan} /\ UNCHANGED <<plan, bought, open>>

PutBack(d) ==
    /\ plan' = d
    /\ held' \in {held, held \ {d}}
    /\ UNCHANGED <<bought, open>>

StartAgain ==
    /\ plan' \in {plan, [t \in Tenants |-> None]}
    /\ open' \in BOOLEAN /\ held' = {}
    /\ UNCHANGED bought

Next ==
    \/ \E t \in Tenants, p \in PaidPlans : Buy(t, p)
    \/ \E t \in Tenants, p \in PaidPlans \cup {"free"} : Grant(t, p)
    \/ TakeCopy
    \/ \E d \in held : PutBack(d)
    \/ StartAgain

Spec == Init /\ [][Next]_vars
=============================================================================
