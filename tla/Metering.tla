------------------------------ MODULE Metering -------------------------------
(***************************************************************************)
(* Per-tenant usage metering: AuthService.check_and_increment_usage        *)
(* (core/auth/service.py), called by every metered route before it does    *)
(* any work (api/routers/chat.py, api/routers/autonomy.py).                *)
(*                                                                         *)
(* The routes are synchronous and run on a pool of worker threads.  One    *)
(* call makes three accesses to the shared store (the tenant, the counter, *)
(* the counter again), each atomic in both backends, and computes the key  *)
(* of the counter from the current day at each access.                     *)
(***************************************************************************)
EXTENDS Integers, FiniteSets

CONSTANTS
    Workers,        \* threads of the request pool
    Tenants,        \* tenants of the directory
    Plans,          \* plan names a tenant may carry, known or not
    PLAN_LIMITS,    \* daily allowance of each plan of the ladder
    None,           \* caller of an idle worker
    MaxDay,         \* bound on the number of days
    MaxRequests     \* bound on the number of requests

ASSUME MeteringAssumption ==
    /\ "free" \in DOMAIN PLAN_LIMITS
    /\ \A p \in DOMAIN PLAN_LIMITS : PLAN_LIMITS[p] \in Nat \ {0}
    /\ None \notin Tenants
    /\ MaxDay \in Nat \ {0} /\ MaxRequests \in Nat

Days == 1..MaxDay

VARIABLES
    day,        \* what time.strftime('%Y-%m-%d') yields
    plan,       \* plan[t]: plan of the tenant in the directory
    counter,    \* counter[t][d]: value under the key usage:t:d
    pc,         \* pc[w]: where the call on worker w stands
    caller,     \* caller[w]: tenant of that call
    limit,      \* limit[w]: local variable limit
    used,       \* used[w]: local variable used
    requests,   \* calls begun
    admitted,   \* history: admitted[t][d], requests counted on day d
    made,       \* history: made[t], requests counted on any day
    allowed     \* history: allowed[t], largest allowance t was entitled to

callVars == <<pc, caller, limit, used>>
histVars == <<admitted, made, allowed>>
vars     == <<day, plan, counter, callVars, requests, histVars>>

-----------------------------------------------------------------------------
(* Mutant of Limit: PLAN_LIMITS.get(plan) without the default. *)
LimitOrNone(p) == IF p \in DOMAIN PLAN_LIMITS THEN PLAN_LIMITS[p] ELSE None

(* A plan name outside the ladder counts as the free plan. *)
Limit(p) == IF p \in DOMAIN PLAN_LIMITS THEN PLAN_LIMITS[p] ELSE PLAN_LIMITS["free"]

Idle(w) ==
    /\ pc' = [pc EXCEPT ![w] = "idle"]
    /\ caller' = [caller EXCEPT ![w] = None]
    /\ limit' = [limit EXCEPT ![w] = 0]
    /\ used' = [used EXCEPT ![w] = 0]

(* Mutant of Exhausted: the current request is counted before it is judged. *)
ExhaustedEarly(w) == counter[caller[w]][day] + 1 >= limit[w]

(* The value under the tenant's key of the current day uses up the limit. *)
Exhausted(w) == counter[caller[w]][day] >= limit[w]

Init ==
    /\ day = 1
    /\ plan \in [Tenants -> Plans]
    /\ counter = [t \in Tenants |-> [d \in Days |-> 0]]
    /\ pc = [w \in Workers |-> "idle"]
    /\ caller = [w \in Workers |-> None]
    /\ limit = [w \in Workers |-> 0]
    /\ used = [w \in Workers |-> 0]
    /\ requests = 0
    /\ admitted = [t \in Tenants |-> [d \in Days |-> 0]]
    /\ made = [t \in Tenants |-> 0]
    /\ allowed = [t \in Tenants |-> Limit(plan[t])]

-----------------------------------------------------------------------------
(* get_tenant, and the limit of the plan the tenant has just now.  (For a   *)
(* tenant the directory has lost it raises, before anything changes.)       *)
BeginCall(w, t) ==
    /\ pc[w] = "idle"
    /\ requests < MaxRequests
    /\ requests' = requests + 1
    /\ pc' = [pc EXCEPT ![w] = "entitled"]
    /\ caller' = [caller EXCEPT ![w] = t]
    /\ limit' = [limit EXCEPT ![w] = Limit(plan[t])]
    /\ UNCHANGED <<day, plan, counter, used, histVars>>

(* The counter is read and the allowance is not used up. *)
ReadUsage(w) ==
    /\ pc[w] = "entitled"
    /\ ~Exhausted(w)
    /\ used' = [used EXCEPT ![w] = counter[caller[w]][day]]
    /\ pc' = [pc EXCEPT ![w] = "checked"]
    /\ UNCHANGED <<day, plan, counter, caller, limit, requests, histVars>>

(* The counter is read and the allowance is used up: PermissionError, 429. *)
Deny(w) ==
    /\ pc[w] = "entitled"
    /\ Exhausted(w)
    /\ Idle(w)
    /\ UNCHANGED <<day, plan, counter, requests, histVars>>

(* Mutant of WriteUsage: the key of the counter lacks the tenant. *)
WriteShared(w) ==
    LET t == caller[w]
    IN  /\ pc[w] = "checked"
        /\ counter' = [u \in Tenants |-> [counter[u] EXCEPT ![day] = used[w] + 1]]
        /\ admitted' = [admitted EXCEPT ![t][day] = @ + 1]
        /\ made' = [made EXCEPT ![t] = @ + 1]
        /\ Idle(w)
        /\ UNCHANGED <<day, plan, requests, allowed>>

(* Mutant of WriteUsage: the store adds one to a counter it reads again, as *)
(* an increment without a second check would.                               *)
WriteByIncrement(w) ==
    LET t == caller[w]
    IN  /\ pc[w] = "checked"
        /\ counter' = [counter EXCEPT ![t][day] = @ + 1]
        /\ admitted' = [admitted EXCEPT ![t][day] = @ + 1]
        /\ made' = [made EXCEPT ![t] = @ + 1]
        /\ Idle(w)
        /\ UNCHANGED <<day, plan, requests, allowed>>

(* The counter of what is now the current day is set; the request goes on. *)
WriteUsage(w) ==
    LET t == caller[w]
    IN  /\ pc[w] = "checked"
        /\ counter' = [counter EXCEPT ![t][day] = used[w] + 1]
        /\ admitted' = [admitted EXCEPT ![t][day] = @ + 1]
        /\ made' = [made EXCEPT ![t] = @ + 1]
        /\ Idle(w)
        /\ UNCHANGED <<day, plan, requests, allowed>>

(* AuthService.set_plan, from the billing routes. *)
SetPlan(t, p) ==
    /\ plan[t] # p
    /\ plan' = [plan EXCEPT ![t] = p]
    /\ allowed' = [allowed EXCEPT ![t] = IF Limit(p) > @ THEN Limit(p) ELSE @]
    /\ UNCHANGED <<day, counter, callVars, requests, admitted, made>>

Midnight ==
    /\ day < MaxDay
    /\ day' = day + 1
    /\ UNCHANGED <<plan, counter, callVars, requests, histVars>>

(* The process restarts on the same Redis: calls in flight are gone.  (In   *)
(* memory the tenants are gone with their counters.)                        *)
Restart ==
    /\ \E w \in Workers : pc[w] # "idle"
    /\ pc' = [w \in Workers |-> "idle"]
    /\ caller' = [w \in Workers |-> None]
    /\ limit' = [w \in Workers |-> 0]
    /\ used' = [w \in Workers |-> 0]
    /\ UNCHANGED <<day, plan, counter, requests, histVars>>

Next ==
    \/ \E w \in Workers :
        \/ \E t \in Tenants : BeginCall(w, t)
        \/ ReadUsage(w)
        \/ Deny(w)
        \/ WriteUsage(w)
    \/ \E t \in Tenants, p \in Plans : SetPlan(t, p)
    \/ Midnight
    \/ Restart

Spec == Init /\ [][Next]_vars

-----------------------------------------------------------------------------
(* Types of counters, calls in flight and histories; a call has a tenant. *)
TypeOK ==
    /\ day \in Days
    /\ plan \in [Tenants -> Plans]
    /\ counter \in [Tenants -> [Days -> Nat]]
    /\ pc \in [Workers -> {"idle", "entitled", "checked"}]
    /\ caller \in [Workers -> Tenants \cup {None}]
    /\ \A w \in Workers : pc[w] # "idle" => caller[w] \in Tenants
    /\ limit \in [Workers -> Nat] /\ used \in [Workers -> Nat]
    /\ requests \in 0..MaxRequests
    /\ admitted \in [Tenants -> [Days -> Nat]]
    /\ made \in [Tenants -> Nat]
    /\ allowed \in [Tenants -> Nat]

(* Calls race for the counter, plans change under them and the day changes  *)
(* between check and write, yet the stored count never passes the largest   *)
(* allowance the tenant was entitled to.  It may go down again: a call that *)
(* read it long ago writes what it read plus one.                           *)
CounterSaturates == \A t \in Tenants, d \in Days : counter[t][d] <= allowed[t]

(* The counter of a single day never exceeds the requests counted for the   *)
(* tenant in its whole life: racing calls lose counts and add none.  A call *)
(* that midnight overtakes enters the count of the old day under the new    *)
(* one, so two days together may show more than was requested, and one day  *)
(* more than was requested on it.                                           *)
ChargedForRequestsMade == \A t \in Tenants, d \in Days : counter[t][d] <= made[t]

(* A tenant is refused only when it has made at least as many requests as   *)
(* the plan it had when the call began allows.                              *)
DenialEarned == [][\A w \in Workers : Deny(w) => made[caller[w]] >= limit[w]]_vars

(* "Daily request allowances per plan": no day admits more requests than    *)
(* the largest allowance the tenant was entitled to.                        *)
DailyAllowanceKept == \A t \in Tenants, d \in Days : admitted[t][d] <= allowed[t]

=============================================================================
