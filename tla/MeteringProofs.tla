--------------------------- MODULE MeteringProofs ----------------------------
(***************************************************************************)
(* Proofs, for any number of workers, tenants, plans, days and requests.   *)
(*   MeterInv   what a call read stays a sound lower bound: below the      *)
(*              limit it was compared with, and no more than the requests  *)
(*              the tenant had made by then; so whatever it writes later,  *)
(*              over whatever other calls wrote, is sound too.             *)
(*   SerialInv  with one worker the counter of a day is never behind the   *)
(*              requests of that day.                                      *)
(***************************************************************************)
EXTENDS Metering, TLAPS

LEMMA LimitType == \A p : Limit(p) \in Nat
  BY MeteringAssumption DEF Limit

LEMMA TypeCorrectStep ==
    ASSUME TypeOK, [Next]_vars PROVE TypeOK'
<1> USE DEF TypeOK
<1>1. ASSUME NEW w \in Workers, NEW t \in Tenants, BeginCall(w, t) PROVE TypeOK'
  <2>1. limit' \in [Workers -> Nat]
    BY <1>1, LimitType DEF BeginCall
  <2>2. requests' \in 0..MaxRequests
    BY <1>1, MeteringAssumption DEF BeginCall
  <2>3. QED
    BY <1>1, <2>1, <2>2 DEF BeginCall, histVars
<1>2. ASSUME NEW w \in Workers, ReadUsage(w) PROVE TypeOK'
  BY <1>2 DEF ReadUsage, histVars
<1>3. ASSUME NEW w \in Workers, Deny(w) PROVE TypeOK'
  BY <1>3 DEF Deny, Idle, histVars
<1>4. ASSUME NEW w \in Workers, WriteUsage(w) PROVE TypeOK'
  BY <1>4 DEF WriteUsage, Idle
<1>5. ASSUME NEW t \in Tenants, NEW p \in Plans, SetPlan(t, p) PROVE TypeOK'
  BY <1>5, LimitType DEF SetPlan, callVars
<1>6. CASE Midnight
  <2>1. day' \in Days
    BY <1>6, MeteringAssumption DEF Midnight, Days
  <2>2. QED
    BY <1>6, <2>1 DEF Midnight, callVars, histVars
<1>7. CASE Restart
  BY <1>7 DEF Restart, histVars
<1>8. CASE UNCHANGED vars
  BY <1>8 DEF vars, callVars, histVars
<1>9. QED
  BY <1>1, <1>2, <1>3, <1>4, <1>5, <1>6, <1>7, <1>8 DEF Next

(* Counters, locals and histories keep their types. *)
THEOREM TypeCorrect == Spec => []TypeOK
<1>1. Init => TypeOK
  BY MeteringAssumption, LimitType DEF Init, TypeOK, Days
<1>2. TypeOK /\ [Next]_vars => TypeOK'
  BY TypeCorrectStep
<1>3. QED
  BY <1>1, <1>2, PTL DEF Spec

-----------------------------------------------------------------------------
MeterInv ==
    /\ CounterSaturates
    /\ ChargedForRequestsMade
    /\ \A t \in Tenants : Limit(plan[t]) <= allowed[t]
    /\ \A w \in Workers : pc[w] # "idle" => limit[w] <= allowed[caller[w]]
    /\ \A w \in Workers : pc[w] = "checked" =>
          used[w] < limit[w] /\ used[w] <= made[caller[w]]

LEMMA MeterInvInductive ==
    ASSUME TypeOK, MeterInv, [Next]_vars PROVE MeterInv'
<1> USE DEF TypeOK, MeterInv, CounterSaturates, ChargedForRequestsMade
<1>1. ASSUME NEW w \in Workers, NEW t \in Tenants, BeginCall(w, t) PROVE MeterInv'
  BY <1>1 DEF BeginCall, histVars
<1>2. ASSUME NEW w \in Workers, ReadUsage(w) PROVE MeterInv'
  BY <1>2 DEF ReadUsage, Exhausted, histVars
<1>3. ASSUME NEW w \in Workers, Deny(w) PROVE MeterInv'
  BY <1>3 DEF Deny, Idle, histVars
<1>4. ASSUME NEW w \in Workers, WriteUsage(w) PROVE MeterInv'
  BY <1>4 DEF WriteUsage, Idle
<1>5. ASSUME NEW t \in Tenants, NEW p \in Plans, SetPlan(t, p) PROVE MeterInv'
  BY <1>5, LimitType DEF SetPlan, callVars
<1>6. CASE Midnight
  BY <1>6 DEF Midnight, callVars, histVars
<1>7. CASE Restart
  BY <1>7 DEF Restart, histVars
<1>8. CASE UNCHANGED vars
  BY <1>8 DEF vars, callVars, histVars
<1>9. QED
  BY <1>1, <1>2, <1>3, <1>4, <1>5, <1>6, <1>7, <1>8 DEF Next

LEMMA MeterInvHolds == Spec => []MeterInv
<1>1. Init => MeterInv
  BY LimitType DEF Init, MeterInv, CounterSaturates, ChargedForRequestsMade
<1>2. TypeOK /\ MeterInv /\ [Next]_vars => MeterInv'
  BY MeterInvInductive
<1>3. QED
  BY <1>1, <1>2, TypeCorrect, PTL DEF Spec

(* The stored count of a day never passes the largest allowance the tenant  *)
(* was entitled to, whatever calls, plan changes and midnights interleave.  *)
THEOREM CounterNeverPassesAllowance == Spec => []CounterSaturates
  BY MeterInvHolds, PTL DEF MeterInv

(* The counter of no single day exceeds the requests counted for the tenant *)
(* in its whole life: lost updates add nothing, and what a midnight carries *)
(* over was counted before.                                                 *)
THEOREM ChargesAreReal == Spec => []ChargedForRequestsMade
  BY MeterInvHolds, PTL DEF MeterInv

(* A refusal comes only after as many requests as the plan allows. *)
THEOREM DenialsAreEarned == Spec => DenialEarned
<1>1. TypeOK /\ MeterInv /\ [Next]_vars =>
        [\A w \in Workers : Deny(w) => made[caller[w]] >= limit[w]]_vars
  BY DEF TypeOK, MeterInv, ChargedForRequestsMade, Deny, Exhausted
<1>2. QED
  BY <1>1, TypeCorrect, MeterInvHolds, PTL DEF Spec, DenialEarned

-----------------------------------------------------------------------------
(* With one worker nothing can write between a call's read and its write,   *)
(* so the counter keeps up with the requests of its day.                    *)
SerialInv ==
    /\ \A t \in Tenants, d \in Days : admitted[t][d] <= counter[t][d]
    /\ \A t \in Tenants, d \in Days : d > day => admitted[t][d] = 0
    /\ \A w \in Workers : pc[w] = "checked" => admitted[caller[w]][day] <= used[w]

(* The daily allowance is kept by a server with a single worker, midnight   *)
(* and plan changes included: overshooting it takes concurrent calls.       *)
THEOREM SerialAllowanceKept ==
    ASSUME \A v, w \in Workers : v = w
    PROVE  Spec => []DailyAllowanceKept
<1>1. Init => SerialInv
  BY DEF Init, SerialInv
<1>2. TypeOK /\ SerialInv /\ [Next]_vars => SerialInv'
  <2> SUFFICES ASSUME TypeOK, SerialInv, [Next]_vars PROVE SerialInv'
    OBVIOUS
  <2> USE DEF TypeOK, SerialInv
  <2>1. ASSUME NEW w \in Workers, NEW t \in Tenants, BeginCall(w, t) PROVE SerialInv'
    BY <2>1 DEF BeginCall, histVars
  <2>2. ASSUME NEW w \in Workers, ReadUsage(w) PROVE SerialInv'
    BY <2>2 DEF ReadUsage, histVars
  <2>3. ASSUME NEW w \in Workers, Deny(w) PROVE SerialInv'
    BY <2>3 DEF Deny, Idle, histVars
  <2>4. ASSUME NEW w \in Workers, WriteUsage(w) PROVE SerialInv'
    <3>1. \A v \in Workers : pc'[v] = "idle"
      BY <2>4 DEF WriteUsage, Idle
    <3> DEFINE u == caller[w]
    <3>0. /\ u \in Tenants /\ day \in Days /\ used[w] \in Nat
          /\ admitted[u][day] <= used[w] /\ day' = day
          /\ counter' = [counter EXCEPT ![u][day] = used[w] + 1]
          /\ admitted' = [admitted EXCEPT ![u][day] = admitted[u][day] + 1]
      BY <2>4 DEF WriteUsage
    <3>2. ASSUME NEW t \in Tenants, NEW d \in Days
          PROVE  /\ admitted'[t][d] <= counter'[t][d]
                 /\ d > day' => admitted'[t][d] = 0
      <4> HIDE DEF u
      <4>1. admitted[t][d] \in Nat /\ counter[t][d] \in Nat
        BY <3>0
      <4>2. CASE t = u /\ d = day
        <5>1. admitted'[t][d] = admitted[t][d] + 1 /\ counter'[t][d] = used[w] + 1
          BY <3>0, <4>2
        <5>2. ~(d > day')
          BY <3>0, <4>2 DEF Days
        <5>3. QED
          BY <3>0, <4>1, <4>2, <5>1, <5>2
      <4>3. CASE t # u \/ d # day
        <5>1. admitted'[t][d] = admitted[t][d] /\ counter'[t][d] = counter[t][d]
          BY <3>0, <4>3
        <5>2. QED
          BY <3>0, <5>1
      <4>4. QED
        BY <4>2, <4>3
    <3>3. QED
      BY <3>1, <3>2
  <2>5. ASSUME NEW t \in Tenants, NEW p \in Plans, SetPlan(t, p) PROVE SerialInv'
    BY <2>5 DEF SetPlan, callVars
  <2>6. CASE Midnight
    <3>1. day' = day + 1 /\ day' \in Days /\ \A d \in Days : d \in Int
      BY <2>6, MeteringAssumption DEF Midnight, Days
    <3>2. \A t \in Tenants : admitted[t][day'] = 0
      BY <3>1 DEF Days
    <3>3. \A w \in Workers : pc[w] = "checked" => used[w] >= admitted[caller[w]][day']
      BY <3>2
    <3>4. \A t \in Tenants, d \in Days : d > day' => admitted[t][d] = 0
      BY <3>1 DEF Days
    <3>5. QED
      BY <2>6, <3>3, <3>4 DEF Midnight, callVars, histVars
  <2>7. CASE Restart
    BY <2>7 DEF Restart, histVars
  <2>8. CASE UNCHANGED vars
    BY <2>8 DEF vars, callVars, histVars
  <2>9. QED
    BY <2>1, <2>2, <2>3, <2>4, <2>5, <2>6, <2>7, <2>8 DEF Next
<1>3. TypeOK /\ MeterInv /\ SerialInv => DailyAllowanceKept
  BY DEF TypeOK, MeterInv, CounterSaturates, SerialInv, DailyAllowanceKept
<1>4. QED
  BY <1>1, <1>2, <1>3, TypeCorrect, MeterInvHolds, PTL DEF Spec

=============================================================================
