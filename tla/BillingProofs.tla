---------------------------- MODULE BillingProofs ----------------------------
(***************************************************************************)
(* Proofs, for any number of workers, tenants, sessions and plans.         *)
(*   VerdictInv   what verify decided on an answer of Stripe's stays true  *)
(*                while it waits: the session is complete and the caller's *)
(*                own, since nothing un-completes a session.  TypeOK is    *)
(*                not inductive without it.                                *)
(* For liveness, what became of a checkout is final (NothingTakenBack), an *)
(* answered delivery decides it (DeliveryWorks), and an event before that  *)
(* stays pending (EventsMove, NoCheckoutForgotten), so that RepeatingSpec  *)
(* has to deliver it.                                                      *)
(***************************************************************************)
EXTENDS Billing, TLAPS

VerdictInv ==
    /\ \A s \in Sessions : session[s].payment = "paid" => Complete(s)
    /\ \A w \in Workers : pc[w] = "retrieved" =>
           Complete(asked[w]) /\ session[asked[w]].tenant = user[w]

Inv == TypeOK /\ VerdictInv

(* Events of a session name that session and no other. *)
LEMMA EventSession ==
    ASSUME NEW e \in Events
    PROVE  /\ e.session \in Sessions
           /\ \A s \in Sessions : e = Completed(s) \/ e = Deleted(s) => e.session = s
  BY DEF Events, Completed, Deleted

(* What a worker decided on outlives every step that keeps complete         *)
(* sessions complete and their tenants the same.                            *)
LEMMA VerdictsStay ==
    ASSUME Inv, UNCHANGED callVars,
           \A r \in Sessions : Complete(r) => Complete(r)' /\ session'[r].tenant = session[r].tenant
    PROVE  \A w \in Workers : pc'[w] = "retrieved" =>
               session'[asked'[w]].status = "complete" /\ session'[asked'[w]].tenant = user'[w]
  BY DEF Inv, TypeOK, VerdictInv, callVars, Complete

LEMMA InvInit == Init => Inv
  BY BillingAssumption
     DEF Init, Inv, TypeOK, VerdictInv, Plans, Directories, NoSession, Complete

(* The steps that leave sessions, events and calls alone. *)
LEMMA DirectoryStep ==
    ASSUME Inv, UNCHANGED <<session, eventVars, callVars>>, mode' \in Modes,
           plan' \in Directories, held' \subseteq Directories,
           applied' \cup refused' \subseteq {s \in Sessions : Complete(s)}
    PROVE  Inv'
  BY DEF Inv, TypeOK, VerdictInv, Complete, eventVars, callVars

LEMMA InvStep == ASSUME Inv, [Next]_vars PROVE Inv'
<1> USE DEF Inv, TypeOK, VerdictInv, processVars, historyVars
<1>1. ASSUME NEW t \in Tenants, NEW p \in PaidPlans, NEW s \in Sessions,
             CreateSession(t, p, s)
      PROVE  Inv'
  <2>1. \A r \in Sessions : session'[r] = IF r = s
           THEN [tenant |-> t, plan |-> p, status |-> "open", payment |-> "unpaid"]
           ELSE session[r]
    BY <1>1 DEF CreateSession
  <2>2. \A r \in Sessions : Complete(r) => Complete(r)' /\ session'[r].tenant = session[r].tenant
    BY <1>1, <2>1 DEF CreateSession, Complete
  <2>3. \A w \in Workers : pc'[w] = "retrieved" =>
           session'[asked'[w]].status = "complete" /\ session'[asked'[w]].tenant = user'[w]
    BY <1>1, <2>2, VerdictsStay DEF CreateSession
  <2>4. QED
    BY <1>1, <2>1, <2>2, <2>3, EventSession DEF CreateSession, Complete, eventVars, callVars
<1>2. ASSUME NEW t \in Tenants, ChooseFree(t) PROVE Inv'
  BY <1>2, DirectoryStep DEF ChooseFree, Plans, Directories
<1>3. ASSUME NEW s \in Sessions, NEW payment \in {"paid", "unpaid", "no_payment_required"},
             CustomerCompletes(s, payment)
      PROVE  Inv'
  <2>1. /\ \A r \in Sessions : Complete(r) => Complete(r)'
        /\ Complete(s)'
    BY <1>3 DEF CustomerCompletes, Complete
  <2>2. \A r \in Sessions : session'[r] = IF r = s
           THEN [session[s] EXCEPT !.status = "complete", !.payment = payment]
           ELSE session[r]
    BY <1>3 DEF CustomerCompletes
  <2>3. pending' \subseteq Events /\ \A e \in pending' : Complete(e.session)'
    BY <1>3, <2>1, EventSession DEF CustomerCompletes, Events, Completed
  <2>4. session' \in [Sessions -> [tenant : Tenants \cup {None}, plan : PaidPlans \cup {None},
                                  status : {"none", "open", "complete"},
                                  payment : {"none", "paid", "unpaid", "no_payment_required"}]]
    <3>1. session[s] \in [tenant : Tenants \cup {None}, plan : PaidPlans \cup {None},
                          status : {"none", "open", "complete"},
                          payment : {"none", "paid", "unpaid", "no_payment_required"}]
      OBVIOUS
    <3>2. session' = [session EXCEPT ![s] =
             [session[s] EXCEPT !.status = "complete", !.payment = payment]]
      BY <1>3, <3>1 DEF CustomerCompletes
    <3>3. QED
      BY <3>1, <3>2
  <2>5. \A r \in Sessions :
           /\ session'[r].status # "none" =>
                 session'[r].tenant \in Tenants /\ session'[r].plan \in PaidPlans
           /\ session'[r].payment = "paid" => Complete(r)'
           /\ session'[r].tenant = session[r].tenant
    BY <1>3, <2>1, <2>2 DEF CustomerCompletes, Complete
  <2>6. \A e \in acked : Complete(e.session)'
    BY <2>1, EventSession
  <2>7. \A w \in Workers : pc'[w] = "retrieved" =>
           session'[asked'[w]].status = "complete" /\ session'[asked'[w]].tenant = user'[w]
    BY <1>3, <2>1, <2>5, VerdictsStay DEF CustomerCompletes
  <2>8. QED
    BY <1>3, <2>1, <2>3, <2>4, <2>5, <2>6, <2>7 DEF CustomerCompletes, callVars
<1>4. ASSUME NEW s \in Sessions, PaymentSettles(s) PROVE Inv'
  <2>1. \A r \in Sessions : session'[r] = IF r = s
           THEN [session[s] EXCEPT !.payment = "paid"] ELSE session[r]
    BY <1>4 DEF PaymentSettles
  <2>2. \A r \in Sessions : Complete(r) => Complete(r)' /\ session'[r].tenant = session[r].tenant
    BY <1>4, <2>1 DEF PaymentSettles, Complete
  <2>3. \A w \in Workers : pc'[w] = "retrieved" =>
           session'[asked'[w]].status = "complete" /\ session'[asked'[w]].tenant = user'[w]
    BY <1>4, <2>2, VerdictsStay DEF PaymentSettles
  <2>4. QED
    BY <1>4, <2>1, <2>2, <2>3, EventSession DEF PaymentSettles, Complete, eventVars, callVars
<1>5. ASSUME NEW s \in Sessions, SubscriptionEnds(s) PROVE Inv'
  BY <1>5, EventSession DEF SubscriptionEnds, Complete, Events, Deleted, callVars
<1>6. ASSUME NEW e \in Events, Redeliver(e) PROVE Inv'
  BY <1>6 DEF Redeliver, Complete, callVars
<1>7. ASSUME NEW e \in Events, NEW answered \in BOOLEAN, Webhook(e, answered) PROVE Inv'
  <2>1. e.session \in Sessions /\ Complete(e.session)
    BY <1>7, EventSession DEF Webhook
  <2>2. plan' \in Directories
    BY <1>7, <2>1 DEF Webhook, SetPlan, Plans, Complete, Directories
  <2>3. applied' \cup refused' \subseteq {s \in Sessions : Complete(s)}
    BY <1>7, <2>1 DEF Webhook, SetPlan
  <2>4. pending' \subseteq Events /\ acked' \subseteq Events
        /\ \A f \in pending' \cup acked' : Complete(f.session)
    BY <1>7, <2>1 DEF Webhook, Answer, eventVars
  <2>5. QED
    BY <1>7, <2>2, <2>3, <2>4 DEF Webhook, Complete, callVars
<1>8. ASSUME NEW e \in Events, WebhookRaises(e) PROVE Inv'
  BY <1>8 DEF WebhookRaises, vars, Complete, eventVars, callVars
<1>9. ASSUME NEW t \in Tenants, NEW p \in Plans, WebhookUnverified(t, p) PROVE Inv'
  BY <1>9, DirectoryStep DEF WebhookUnverified, Directories
<1>10. ASSUME NEW w \in Workers, NEW t \in Tenants, NEW s \in Sessions, Retrieve(w, t, s)
       PROVE  Inv'
  BY <1>10 DEF Retrieve, Accepts, Paid, Complete, eventVars
<1>11. ASSUME NEW w \in Workers, Activate(w) PROVE Inv'
  <2>1. asked[w] \in Sessions /\ Complete(asked[w]) /\ session[asked[w]].plan \in PaidPlans
    BY <1>11 DEF Activate, Complete
  <2>2. plan' \in Directories
    BY <1>11, <2>1 DEF Activate, SetPlan, Plans, Directories
  <2>3. QED
    BY <1>11, <2>1, <2>2 DEF Activate, SetPlan, Idle, Complete, eventVars
<1>12. ASSUME NEW w \in Workers, ActivateRaises(w) PROVE Inv'
  BY <1>12 DEF ActivateRaises, Idle, Complete, eventVars
<1>13. CASE LoadElsewhere
  BY <1>13, DirectoryStep DEF LoadElsewhere
<1>14. ASSUME NEW d \in held, StoreElsewhere(d) PROVE Inv'
  BY <1>14, DirectoryStep DEF StoreElsewhere
<1>15. CASE Restart
  BY <1>15 DEF Restart, Complete, eventVars, Directories
<1>16. CASE UNCHANGED vars
  BY <1>16 DEF vars, Complete, eventVars, callVars
<1>17. QED
  BY <1>1, <1>2, <1>3, <1>4, <1>5, <1>6, <1>7, <1>8, <1>9, <1>10, <1>11, <1>12, <1>13,
     <1>14, <1>15, <1>16
     DEF Next, ClientStep, StripeStep, WebhookStep, ProcessStep

LEMMA InvHolds == Spec => []Inv
<1>1. QED
  BY InvInit, InvStep, PTL DEF Spec

(* Plans, sessions and requests keep their types, and whatever is pending,  *)
(* acknowledged or applied belongs to a completed session.                  *)
THEOREM TypeCorrect == Spec => []TypeOK
  BY InvHolds, PTL DEF Inv

(* A plan becomes a paid one only through a completed checkout of the same  *)
(* tenant for that plan, late and repeated events, answers held across      *)
(* other requests and restarts included, or by an unverified webhook or a   *)
(* directory that another operation stores again.                           *)
THEOREM UpgradesAreBacked == Spec => UpgradesBacked
<1> DEFINE Backed == \A t \in Tenants : plan'[t] # plan[t] /\ plan'[t] \in PaidPlans =>
                        \/ \E s \in Sessions : Backs(s, t, plan'[t])
                        \/ UNCHANGED callVars /\ (mode = "open" \/ plan' \in held)
<1>1. ASSUME Inv, [Next]_vars PROVE [Backed]_vars
  <2> USE DEF Inv, TypeOK
  <2> SUFFICES ASSUME NEW t \in Tenants, plan'[t] # plan[t], plan'[t] \in PaidPlans
               PROVE  \/ \E s \in Sessions : Backs(s, t, plan'[t])
                      \/ UNCHANGED callVars /\ (mode = "open" \/ plan' \in held)
    OBVIOUS
  <2>1. ASSUME NEW e \in Events, NEW answered \in BOOLEAN, Webhook(e, answered)
        PROVE  Backs(e.session, t, plan'[t]) /\ e.session \in Sessions
    <3>1. e.session \in Sessions /\ Complete(e.session)
      BY <1>1, <2>1, EventSession DEF Webhook
    <3>2. session[e.session].tenant = t
          /\ plan'[t] = session[e.session].plan
      BY <1>1, <2>1, <3>1 DEF Webhook, SetPlan, Complete, Directories
    <3>3. QED
      BY <3>1, <3>2 DEF Backs
  <2>2. ASSUME NEW w \in Workers, Activate(w)
        PROVE  Backs(asked[w], t, plan'[t]) /\ asked[w] \in Sessions
    BY <1>1, <2>2 DEF VerdictInv, Activate, SetPlan, Backs, Directories
  <2>3. ASSUME NEW u \in Tenants, ChooseFree(u) PROVE FALSE
    BY <1>1, <2>3, BillingAssumption DEF ChooseFree, Directories
  <2>4. ASSUME NEW u \in Tenants, NEW p \in Plans, WebhookUnverified(u, p)
        PROVE  UNCHANGED callVars /\ mode = "open"
    BY <2>4 DEF WebhookUnverified
  <2>5. ASSUME NEW d \in held, StoreElsewhere(d)
        PROVE  UNCHANGED callVars /\ plan' \in held
    BY <2>5 DEF StoreElsewhere
  <2>6. CASE Restart
    BY <1>1, <2>6, BillingAssumption DEF Restart, Plans
  <2>7. CASE UNCHANGED plan
    BY <2>7
  <2>8. QED
    BY <1>1, <2>1, <2>2, <2>3, <2>4, <2>5, <2>6, <2>7
       DEF Next, ClientStep, StripeStep, WebhookStep, ProcessStep, vars, CreateSession,
           CustomerCompletes, PaymentSettles, SubscriptionEnds, Redeliver, Retrieve,
           ActivateRaises, WebhookRaises, LoadElsewhere
<1>2. QED
  BY <1>1, InvHolds, PTL DEF Spec, UpgradesBacked

-----------------------------------------------------------------------------
(* As long as the sessions stay as they are, so does what was bought. *)
LEMMA SameBought == session' = session => Bought' = Bought
  BY DEF Bought, Complete

LEMMA BoughtByComplete ==
    ASSUME NEW s \in Sessions, Complete(s)
    PROVE  <<session[s].tenant, session[s].plan>> \in Bought
  BY DEF Bought

(* A step that creates, completes or settles a session buys at most the     *)
(* plan of that session.                                                    *)
LEMMA SessionStepBuys ==
    ASSUME Inv, NEW s \in Sessions,
           session' = [session EXCEPT ![s] = session'[s]],
           Complete(s) => session'[s] = [session[s] EXCEPT !.payment = session'[s].payment],
           Complete(s)' => /\ session'[s].tenant = session[s].tenant
                           /\ session'[s].plan = session[s].plan
                           /\ session[s].status # "none"
    PROVE  \/ Bought' = Bought
           \/ \E t \in Tenants, p \in PaidPlans : Bought' = Bought \cup {<<t, p>>}
<1>1. \A r \in Sessions \ {s} : session'[r] = session[r]
  BY DEF Inv, TypeOK
<1>2. Complete(s) => Complete(s)'
  BY DEF Complete, Inv, TypeOK
<1>3. CASE ~Complete(s)'
  BY <1>1, <1>2, <1>3 DEF Bought, Complete
<1>4. CASE Complete(s)'
  <2>1. session[s].tenant \in Tenants /\ session[s].plan \in PaidPlans
    BY <1>4 DEF Inv, TypeOK
  <2>2. Bought' = Bought \cup {<<session[s].tenant, session[s].plan>>}
    BY <1>1, <1>2, <1>4 DEF Bought, Complete
  <2>3. QED
    BY <2>1, <2>2
<1>5. QED
  BY <1>3, <1>4

LEMMA EntitlementStep ==
    ASSUME Inv, [Next]_vars PROVE [Promise!Next]_<<plan, Bought, mode = "open", held>>
<1> USE DEF processVars, historyVars
<1> DEFINE Stutter == UNCHANGED <<plan, mode, held>> /\ Bought' = Bought
<1>1. ASSUME NEW t \in Tenants, NEW p \in PaidPlans, NEW s \in Sessions,
             CreateSession(t, p, s)
      PROVE  Stutter
  <2>1. /\ ~Complete(s) /\ ~Complete(s)' /\ UNCHANGED <<plan, mode, held>>
        /\ \A r \in Sessions \ {s} : session'[r] = session[r]
    BY <1>1 DEF CreateSession, Complete, Inv, TypeOK
  <2>2. QED
    BY <2>1 DEF Bought, Complete
<1>2. ASSUME NEW t \in Tenants, ChooseFree(t) PROVE Promise!Grant(t, "free")
  BY <1>2, SameBought DEF ChooseFree, Promise!Grant
<1>3. ASSUME NEW s \in Sessions, NEW payment \in {"paid", "unpaid", "no_payment_required"},
             CustomerCompletes(s, payment)
      PROVE  Stutter \/ \E t \in Tenants, p \in PaidPlans : Promise!Buy(t, p)
  <2>1. /\ session' = [session EXCEPT ![s] =
                [session[s] EXCEPT !.status = "complete", !.payment = payment]]
        /\ session[s].status = "open" /\ UNCHANGED <<plan, mode, held>>
    BY <1>3 DEF CustomerCompletes, Inv, TypeOK
  <2>2. session'[s] = [session[s] EXCEPT !.status = "complete", !.payment = payment]
    BY <2>1 DEF Inv, TypeOK
  <2>3. /\ session' = [session EXCEPT ![s] = session'[s]]
        /\ session'[s].tenant = session[s].tenant /\ session'[s].plan = session[s].plan
        /\ ~Complete(s) /\ session[s].status # "none"
    BY <2>1, <2>2 DEF Complete, Inv, TypeOK
  <2>4. \/ Bought' = Bought
        \/ \E t \in Tenants, p \in PaidPlans : Bought' = Bought \cup {<<t, p>>}
    BY <2>3, SessionStepBuys
  <2>5. QED
    BY <2>1, <2>4 DEF Promise!Buy
<1>4. ASSUME NEW s \in Sessions, PaymentSettles(s) PROVE Stutter
  <2>1. /\ \A r \in Sessions : /\ session'[r].tenant = session[r].tenant
                               /\ session'[r].plan = session[r].plan
                               /\ session'[r].status = session[r].status
        /\ UNCHANGED <<plan, mode, held>>
    BY <1>4 DEF PaymentSettles, Inv, TypeOK
  <2>2. QED
    BY <2>1 DEF Bought, Complete
<1>5. ASSUME NEW s \in Sessions, SubscriptionEnds(s) PROVE Stutter
  BY <1>5, SameBought DEF SubscriptionEnds
<1>6. ASSUME NEW e \in Events, Redeliver(e) PROVE Stutter
  BY <1>6, SameBought DEF Redeliver
<1>7. ASSUME NEW e \in Events, NEW answered \in BOOLEAN, Webhook(e, answered)
      PROVE  Stutter \/ \E t \in Tenants, p \in PaidPlans : Promise!Grant(t, p)
  <2>1. e.session \in Sessions /\ Complete(e.session)
        /\ session' = session /\ UNCHANGED <<mode, held>>
    BY <1>7, EventSession DEF Webhook, Inv, TypeOK
  <2>2. session[e.session].tenant \in Tenants /\ session[e.session].plan \in PaidPlans
    BY <2>1 DEF Inv, TypeOK, Complete
  <2>3. \/ plan' = plan
        \/ /\ plan[session[e.session].tenant] # None
           /\ plan' = [plan EXCEPT ![session[e.session].tenant] = session[e.session].plan]
    BY <1>7 DEF Webhook, SetPlan
  <2>4. QED
    BY <2>1, <2>2, <2>3, SameBought, BoughtByComplete DEF Promise!Grant
<1>8. ASSUME NEW e \in Events, WebhookRaises(e) PROVE UNCHANGED vars
  BY <1>8 DEF WebhookRaises
<1>9. ASSUME NEW t \in Tenants, NEW p \in Plans, WebhookUnverified(t, p)
      PROVE  Promise!Grant(t, p)
  BY <1>9, SameBought DEF WebhookUnverified, Promise!Grant
<1>10. ASSUME NEW w \in Workers, NEW t \in Tenants, NEW s \in Sessions, Retrieve(w, t, s)
       PROVE  Stutter
  BY <1>10, SameBought DEF Retrieve
<1>11. ASSUME NEW w \in Workers, Activate(w)
       PROVE  \E t \in Tenants, p \in PaidPlans : Promise!Grant(t, p)
  <2>1. /\ asked[w] \in Sessions /\ Complete(asked[w]) /\ user[w] \in Tenants
        /\ session[asked[w]].tenant = user[w] /\ plan[user[w]] # None
        /\ plan' = [plan EXCEPT ![user[w]] = session[asked[w]].plan]
        /\ UNCHANGED <<session, mode, held>>
    BY <1>11 DEF Activate, SetPlan, Inv, TypeOK, VerdictInv
  <2>2. session[asked[w]].plan \in PaidPlans
    BY <2>1 DEF Inv, TypeOK, Complete
  <2>3. QED
    BY <2>1, <2>2, SameBought, BoughtByComplete DEF Promise!Grant
<1>12. ASSUME NEW w \in Workers, ActivateRaises(w) PROVE Stutter
  BY <1>12, SameBought DEF ActivateRaises
<1>13. CASE LoadElsewhere
  BY <1>13, SameBought DEF LoadElsewhere, Promise!TakeCopy, Promise!Next
<1>14. ASSUME NEW d \in held, StoreElsewhere(d) PROVE Promise!PutBack(d)
  BY <1>14, SameBought DEF StoreElsewhere, Promise!PutBack
<1>15. CASE Restart
  BY <1>15, SameBought DEF Restart, Promise!StartAgain, Promise!Next
<1>16. CASE UNCHANGED vars
  BY <1>16, SameBought DEF vars
<1>17. QED
  BY <1>1, <1>2, <1>3, <1>4, <1>5, <1>6, <1>7, <1>8, <1>9, <1>10, <1>11, <1>12, <1>13,
     <1>14, <1>15, <1>16
     DEF Next, ClientStep, StripeStep, WebhookStep, ProcessStep, Promise!Next, Plans

(* Billing implements the entitlements of a tenant: whatever Stripe, the    *)
(* workers and restarts do, plans are granted only as they were bought or   *)
(* by an unverified webhook, freed only as the tenant chose, and otherwise  *)
(* change only when a directory of old is stored or all of it is lost.      *)
THEOREM BillingKeepsEntitlements == Spec => EntitlementsKept
<1>1. Init => Promise!Init
  BY DEF Init, Plans, NoSession, Promise!Init, Bought, Complete
<1>2. Inv /\ [Next]_vars => [Promise!Next]_(Promise!vars)
  BY EntitlementStep DEF Promise!vars
<1>3. QED
  BY <1>1, <1>2, InvHolds, PTL DEF Spec, EntitlementsKept, Promise!Spec

-----------------------------------------------------------------------------
(* What no step takes back: a completed session stays complete, and what    *)
(* became of it stays known.                                                *)
LEMMA NothingTakenBack ==
    ASSUME Inv, [Next]_vars, NEW s \in Sessions, Complete(s)
    PROVE  /\ Complete(s)'
           /\ s \in applied \cup refused => s \in applied' \cup refused'
<1> USE DEF Inv, TypeOK, processVars, historyVars
<1>1. Complete(s)'
  <2>1. ASSUME NEW t \in Tenants, NEW p \in PaidPlans, NEW r \in Sessions,
               CreateSession(t, p, r)
        PROVE  Complete(s)'
    BY <2>1 DEF CreateSession, Complete
  <2>2. ASSUME NEW r \in Sessions, NEW payment \in {"paid", "unpaid", "no_payment_required"},
               CustomerCompletes(r, payment)
        PROVE  Complete(s)'
    BY <2>2 DEF CustomerCompletes, Complete
  <2>3. ASSUME NEW r \in Sessions, PaymentSettles(r) PROVE Complete(s)'
    BY <2>3 DEF PaymentSettles, Complete
  <2>4. CASE UNCHANGED session
    BY <2>4 DEF Complete
  <2>5. QED
    BY <2>1, <2>2, <2>3, <2>4
       DEF Next, ClientStep, StripeStep, WebhookStep, ProcessStep, vars, ChooseFree,
           SubscriptionEnds, Redeliver, Webhook, WebhookRaises, WebhookUnverified,
           Retrieve, Activate, ActivateRaises, LoadElsewhere, StoreElsewhere, Restart
<1>2. applied \cup refused \subseteq applied' \cup refused'
  <2>1. ASSUME NEW e \in Events, NEW answered \in BOOLEAN, Webhook(e, answered)
        PROVE  applied \cup refused \subseteq applied' \cup refused'
    BY <2>1 DEF Webhook, SetPlan
  <2>2. ASSUME NEW w \in Workers, Activate(w)
        PROVE  applied \cup refused \subseteq applied' \cup refused'
    BY <2>2 DEF Activate, SetPlan
  <2>3. CASE UNCHANGED historyVars
    BY <2>3
  <2>4. QED
    BY <2>1, <2>2, <2>3
       DEF Next, ClientStep, StripeStep, WebhookStep, ProcessStep, vars, CreateSession,
           ChooseFree, CustomerCompletes, PaymentSettles, SubscriptionEnds, Redeliver,
           WebhookRaises, WebhookUnverified, Retrieve, ActivateRaises, LoadElsewhere,
           StoreElsewhere, Restart
<1>3. QED
  BY <1>1, <1>2

(* A delivery that does not raise applies the session or refuses it. *)
LEMMA DeliveryWorks ==
    ASSUME Inv, NEW s \in Sessions, NEW answered \in BOOLEAN, Webhook(Completed(s), answered)
    PROVE  Complete(s) /\ s \in applied' \cup refused'
<1>1. Completed(s) \in Events /\ Completed(s).session = s
  BY DEF Events, Completed
<1>2. QED
  BY <1>1 DEF Inv, TypeOK, Webhook, SetPlan

(* An event leaves the pending ones only by an answer, and the answered     *)
(* ones only to become pending again.                                       *)
LEMMA EventsMove ==
    ASSUME Inv, [Next]_vars, NEW s \in Sessions
    PROVE  /\ Complete(s)' => Complete(s) \/ Completed(s) \in pending'
           /\ Completed(s) \in pending =>
                  \/ Completed(s) \in pending'
                  \/ Webhook(Completed(s), TRUE) /\ Completed(s) \in acked'
           /\ Completed(s) \in acked => Completed(s) \in pending' \cup acked'
<1> USE DEF Inv, TypeOK
<1>1. ASSUME NEW r \in Sessions, NEW payment \in {"paid", "unpaid", "no_payment_required"},
             CustomerCompletes(r, payment)
      PROVE  /\ Complete(s)' => Complete(s) \/ Completed(s) \in pending'
             /\ pending \subseteq pending' /\ acked' = acked
  BY <1>1 DEF CustomerCompletes, Complete
<1>2. ASSUME NEW t \in Tenants, NEW p \in PaidPlans, NEW r \in Sessions,
             CreateSession(t, p, r)
      PROVE  (Complete(s)' => Complete(s)) /\ UNCHANGED eventVars
  BY <1>2 DEF CreateSession, Complete
<1>3. ASSUME NEW r \in Sessions, PaymentSettles(r)
      PROVE  (Complete(s)' => Complete(s)) /\ UNCHANGED eventVars
  BY <1>3 DEF PaymentSettles, Complete
<1>4. ASSUME NEW e \in Events, NEW answered \in BOOLEAN, Webhook(e, answered)
      PROVE  /\ Complete(s)' => Complete(s)
             /\ Completed(s) \in pending =>
                  \/ Completed(s) \in pending'
                  \/ Webhook(Completed(s), TRUE) /\ Completed(s) \in acked'
             /\ acked \subseteq acked'
  <2>1. session' = session
    BY <1>4 DEF Webhook
  <2>2. Complete(s)' => Complete(s)
    BY <2>1 DEF Complete
  <2>3. CASE answered
    <3>1. answered = TRUE
      BY <2>3
    <3>2. pending' = pending \ {e} /\ acked' = acked \cup {e}
      BY <1>4, <2>3 DEF Webhook, Answer
    <3>3. QED
      BY <1>4, <2>2, <3>1, <3>2
  <2>4. CASE ~answered
    BY <1>4, <2>2, <2>4 DEF Webhook, Answer, eventVars
  <2>5. QED
    BY <2>3, <2>4
<1>5. ASSUME NEW e \in Events, Redeliver(e)
      PROVE  (Complete(s)' => Complete(s)) /\ pending \subseteq pending'
             /\ acked \subseteq pending' \cup acked'
  BY <1>5 DEF Redeliver, Complete
<1>6. ASSUME NEW r \in Sessions, SubscriptionEnds(r)
      PROVE  (Complete(s)' => Complete(s)) /\ pending \subseteq pending' /\ acked' = acked
  BY <1>6 DEF SubscriptionEnds, Complete
<1>7. CASE UNCHANGED <<session, eventVars>>
  BY <1>7 DEF Complete, eventVars
<1>8. QED
  BY <1>1, <1>2, <1>3, <1>4, <1>5, <1>6, <1>7
     DEF Next, ClientStep, StripeStep, WebhookStep, ProcessStep, vars, ChooseFree, Retrieve,
         Activate, ActivateRaises, WebhookRaises, WebhookUnverified, LoadElsewhere,
         StoreElsewhere, Restart, eventVars

LEMMA NoCheckoutForgottenStep ==
    ASSUME Inv, NoCheckoutForgotten, [Next]_vars PROVE NoCheckoutForgotten'
<1> SUFFICES ASSUME NEW s \in Sessions, Complete(s)', Completed(s) \notin pending'
             PROVE  Completed(s) \in acked' /\ s \in applied' \cup refused'
  BY DEF NoCheckoutForgotten
<1>1. Complete(s)
  BY EventsMove
<1>2. CASE Completed(s) \in pending
  <2>1. Webhook(Completed(s), TRUE) /\ Completed(s) \in acked'
    BY <1>2, EventsMove
  <2>2. QED
    BY <2>1, DeliveryWorks
<1>3. CASE Completed(s) \notin pending
  <2>1. Completed(s) \in acked /\ s \in applied \cup refused
    BY <1>1, <1>3 DEF NoCheckoutForgotten
  <2>2. QED
    BY <1>1, <2>1, EventsMove, NothingTakenBack
<1>4. QED
  BY <1>2, <1>3

(* No event of a completed checkout is lost, or answered without effect but *)
(* for a tenant the directory did not know when it came, whatever is        *)
(* repeated, reordered or restarted.                                        *)
THEOREM NoCheckoutIsForgotten == Spec => []NoCheckoutForgotten
<1>1. Init => NoCheckoutForgotten
  BY DEF Init, NoCheckoutForgotten, Complete, NoSession
<1>2. Inv /\ NoCheckoutForgotten /\ [Next]_vars => NoCheckoutForgotten'
  BY NoCheckoutForgottenStep
<1>3. QED
  BY <1>1, <1>2, InvHolds, PTL DEF Spec

-----------------------------------------------------------------------------
(* The event of a complete session is pending until the session has taken   *)
(* effect, so repeating it is enough.                                       *)
LEMMA OneCheckoutTakesEffect ==
    ASSUME NEW s \in Sessions
    PROVE  Spec /\ Repeats(s) =>
             (Complete(s) ~> (s \in applied \cup refused \/ Opaque))
<1> DEFINE Effect  == s \in applied \cup refused
           Waiting == Completed(s) \in pending
<1>1. Inv /\ Complete(s) /\ [Next]_vars => Complete(s)'
  BY NothingTakenBack
<1>2. Inv /\ NoCheckoutForgotten /\ Complete(s) /\ ~Effect => Waiting
  BY DEF NoCheckoutForgotten
<1>3. Inv /\ [Next]_vars /\ <<Webhook(Completed(s), TRUE)>>_vars => Effect'
  BY DeliveryWorks
<1>4. Spec => []Inv /\ []NoCheckoutForgotten
  BY InvHolds, NoCheckoutIsForgotten, PTL
<1> HIDE DEF Effect
<1>5. Spec /\ Repeats(s) => (Complete(s) ~> (Effect \/ Opaque))
  BY <1>1, <1>2, <1>3, <1>4, PTL DEF Spec, Repeats, Waiting
<1>6. QED
  BY <1>5 DEF Effect

(* A completed checkout is applied, or meets an unknown tenant or an opaque *)
(* process, however often its event is delivered without an answer and      *)
(* however often the process restarts, for any number of tenants, sessions  *)
(* and workers, if Stripe repeats each event until it is answered.          *)
THEOREM CheckoutsTakeEffect == RepeatingSpec => CheckoutTakesEffect
<1> SUFFICES ASSUME NEW s \in Watched
             PROVE  RepeatingSpec =>
                      (Complete(s) ~> (s \in applied \cup refused \/ Opaque))
  BY DEF CheckoutTakesEffect
<1>1. s \in Sessions
  BY BillingAssumption
<1>2. RepeatingSpec => Spec /\ Repeats(s)
  BY <1>1 DEF RepeatingSpec
<1>3. QED
  BY <1>1, <1>2, OneCheckoutTakesEffect

=============================================================================
