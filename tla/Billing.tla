------------------------------- MODULE Billing -------------------------------
(***************************************************************************)
(* Plans bought with Stripe: the checkout, verify and webhook routes of    *)
(* api/routers/billing.py, with Stripe and its customers around them.      *)
(*                                                                         *)
(* checkout and verify run on worker threads, and verify holds an answer   *)
(* of Stripe's while the world moves on.  webhook runs on the event loop   *)
(* and does not give it up between reading the event and answering; Stripe *)
(* delivers events late, in any order, again when it got no answer, and    *)
(* sometimes again although it did.  What the webhook makes of a request   *)
(* depends on how the process is set up, its mode:                         *)
(*   signed   STRIPE_WEBHOOK_SECRET is set and construct_event returns a   *)
(*            dict;                                                        *)
(*   opaque   it is set, and the stripe package returns an object whose    *)
(*            get raises, as the comment in verify says StripeObject does; *)
(*   open     it is not set: whatever JSON is posted is taken for an event.*)
(*                                                                         *)
(* AuthService.set_plan is one step here.  What AuthDirectory shows inside *)
(* it is that an operation may store a directory it loaded a while ago;    *)
(* held is what such operations still hold, and a set_plan that works on   *)
(* an old directory is StoreElsewhere and then the step that sets the plan.*)
(*                                                                         *)
(* A Checkout Session that expires is one that stays open for ever.  The   *)
(* answers 400, 404, 502 and 503 change nothing and are left out, as is    *)
(* the ValueError of an unverified event with an unknown plan.             *)
(***************************************************************************)
EXTENDS Integers, FiniteSets

CONSTANTS
    Workers,    \* threads of the request pool
    Tenants,    \* tenants registered when the behaviour begins
    Sessions,   \* identifiers of Checkout Sessions
    Watched,    \* sessions the liveness property follows: they are interchangeable
    Cancelled,  \* bound: sessions whose subscription may end
    PaidPlans,  \* keys of PLANS other than free
    Modes,      \* how the process may be set up
    MaxHeld,    \* bound: old directories that other operations hold at a time
    None        \* plan of a tenant the directory does not know

Plans == PaidPlans \cup {"free"}

ASSUME BillingAssumption ==
    /\ "free" \notin PaidPlans /\ Watched \subseteq Sessions
    /\ None \notin Plans \cup Tenants \cup Sessions
    /\ Modes \subseteq {"signed", "opaque", "open"} /\ MaxHeld \in Nat

VARIABLES
    plan,       \* plan[t]: plan of t in the directory
    session,    \* session[s]: what Stripe knows of s
    pending,    \* events Stripe has still to deliver
    acked,      \* events Stripe got a 2xx for
    pc,         \* pc[w]: where the verify request on worker w stands
    user,       \* user[w]: tenant of its token
    asked,      \* asked[w]: session it asked Stripe for
    mode,       \* how the running process is set up
    held,       \* directories other operations have loaded and may store
    applied,    \* history: sessions whose plan was set
    refused     \* history: others of whose tenant the webhook said "not found"

eventVars   == <<pending, acked>>
callVars    == <<pc, user, asked>>
processVars == <<mode, held>>
historyVars == <<applied, refused>>
vars        == <<plan, session, eventVars, callVars, processVars, historyVars>>

-----------------------------------------------------------------------------
NoSession == [tenant |-> None, plan |-> None, status |-> "none", payment |-> "none"]

Complete(s) == session[s].status = "complete"

Completed(s) == [type |-> "checkout.session.completed", session |-> s]
Deleted(s)   == [type |-> "customer.subscription.deleted", session |-> s]
Events       == {Completed(s) : s \in Sessions} \cup {Deleted(s) : s \in Sessions}

Directories == [Tenants -> Plans \cup {None}]

(* What verify takes for paid. *)
Paid(data) ==
    \/ data.payment = "paid"
    \/ data.status = "complete" /\ data.payment # "unpaid"

Idle(w) ==
    /\ pc' = [pc EXCEPT ![w] = "idle"]
    /\ user' = [user EXCEPT ![w] = None]
    /\ asked' = [asked EXCEPT ![w] = None]

(* A client may register with any plan it likes.  An operation under way   *)
(* may have loaded the directory before some tenant was in it.             *)
Init ==
    /\ plan \in [Tenants -> Plans]
    /\ session = [s \in Sessions |-> NoSession]
    /\ pending = {} /\ acked = {}
    /\ pc = [w \in Workers |-> "idle"]
    /\ user = [w \in Workers |-> None]
    /\ asked = [w \in Workers |-> None]
    /\ mode \in Modes
    /\ held \in SUBSET Directories /\ Cardinality(held) <= MaxHeld
    /\ \A d \in held, t \in Tenants : d[t] \in {plan[t], None}
    /\ applied = {} /\ refused = {}

-----------------------------------------------------------------------------
(* checkout of a paid plan: the tenant and the plan ride in the metadata. *)
CreateSession(t, p, s) ==
    /\ session[s].status = "none"
    /\ session' = [session EXCEPT ![s] =
           [tenant |-> t, plan |-> p, status |-> "open", payment |-> "unpaid"]]
    /\ UNCHANGED <<plan, eventVars, callVars, processVars, historyVars>>

(* checkout of the free plan needs no session. *)
ChooseFree(t) ==
    /\ plan[t] # None
    /\ plan' = [plan EXCEPT ![t] = "free"]
    /\ UNCHANGED <<session, eventVars, callVars, processVars, historyVars>>

(* Stripe: the customer finishes the checkout, having paid, with nothing to *)
(* pay yet (a trial), or by a method that settles days later.               *)
CustomerCompletes(s, payment) ==
    /\ session[s].status = "open"
    /\ session' = [session EXCEPT ![s].status = "complete", ![s].payment = payment]
    /\ pending' = pending \cup {Completed(s)}
    /\ UNCHANGED <<plan, acked, callVars, processVars, historyVars>>

(* Stripe: the delayed payment arrives. *)
PaymentSettles(s) ==
    /\ Complete(s) /\ session[s].payment = "unpaid"
    /\ session' = [session EXCEPT ![s].payment = "paid"]
    /\ UNCHANGED <<plan, eventVars, callVars, processVars, historyVars>>

(* Stripe: the subscription a session began is cancelled. *)
SubscriptionEnds(s) ==
    /\ s \in Cancelled /\ Complete(s) /\ Deleted(s) \notin pending \cup acked
    /\ pending' = pending \cup {Deleted(s)}
    /\ UNCHANGED <<plan, session, acked, callVars, processVars, historyVars>>

(* Stripe: an event is sent a second time although it was answered. *)
Redeliver(e) ==
    /\ e \in acked
    /\ pending' = pending \cup {e}
    /\ acked' = acked \ {e}
    /\ UNCHANGED <<plan, session, callVars, processVars, historyVars>>

-----------------------------------------------------------------------------
(* AuthService.set_plan for the tenant t of session s. *)
SetPlan(t, s) ==
    /\ plan' = [plan EXCEPT ![t] = session[s].plan]
    /\ applied' = applied \cup {s}
    /\ refused' = refused \ {s}

(* The answer to event e reaches Stripe, or the event will come again. *)
Answer(e, answered) ==
    IF answered
    THEN pending' = pending \ {e} /\ acked' = acked \cup {e}
    ELSE UNCHANGED eventVars

(* event.get("data") on an event object that has no get. *)
Opaque == mode = "opaque"
Raises(e) == Opaque /\ e = Completed(e.session)

(* Mutant of Webhook: only sessions that are paid for are applied. *)
WebhookPaidOnly(e, answered) ==
    LET s == e.session
        t == session[s].tenant
    IN  /\ e \in pending /\ ~Raises(e)
        /\ IF e = Completed(s) /\ plan[t] # None /\ session[s].payment = "paid"
           THEN SetPlan(t, s) ELSE UNCHANGED <<plan, historyVars>>
        /\ Answer(e, answered)
        /\ UNCHANGED <<session, callVars, processVars>>

(* Mutant of Webhook: a tenant the directory does not know is entered. *)
WebhookEntersTenant(e, answered) ==
    LET s == e.session
    IN  /\ e \in pending /\ ~Raises(e)
        /\ IF e = Completed(s)
           THEN SetPlan(session[s].tenant, s) ELSE UNCHANGED <<plan, historyVars>>
        /\ Answer(e, answered)
        /\ UNCHANGED <<session, callVars, processVars>>

(* webhook: a completed session sets its tenant's plan; an unknown tenant   *)
(* and every other event type are acknowledged and nothing else.  The       *)
(* answer may get lost, and then the event comes again.                     *)
Webhook(e, answered) ==
    LET s == e.session
        t == session[s].tenant
    IN  /\ e \in pending /\ ~Raises(e)
        /\ \/ e = Completed(s) /\ plan[t] # None /\ SetPlan(t, s)
           \/ /\ e = Completed(s) /\ plan[t] = None
              /\ refused' = refused \cup ({s} \ applied) /\ UNCHANGED <<plan, applied>>
           \/ e # Completed(s) /\ UNCHANGED <<plan, historyVars>>
        /\ Answer(e, answered)
        /\ UNCHANGED <<session, callVars, processVars>>

(* The route answers 500, and Stripe will send the event again. *)
WebhookRaises(e) ==
    /\ e \in pending /\ Raises(e)
    /\ UNCHANGED vars

(* Without a secret anybody may post an event of a session that never was.  *)
WebhookUnverified(t, p) ==
    /\ mode = "open" /\ plan[t] # None
    /\ plan' = [plan EXCEPT ![t] = p]
    /\ UNCHANGED <<session, eventVars, callVars, processVars, historyVars>>

(* Another operation, say a registration, loads the directory ...           *)
LoadElsewhere ==
    /\ Cardinality(held) < MaxHeld
    /\ held' = held \cup {plan}
    /\ UNCHANGED <<plan, session, eventVars, callVars, mode, historyVars>>

(* ... and stores it again, perhaps not as the last one that holds it.      *)
StoreElsewhere(d) ==
    /\ d \in held
    /\ plan' = d
    /\ held' \in {held, held \ {d}}
    /\ UNCHANGED <<session, eventVars, callVars, mode, historyVars>>

(* Mutant of Accepts: whether it is paid does not matter. *)
AcceptsUnpaid(data, t) == data.tenant = t

(* Mutant of Accepts: whose session it is does not matter. *)
AcceptsForeign(data, t) == Paid(data)

(* verify goes on with the caller's own session, once it is paid; otherwise *)
(* it answers 403 or "applied": False and changes nothing.                  *)
Accepts(data, t) == data.tenant = t /\ Paid(data)

(* verify has asked Stripe for a session and looked at the answer.  Tenant  *)
(* and plan of a session never change, so that is all of it that can age.   *)
Retrieve(w, t, s) ==
    /\ pc[w] = "idle"
    /\ session[s].status # "none" /\ Accepts(session[s], t)
    /\ pc' = [pc EXCEPT ![w] = "retrieved"]
    /\ user' = [user EXCEPT ![w] = t]
    /\ asked' = [asked EXCEPT ![w] = s]
    /\ UNCHANGED <<plan, session, eventVars, processVars, historyVars>>

Activate(w) ==
    /\ pc[w] = "retrieved" /\ plan[user[w]] # None
    /\ SetPlan(user[w], asked[w])
    /\ Idle(w)
    /\ UNCHANGED <<session, eventVars, processVars>>

(* set_plan raises a KeyError: the tenant is gone. *)
ActivateRaises(w) ==
    /\ pc[w] = "retrieved" /\ plan[user[w]] = None
    /\ Idle(w)
    /\ UNCHANGED <<plan, session, eventVars, processVars, historyVars>>

(* The process restarts, perhaps set up in another way; an in-memory        *)
(* directory is empty afterwards.                                           *)
Restart ==
    /\ plan' \in {plan, [t \in Tenants |-> None]}
    /\ mode' \in Modes /\ held' = {}
    /\ pc' = [w \in Workers |-> "idle"]
    /\ user' = [w \in Workers |-> None]
    /\ asked' = [w \in Workers |-> None]
    /\ UNCHANGED <<session, eventVars, historyVars>>

ClientStep ==
    \/ \E t \in Tenants, p \in PaidPlans, s \in Sessions : CreateSession(t, p, s)
    \/ \E t \in Tenants : ChooseFree(t)
    \/ \E w \in Workers :
        \/ \E t \in Tenants, s \in Sessions : Retrieve(w, t, s)
        \/ Activate(w)
        \/ ActivateRaises(w)

StripeStep ==
    \/ \E s \in Sessions :
        \/ \E payment \in {"paid", "unpaid", "no_payment_required"} :
              CustomerCompletes(s, payment)
        \/ PaymentSettles(s)
        \/ SubscriptionEnds(s)
    \/ \E e \in Events : Redeliver(e)

WebhookStep ==
    \/ \E e \in Events :
        \/ \E answered \in BOOLEAN : Webhook(e, answered)
        \/ WebhookRaises(e)
    \/ \E t \in Tenants, p \in Plans : WebhookUnverified(t, p)

ProcessStep ==
    \/ LoadElsewhere
    \/ \E d \in held : StoreElsewhere(d)
    \/ Restart

Next == ClientStep \/ StripeStep \/ WebhookStep \/ ProcessStep

Spec == Init /\ [][Next]_vars

(* Stripe repeats an event until it gets an answer. *)
FairSpec == Spec /\ \A s \in Sessions : WF_vars(Webhook(Completed(s), TRUE))

(* The same without ENABLED, for the proofs: the event of s does not stay   *)
(* pending for ever with an answer to it only finitely often, unless the    *)
(* process is opaque again and again.  A webhook that does not raise takes  *)
(* any pending event, so this is what the fairness above means.             *)
Repeats(s) ==
    <>[](Completed(s) \in pending /\ ~Opaque)
        => []<><<Webhook(Completed(s), TRUE)>>_vars

RepeatingSpec == Spec /\ \A s \in Sessions : Repeats(s)

-----------------------------------------------------------------------------
(* Types; events and applied plans belong to complete sessions. *)
TypeOK ==
    /\ plan \in Directories /\ held \subseteq Directories /\ mode \in Modes
    /\ session \in [Sessions -> [tenant : Tenants \cup {None}, plan : PaidPlans \cup {None},
                                 status : {"none", "open", "complete"},
                                 payment : {"none", "paid", "unpaid", "no_payment_required"}]]
    /\ \A s \in Sessions : session[s].status # "none" =>
           session[s].tenant \in Tenants /\ session[s].plan \in PaidPlans
    /\ pending \subseteq Events /\ acked \subseteq Events
    /\ \A e \in pending \cup acked : Complete(e.session)
    /\ pc \in [Workers -> {"idle", "retrieved"}]
    /\ user \in [Workers -> Tenants \cup {None}]
    /\ asked \in [Workers -> Sessions \cup {None}]
    /\ \A w \in Workers : pc[w] = "retrieved" => user[w] \in Tenants /\ asked[w] \in Sessions
    /\ applied \cup refused \subseteq {s \in Sessions : Complete(s)}

(* The session that justifies a change of the plan of t to p. *)
Backs(s, t, p) == session[s].tenant = t /\ session[s].plan = p /\ Complete(s)

(* However answers, events and restarts interleave, verify and a webhook    *)
(* that checks signatures make a tenant's plan a paid one only if that      *)
(* tenant completed a checkout of that very plan.  Otherwise the webhook is *)
(* unverified, or another operation has stored a directory of old.          *)
UpgradesBacked ==
    [][\A t \in Tenants : plan'[t] # plan[t] /\ plan'[t] \in PaidPlans =>
          \/ \E s \in Sessions : Backs(s, t, plan'[t])
          \/ UNCHANGED callVars /\ (mode = "open" \/ plan' \in held)]_vars

(* No completed checkout is forgotten: until its event has been handled it  *)
(* is waiting to be delivered, and an answer to it that applied nothing     *)
(* came when the directory did not know the tenant.                         *)
NoCheckoutForgotten ==
    \A s \in Sessions : Complete(s) =>
        \/ Completed(s) \in pending
        \/ Completed(s) \in acked /\ s \in applied \cup refused

(* A completed checkout is applied, with or without the success page and    *)
(* whatever restarts, unless its tenant is unknown when the event comes or  *)
(* a process runs whose webhook raises on it.                               *)
CheckoutTakesEffect ==
    \A s \in Watched : Complete(s) ~> (s \in applied \cup refused \/ Opaque)

(* "Successful payment -> webhook -> entitlement": the session behind an    *)
(* upgrade is not waiting for its payment.                                  *)
UpgradesPaidFor ==
    [][\A t \in Tenants : plan'[t] # plan[t] /\ plan'[t] \in PaidPlans =>
          \E s \in Sessions : Backs(s, t, plan'[t]) /\ session[s].payment # "unpaid"]_vars

(* What tenants bought, seen from the sessions they completed. *)
Bought ==
    {<<session[s].tenant, session[s].plan>> : s \in {r \in Sessions : Complete(r)}}

Promise == INSTANCE Entitlement WITH bought <- Bought, open <- (mode = "open")

(* Billing implements the entitlements: with signatures checked, no late or *)
(* repeated event, no old answer and no restart grants what was not bought, *)
(* takes away what was not given up, or touches more than one known tenant; *)
(* only a stored directory of old does.                                     *)
EntitlementsKept == Promise!Spec

=============================================================================
