------------------------------- MODULE Billing -------------------------------
(***************************************************************************)
(* The plan of one workspace and its Stripe subscription                     *)
(* (services/billing_service.py, routers/billing.py).  Stripe is external:  *)
(* it keeps subscriptions per customer, emits an event for every change,    *)
(* and delivers events at least once, in any order, possibly two at a time. *)
(* The subscription row exists from the start without a customer, as a       *)
(* registration without Stripe keys leaves it.                              *)
(***************************************************************************)
EXTENDS Naturals, Sequences, FiniteSets

CONSTANTS
    Req,        \* checkout requests; the Stripe customer request r creates is called r
    Hooks,      \* webhook deliveries handled at a time
    Plans,      \* the plans on sale
    MaxEvents,  \* bound: events Stripe emits
    None

ASSUME BillingAssumption == "free" \notin Plans /\ None \notin Req /\ MaxEvents \in Nat

VARIABLES
    plan,       \* tenants.plan
    sub,        \* the subscriptions row: customer and status
    checkout,   \* checkout requests: "idle", "creating", "done"
    customers,  \* Stripe customers created for the workspace
    offers,     \* open checkout sessions: customer and plan
    paid,       \* Stripe: the plan each live subscription entitles to, by the event that began it
    events,     \* the events Stripe has emitted, in order
    processed,  \* stripe_webhook_events
    hook,       \* deliveries being handled: event and what was loaded, or None
    applied,    \* history: how often each event took effect
    patches,    \* history: plans set by hand
    untidy      \* history: events handled out of order, or two live subscriptions

billingVars == <<plan, sub, checkout, customers, offers, paid, events, processed, hook, applied, patches, untidy>>

AllPlans == Plans \cup {"free"}

Statuses == {"inactive", "active", "past_due", "canceled"}

EventIds == 1..MaxEvents

Event == [type: {"checkout", "updated", "deleted", "failed"}, customer: Req, plan: AllPlans, status: Statuses]

Emit(type, c, p, status) ==
    /\ Len(events) < MaxEvents
    /\ events' = Append(events, [type |-> type, customer |-> c, plan |-> p, status |-> status])

-----------------------------------------------------------------------------
(* Checkout.                                                                *)

\* ensure_stripe_customer, the row has no customer yet: Stripe creates one
\* between the read and the commit.
CreateCustomer(r) ==
    /\ checkout[r] = "idle"
    /\ sub.customer = None
    /\ checkout' = [checkout EXCEPT ![r] = "creating"]
    /\ customers' = customers \cup {r}
    /\ UNCHANGED <<plan, sub, offers, paid, events, processed, hook, applied, patches, untidy>>

\* ... then the row is written and the session created.
SaveCustomer(r, p) ==
    /\ checkout[r] = "creating"
    /\ sub' = [sub EXCEPT !.customer = r]
    /\ offers' = offers \cup {[customer |-> r, plan |-> p]}
    /\ checkout' = [checkout EXCEPT ![r] = "done"]
    /\ UNCHANGED <<plan, customers, paid, events, processed, hook, applied, patches, untidy>>

\* create_checkout_session for the customer on record.
Checkout(r, p) ==
    /\ checkout[r] = "idle"
    /\ sub.customer # None
    /\ offers' = offers \cup {[customer |-> sub.customer, plan |-> p]}
    /\ checkout' = [checkout EXCEPT ![r] = "done"]
    /\ UNCHANGED <<plan, sub, customers, paid, events, processed, hook, applied, patches, untidy>>

\* admin.patch_tenant, plan
PatchPlan(p) ==
    /\ plan' = p
    /\ patches' = patches + 1
    /\ UNCHANGED <<sub, checkout, customers, offers, paid, events, processed, hook, applied, untidy>>

-----------------------------------------------------------------------------
(* Stripe.                                                                  *)

\* The customer pays.
Pay(o) ==
    /\ o \in offers
    /\ Emit("checkout", o.customer, o.plan, "active")
    /\ offers' = offers \ {o}
    /\ paid' = [i \in DOMAIN paid \cup {Len(events) + 1} |->
                  IF i \in DOMAIN paid THEN paid[i] ELSE [customer |-> o.customer, plan |-> o.plan]]
    /\ untidy' = (untidy \/ DOMAIN paid # {})
    /\ UNCHANGED <<plan, sub, checkout, customers, processed, hook, applied, patches>>

\* The subscription changes; a plan counts once the subscription is active.
Change(i, p, status) ==
    /\ i \in DOMAIN paid
    /\ Emit("updated", paid[i].customer, p, status)
    /\ paid' = IF status = "active" THEN [paid EXCEPT ![i].plan = p] ELSE paid
    /\ UNCHANGED <<plan, sub, checkout, customers, offers, processed, hook, applied, patches, untidy>>

\* An invoice is not paid.
MissPayment(i) ==
    /\ i \in DOMAIN paid
    /\ Emit("failed", paid[i].customer, paid[i].plan, "past_due")
    /\ UNCHANGED <<plan, sub, checkout, customers, offers, paid, processed, hook, applied, patches, untidy>>

\* The subscription ends.
Cancel(i) ==
    /\ i \in DOMAIN paid
    /\ Emit("deleted", paid[i].customer, "free", "canceled")
    /\ paid' = [j \in DOMAIN paid \ {i} |-> paid[j]]
    /\ UNCHANGED <<plan, sub, checkout, customers, offers, processed, hook, applied, patches, untidy>>

-----------------------------------------------------------------------------
(* handle_webhook_event: one transaction.                                   *)

\* A checkout is matched by the tenant in its metadata, the others by customer.
Concerns(ev) == ev.type = "checkout" \/ ev.customer = sub.customer

\* A delivery of an event that is not recorded: its rows are loaded.
HandleWebhook(h, e) ==
    /\ hook[h] = None
    /\ e \in 1..Len(events)
    /\ e \notin processed
    /\ hook' = [hook EXCEPT ![h] = [event |-> e, plan |-> plan, mine |-> Concerns(events[e])]]
    /\ untidy' = (untidy \/ \E j \in 1..(e - 1) : j \notin processed)
    /\ UNCHANGED <<plan, sub, checkout, customers, offers, paid, events, processed, applied, patches>>

Bug_AnyStatus(ev) == IF ev.type = "failed" THEN {} ELSE {ev.plan}

\* The plan an event asks for: a checkout's own, an active subscription's, or
\* free when the subscription ended.
AskedPlan(ev) ==
    IF ev.type \in {"checkout", "deleted"} \/ (ev.type = "updated" /\ ev.status = "active")
    THEN {ev.plan} ELSE {}

Bug_CommitTwice(h) ==
    LET ev == events[hook[h].event]
    IN  /\ hook[h] # None
        /\ processed' = processed \cup {hook[h].event}
        /\ applied' = [applied EXCEPT ![hook[h].event] = @ + 1]
        /\ IF hook[h].mine
           THEN /\ sub' = [sub EXCEPT !.status = ev.status]
                /\ plan' = IF AskedPlan(ev) \in {{}, {hook[h].plan}} THEN plan ELSE ev.plan
           ELSE UNCHANGED <<plan, sub>>
        /\ hook' = [hook EXCEPT ![h] = None]
        /\ UNCHANGED <<checkout, customers, offers, paid, events, patches, untidy>>

\* The effect and the record of the event are committed together; an event
\* recorded in the meantime fails the insert.  A plan equal to the loaded one
\* is not written.
CommitWebhook(h) ==
    LET ev == events[hook[h].event]
    IN  /\ hook[h] # None
        /\ hook[h].event \notin processed
        /\ processed' = processed \cup {hook[h].event}
        /\ applied' = [applied EXCEPT ![hook[h].event] = @ + 1]
        /\ IF hook[h].mine
           THEN /\ sub' = [sub EXCEPT !.status = ev.status]
                /\ plan' = IF AskedPlan(ev) \in {{}, {hook[h].plan}} THEN plan ELSE ev.plan
           ELSE UNCHANGED <<plan, sub>>
        /\ hook' = [hook EXCEPT ![h] = None]
        /\ UNCHANGED <<checkout, customers, offers, paid, events, patches, untidy>>

\* The handler fails or is killed before its commit; Stripe delivers again.
WebhookFails(h) ==
    /\ hook[h] # None
    /\ hook' = [hook EXCEPT ![h] = None]
    /\ UNCHANGED <<plan, sub, checkout, customers, offers, paid, events, processed, applied, patches, untidy>>

-----------------------------------------------------------------------------

BillingInit ==
    /\ plan = "free"
    /\ sub = [customer |-> None, status |-> "inactive"]
    /\ checkout = [r \in Req |-> "idle"]
    /\ customers = {}
    /\ offers = {}
    /\ paid = <<>>
    /\ events = <<>>
    /\ processed = {}
    /\ hook = [h \in Hooks |-> None]
    /\ applied = [e \in EventIds |-> 0]
    /\ patches = 0
    /\ untidy = FALSE

StripeNext ==
    \/ \E o \in offers : Pay(o)
    \/ \E i \in DOMAIN paid : \/ \E p \in Plans, status \in {"active", "past_due"} : Change(i, p, status)
                              \/ MissPayment(i)
                              \/ Cancel(i)

BillingNext ==
    \/ \E r \in Req : \/ CreateCustomer(r)
                      \/ \E p \in Plans : SaveCustomer(r, p) \/ Checkout(r, p)
    \/ \E p \in AllPlans : PatchPlan(p)
    \/ StripeNext
    \/ \E h \in Hooks : \/ \E e \in EventIds : HandleWebhook(h, e)
                        \/ CommitWebhook(h)
                        \/ WebhookFails(h)

BillingTypeOK ==
    /\ plan \in AllPlans
    /\ sub \in [customer: Req \cup {None}, status: Statuses]
    /\ checkout \in [Req -> {"idle", "creating", "done"}]
    /\ customers \subseteq Req
    /\ offers \subseteq [customer: Req, plan: Plans]
    /\ DOMAIN paid \subseteq EventIds /\ \A i \in DOMAIN paid : paid[i] \in [customer: Req, plan: Plans]
    /\ events \in Seq(Event) /\ Len(events) <= MaxEvents
    /\ processed \subseteq EventIds
    /\ hook \in [Hooks -> [event: EventIds, plan: AllPlans, mine: BOOLEAN] \cup {None}]
    /\ applied \in [EventIds -> Nat]
    /\ patches \in Nat
    /\ untidy \in BOOLEAN

-----------------------------------------------------------------------------

\* An event takes effect once, although Stripe delivers it again, the handler
\* fails after part of its work, and two deliveries are handled together.
EventsApplyOnce == \A e \in EventIds : applied[e] <= 1

\* When every event was handled, each after the ones before it, the plan is
\* the one Stripe is paid for: repeated and failed deliveries do not matter.
\* (It takes a single Stripe customer and a single subscription at a time.)
PlanIsPaid ==
    (processed = 1..Len(events) /\ ~untidy /\ patches = 0 /\ Cardinality(customers) = 1) =>
        plan = IF DOMAIN paid = {} THEN "free" ELSE (CHOOSE x \in {paid[i].plan : i \in DOMAIN paid} : TRUE)
=============================================================================
