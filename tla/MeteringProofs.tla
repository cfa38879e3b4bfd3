---------------------------- MODULE MeteringProofs ----------------------------
(***************************************************************************)
(* Proofs about Metering: every row keeps its kind, a bucket never lets     *)
(* through more than its limit in a window, usage exceeds the plan by no    *)
(* more than the requests under way, and an event of Stripe takes effect    *)
(* once.                                                                    *)
(***************************************************************************)
EXTENDS Metering, FiniteSetTheorems, SequenceTheorems, TLAPS

-----------------------------------------------------------------------------
(* Types.  A delivery handles an event Stripe has emitted, and a request at  *)
(* the limiter has a bucket to pass.                                        *)

KnownEvents == \A h \in Hooks : hook[h] # None => hook[h].event \in 1..Len(events)

AtLimiter(c) == call[c] # Idle /\ call[c].at \in {"arrived", "stamped"}

Waiting == \A c \in Slots : AtLimiter(c) => call[c].checks # <<>>

Types == TypeOK /\ KnownEvents /\ Waiting

\* The steps of Billing leave the rest alone.
Bill ==
    /\ BillingNext
    /\ UNCHANGED <<now, window, expires, call, served, used, stored, docs, passed>>
    /\ held' = held \cup {plan'}

Kinds == {"query", "upload"}

\* A step of one request, and of all others.
CallStep(c) ==
    \/ \E kind \in Kinds, v \in Visitors \cup {None} : Arrive(c, kind, v)
    \/ Stamp(c) \/ Pipeline(c) \/ AnswerLost(c)
    \/ CheckLimit(c) \/ CommitLog(c) \/ Leave(c)
    \/ \E n \in 1..Cost \cup {Size} : RecordUsage(c, n)

LEMMA Steps ==
    ASSUME [Next]_vars
    PROVE  \/ Bill
           \/ UNCHANGED billingVars /\ \E c \in Slots : CallStep(c)
           \/ UNCHANGED billingVars /\ (Tick \/ GiveBack \/ NewMonth)
           \/ UNCHANGED vars
BY DEF Next, MeterNext, Bill, CallStep, Kinds

LEMMA EmitType ==
    ASSUME TypeOK, NEW type \in {"checkout", "updated", "deleted", "failed"}, NEW c \in Req,
           NEW p \in AllPlans, NEW status \in Statuses, Emit(type, c, p, status)
    PROVE  /\ events' \in Seq(Event)
           /\ Len(events') <= MaxEvents
           /\ Len(events') = Len(events) + 1
           /\ Len(events) + 1 \in EventIds
<1>1. [type |-> type, customer |-> c, plan |-> p, status |-> status] \in Event
  BY DEF Event
<1>2. events \in Seq(Event) /\ Len(events) < MaxEvents
  BY DEF Emit, TypeOK, BillingTypeOK
<1>. QED
  BY <1>1, <1>2, BillingAssumption DEF Emit, EventIds

LEMMA BillType == Types /\ Bill => BillingTypeOK' /\ KnownEvents'
<1>. SUFFICES ASSUME Types, Bill PROVE BillingTypeOK' /\ KnownEvents'
  OBVIOUS
<1>. USE DEF Types, TypeOK, BillingTypeOK, KnownEvents
<1>0. Plans \subseteq AllPlans /\ "free" \in AllPlans
  BY DEF AllPlans
<1>1. ASSUME NEW r \in Req, CreateCustomer(r) \/ \E p \in Plans : SaveCustomer(r, p) \/ Checkout(r, p)
      PROVE  BillingTypeOK' /\ KnownEvents'
  <2>1. CASE CreateCustomer(r)
    BY <2>1 DEF CreateCustomer
  <2>2. ASSUME NEW p \in Plans, SaveCustomer(r, p) PROVE BillingTypeOK' /\ KnownEvents'
    <3>1. sub' \in [customer : Req \cup {None}, status : Statuses]
      BY <2>2 DEF SaveCustomer
    <3>2. offers' \subseteq [customer : Req, plan : Plans]
      BY <2>2 DEF SaveCustomer
    <3>3. UNCHANGED <<plan, customers, paid, events, processed, hook, applied, patches, untidy>>
      BY <2>2 DEF SaveCustomer
    <3>4. checkout' \in [Req -> {"idle", "creating", "done"}]
      BY <2>2 DEF SaveCustomer
    <3>. QED
      BY <3>1, <3>2, <3>3, <3>4
  <2>3. ASSUME NEW p \in Plans, Checkout(r, p) PROVE BillingTypeOK' /\ KnownEvents'
    <3>1. offers' \subseteq [customer : Req, plan : Plans]
      BY <2>3 DEF Checkout
    <3>. QED
      BY <2>3, <3>1 DEF Checkout
  <2>. QED
    BY <1>1, <2>1, <2>2, <2>3
<1>2. ASSUME NEW p \in AllPlans, PatchPlan(p) PROVE BillingTypeOK' /\ KnownEvents'
  BY <1>2 DEF PatchPlan
<1>3. ASSUME NEW o \in offers, Pay(o) PROVE BillingTypeOK' /\ KnownEvents'
  <2>1. o.customer \in Req /\ o.plan \in Plans
    OBVIOUS
  <2>2. "checkout" \in {"checkout", "updated", "deleted", "failed"} /\ "active" \in Statuses
    BY DEF Statuses
  <2>3. /\ events' \in Seq(Event) /\ Len(events') <= MaxEvents
        /\ Len(events') = Len(events) + 1 /\ Len(events) + 1 \in EventIds
    BY <1>0, <1>3, <2>1, <2>2, EmitType DEF Pay
  <2>4. /\ DOMAIN paid' = DOMAIN paid \cup {Len(events) + 1}
        /\ \A i \in DOMAIN paid' : paid'[i] \in [customer : Req, plan : Plans]
    BY <1>3, <2>1 DEF Pay
  <2>. QED
    BY <1>3, <2>3, <2>4 DEF Pay
<1>4. ASSUME NEW i \in DOMAIN paid, NEW p \in Plans, NEW status \in {"active", "past_due"}, Change(i, p, status)
      PROVE  BillingTypeOK' /\ KnownEvents'
  <2>1. /\ events' \in Seq(Event) /\ Len(events') <= MaxEvents
        /\ Len(events') = Len(events) + 1
    BY <1>0, <1>4, EmitType DEF Change, Statuses
  <2>2. /\ DOMAIN paid' = DOMAIN paid
        /\ \A j \in DOMAIN paid' : paid'[j] \in [customer : Req, plan : Plans]
    BY SMTT(30), <1>4 DEF Change
  <2>. QED
    BY SMTT(30), <1>4, <2>1, <2>2 DEF Change
<1>5. ASSUME NEW i \in DOMAIN paid, MissPayment(i) \/ Cancel(i) PROVE BillingTypeOK' /\ KnownEvents'
  <2>1. /\ events' \in Seq(Event) /\ Len(events') <= MaxEvents
        /\ Len(events') = Len(events) + 1
    BY <1>0, <1>5, EmitType DEF MissPayment, Cancel, Statuses
  <2>2. /\ DOMAIN paid' \subseteq DOMAIN paid
        /\ \A j \in DOMAIN paid' : paid'[j] \in [customer : Req, plan : Plans]
    BY <1>5 DEF MissPayment, Cancel
  <2>. QED
    BY <1>5, <2>1, <2>2 DEF MissPayment, Cancel
<1>6. ASSUME NEW h \in Hooks, NEW e \in EventIds, HandleWebhook(h, e) PROVE BillingTypeOK' /\ KnownEvents'
  <2>1. Concerns(events[e]) \in BOOLEAN
    BY DEF Concerns
  <2>2. [event |-> e, plan |-> plan, mine |-> Concerns(events[e])] \in
           [event : EventIds, plan : AllPlans, mine : BOOLEAN]
    BY <2>1
  <2>. QED
    BY <1>6, <2>2 DEF HandleWebhook
<1>7. ASSUME NEW h \in Hooks, CommitWebhook(h) PROVE BillingTypeOK' /\ KnownEvents'
  <2>1. hook[h].event \in 1..Len(events) /\ hook[h].event \in EventIds
    BY <1>7 DEF CommitWebhook
  <2>2. events[hook[h].event] \in Event
    BY <2>1
  <2>3. sub' \in [customer : Req \cup {None}, status : Statuses] /\ plan' \in AllPlans
    BY <1>7, <2>2 DEF CommitWebhook, Event
  <2>. QED
    BY <1>7, <2>1, <2>3 DEF CommitWebhook
<1>8. ASSUME NEW h \in Hooks, WebhookFails(h) PROVE BillingTypeOK' /\ KnownEvents'
  BY <1>8 DEF WebhookFails
<1>. QED
  BY <1>1, <1>2, <1>3, <1>4, <1>5, <1>6, <1>7, <1>8 DEF Bill, BillingNext, StripeNext

MeterTypeOK ==
    /\ now \in Times
    /\ window \in [Buckets -> SUBSET Member]
    /\ expires \in [Buckets -> Nat]
    /\ call \in [Slots -> Calls \cup {Idle}]
    /\ served \in 0..Work
    /\ used \in Nat
    /\ stored \in Int
    /\ docs \in Nat
    /\ held \subseteq AllPlans /\ plan \in held
    /\ passed \in [Buckets -> SUBSET Member]

LEMMA Numbers ==
    /\ DocRate \in Nat /\ IpRate \in Nat /\ Window \in Nat /\ Cost \in Nat
    /\ Size \in Nat /\ MaxTime \in Nat /\ Work \in Nat
BY MeteringAssumption

\* Within the bound a request and the clock have room.
LEMMA Room ==
    ASSUME TypeOK, Busy < Work
    PROVE  served < Work
<1>. DEFINE open == {r \in Req : checkout[r] # "idle"}
<1>1. IsFiniteSet(open)
  BY MeteringAssumption, FS_Subset
<1>2. Cardinality(open) \in Nat
  BY <1>1, FS_CardinalityType
<1>3. patches \in Nat /\ Len(events) \in Nat /\ served \in Nat /\ now \in Nat
  BY Numbers DEF TypeOK, BillingTypeOK, Times
<1>4. Busy = Cardinality(open) + patches + Len(events) + served + now
  BY DEF Busy
<1>. QED
  BY <1>2, <1>3, <1>4, Numbers

LEMMA ChecksType ==
    ASSUME TypeOK, NEW kind \in Kinds, NEW v \in Visitors \cup {None}
    PROVE  Checks(kind, v) \in Seq(Check) /\ Checks(kind, v) # <<>>
<1>. DEFINE mine == [bucket |-> "query", limit |-> Rate[plan]]
            docsCheck == [bucket |-> "documents", limit |-> DocRate]
            visitors == [bucket |-> v, limit |-> IpRate]
<1>1. mine \in Check /\ docsCheck \in Check /\ (v # None => visitors \in Check)
  BY MeteringAssumption, Numbers DEF TypeOK, BillingTypeOK, Limits, Check, Buckets
<1>2. CASE kind = "upload"
  BY <1>1, <1>2 DEF Checks
<1>3. CASE kind # "upload" /\ v = None
  <2>1. Checks(kind, v) = <<mine>> \o <<>>
    BY <1>3 DEF Checks
  <2>. QED
    BY <1>1, <2>1
<1>4. CASE kind # "upload" /\ v # None
  <2>1. Checks(kind, v) = <<mine>> \o <<visitors>>
    BY <1>4 DEF Checks
  <2>2. <<mine>> \in Seq(Check) /\ <<visitors>> \in Seq(Check)
    BY <1>1, <1>4
  <2>3. Len(<<mine>> \o <<visitors>>) = 2
    BY <2>2
  <2>. QED
    BY <2>1, <2>2, <2>3
<1>. QED
  BY <1>2, <1>3, <1>4

\* The first check of a request at the limiter, and what it counts.
LEMMA CheckType ==
    ASSUME Types, NEW c \in Slots, AtLimiter(c)
    PROVE  /\ call[c] \in Calls
           /\ Head(call[c].checks) \in Check
           /\ Head(call[c].checks).bucket \in Buckets
           /\ Tail(call[c].checks) \in Seq(Check)
           /\ Len(call[c].checks) > 1 => Tail(call[c].checks) # <<>>
           /\ Counted(Head(call[c].checks).bucket, call[c].member) \subseteq Member
<1>1. call[c] \in Calls /\ call[c].checks # <<>>
  BY DEF Types, TypeOK, AtLimiter, Waiting
<1>2. call[c].checks \in Seq(Check) /\ call[c].member \in Member
  BY <1>1 DEF Calls
<1>3. Head(call[c].checks) \in Check /\ Tail(call[c].checks) \in Seq(Check)
  BY <1>1, <1>2
<1>4. Len(call[c].checks) > 1 => Tail(call[c].checks) # <<>>
  <2>1. Len(Tail(call[c].checks)) = Len(call[c].checks) - 1
    BY <1>1, <1>2, HeadTailProperties
  <2>2. Len(call[c].checks) \in Nat
    BY <1>2
  <2>. QED
    BY <2>1, <2>2
<1>5. Head(call[c].checks).bucket \in Buckets
  BY <1>3 DEF Check
<1>. QED
  BY <1>1, <1>2, <1>3, <1>4, <1>5 DEF Types, TypeOK, Counted

LEMMA CallType ==
    ASSUME Types, NEW c \in Slots, CallStep(c), UNCHANGED billingVars
    PROVE  MeterTypeOK' /\ Waiting'
<1>. USE DEF MeterTypeOK
<1>0. MeterTypeOK /\ plan' = plan
  BY DEF Types, TypeOK, billingVars
<1>i. Idle \notin Calls
  BY DEF Idle, Calls
\* What is left to show of a step that moves this request only.
<1>a. ASSUME NEW x \in Calls \cup {Idle}, call' = [call EXCEPT ![c] = x],
             x # Idle /\ x.at \in {"arrived", "stamped"} => x.checks # <<>>
      PROVE  call' \in [Slots -> Calls \cup {Idle}] /\ Waiting'
  BY <1>0, <1>a DEF Types, Waiting, AtLimiter
<1>1. ASSUME NEW kind \in Kinds, NEW v \in Visitors \cup {None}, Arrive(c, kind, v)
      PROVE  MeterTypeOK' /\ Waiting'
  <2>. DEFINE x == [at |-> "arrived", kind |-> kind, plan |-> plan, checks |-> Checks(kind, v),
                    member |-> [at |-> now, id |-> served + 1]]
  <2>1. served \in 0..Work /\ served + 1 \in 1..Work
    BY <1>1, <1>0, Room, Numbers DEF Arrive, Types
  <2>2. x \in Calls /\ x.checks # <<>>
    <3>1. Checks(kind, v) \in Seq(Check) /\ Checks(kind, v) # <<>>
      BY ChecksType DEF Types
    <3>2. [at |-> now, id |-> served + 1] \in Member
      BY <1>0, <2>1 DEF Member
    <3>3. plan \in AllPlans
      BY DEF Types, TypeOK, BillingTypeOK
    <3>. QED
      BY <3>1, <3>2, <3>3 DEF Calls, Kinds
  <2>3. call' = [call EXCEPT ![c] = x]
    BY <1>1 DEF Arrive
  <2>4. call' \in [Slots -> Calls \cup {Idle}] /\ Waiting'
    BY <1>a, <2>2, <2>3
  <2>. QED
    BY <1>0, <1>1, <2>1, <2>4 DEF Arrive
<1>2. CASE Stamp(c)
  <2>. DEFINE x == [call[c] EXCEPT !.at = "stamped", !.member.at = now]
  <2>1. AtLimiter(c)
    BY <1>2 DEF Stamp, AtLimiter
  <2>2. call[c] \in Calls /\ call[c].checks # <<>>
    BY <2>1, CheckType DEF Types, Waiting
  <2>3. x \in Calls /\ x.checks # <<>>
    BY <1>0, <2>2 DEF Calls, Member
  <2>4. call' = [call EXCEPT ![c] = x]
    BY <1>2 DEF Stamp
  <2>5. call' \in [Slots -> Calls \cup {Idle}] /\ Waiting'
    BY <1>a, <2>3, <2>4
  <2>. QED
    BY <1>0, <1>2, <2>5 DEF Stamp
<1>3. CASE Pipeline(c) \/ AnswerLost(c)
  <2>. DEFINE b == Head(call[c].checks).bucket
              m == call[c].member
  <2>1. AtLimiter(c)
    BY <1>3 DEF Pipeline, AnswerLost, AtLimiter
  <2>2. /\ call[c] \in Calls /\ b \in Buckets /\ Tail(call[c].checks) \in Seq(Check)
        /\ Len(call[c].checks) > 1 => Tail(call[c].checks) # <<>>
        /\ Counted(b, m) \subseteq Member /\ m \in Member
    BY SMTT(30), <2>1, CheckType DEF Calls
  <2>3. /\ window' = [window EXCEPT ![b] = Counted(b, m)]
        /\ expires' = [expires EXCEPT ![b] = now + Window]
        /\ passed' \in {passed, [passed EXCEPT ![b] = @ \cup {m}]}
        /\ UNCHANGED <<now, served, used, stored, docs, held>>
    BY <1>3 DEF Pipeline, AnswerLost
  <2>4. /\ window' \in [Buckets -> SUBSET Member]
        /\ expires' \in [Buckets -> Nat]
        /\ passed' \in [Buckets -> SUBSET Member]
    BY <1>0, <2>2, <2>3, Numbers DEF Times
  <2>. DEFINE y == [call[c] EXCEPT !.checks = Tail(@),
                                   !.at = IF Len(call[c].checks) > 1 THEN "arrived" ELSE "admitted"]
  <2>5. y \in Calls /\ (y.at \in {"arrived", "stamped"} => y.checks # <<>>)
    BY <2>2 DEF Calls
  <2>6. call' = [call EXCEPT ![c] = Idle] \/ call' = [call EXCEPT ![c] = y]
    <3>1. CASE AnswerLost(c)
      BY <3>1 DEF AnswerLost
    <3>2. CASE Pipeline(c)
      <4>1. CASE Cardinality(Counted(b, m)) <= Head(call[c].checks).limit
        <5>1. call' = [call EXCEPT ![c] = y]
          BY <3>2, <4>1 DEF Pipeline
        <5>. QED
          BY <5>1
      <4>2. CASE ~(Cardinality(Counted(b, m)) <= Head(call[c].checks).limit)
        <5>1. call' = [call EXCEPT ![c] = Idle]
          BY <3>2, <4>2 DEF Pipeline
        <5>. QED
          BY <5>1
      <4>. QED
        BY <4>1, <4>2
    <3>. QED
      BY <1>3, <3>1, <3>2
  <2>7. call' \in [Slots -> Calls \cup {Idle}] /\ Waiting'
    BY <1>a, <2>5, <2>6
  <2>. QED
    BY <1>0, <2>3, <2>4, <2>7
<1>4. CASE CheckLimit(c) \/ CommitLog(c)
  <2>. DEFINE x == [call[c] EXCEPT !.at = "working"]
              y == [call[c] EXCEPT !.at = "logged"]
  <2>1. call[c] \in Calls
    BY <1>0, <1>4 DEF CheckLimit, CommitLog
  <2>2. x \in Calls /\ x.at = "working" /\ y \in Calls /\ y.at = "logged"
    BY <2>1 DEF Calls
  <2>3. \/ call' = [call EXCEPT ![c] = Idle]
        \/ call' = [call EXCEPT ![c] = x]
        \/ call' = [call EXCEPT ![c] = y]
    BY <1>4 DEF CheckLimit, CommitLog
  <2>4. call' \in [Slots -> Calls \cup {Idle}] /\ Waiting'
    BY <1>a, <2>2, <2>3
  <2>. QED
    BY <1>0, <1>4, <2>4 DEF CheckLimit, CommitLog
<1>5. ASSUME NEW n \in 1..Cost \cup {Size}, RecordUsage(c, n) PROVE MeterTypeOK' /\ Waiting'
  <2>1. call' \in [Slots -> Calls \cup {Idle}] /\ Waiting'
    BY <1>a, <1>5 DEF RecordUsage
  <2>2. n \in Nat
    BY Numbers
  <2>. QED
    BY <1>0, <1>5, <2>1, <2>2 DEF RecordUsage
<1>6. CASE Leave(c)
  <2>1. call' \in [Slots -> Calls \cup {Idle}] /\ Waiting'
    BY <1>a, <1>6 DEF Leave
  <2>. QED
    BY <1>0, <1>6, <2>1 DEF Leave
<1>. QED
  BY <1>1, <1>2, <1>3, <1>4, <1>5, <1>6 DEF CallStep

LEMMA NextTypes == Types /\ [Next]_vars => Types'
<1>. SUFFICES ASSUME Types, [Next]_vars PROVE Types'
  OBVIOUS
<1>0. MeterTypeOK /\ BillingTypeOK
  BY DEF Types, TypeOK, MeterTypeOK
<1>1. CASE Bill
  <2>1. BillingTypeOK' /\ KnownEvents'
    BY <1>1, BillType
  <2>2. plan' \in AllPlans
    BY <2>1 DEF BillingTypeOK
  <2>3. Waiting'
    BY <1>1 DEF Bill, Types, Waiting, AtLimiter
  <2>. QED
    BY <1>0, <1>1, <2>1, <2>2, <2>3 DEF Bill, Types, TypeOK, MeterTypeOK
<1>2. ASSUME UNCHANGED billingVars PROVE BillingTypeOK' /\ KnownEvents'
  BY <1>0, <1>2 DEF billingVars, BillingTypeOK, Types, KnownEvents
<1>3. ASSUME UNCHANGED billingVars, NEW c \in Slots, CallStep(c) PROVE Types'
  BY <1>2, <1>3, CallType DEF Types, TypeOK, MeterTypeOK
<1>4. ASSUME UNCHANGED billingVars, Tick \/ GiveBack \/ NewMonth PROVE Types'
  <2>1. Waiting' /\ plan' = plan
    BY <1>4 DEF Tick, GiveBack, NewMonth, Types, Waiting, AtLimiter, billingVars
  <2>2. now' \in Times /\ window' \in [Buckets -> SUBSET Member]
    BY <1>0, <1>4, Numbers DEF Tick, GiveBack, NewMonth, MeterTypeOK, Times
  <2>3. used' \in Nat /\ stored' \in Int /\ docs' \in Nat
    BY <1>0, <1>4, Numbers DEF Tick, GiveBack, NewMonth, MeterTypeOK
  <2>4. UNCHANGED <<expires, call, served, held, passed>>
    BY <1>4 DEF Tick, GiveBack, NewMonth
  <2>. QED
    BY <1>0, <1>2, <1>4, <2>1, <2>2, <2>3, <2>4 DEF Types, TypeOK, MeterTypeOK
<1>5. CASE UNCHANGED vars
  <2>1. Waiting'
    BY <1>5 DEF vars, meterVars, Types, Waiting, AtLimiter
  <2>2. plan' = plan /\ UNCHANGED meterVars
    BY <1>5 DEF vars, billingVars
  <2>. QED
    BY <1>0, <1>2, <1>5, <2>1, <2>2 DEF vars, meterVars, MeterTypeOK, Types, TypeOK
<1>. QED
  BY <1>1, <1>3, <1>4, <1>5, Steps

LEMMA InitTypes == Init => Types
<1>. SUFFICES ASSUME Init PROVE Types
  OBVIOUS
<1>1. BillingTypeOK
  <2>1. plan \in AllPlans /\ sub \in [customer : Req \cup {None}, status : Statuses]
    BY DEF Init, BillingInit, AllPlans, Statuses
  <2>2. DOMAIN paid = {} /\ events \in Seq(Event) /\ Len(events) = 0
    BY DEF Init, BillingInit
  <2>3. /\ checkout \in [Req -> {"idle", "creating", "done"}]
        /\ hook \in [Hooks -> [event : EventIds, plan : AllPlans, mine : BOOLEAN] \cup {None}]
        /\ applied \in [EventIds -> Nat]
    BY DEF Init, BillingInit
  <2>4. /\ customers = {} /\ offers = {} /\ processed = {} /\ patches = 0 /\ untidy = FALSE
    BY DEF Init, BillingInit
  <2>5. Len(events) <= MaxEvents
    BY <2>2, BillingAssumption
  <2>. QED
    BY <2>1, <2>2, <2>3, <2>4, <2>5 DEF BillingTypeOK
<1>2. KnownEvents /\ Waiting
  BY DEF Init, BillingInit, KnownEvents, Waiting, AtLimiter
<1>3. MeterTypeOK
  BY Numbers DEF Init, BillingInit, MeterTypeOK, Times, AllPlans
<1>. QED
  BY <1>1, <1>2, <1>3 DEF Types, TypeOK, MeterTypeOK

\* Every row, window and request keeps its kind, through late and repeated
\* events, lost answers and the end of the month.
THEOREM MeteringTypes == Spec => []TypeOK
<1>1. Types => TypeOK
  BY DEF Types
<1>. QED
  BY <1>1, InitTypes, NextTypes, PTL DEF Spec

-----------------------------------------------------------------------------
(* Events apply once: what was applied is what is recorded.                 *)

AppliedIsProcessed == \A e \in EventIds : applied[e] = IF e \in processed THEN 1 ELSE 0

LEMMA NextApplied == Types /\ AppliedIsProcessed /\ [Next]_vars => AppliedIsProcessed'
<1>. SUFFICES ASSUME Types, AppliedIsProcessed, [Next]_vars PROVE AppliedIsProcessed'
  OBVIOUS
<1>1. ASSUME NEW h \in Hooks, CommitWebhook(h) PROVE AppliedIsProcessed'
  <2>1. hook[h].event \in EventIds
    BY <1>1 DEF CommitWebhook, Types, TypeOK, BillingTypeOK
  <2>. QED
    BY <1>1, <2>1 DEF CommitWebhook, AppliedIsProcessed, Types, TypeOK, BillingTypeOK
<1>2. CASE UNCHANGED <<applied, processed>>
  BY <1>2 DEF AppliedIsProcessed
<1>3. Bill => UNCHANGED <<applied, processed>> \/ \E h \in Hooks : CommitWebhook(h)
  BY DEF Bill, BillingNext, StripeNext, CreateCustomer, SaveCustomer, Checkout, PatchPlan, Pay, Change, MissPayment,
         Cancel, HandleWebhook, WebhookFails
<1>. QED
  BY <1>1, <1>2, <1>3, Steps DEF billingVars, vars

\* An event of Stripe takes effect at most once, though it is delivered again and
\* its handler may fail or run beside another delivery of the same event.
THEOREM EventsOnce == Spec => []EventsApplyOnce
<1>1. Init => AppliedIsProcessed
  BY DEF Init, BillingInit, AppliedIsProcessed
<1>2. AppliedIsProcessed => EventsApplyOnce
  BY DEF AppliedIsProcessed, EventsApplyOnce
<1>. QED
  BY <1>1, <1>2, InitTypes, NextTypes, NextApplied, PTL DEF Spec

-----------------------------------------------------------------------------
(* Usage.  A request that passed its check may still add its cost; at most   *)
(* the other slots did the same since the last check that passed.           *)

Under(kind) == {c \in Slots : call[c] # Idle /\ call[c].kind = kind /\ call[c].at \in {"working", "logged"}}

TokensCovered(p) ==
    used + Cost * Cardinality(Under("query")) < Tokens[p] + Cost * Cardinality(Slots)
StorageCovered(p) ==
    stored + Size * Cardinality(Under("upload")) + Size <= Storage[p] + Size * Cardinality(Slots)

Usage ==
    /\ \A c \in Slots : call[c] # Idle => call[c].plan \in held
    /\ \E p \in held : TokensCovered(p)
    /\ \E p \in held : StorageCovered(p)

LEMMA Products ==
    ASSUME NEW a \in Nat, NEW k \in Nat
    PROVE  /\ a * k \in Nat
           /\ a * (k + 1) = a * k + a
           /\ \A n \in Nat : k <= n => a * k <= a * n
<1>1. \A n \in Nat : k <= n => a * k <= a * n
  <2>. SUFFICES ASSUME NEW n \in Nat, k <= n PROVE a * k <= a * n
    OBVIOUS
  <2>1. PICK d \in Nat : n = k + d
    BY SMT
  <2>2. a * (k + d) = a * k + a * d
    BY SMT
  <2>3. a * d \in Nat /\ a * k \in Nat
    BY SMT
  <2>. QED
    BY <2>1, <2>2, <2>3
<1>. QED
  BY <1>1, SMT

LEMMA SlotsCounted ==
    /\ Cardinality(Slots) \in Nat /\ Cardinality(Slots) > 0
    /\ \A S \in SUBSET Slots : IsFiniteSet(S) /\ Cardinality(S) \in Nat /\ Cardinality(S) <= Cardinality(Slots)
<1>1. ASSUME NEW S \in SUBSET Slots
      PROVE  IsFiniteSet(S) /\ Cardinality(S) \in Nat /\ Cardinality(S) <= Cardinality(Slots)
  BY MeteringAssumption, FS_Subset, FS_CardinalityType
<1>2. Cardinality(Slots) \in Nat /\ Cardinality(Slots) # 0
  BY MeteringAssumption, FS_CardinalityType, FS_EmptySet
<1>. QED
  BY <1>1, <1>2

LEMMA OneLess ==
    ASSUME NEW S \in SUBSET Slots, NEW c \in S, NEW T, T = S \ {c}
    PROVE  Cardinality(S) = Cardinality(T) + 1
<1>1. IsFiniteSet(S) /\ Cardinality(S) \in Nat
  BY SlotsCounted
<1>2. Cardinality(S \ {c}) = Cardinality(S) - 1
  BY <1>1, FS_RemoveElement
<1>. QED
  BY <1>1, <1>2

\* A step that starts no work and records no more than the work it ends may cost.
LEMMA UsageKept ==
    ASSUME Types, Usage,
           held \subseteq held', used' \in Nat, stored' \in Int,
           \A c \in Slots : call'[c] # Idle => call'[c].plan \in held',
           \/ used' <= used /\ Under("query")' \subseteq Under("query")
           \/ \E c \in Under("query"), k \in 0..Cost : used' = used + k /\ Under("query")' = Under("query") \ {c},
           \/ stored' <= stored /\ Under("upload")' \subseteq Under("upload")
           \/ \E c \in Under("upload") : stored' = stored + Size /\ Under("upload")' = Under("upload") \ {c}
    PROVE  Usage'
<1>. DEFINE Q == Under("query")
            U == Under("upload")
            N == Cardinality(Slots)
<1>1. /\ Q \in SUBSET Slots /\ U \in SUBSET Slots
      /\ Q' \in SUBSET Slots /\ U' \in SUBSET Slots
  BY DEF Under
<1>2. /\ IsFiniteSet(Q) /\ Cardinality(Q) \in Nat
      /\ IsFiniteSet(U) /\ Cardinality(U) \in Nat /\ N \in Nat
      /\ Cardinality(Q)' \in Nat /\ Cardinality(U)' \in Nat
  BY <1>1, SlotsCounted
<1>3. used \in Nat /\ stored \in Int
  BY DEF Types, TypeOK
<1>4. \A p \in held : Tokens[p] \in Nat /\ Storage[p] \in Nat
  BY MeteringAssumption DEF Types, TypeOK, Limits
<1>5. ASSUME NEW p \in held, TokensCovered(p) PROVE TokensCovered(p)'
  <2>1. used' + Cost * Cardinality(Q)' <= used + Cost * Cardinality(Q)
    <3>1. CASE used' <= used /\ Q' \subseteq Q
      <4>1. Cardinality(Q)' <= Cardinality(Q)
        BY <1>2, <3>1, FS_Subset
      <4>2. Cost * Cardinality(Q)' <= Cost * Cardinality(Q) /\ Cost * Cardinality(Q)' \in Nat
            /\ Cost * Cardinality(Q) \in Nat
        BY <1>2, <4>1, Products, Numbers
      <4>. QED
        BY <1>3, <3>1, <4>2
    <3>2. ASSUME NEW c \in Q, NEW k \in 0..Cost, used' = used + k, Q' = Q \ {c}
          PROVE  used' + Cost * Cardinality(Q)' <= used + Cost * Cardinality(Q)
      <4>1. Cardinality(Q) = Cardinality(Q)' + 1
        BY <1>1, <3>2, OneLess
      <4>2. Cost * (Cardinality(Q)' + 1) = Cost * Cardinality(Q)' + Cost /\ Cost * Cardinality(Q)' \in Nat
        BY <1>2, Products, Numbers
      <4>. QED
        BY <1>3, <3>2, <4>1, <4>2, Numbers
    <3>. QED
      BY <3>1, <3>2
  <2>2. Cost * Cardinality(Q) \in Nat /\ Cost * Cardinality(Q)' \in Nat /\ Cost * N \in Nat
    BY <1>2, Products, Numbers
  <2>. QED
    BY <1>3, <1>4, <1>5, <2>1, <2>2 DEF TokensCovered
<1>6. ASSUME NEW p \in held, StorageCovered(p) PROVE StorageCovered(p)'
  <2>1. stored' + Size * Cardinality(U)' <= stored + Size * Cardinality(U)
    <3>1. CASE stored' <= stored /\ U' \subseteq U
      <4>1. Cardinality(U)' <= Cardinality(U)
        BY <1>2, <3>1, FS_Subset
      <4>2. Size * Cardinality(U)' <= Size * Cardinality(U) /\ Size * Cardinality(U)' \in Nat
            /\ Size * Cardinality(U) \in Nat
        BY <1>2, <4>1, Products, Numbers
      <4>. QED
        BY <1>3, <3>1, <4>2
    <3>2. ASSUME NEW c \in U, stored' = stored + Size, U' = U \ {c}
          PROVE  stored' + Size * Cardinality(U)' <= stored + Size * Cardinality(U)
      <4>1. Cardinality(U) = Cardinality(U)' + 1
        BY <1>1, <3>2, OneLess
      <4>2. Size * (Cardinality(U)' + 1) = Size * Cardinality(U)' + Size /\ Size * Cardinality(U)' \in Nat
        BY <1>2, Products, Numbers
      <4>. QED
        BY <1>3, <3>2, <4>1, <4>2, Numbers
    <3>. QED
      BY <3>1, <3>2
  <2>2. Size * Cardinality(U) \in Nat /\ Size * Cardinality(U)' \in Nat /\ Size * N \in Nat
    BY <1>2, Products, Numbers
  <2>. QED
    BY <1>3, <1>4, <1>6, <2>1, <2>2, Numbers DEF StorageCovered
<1>. QED
  BY <1>5, <1>6 DEF Usage

LEMMA NextUsage == Types /\ Usage /\ [Next]_vars => Usage'
<1>. SUFFICES ASSUME Types, Usage, [Next]_vars PROVE Usage'
  OBVIOUS
<1>1. /\ used \in Nat /\ used' \in Nat /\ stored \in Int /\ stored' \in Int
      /\ call \in [Slots -> Calls \cup {Idle}]
  BY NextTypes DEF Types, TypeOK
\* Steps that start no work and record nothing more.
<1>2. ASSUME held \subseteq held', used' <= used, stored' <= stored,
             \A c \in Slots : call'[c] # Idle => call'[c].plan \in held',
             \A c \in Slots : call'[c] # Idle /\ call'[c].at \in {"working", "logged"} =>
                call[c] # Idle /\ call[c].at \in {"working", "logged"} /\ call[c].kind = call'[c].kind
      PROVE  Usage'
  <2>1. Under("query")' \subseteq Under("query") /\ Under("upload")' \subseteq Under("upload")
    BY <1>2 DEF Under
  <2>. QED
    BY <1>1, <1>2, <2>1, UsageKept
<1>3. CASE Bill
  <2>1. call' = call /\ held \subseteq held' /\ used' = used /\ stored' = stored
    BY <1>3 DEF Bill
  <2>2. \A c \in Slots : call[c] # Idle => call[c].plan \in held
    BY DEF Usage
  <2>. QED
    BY <1>1, <1>2, <2>1, <2>2
<1>4. ASSUME NEW c \in Slots, CallStep(c), UNCHANGED billingVars PROVE Usage'
  <2>1. ASSUME NEW x, call' = [call EXCEPT ![c] = x], held' = held, used' = used, stored' = stored,
               x # Idle => /\ x.plan \in held
                           /\ x.at \in {"working", "logged"} =>
                                call[c] # Idle /\ call[c].at \in {"working", "logged"} /\ call[c].kind = x.kind
        PROVE  Usage'
    <3>1. call'[c] = x /\ \A d \in Slots \ {c} : call'[d] = call[d]
      BY <1>1, <2>1
    <3>2. \A d \in Slots : call'[d] # Idle => call'[d].plan \in held'
      BY <2>1, <3>1 DEF Usage
    <3>3. \A d \in Slots : call'[d] # Idle /\ call'[d].at \in {"working", "logged"} =>
             call[d] # Idle /\ call[d].at \in {"working", "logged"} /\ call[d].kind = call'[d].kind
      BY <2>1, <3>1
    <3>. QED
      BY <1>1, <1>2, <2>1, <3>2, <3>3
  <2>2. call[c] # Idle => call[c] \in Calls /\ call[c].plan \in held
    BY <1>1 DEF Usage
  <2>3. ASSUME NEW kind \in Kinds, NEW v \in Visitors \cup {None}, Arrive(c, kind, v) PROVE Usage'
    <3>1. plan \in held
      BY DEF Types, TypeOK
    <3>. QED
      BY <2>1, <2>3, <3>1 DEF Arrive
  <2>4. CASE Stamp(c)
    <3>. DEFINE x == [call[c] EXCEPT !.at = "stamped", !.member.at = now]
    <3>1. x.plan = call[c].plan /\ x.at = "stamped"
      BY <2>2, <2>4 DEF Stamp, Calls
    <3>2. call' = [call EXCEPT ![c] = x] /\ call[c] # Idle
      BY <2>4 DEF Stamp
    <3>. QED
      BY <2>1, <2>2, <2>4, <3>1, <3>2 DEF Stamp
  <2>5. CASE Pipeline(c)
    <3>. DEFINE at == IF Len(call[c].checks) > 1 THEN "arrived" ELSE "admitted"
                x == [call[c] EXCEPT !.checks = Tail(@), !.at = at]
    <3>1. x.plan = call[c].plan /\ x.at \in {"arrived", "admitted"}
      BY <2>2, <2>5 DEF Pipeline, Calls
    <3>2. call' = [call EXCEPT ![c] = Idle] \/ call' = [call EXCEPT ![c] = x]
      <4>1. CASE Cardinality(Counted(Head(call[c].checks).bucket, call[c].member)) <= Head(call[c].checks).limit
        <5>1. call' = [call EXCEPT ![c] = x]
          BY <2>5, <4>1 DEF Pipeline
        <5>. QED
          BY <5>1
      <4>2. CASE ~(Cardinality(Counted(Head(call[c].checks).bucket, call[c].member)) <= Head(call[c].checks).limit)
        <5>1. call' = [call EXCEPT ![c] = Idle]
          BY <2>5, <4>2 DEF Pipeline
        <5>. QED
          BY <5>1
      <4>. QED
        BY <4>1, <4>2
    <3>3. held' = held /\ used' = used /\ stored' = stored /\ call[c] # Idle
      BY <2>5 DEF Pipeline
    <3>. QED
      BY <2>1, <2>2, <3>1, <3>2, <3>3
  <2>6. CASE AnswerLost(c) \/ Leave(c)
    BY <2>1, <2>6 DEF AnswerLost, Leave
  <2>7. CASE CommitLog(c)
    <3>. DEFINE x == [call[c] EXCEPT !.at = "logged"]
    <3>1. x.plan = call[c].plan /\ x.kind = call[c].kind /\ call[c].at = "working" /\ call[c] # Idle
      BY <2>2, <2>7 DEF CommitLog, Calls
    <3>2. call' = [call EXCEPT ![c] = x]
      BY <2>7 DEF CommitLog
    <3>. QED
      BY <2>1, <2>2, <2>7, <3>1, <3>2 DEF CommitLog
  \* The check passed: nothing of what the plan allows is recorded yet for the slots.
  <2>8. CASE CheckLimit(c)
    <3>1. CASE ~Allowed(c)
      <4>1. call' = [call EXCEPT ![c] = Idle]
        BY <2>8, <3>1 DEF CheckLimit
      <4>. QED
        BY <2>1, <2>8, <4>1 DEF CheckLimit
    <3>2. CASE Allowed(c)
      <4>. DEFINE x == [call[c] EXCEPT !.at = "working"]
                  N == Cardinality(Slots)
      <4>0. PICK p \in held : p = call[c].plan
        BY <2>2, <2>8 DEF CheckLimit
      <4>1. call[c] \in Calls /\ p \in held /\ p \in AllPlans
        BY <2>2, <2>8, <4>0 DEF CheckLimit, Calls
      <4>2. x.plan = p /\ x.kind = call[c].kind /\ x.at = "working"
        BY <4>0, <4>1 DEF Calls
      <4>3. call' = [call EXCEPT ![c] = x] /\ held' = held /\ used' = used /\ stored' = stored
        BY <2>8, <3>2 DEF CheckLimit
      <4>4. \A d \in Slots : call'[d] # Idle => call'[d].plan \in held'
        BY <1>1, <4>1, <4>2, <4>3 DEF Usage
      <4>5. /\ \E q \in held : TokensCovered(q)'
            /\ \E q \in held : StorageCovered(q)'
        <5>1. Tokens[p] \in Nat /\ Storage[p] \in Nat
          BY <4>1, MeteringAssumption DEF Limits
        <5>2. \A kind \in Kinds : Cardinality(Under(kind)') \in Nat /\ Cardinality(Under(kind)') <= N /\ N \in Nat
          BY SlotsCounted DEF Under
        <5>3. CASE call[c].kind = "query"
          <6>1. Under("upload")' = Under("upload")
            BY <1>1, <4>2, <4>3, <5>3 DEF Under
          <6>2. ASSUME NEW q \in held, StorageCovered(q) PROVE StorageCovered(q)'
            BY <4>3, <6>1, <6>2 DEF StorageCovered
          <6>3. Cost * Cardinality(Under("query")') <= Cost * N /\ Cost * N \in Nat
                /\ Cost * Cardinality(Under("query")') \in Nat
            BY <5>2, Products, Numbers DEF Kinds
          <6>4. used < Tokens[p]
            BY <3>2, <4>0, <5>3 DEF Allowed
          <6>5. TokensCovered(p)'
            BY <1>1, <4>3, <5>1, <6>3, <6>4 DEF TokensCovered
          <6>6. \E q \in held : StorageCovered(q)'
            BY <6>2 DEF Usage
          <6>. QED
            BY <4>1, <6>5, <6>6
        <5>4. CASE call[c].kind # "query"
          <6>1. Under("query")' = Under("query")
            BY <1>1, <4>2, <4>3, <5>4 DEF Under
          <6>2. ASSUME NEW q \in held, TokensCovered(q) PROVE TokensCovered(q)'
            BY <4>3, <6>1, <6>2 DEF TokensCovered
          <6>3. Size * Cardinality(Under("upload")') <= Size * N /\ Size * N \in Nat
                /\ Size * Cardinality(Under("upload")') \in Nat
            BY <5>2, Products, Numbers DEF Kinds
          <6>4. stored + Size <= Storage[p]
            BY <3>2, <4>0, <5>4 DEF Allowed
          <6>5. StorageCovered(p)'
            BY <1>1, <4>3, <5>1, <6>3, <6>4, Numbers DEF StorageCovered
          <6>6. \E q \in held : TokensCovered(q)'
            BY <6>2 DEF Usage
          <6>. QED
            BY <4>1, <6>5, <6>6
        <5>. QED
          BY <5>3, <5>4
      <4>. QED
        BY <4>3, <4>4, <4>5 DEF Usage
    <3>. QED
      BY <3>1, <3>2
  <2>9. ASSUME NEW n \in 1..Cost \cup {Size}, RecordUsage(c, n) PROVE Usage'
    <3>1. call' = [call EXCEPT ![c] = Idle] /\ held' = held /\ call[c] # Idle /\ call[c].at = "logged"
      BY <2>9 DEF RecordUsage
    <3>2. \A d \in Slots : call'[d] # Idle => call'[d].plan \in held'
      BY <1>1, <3>1 DEF Usage
    <3>3. \A kind \in Kinds : Under(kind)' = Under(kind) \ {c}
      BY <1>1, <3>1 DEF Under
    <3>4. Under("query")' = Under("query") \ {c} /\ Under("upload")' = Under("upload") \ {c}
      BY <3>3 DEF Kinds
    <3>5. CASE call[c].kind = "query"
      <4>1. c \in Under("query") /\ n \in 0..Cost /\ used' = used + n /\ stored' = stored
        BY <2>9, <3>1, <3>5, Numbers DEF Under, RecordUsage
      <4>2. Under("upload")' \subseteq Under("upload")
        BY <3>4
      <4>. QED
        BY <1>1, <3>1, <3>2, <3>4, <4>1, <4>2, UsageKept
    <3>6. CASE call[c].kind # "query"
      <4>1. c \in Under("upload") /\ used' = used /\ stored' = stored + Size
        <5>1. call[c].kind = "upload"
          BY <2>2, <3>1, <3>6 DEF Calls
        <5>. QED
          BY <2>9, <3>1, <5>1 DEF Under, RecordUsage
      <4>2. Under("query")' \subseteq Under("query")
        BY <3>4
      <4>. QED
        BY <1>1, <3>1, <3>2, <3>4, <4>1, <4>2, UsageKept
    <3>. QED
      BY <3>5, <3>6
  <2>. QED
    BY <1>4, <2>3, <2>4, <2>5, <2>6, <2>7, <2>8, <2>9 DEF CallStep
<1>5. CASE Tick \/ GiveBack \/ NewMonth
  <2>1. call' = call /\ held' = held /\ used' <= used /\ stored' <= stored
    BY <1>1, <1>5, Numbers DEF Tick, GiveBack, NewMonth
  <2>2. \A c \in Slots : call[c] # Idle => call[c].plan \in held
    BY DEF Usage
  <2>. QED
    BY <1>2, <2>1, <2>2
<1>6. CASE UNCHANGED vars
  <2>1. call' = call /\ held' = held /\ used' = used /\ stored' = stored
    BY <1>6 DEF vars, meterVars
  <2>2. \A c \in Slots : call[c] # Idle => call[c].plan \in held
    BY DEF Usage
  <2>. QED
    BY <1>1, <1>2, <2>1, <2>2
<1>. QED
  BY <1>3, <1>4, <1>5, <1>6, Steps

LEMMA InitUsage == Init => Usage
<1>. SUFFICES ASSUME Init PROVE Usage
  OBVIOUS
<1>. DEFINE N == Cardinality(Slots)
<1>1. used = 0 /\ stored = 0 /\ held = {"free"} /\ "free" \in AllPlans /\ \A c \in Slots : call[c] = Idle
  BY DEF Init, AllPlans
<1>2. \A kind \in Kinds : Under(kind) = {}
  BY <1>1 DEF Under
<1>3. Cardinality(Under("query")) = 0 /\ Cardinality(Under("upload")) = 0
  BY <1>2, FS_EmptySet DEF Kinds
<1>4. N \in Nat /\ 1 <= N
  BY SlotsCounted
<1>5. Cost * N \in Nat /\ Cost * 0 = 0 /\ Size * 0 = 0
  BY <1>4, Products, Numbers
<1>6. Size * N \in Nat /\ Size * 1 <= Size * N /\ Size * 1 = Size
  BY <1>4, Products, Numbers
<1>7. Tokens["free"] \in Nat /\ Tokens["free"] > 0 /\ Storage["free"] \in Nat
  BY <1>1, MeteringAssumption DEF Limits
<1>8. TokensCovered("free")
  BY <1>1, <1>3, <1>5, <1>7 DEF TokensCovered
<1>9. StorageCovered("free")
  BY <1>1, <1>3, <1>5, <1>6, <1>7, Numbers DEF StorageCovered
<1>. QED
  BY <1>1, <1>8, <1>9 DEF Usage

LEMMA UsageBounds == Types /\ Usage => UsageBounded
<1>. SUFFICES ASSUME Types, Usage PROVE UsageBounded
  OBVIOUS
<1>. DEFINE N == Cardinality(Slots)
<1>1. used \in Nat /\ stored \in Int /\ N \in Nat
  BY SlotsCounted DEF Types, TypeOK
<1>2. \A p \in held : Tokens[p] \in Nat /\ Storage[p] \in Nat
  BY MeteringAssumption DEF Types, TypeOK, Limits
<1>3. \A kind \in Kinds : Cardinality(Under(kind)) \in Nat
  BY SlotsCounted DEF Under
<1>4. /\ Cost * Cardinality(Under("query")) \in Nat /\ Cost * N \in Nat
      /\ Size * Cardinality(Under("upload")) \in Nat /\ Size * N \in Nat
  BY <1>1, <1>3, Products, Numbers DEF Kinds
<1>5. PICK p \in held : TokensCovered(p)
  BY DEF Usage
<1>6. PICK q \in held : StorageCovered(q)
  BY DEF Usage
<1>7. used < Tokens[p] + Cost * N
  BY <1>1, <1>2, <1>4, <1>5 DEF TokensCovered
<1>8. stored + Size <= Storage[q] + Size * N
  BY <1>1, <1>2, <1>4, <1>6, Numbers DEF StorageCovered
<1>. QED
  BY <1>7, <1>8 DEF UsageBounded

\* Tokens and bytes exceed a plan the workspace had by no more than the requests
\* served at a time add, for any number of them and any plans.
THEOREM UsageWithinPlans == Spec => []UsageBounded
BY InitTypes, NextTypes, InitUsage, NextUsage, UsageBounds, PTL DEF Spec

-----------------------------------------------------------------------------
(* The limiter.  What a bucket let through lately is still in its sorted     *)
(* set, which holds no less than what a window around now can hold; so the   *)
(* count of the set bounds every window.                                    *)

Passing(b, t) == {m \in passed[b] : m.at <= t /\ t < m.at + Window}

\* The limits a request was given belong to plans the workspace had.
Rated(checks) == \A i \in 1..Len(checks) : WithinRate(held, checks[i].bucket, checks[i].limit)

Requests ==
    \A c \in Slots : call[c] # Idle => /\ call[c].member.at <= now
                                       /\ AtLimiter(c) => Rated(call[c].checks)

Kept ==
    \A b \in Buckets :
        /\ IsFiniteSet(window[b])
        /\ \A x \in passed[b] : /\ x.at <= now
                                /\ x.at + Window <= expires[b]
                                /\ x.at + Window > now => x \in window[b]

Limited == Requests /\ Kept /\ WindowBound

\* More plans, and a smaller number, stay within the rate.
LEMMA MorePlans ==
    ASSUME NEW ps, NEW qs, ps \subseteq qs, NEW b \in Buckets, NEW n, WithinRate(ps, b, n)
    PROVE  WithinRate(qs, b, n)
<1>1. CASE b = "query"
  BY <1>1 DEF WithinRate
<1>2. CASE b = "documents"
  BY <1>2 DEF WithinRate
<1>3. CASE b # "query" /\ b # "documents"
  BY <1>3 DEF WithinRate
<1>. QED
  BY <1>1, <1>2, <1>3

LEMMA FewerRequests ==
    ASSUME NEW ps \in SUBSET AllPlans, NEW b \in Buckets, NEW n \in Nat, NEW k \in Nat, k <= n, WithinRate(ps, b, n)
    PROVE  WithinRate(ps, b, k)
<1>1. \A p \in AllPlans : Rate[p] \in Nat
  BY MeteringAssumption DEF Limits
<1>2. CASE b = "query"
  BY <1>1, <1>2 DEF WithinRate
<1>3. CASE b = "documents"
  BY <1>3, Numbers DEF WithinRate
<1>4. CASE b # "query" /\ b # "documents"
  <2>1. n <= IpRate
    BY <1>4 DEF WithinRate
  <2>2. k <= IpRate
    BY <2>1, Numbers
  <2>. QED
    BY <1>4, <2>2 DEF WithinRate
<1>. QED
  BY <1>2, <1>3, <1>4

\* What a window after now can hold is in the set.
LEMMA PassingInWindow ==
    ASSUME Types, Kept, NEW b \in Buckets, NEW t \in Times, t >= now
    PROVE  Passing(b, t) \subseteq window[b]
<1>1. now \in Nat /\ t \in Nat /\ \A x \in passed[b] : x.at \in Nat
  BY Numbers DEF Types, TypeOK, Times, Member
<1>. QED
  BY <1>1, Numbers DEF Passing, Kept

LEMMA ArriveRated ==
    ASSUME Types, NEW kind \in Kinds, NEW v \in Visitors \cup {None}
    PROVE  Rated(Checks(kind, v))
<1>. DEFINE mine == [bucket |-> "query", limit |-> Rate[plan]]
            docsCheck == [bucket |-> "documents", limit |-> DocRate]
            visitors == [bucket |-> v, limit |-> IpRate]
<1>1. WithinRate(held, "query", Rate[plan])
  <2>1. plan \in held /\ plan \in AllPlans /\ Rate[plan] \in Nat
    BY MeteringAssumption DEF Types, TypeOK, BillingTypeOK, Limits
  <2>. QED
    BY <2>1 DEF WithinRate
<1>2. WithinRate(held, "documents", DocRate)
  BY Numbers DEF WithinRate
<1>3. v # None => WithinRate(held, v, IpRate)
  BY MeteringAssumption, Numbers DEF WithinRate
<1>4. CASE kind = "upload"
  <2>1. Checks(kind, v) = <<docsCheck>>
    BY <1>4 DEF Checks
  <2>2. Len(<<docsCheck>>) = 1 /\ <<docsCheck>>[1] = docsCheck
    OBVIOUS
  <2>3. docsCheck.bucket = "documents" /\ docsCheck.limit = DocRate
    OBVIOUS
  <2>4. \A i \in 1..1 : i = 1
    OBVIOUS
  <2>. QED
    BY <1>2, <2>1, <2>2, <2>3, <2>4 DEF Rated
<1>5. CASE kind # "upload" /\ v = None
  <2>1. Checks(kind, v) = <<mine>> \o <<>>
    BY <1>5 DEF Checks
  <2>2. Len(<<mine>> \o <<>>) = 1 /\ (<<mine>> \o <<>>)[1] = mine
    OBVIOUS
  <2>3. mine.bucket = "query" /\ mine.limit = Rate[plan]
    OBVIOUS
  <2>4. \A i \in 1..1 : i = 1
    OBVIOUS
  <2>. QED
    BY <1>1, <2>1, <2>2, <2>3, <2>4 DEF Rated
<1>6. CASE kind # "upload" /\ v # None
  <2>1. Checks(kind, v) = <<mine>> \o <<visitors>>
    BY <1>6 DEF Checks
  <2>2. /\ Len(<<mine>> \o <<visitors>>) = 2
        /\ (<<mine>> \o <<visitors>>)[1] = mine /\ (<<mine>> \o <<visitors>>)[2] = visitors
    OBVIOUS
  <2>3. /\ mine.bucket = "query" /\ mine.limit = Rate[plan]
        /\ visitors.bucket = v /\ visitors.limit = IpRate
    OBVIOUS
  <2>4. \A i \in 1..2 : i = 1 \/ i = 2
    OBVIOUS
  <2>. QED
    BY <1>1, <1>3, <1>6, <2>1, <2>2, <2>3, <2>4 DEF Rated
<1>. QED
  BY <1>4, <1>5, <1>6

LEMMA TailRated ==
    ASSUME NEW s \in Seq(Check), s # <<>>, Rated(s)
    PROVE  Rated(Tail(s)) /\ WithinRate(held, Head(s).bucket, Head(s).limit)
<1>1. /\ Tail(s) \in Seq(Check) /\ Len(Tail(s)) = Len(s) - 1
      /\ \A i \in 1..Len(Tail(s)) : Tail(s)[i] = s[i + 1]
      /\ Head(s) = s[1] /\ Len(s) \in Nat /\ Len(s) >= 1
  BY HeadTailProperties
<1>2. \A i \in 1..Len(Tail(s)) : i + 1 \in 1..Len(s)
  BY <1>1
<1>3. 1 \in 1..Len(s)
  BY <1>1
<1>. QED
  BY <1>1, <1>2, <1>3 DEF Rated

\* While nothing is let through, more plans keep every bound.
LEMMA BoundKept ==
    ASSUME WindowBound, passed' = passed, held \subseteq held'
    PROVE  WindowBound'
<1>1. ASSUME NEW b \in Buckets, NEW t \in Times
      PROVE  WithinRate(held', b, Cardinality({m \in passed'[b] : m.at <= t /\ t < m.at + Window}))
  <2>1. WithinRate(held, b, Cardinality({m \in passed[b] : m.at <= t /\ t < m.at + Window}))
    BY DEF WindowBound
  <2>. QED
    BY <2>1, MorePlans
<1>. QED
  BY <1>1 DEF WindowBound

\* The pipeline keeps what it must: a member it removes is older than the
\* window, and the key lives on for a window.
LEMMA Trimmed ==
    ASSUME Types, Limited, NEW c \in Slots, call[c] # Idle, NEW b \in Buckets,
           window' = [window EXCEPT ![b] = Counted(b, call[c].member)],
           expires' = [expires EXCEPT ![b] = now + Window], now' = now,
           passed' = passed \/ (call[c].member.at = now /\ passed' = [passed EXCEPT ![b] = @ \cup {call[c].member}])
    PROVE  Kept'
<1>. DEFINE m == call[c].member
<1>1. /\ window \in [Buckets -> SUBSET Member] /\ expires \in [Buckets -> Nat]
      /\ passed \in [Buckets -> SUBSET Member] /\ now \in Nat /\ call[c] \in Calls
  BY Numbers DEF Types, TypeOK, Times
<1>2. m \in Member /\ m.at \in Nat /\ m.at <= now
  BY <1>1, Numbers DEF Calls, Member, Times, Limited, Requests
<1>3. \A a \in Buckets : \A x \in passed[a] : x.at \in Nat
  BY <1>1, Numbers DEF Member, Times
<1>4. ASSUME NEW a \in Buckets, a # b
      PROVE  /\ IsFiniteSet(window'[a])
             /\ \A x \in passed'[a] : /\ x.at <= now'
                                      /\ x.at + Window <= expires'[a]
                                      /\ x.at + Window > now' => x \in window'[a]
  BY <1>1, <1>4 DEF Limited, Kept
<1>5. IsFiniteSet(window'[b])
  <2>1. IsFiniteSet(window[b])
    BY DEF Limited, Kept
  <2>2. IsFiniteSet({x \in window[b] : x.at + Window > m.at})
    BY <2>1, FS_Subset
  <2>3. IsFiniteSet(Counted(b, m))
    BY <2>2, FS_AddElement DEF Counted
  <2>. QED
    BY <1>1, <2>3
<1>6. ASSUME NEW x \in passed'[b]
      PROVE  /\ x.at <= now'
             /\ x.at + Window <= expires'[b]
             /\ x.at + Window > now' => x \in window'[b]
  <2>1. window'[b] = Counted(b, m) /\ expires'[b] = now + Window
    BY <1>1
  <2>2. CASE x \in passed[b]
    <3>1. x.at \in Nat /\ x.at <= now /\ (x.at + Window > now => x \in window[b])
      BY <1>3, <2>2 DEF Limited, Kept
    <3>2. x.at + Window > now => x.at + Window > m.at
      BY <1>1, <1>2, <3>1, Numbers
    <3>. QED
      BY <1>1, <2>1, <3>1, <3>2, Numbers DEF Counted
  <2>3. CASE x \notin passed[b]
    <3>1. x = m /\ x.at = now
      BY <1>1, <1>6, <2>3
    <3>2. x \in Counted(b, m)
      BY <3>1 DEF Counted
    <3>. QED
      BY <1>1, <2>1, <3>1, <3>2, Numbers
  <2>. QED
    BY <2>2, <2>3
<1>. QED
  BY <1>4, <1>5, <1>6 DEF Kept

\* A member let through at its stamp: what any window around it holds is counted.
LEMMA Admitted ==
    ASSUME Types, Limited, NEW c \in Slots, call[c] # Idle, NEW b \in Buckets, NEW n \in Nat,
           WithinRate(held, b, n), Cardinality(Counted(b, call[c].member)) <= n,
           call[c].member.at = now, held' = held,
           passed' = [passed EXCEPT ![b] = @ \cup {call[c].member}]
    PROVE  WindowBound'
<1>. DEFINE m == call[c].member
            In(a, t) == {x \in passed'[a] : x.at <= t /\ t < x.at + Window}
<1>1. /\ passed \in [Buckets -> SUBSET Member] /\ now \in Nat /\ held \in SUBSET AllPlans
      /\ window \in [Buckets -> SUBSET Member]
  BY Numbers DEF Types, TypeOK, Times
<1>2. IsFiniteSet(Counted(b, m)) /\ Cardinality(Counted(b, m)) \in Nat
  <2>1. IsFiniteSet(window[b])
    BY DEF Limited, Kept
  <2>2. IsFiniteSet({x \in window[b] : x.at + Window > m.at})
    BY <2>1, FS_Subset
  <2>3. IsFiniteSet(Counted(b, m))
    BY <2>2, FS_AddElement DEF Counted
  <2>. QED
    BY <2>3, FS_CardinalityType
<1>3. ASSUME NEW a \in Buckets, NEW t \in Times PROVE WithinRate(held', a, Cardinality(In(a, t)))
  <2>0. t \in Nat
    BY Numbers DEF Times
  <2>1. CASE a # b \/ t < now
    <3>1. In(a, t) = {x \in passed[a] : x.at <= t /\ t < x.at + Window}
      BY <1>1, <2>0, <2>1
    <3>2. WithinRate(held, a, Cardinality({x \in passed[a] : x.at <= t /\ t < x.at + Window}))
      BY DEF Limited, WindowBound
    <3>. QED
      BY <3>1, <3>2
  <2>2. CASE a = b /\ t >= now
    <3>1. In(b, t) \subseteq Counted(b, m)
      <4>1. Passing(b, t) \subseteq window[b]
        BY <2>0, <2>2, PassingInWindow DEF Limited
      <4>2. ASSUME NEW x \in In(b, t) PROVE x \in Counted(b, m)
        <5>1. CASE x \in passed[b]
          <6>1. x \in window[b]
            BY <4>1, <5>1, <4>2 DEF Passing
          <6>2. x.at \in Nat /\ t < x.at + Window
            BY <1>1, <4>2, <5>1, Numbers DEF Member, Times
          <6>3. x.at + Window > m.at
            BY <1>1, <2>0, <2>2, <6>2, Numbers
          <6>. QED
            BY <6>1, <6>3 DEF Counted
        <5>2. CASE x \notin passed[b]
          BY <1>1, <4>2, <5>2 DEF Counted
        <5>. QED
          BY <5>1, <5>2
      <4>. QED
        BY <4>2
    <3>2. Cardinality(In(b, t)) \in Nat /\ Cardinality(In(b, t)) <= Cardinality(Counted(b, m))
      BY <1>2, <3>1, FS_Subset, FS_CardinalityType
    <3>3. Cardinality(In(b, t)) <= n
      BY <1>2, <3>2
    <3>. QED
      BY <1>1, <2>2, <3>2, <3>3, FewerRequests
  <2>. QED
    BY <1>1, <2>0, <2>1, <2>2
<1>. QED
  BY <1>3 DEF WindowBound

LEMMA NextLimited == Types /\ Limited /\ [Next]_vars => Limited'
<1>. SUFFICES ASSUME Types, Limited, [Next]_vars PROVE Limited'
  OBVIOUS
<1>0. /\ call \in [Slots -> Calls \cup {Idle}] /\ now \in Nat
      /\ window \in [Buckets -> SUBSET Member] /\ expires \in [Buckets -> Nat]
      /\ passed \in [Buckets -> SUBSET Member]
  BY Numbers DEF Types, TypeOK, Times
<1>1. ASSUME call' = call, now' = now, held \subseteq held' PROVE Requests'
  <2>1. ASSUME NEW c \in Slots, call[c] # Idle PROVE AtLimiter(c)' => Rated(call[c].checks)'
    <3>1. ASSUME Rated(call[c].checks) PROVE Rated(call[c].checks)'
      <4>1. call[c].checks \in Seq(Check)
        BY <1>0, <2>1 DEF Calls
      <4>2. ASSUME NEW i \in 1..Len(call[c].checks)
            PROVE  WithinRate(held', call[c].checks[i].bucket, call[c].checks[i].limit)
        <5>0. call[c].checks[i] \in Check
          BY <4>1
        <5>1. call[c].checks[i].bucket \in Buckets
          BY <5>0 DEF Check
        <5>2. WithinRate(held, call[c].checks[i].bucket, call[c].checks[i].limit)
          BY <3>1 DEF Rated
        <5>. QED
          BY <1>1, <5>1, <5>2, MorePlans
      <4>. QED
        BY <1>1, <4>2 DEF Rated
    <3>. QED
      BY <1>1, <2>1, <3>1 DEF Limited, Requests, AtLimiter
  <2>. QED
    BY <1>1, <2>1 DEF Limited, Requests
<1>2. ASSUME UNCHANGED <<now, window, expires, passed>> PROVE Kept'
  BY <1>2 DEF Limited, Kept
<1>3. CASE Bill
  BY <1>1, <1>2, <1>3, BoundKept DEF Bill, Limited
<1>4. ASSUME NEW c \in Slots, CallStep(c), UNCHANGED billingVars PROVE Limited'
  \* A step that moves this request, with checks it may pass.
  <2>1. ASSUME NEW x, call' = [call EXCEPT ![c] = x], held' = held, now' = now,
               x # Idle => /\ x.member.at <= now
                           /\ x.at \in {"arrived", "stamped"} => Rated(x.checks)
        PROVE  Requests'
    <3>1. call'[c] = x /\ \A d \in Slots \ {c} : call'[d] = call[d]
      BY <1>0, <2>1
    <3>2. \A s : Rated(s)' <=> Rated(s)
      BY <2>1 DEF Rated
    <3>. QED
      BY <2>1, <3>1, <3>2 DEF Limited, Requests, AtLimiter
  <2>2. call[c] # Idle => /\ call[c] \in Calls /\ call[c].member.at <= now
                          /\ AtLimiter(c) => Rated(call[c].checks)
    BY <1>0 DEF Limited, Requests
  <2>3. ASSUME NEW kind \in Kinds, NEW v \in Visitors \cup {None}, Arrive(c, kind, v) PROVE Limited'
    <3>. DEFINE x == [at |-> "arrived", kind |-> kind, plan |-> plan, checks |-> Checks(kind, v),
                      member |-> [at |-> now, id |-> served + 1]]
    <3>1. Rated(Checks(kind, v))
      BY ArriveRated
    <3>2. x.member.at <= now /\ x.checks = Checks(kind, v)
      BY <1>0
    <3>3. call' = [call EXCEPT ![c] = x] /\ UNCHANGED <<now, window, expires, held, passed>>
      BY <2>3 DEF Arrive
    <3>4. Requests'
      BY <2>1, <3>1, <3>2, <3>3
    <3>. QED
      BY <1>2, <3>3, <3>4, BoundKept DEF Limited
  <2>4. CASE Stamp(c)
    <3>. DEFINE x == [call[c] EXCEPT !.at = "stamped", !.member.at = now]
    <3>1. x.member.at = now /\ x.checks = call[c].checks /\ Rated(call[c].checks)
      BY <2>2, <2>4 DEF Stamp, Calls, Member, AtLimiter
    <3>2. call' = [call EXCEPT ![c] = x] /\ UNCHANGED <<now, window, expires, held, passed>>
      BY <2>4 DEF Stamp
    <3>. HIDE DEF x
    <3>3. x.member.at <= now
      BY <1>0, <3>1
    <3>4. Requests'
      BY <2>1, <3>1, <3>2, <3>3
    <3>. QED
      BY <1>2, <3>2, <3>4, BoundKept DEF Limited
  <2>5. CASE Pipeline(c)
    <3>. DEFINE b == Head(call[c].checks).bucket
                n == Head(call[c].checks).limit
                m == call[c].member
                at == IF Len(call[c].checks) > 1 THEN "arrived" ELSE "admitted"
                x == [call[c] EXCEPT !.checks = Tail(@), !.at = at]
    <3>1. AtLimiter(c) /\ call[c] # Idle
      BY <2>5 DEF Pipeline, AtLimiter
    <3>2. call[c].checks \in Seq(Check) /\ call[c].checks # <<>>
      BY <2>2, <3>1 DEF Calls, Types, Waiting
    <3>3. b \in Buckets /\ n \in Nat
      BY <3>1, CheckType DEF Check
    <3>4. Rated(Tail(call[c].checks)) /\ WithinRate(held, b, n)
      BY <2>2, <3>1, <3>2, TailRated
    <3>5. /\ window' = [window EXCEPT ![b] = Counted(b, m)]
          /\ expires' = [expires EXCEPT ![b] = now + Window]
          /\ UNCHANGED <<now, held>>
      BY <2>5 DEF Pipeline
    <3>6. x.checks = Tail(call[c].checks) /\ x.member = m
      BY <2>2, <3>1 DEF Calls
    <3>7. CASE Cardinality(Counted(b, m)) <= n
      <4>1. call' = [call EXCEPT ![c] = x]
        BY <2>5, <3>7 DEF Pipeline
      <4>2. Requests'
        BY <2>1, <2>2, <3>1, <3>4, <3>5, <3>6, <4>1
      <4>3. passed' = passed \/ (m.at = now /\ passed' = [passed EXCEPT ![b] = @ \cup {m}])
        BY <2>5 DEF Pipeline
      <4>4. Kept'
        BY <3>1, <3>3, <3>5, <4>3, Trimmed
      <4>5. WindowBound'
        <5>1. CASE passed' = passed
          BY SMTT(30), <3>5, <5>1, BoundKept DEF Limited
        <5>2. CASE m.at = now /\ passed' = [passed EXCEPT ![b] = @ \cup {m}]
          BY <3>1, <3>3, <3>4, <3>5, <3>7, <5>2, Admitted
        <5>. QED
          BY <4>3, <5>1, <5>2
      <4>. QED
        BY <4>2, <4>4, <4>5 DEF Limited
    <3>8. CASE ~(Cardinality(Counted(b, m)) <= n)
      <4>1. call' = [call EXCEPT ![c] = Idle] /\ passed' = passed
        BY <2>5, <3>8 DEF Pipeline
      <4>2. Requests'
        BY <2>1, <3>5, <4>1
      <4>3. Kept'
        BY <3>1, <3>3, <3>5, <4>1, Trimmed
      <4>. QED
        BY <3>5, <4>1, <4>2, <4>3, BoundKept DEF Limited
    <3>. QED
      BY <3>7, <3>8
  <2>6. CASE AnswerLost(c)
    <3>. DEFINE b == Head(call[c].checks).bucket
    <3>1. AtLimiter(c) /\ call[c] # Idle
      BY <2>6 DEF AnswerLost, AtLimiter
    <3>2. b \in Buckets
      BY <3>1, CheckType
    <3>3. /\ window' = [window EXCEPT ![b] = Counted(b, call[c].member)]
          /\ expires' = [expires EXCEPT ![b] = now + Window]
          /\ UNCHANGED <<now, held, passed>>
          /\ call' = [call EXCEPT ![c] = Idle]
      BY <2>6 DEF AnswerLost
    <3>4. Requests'
      BY <2>1, <3>3
    <3>5. Kept'
      BY <3>1, <3>2, <3>3, Trimmed
    <3>. QED
      BY <3>3, <3>4, <3>5, BoundKept DEF Limited
  <2>7. CASE CheckLimit(c) \/ CommitLog(c) \/ Leave(c) \/ \E n \in 1..Cost \cup {Size} : RecordUsage(c, n)
    <3>. DEFINE x == [call[c] EXCEPT !.at = "working"]
                y == [call[c] EXCEPT !.at = "logged"]
    <3>1. UNCHANGED <<now, window, expires, held, passed>> /\ call[c] # Idle
      BY <2>7 DEF CheckLimit, CommitLog, Leave, RecordUsage
    <3>2. /\ x.member = call[c].member /\ x.at = "working"
          /\ y.member = call[c].member /\ y.at = "logged"
      BY <2>2, <3>1 DEF Calls
    <3>3. \/ call' = [call EXCEPT ![c] = Idle]
          \/ call' = [call EXCEPT ![c] = x]
          \/ call' = [call EXCEPT ![c] = y]
      BY <2>7 DEF CheckLimit, CommitLog, Leave, RecordUsage
    <3>4. Requests'
      BY <2>1, <2>2, <3>1, <3>2, <3>3
    <3>. QED
      BY <1>2, <3>1, <3>4, BoundKept DEF Limited
  <2>. QED
    BY <1>4, <2>3, <2>4, <2>5, <2>6, <2>7 DEF CallStep
<1>5. CASE Tick
  <2>1. /\ now' = now + 1 /\ UNCHANGED <<expires, call, held, passed>>
        /\ window' = [b \in Buckets |-> IF expires[b] <= now + 1 THEN {} ELSE window[b]]
    BY <1>5 DEF Tick
  <2>2. Requests'
    <3>1. \A s : Rated(s)' <=> Rated(s)
      BY <2>1 DEF Rated
    <3>2. \A c \in Slots : call[c] # Idle => call[c].member.at \in Nat
      BY <1>0, Numbers DEF Calls, Member, Times
    <3>. QED
      BY <1>0, <2>1, <3>1, <3>2 DEF Limited, Requests, AtLimiter
  <2>3. ASSUME NEW b \in Buckets
        PROVE  /\ IsFiniteSet(window'[b])
               /\ \A x \in passed'[b] : /\ x.at <= now'
                                        /\ x.at + Window <= expires'[b]
                                        /\ x.at + Window > now' => x \in window'[b]
    <3>1. IsFiniteSet(window'[b])
      BY <2>1, FS_EmptySet DEF Limited, Kept
    <3>2. ASSUME NEW x \in passed[b]
          PROVE  /\ x.at <= now + 1
                 /\ x.at + Window <= expires[b]
                 /\ x.at + Window > now + 1 => x \in window'[b]
      <4>1. /\ x.at \in Nat /\ x.at <= now /\ x.at + Window <= expires[b]
            /\ x.at + Window > now => x \in window[b]
        BY <1>0, Numbers DEF Member, Times, Limited, Kept
      <4>2. expires[b] \in Nat
        BY <1>0
      <4>. QED
        BY <1>0, <2>1, <4>1, <4>2, Numbers
    <3>. QED
      BY <2>1, <3>1, <3>2
  <2>4. Kept'
    BY <2>3 DEF Kept
  <2>. QED
    BY <2>1, <2>2, <2>4, BoundKept DEF Limited
<1>6. CASE GiveBack \/ NewMonth
  BY <1>1, <1>2, <1>6, BoundKept DEF GiveBack, NewMonth, Limited
<1>7. CASE UNCHANGED vars
  BY <1>1, <1>2, <1>7, BoundKept DEF vars, meterVars, Limited
<1>. QED
  BY <1>3, <1>4, <1>5, <1>6, <1>7, Steps

LEMMA InitLimited == Init => Limited
<1>. SUFFICES ASSUME Init PROVE Limited
  OBVIOUS
<1>1. Requests
  BY DEF Init, Requests
<1>2. Kept
  BY FS_EmptySet DEF Init, Kept
<1>3. ASSUME NEW b \in Buckets, NEW t \in Times
      PROVE  WithinRate(held, b, Cardinality({m \in passed[b] : m.at <= t /\ t < m.at + Window}))
  <2>1. {m \in passed[b] : m.at <= t /\ t < m.at + Window} = {}
    BY DEF Init
  <2>2. Cardinality({}) = 0
    BY FS_EmptySet
  <2>3. "free" \in held /\ Rate["free"] \in Nat
    BY MeteringAssumption DEF Init, Limits, AllPlans
  <2>4. WithinRate(held, b, 0)
    <3>1. CASE b = "query"
      BY <2>3, <3>1 DEF WithinRate
    <3>2. CASE b = "documents"
      BY <3>2, Numbers DEF WithinRate
    <3>3. CASE b # "query" /\ b # "documents"
      BY <3>3, Numbers DEF WithinRate
    <3>. QED
      BY <3>1, <3>2, <3>3
  <2>. QED
    BY <2>1, <2>2, <2>4
<1>. QED
  BY <1>1, <1>2, <1>3 DEF Limited, WindowBound

\* No bucket lets through more than its limit in any window, for any number of
\* workers, whatever their order, their delays, lost answers and expiring keys.
THEOREM RateHolds == Spec => []WindowBound
<1>1. Limited => WindowBound
  BY DEF Limited
<1>. QED
  BY <1>1, InitTypes, NextTypes, InitLimited, NextLimited, PTL DEF Spec

-----------------------------------------------------------------------------
(* The plan Stripe is paid for.  In a tidy history (one customer, one       *)
(* subscription at a time, events handled in order, no plan set by hand)    *)
(* the events tell the plan: it is that of the last event that asks for     *)
(* one.  So reads the list of all events what Stripe is paid for, and the   *)
(* list of the recorded ones the plan of the workspace.                     *)

OneCustomer == \A c, d \in customers : c = d

Asks(e) == AskedPlan(events[e]) # {}

Says(S, p) == \/ p = "free" /\ \A e \in S : ~Asks(e)
              \/ \E e \in S : /\ Asks(e) /\ events[e].plan = p
                              /\ \A k \in S : k > e => ~Asks(k)

\* Offers, subscriptions and events are of customers of the workspace, and
\* there are none before the first customer is on record.
CustomersKnown ==
    /\ sub.customer \in customers \cup {None}
    /\ \A r \in Req : checkout[r] = "creating" => r \in customers
    /\ \A o \in offers : o.customer \in customers /\ sub.customer # None
    /\ \A i \in DOMAIN paid : paid[i].customer \in customers /\ sub.customer # None
    /\ \A e \in 1..Len(events) : events[e].customer \in customers /\ sub.customer # None

\* The recorded events are a prefix, and a delivery under way is of the next.
InOrder ==
    /\ processed \subseteq 1..Len(events)
    /\ ~untidy => /\ \A e \in processed : \A j \in 1..(e - 1) : j \in processed
                  /\ \A h \in Hooks : hook[h] # None => \A j \in 1..(hook[h].event - 1) : j \in processed

PaidTold ==
    ~untidy => /\ \A i, j \in DOMAIN paid : i = j
               /\ DOMAIN paid = {} => Says(1..Len(events), "free")
               /\ \A i \in DOMAIN paid : Says(1..Len(events), paid[i].plan)

PlanTold ==
    (~untidy /\ patches = 0 /\ OneCustomer) =>
        /\ Says(processed, plan)
        /\ \A h \in Hooks : (hook[h] # None /\ hook[h].event \notin processed)
                               => hook[h].plan = plan /\ hook[h].mine

Trail == CustomersKnown /\ InOrder /\ PaidTold /\ PlanTold

LEMMA Appended ==
    ASSUME Types, NEW type \in {"checkout", "updated", "deleted", "failed"}, NEW c \in Req,
           NEW p \in AllPlans, NEW status \in Statuses, Emit(type, c, p, status)
    PROVE  /\ Len(events') = Len(events) + 1
           /\ \A e \in 1..Len(events) : events'[e] = events[e]
           /\ events'[Len(events) + 1] = [type |-> type, customer |-> c, plan |-> p, status |-> status]
<1>1. events \in Seq(Event) /\ [type |-> type, customer |-> c, plan |-> p, status |-> status] \in Event
  BY DEF Types, TypeOK, BillingTypeOK, Event
<1>. QED
  BY <1>1, AppendProperties DEF Emit

\* What an event list says after one more event.
LEMMA SaysMore ==
    ASSUME NEW n \in Nat, n = Len(events), Len(events') = n + 1, \A e \in 1..n : events'[e] = events[e],
           NEW p, NEW q, q = events'[n + 1].plan
    PROVE  /\ Asks(n + 1)' => (Says(1..n + 1, q))'
           /\ (~Asks(n + 1)' /\ Says(1..n, p)) => (Says(1..n + 1, p))'
<1>1. \A e \in 1..n : Asks(e)' <=> Asks(e)
  BY DEF Asks, AskedPlan
<1>2. ASSUME Asks(n + 1)' PROVE (Says(1..n + 1, q))'
  <2>1. n + 1 \in 1..n + 1 /\ \A k \in 1..n + 1 : ~(k > n + 1)
    OBVIOUS
  <2>. QED
    BY <1>2, <2>1 DEF Says
<1>3. ASSUME ~Asks(n + 1)', Says(1..n, p) PROVE (Says(1..n + 1, p))'
  <2>1. CASE p = "free" /\ \A e \in 1..n : ~Asks(e)
    BY <1>1, <1>3, <2>1 DEF Says
  <2>2. ASSUME NEW e \in 1..n, Asks(e), events[e].plan = p, \A k \in 1..n : k > e => ~Asks(k)
        PROVE  (Says(1..n + 1, p))'
    <3>1. Asks(e)' /\ events'[e].plan = p /\ \A k \in 1..n + 1 : k > e => ~Asks(k)'
      BY <1>1, <1>3, <2>2
    <3>. QED
      BY <3>1 DEF Says
  <2>. QED
    BY <1>3, <2>1, <2>2 DEF Says
<1>. QED
  BY <1>2, <1>3

\* A list of events says one plan.
LEMMA SaysOne ==
    ASSUME NEW S \in SUBSET Nat, NEW p, NEW q, Says(S, p), Says(S, q)
    PROVE  p = q
<1>1. \A e, k \in S : e = k \/ e > k \/ k > e
  OBVIOUS
<1>. QED
  BY <1>1 DEF Says

LEMMA TrailCustomers ==
    ASSUME Types, Trail, Bill
    PROVE  CustomersKnown' /\ customers \subseteq customers'
<1>. USE DEF CustomersKnown
<1>a. CustomersKnown
  BY DEF Trail
<1>0. None \notin Req /\ Plans \subseteq AllPlans /\ "free" \in AllPlans
  BY BillingAssumption DEF AllPlans
<1>1. ASSUME NEW r \in Req, CreateCustomer(r) PROVE CustomersKnown' /\ customers \subseteq customers'
  BY <1>1, <1>a DEF CreateCustomer, Types, TypeOK, BillingTypeOK
<1>2. ASSUME NEW r \in Req, NEW p \in Plans, SaveCustomer(r, p)
      PROVE  CustomersKnown' /\ customers \subseteq customers'
  <2>1. sub'.customer = r /\ r \in customers /\ r # None
    BY <1>0, <1>2, <1>a DEF SaveCustomer, Types, TypeOK, BillingTypeOK
  <2>. QED
    BY <1>2, <1>a, <2>1 DEF SaveCustomer, Types, TypeOK, BillingTypeOK
<1>3. ASSUME NEW r \in Req, NEW p \in Plans, Checkout(r, p)
      PROVE  CustomersKnown' /\ customers \subseteq customers'
  BY <1>3, <1>a DEF Checkout, Types, TypeOK, BillingTypeOK
<1>4. ASSUME NEW c \in customers, NEW type \in {"checkout", "updated", "deleted", "failed"},
             NEW p \in AllPlans, NEW status \in Statuses, sub.customer # None,
             Emit(type, c, p, status), UNCHANGED <<sub, checkout, customers>>,
             offers' \subseteq offers, \A i \in DOMAIN paid' : paid'[i].customer \in customers
      PROVE  CustomersKnown' /\ customers \subseteq customers'
  <2>1. c \in Req /\ Len(events) \in Nat
    BY DEF Types, TypeOK, BillingTypeOK
  <2>2. /\ Len(events') = Len(events) + 1
        /\ \A e \in 1..Len(events) : events'[e] = events[e]
        /\ events'[Len(events) + 1] = [type |-> type, customer |-> c, plan |-> p, status |-> status]
    BY <1>4, <2>1, Appended
  <2>3. \A e \in 1..Len(events') : events'[e].customer \in customers
    BY <1>a, <2>1, <2>2
  <2>. QED
    BY <1>4, <1>a, <2>3
<1>5. ASSUME NEW o \in offers, Pay(o) PROVE CustomersKnown' /\ customers \subseteq customers'
  <2>1. o.customer \in customers /\ o.plan \in AllPlans
    BY <1>0, <1>a DEF Types, TypeOK, BillingTypeOK
  <2>2. \A i \in DOMAIN paid' : paid'[i].customer \in customers
    BY <1>5, <1>a, <2>1 DEF Pay
  <2>. QED
    BY <1>4, <1>5, <1>a, <2>1, <2>2 DEF Pay, Statuses
<1>6. ASSUME NEW i \in DOMAIN paid, NEW p \in Plans, NEW status \in {"active", "past_due"}, Change(i, p, status)
      PROVE  CustomersKnown' /\ customers \subseteq customers'
  <2>1. \A j \in DOMAIN paid' : paid'[j].customer \in customers
    BY <1>6, <1>a DEF Change, Types, TypeOK, BillingTypeOK
  <2>. QED
    BY <1>0, <1>4, <1>6, <1>a, <2>1 DEF Change, Statuses
<1>7. ASSUME NEW i \in DOMAIN paid, MissPayment(i) \/ Cancel(i)
      PROVE  CustomersKnown' /\ customers \subseteq customers'
  <2>1. paid[i].plan \in AllPlans /\ paid[i].customer \in customers
    BY <1>0, <1>a DEF Types, TypeOK, BillingTypeOK
  <2>2. \A j \in DOMAIN paid' : paid'[j].customer \in customers
    BY <1>7, <1>a DEF MissPayment, Cancel
  <2>. QED
    BY <1>0, <1>4, <1>7, <1>a, <2>1, <2>2 DEF MissPayment, Cancel, Statuses
<1>8. ASSUME NEW h \in Hooks, CommitWebhook(h) PROVE CustomersKnown' /\ customers \subseteq customers'
  <2>1. sub'.customer = sub.customer
    BY <1>8 DEF CommitWebhook, Types, TypeOK, BillingTypeOK
  <2>. QED
    BY <1>8, <1>a, <2>1 DEF CommitWebhook
<1>9. CASE UNCHANGED <<sub, checkout, customers, offers, paid, events>>
  BY <1>9, <1>a
<1>. QED
  BY <1>1, <1>2, <1>3, <1>5, <1>6, <1>7, <1>8, <1>9
  DEF Bill, BillingNext, StripeNext, PatchPlan, HandleWebhook, WebhookFails

LEMMA TrailOrder ==
    ASSUME Types, Trail, Bill
    PROVE  InOrder' /\ (untidy => untidy') /\ (patches # 0 => patches' # 0)
<1>. USE DEF InOrder, Trail, Types, TypeOK, BillingTypeOK
<1>0. Len(events) \in Nat /\ patches \in Nat /\ Plans \subseteq AllPlans /\ "free" \in AllPlans
  BY DEF AllPlans
<1>1. ASSUME NEW i \in DOMAIN paid \cup offers,
             \/ i \in offers /\ Pay(i)
             \/ i \in DOMAIN paid /\ \/ \E p \in Plans, status \in {"active", "past_due"} : Change(i, p, status)
                                     \/ MissPayment(i) \/ Cancel(i)
      PROVE  InOrder' /\ (untidy => untidy') /\ (patches # 0 => patches' # 0)
  <2>1. Len(events') = Len(events) + 1
    <3>1. ASSUME NEW x, events' = Append(events, x) PROVE Len(events') = Len(events) + 1
      BY <3>1
    <3>. QED
      BY <1>1, <3>1 DEF Pay, Change, MissPayment, Cancel, Emit
  <2>2. UNCHANGED <<processed, hook, patches>> /\ (untidy => untidy')
    BY <1>1 DEF Pay, Change, MissPayment, Cancel
  <2>3. 1..Len(events) \subseteq 1..Len(events')
    BY <1>0, <2>1
  <2>. QED
    BY <2>2, <2>3
<1>2. ASSUME NEW h \in Hooks, NEW e \in EventIds, HandleWebhook(h, e)
      PROVE  InOrder' /\ (untidy => untidy') /\ (patches # 0 => patches' # 0)
  <2>1. UNCHANGED <<processed, events, patches>> /\ (untidy => untidy')
    BY <1>2 DEF HandleWebhook
  <2>2. ~untidy' => \A j \in 1..(e - 1) : j \in processed
    BY <1>2 DEF HandleWebhook
  <2>3. hook'[h].event = e /\ \A g \in Hooks \ {h} : hook'[g] = hook[g]
    BY <1>2 DEF HandleWebhook
  <2>. QED
    BY <2>1, <2>2, <2>3
<1>3. ASSUME NEW h \in Hooks, CommitWebhook(h)
      PROVE  InOrder' /\ (untidy => untidy') /\ (patches # 0 => patches' # 0)
  <2>1. hook[h].event \in 1..Len(events)
    BY <1>3 DEF CommitWebhook, KnownEvents
  <2>2. /\ processed' = processed \cup {hook[h].event} /\ UNCHANGED <<events, patches, untidy>>
        /\ hook' = [hook EXCEPT ![h] = None] /\ hook[h] # None
    BY <1>3 DEF CommitWebhook
  <2>. QED
    BY <2>1, <2>2
<1>4. ASSUME NEW h \in Hooks, WebhookFails(h)
      PROVE  InOrder' /\ (untidy => untidy') /\ (patches # 0 => patches' # 0)
  BY <1>4 DEF WebhookFails
<1>5. ASSUME NEW p \in AllPlans, PatchPlan(p)
      PROVE  InOrder' /\ (untidy => untidy') /\ (patches # 0 => patches' # 0)
  BY <1>0, <1>5 DEF PatchPlan
<1>6. CASE UNCHANGED <<events, processed, hook, untidy, patches>>
  BY <1>6
<1>. QED
  BY <1>1, <1>2, <1>3, <1>4, <1>5, <1>6 DEF Bill, BillingNext, StripeNext, CreateCustomer, SaveCustomer, Checkout

\* What a list of events already emitted says does not change.
LEMMA SaysKept ==
    ASSUME NEW S, \A e \in S : events'[e] = events[e], NEW p, Says(S, p)
    PROVE  (Says(S, p))'
<1>1. \A e \in S : (Asks(e)' <=> Asks(e)) /\ events'[e].plan = events[e].plan
  BY DEF Asks, AskedPlan
<1>. QED
  BY <1>1 DEF Says

LEMMA TrailPaid ==
    ASSUME Types, Trail, Bill
    PROVE  PaidTold'
<1>. SUFFICES ASSUME ~untidy' PROVE PaidTold'
  BY DEF PaidTold
<1>n. PICK n \in Nat : n = Len(events)
  BY DEF Types, TypeOK, BillingTypeOK
<1>0. /\ ~untidy /\ Plans \subseteq AllPlans /\ "free" \in AllPlans
      /\ \A i \in DOMAIN paid : paid[i].customer \in Req /\ paid[i].plan \in AllPlans
  BY TrailOrder DEF Types, TypeOK, BillingTypeOK, AllPlans
<1>a. /\ \A i, j \in DOMAIN paid : i = j
      /\ DOMAIN paid = {} => Says(1..n, "free")
      /\ \A i \in DOMAIN paid : Says(1..n, paid[i].plan)
  BY <1>0, <1>n DEF Trail, PaidTold
<1>1. ASSUME NEW o \in offers, Pay(o) PROVE PaidTold'
  <2>0. o.customer \in Req /\ o.plan \in AllPlans
    BY <1>0 DEF Types, TypeOK, BillingTypeOK
  <2>1. /\ Len(events') = n + 1 /\ \A e \in 1..n : events'[e] = events[e]
        /\ events'[n + 1] = [type |-> "checkout", customer |-> o.customer, plan |-> o.plan, status |-> "active"]
    BY <1>1, <2>0, <1>n, Appended DEF Pay, Statuses
  <2>2. DOMAIN paid = {} /\ DOMAIN paid' = {n + 1} /\ paid'[n + 1].plan = o.plan
    BY <1>0, <1>1, <1>n DEF Pay
  <2>3. Asks(n + 1)'
    BY <2>1 DEF Asks, AskedPlan
  <2>4. (Says(1..n + 1, o.plan))'
    BY <1>0, <2>1, <2>3, <1>n, SaysMore
  <2>. QED
    BY <2>1, <2>2, <2>4 DEF PaidTold
<1>2. ASSUME NEW i \in DOMAIN paid, NEW p \in Plans, Change(i, p, "active") PROVE PaidTold'
  <2>1. /\ Len(events') = n + 1 /\ \A e \in 1..n : events'[e] = events[e]
        /\ events'[n + 1] = [type |-> "updated", customer |-> paid[i].customer, plan |-> p, status |-> "active"]
    BY <1>0, <1>2, <1>n, Appended DEF Change, Statuses
  <2>2. DOMAIN paid' = {i} /\ paid'[i].plan = p
    BY <1>2, <1>a DEF Change, Types, TypeOK, BillingTypeOK
  <2>3. Asks(n + 1)'
    BY <2>1 DEF Asks, AskedPlan
  <2>4. (Says(1..n + 1, p))'
    BY <1>0, <2>1, <2>3, <1>n, SaysMore
  <2>. QED
    BY <2>1, <2>2, <2>4 DEF PaidTold
<1>3. ASSUME NEW i \in DOMAIN paid, (\E p \in Plans : Change(i, p, "past_due")) \/ MissPayment(i) PROVE PaidTold'
  <2>1. PICK type \in {"updated", "failed"}, p \in AllPlans :
           Emit(type, paid[i].customer, p, "past_due") /\ paid' = paid
    BY <1>0, <1>3 DEF Change, MissPayment
  <2>a. type \in {"checkout", "updated", "deleted", "failed"} /\ "past_due" \in Statuses
    BY <2>1 DEF Statuses
  <2>2. /\ Len(events') = n + 1 /\ \A e \in 1..n : events'[e] = events[e]
        /\ events'[n + 1] = [type |-> type, customer |-> paid[i].customer, plan |-> p, status |-> "past_due"]
    BY <1>0, <2>1, <2>a, <1>n, Appended
  <2>3. ~Asks(n + 1)'
    BY <2>2 DEF Asks, AskedPlan
  <2>4. \A q : Says(1..n, q) => (Says(1..n + 1, q))'
    BY <1>0, <2>2, <2>3, <1>n, SaysMore
  <2>. QED
    BY <1>a, <2>1, <2>2, <2>4 DEF PaidTold
<1>4. ASSUME NEW i \in DOMAIN paid, Cancel(i) PROVE PaidTold'
  <2>1. /\ Len(events') = n + 1 /\ \A e \in 1..n : events'[e] = events[e]
        /\ events'[n + 1] = [type |-> "deleted", customer |-> paid[i].customer, plan |-> "free",
                             status |-> "canceled"]
    BY <1>0, <1>4, <1>n, Appended DEF Cancel, Statuses
  <2>2. DOMAIN paid' = {}
    BY <1>4, <1>a DEF Cancel
  <2>3. Asks(n + 1)'
    BY <2>1 DEF Asks, AskedPlan
  <2>4. (Says(1..n + 1, "free"))'
    BY <1>0, <2>1, <2>3, <1>n, SaysMore
  <2>. QED
    BY <2>1, <2>2, <2>4 DEF PaidTold
<1>5. CASE UNCHANGED <<events, paid>>
  BY <1>0, <1>5, <1>a, <1>n DEF PaidTold, Says, Asks, AskedPlan
<1>. QED
  BY <1>1, <1>2, <1>3, <1>4, <1>5
  DEF Bill, BillingNext, StripeNext, CreateCustomer, SaveCustomer, Checkout, PatchPlan, HandleWebhook, CommitWebhook,
      WebhookFails

LEMMA TrailPlan ==
    ASSUME Types, Trail, Bill
    PROVE  PlanTold'
<1>. SUFFICES ASSUME ~untidy', patches' = 0, OneCustomer' PROVE PlanTold'
  BY DEF PlanTold
<1>0. /\ ~untidy /\ patches = 0 /\ OneCustomer
      /\ events \in Seq(Event) /\ Len(events) \in Nat
      /\ processed \subseteq 1..Len(events)
  BY TrailOrder, TrailCustomers DEF OneCustomer, Trail, InOrder, Types, TypeOK, BillingTypeOK
<1>a. /\ Says(processed, plan)
      /\ \A h \in Hooks : (hook[h] # None /\ hook[h].event \notin processed) => hook[h].plan = plan /\ hook[h].mine
  BY <1>0 DEF Trail, PlanTold
<1>b. /\ \A e \in processed : \A j \in 1..(e - 1) : j \in processed
      /\ \A h \in Hooks : hook[h] # None => \A j \in 1..(hook[h].event - 1) : j \in processed
  BY <1>0 DEF Trail, InOrder
<1>1. ASSUME NEW h \in Hooks, NEW e \in EventIds, HandleWebhook(h, e) PROVE PlanTold'
  <2>1. e \in 1..Len(events) /\ UNCHANGED <<events, processed, plan>>
    BY <1>1 DEF HandleWebhook
  <2>2. Concerns(events[e])
    BY <1>0, <2>1 DEF Concerns, Trail, CustomersKnown, OneCustomer
  <2>3. hook' = [hook EXCEPT ![h] = [event |-> e, plan |-> plan, mine |-> Concerns(events[e])]]
    BY <1>1 DEF HandleWebhook
  <2>4. (Says(processed, plan))'
    BY <1>a, <2>1 DEF Says, Asks
  <2>5. ASSUME NEW g \in Hooks, hook'[g] # None, hook'[g].event \notin processed'
        PROVE  hook'[g].plan = plan' /\ hook'[g].mine
    <3>1. CASE g = h
      <4>1. hook'[g] = [event |-> e, plan |-> plan, mine |-> Concerns(events[e])]
        BY <2>3, <3>1 DEF Types, TypeOK, BillingTypeOK
      <4>. QED
        BY <2>1, <2>2, <4>1
    <3>2. CASE g # h
      BY <1>a, <2>1, <2>3, <2>5, <3>2
    <3>. QED
      BY <3>1, <3>2
  <2>. QED
    BY <2>4, <2>5 DEF PlanTold
<1>2. ASSUME NEW h \in Hooks, CommitWebhook(h) PROVE PlanTold'
  <2>0. PICK e : e = hook[h].event
    OBVIOUS
  <2>. DEFINE ev == events[e]
  <2>1. /\ hook[h] # None /\ e \notin processed /\ e \in 1..Len(events) /\ UNCHANGED events
        /\ processed' = processed \cup {e} /\ hook' = [hook EXCEPT ![h] = None]
    BY <1>2, <2>0 DEF CommitWebhook, Types, KnownEvents
  <2>2. hook[h].mine /\ hook[h].plan = plan
    BY <1>a, <2>0, <2>1
  <2>3. plan' = IF AskedPlan(ev) \in {{}, {plan}} THEN plan ELSE ev.plan
    BY <1>2, <2>0, <2>2 DEF CommitWebhook
  <2>4. \A k \in processed : ~(k > e)
    BY <1>0, <1>b, <2>0, <2>1
  <2>5. \A k : Asks(k)' <=> Asks(k)
    BY <2>1 DEF Asks
  <2>6. ASSUME Asks(e) PROVE (Says(processed, plan))'
    <3>1. AskedPlan(ev) = {ev.plan}
      BY <2>6 DEF Asks, AskedPlan
    <3>2. plan' = ev.plan
      BY <2>3, <3>1
    <3>3. e \in processed' /\ events'[e].plan = plan' /\ Asks(e)' /\ \A k \in processed' : k > e => ~Asks(k)'
      BY <2>1, <2>4, <2>5, <2>6, <3>2
    <3>. QED
      BY <3>3 DEF Says
  <2>7. ASSUME ~Asks(e) PROVE (Says(processed, plan))'
    <3>1. plan' = plan
      BY <2>3, <2>7 DEF Asks
    <3>. QED
      BY <1>a, <2>1, <2>5, <2>7, <3>1 DEF Says
  <2>8. (Says(processed, plan))'
    BY <2>6, <2>7
  <2>9. ASSUME NEW g \in Hooks, hook'[g] # None, hook'[g].event \notin processed'
        PROVE  FALSE
    <3>1. g # h /\ hook[g] # None /\ hook[g].event \notin processed /\ hook[g].event # e
      BY <2>0, <2>1, <2>9 DEF Types, TypeOK, BillingTypeOK
    <3>2. hook[g].event \in 1..Len(events)
      BY <3>1 DEF Types, KnownEvents
    <3>3. hook[g].event < e \/ e < hook[g].event
      BY <1>0, <2>1, <3>1, <3>2
    <3>. QED
      BY <1>0, <1>b, <2>0, <2>1, <3>1, <3>2, <3>3
  <2>. QED
    BY <2>8, <2>9 DEF PlanTold
<1>3. ASSUME NEW h \in Hooks, WebhookFails(h) PROVE PlanTold'
  <2>1. UNCHANGED <<events, processed, plan>> /\ \A g \in Hooks : hook'[g] = hook[g] \/ hook'[g] = None
    BY <1>3 DEF WebhookFails, Types, TypeOK, BillingTypeOK
  <2>2. (Says(processed, plan))'
    BY <1>a, <2>1 DEF Says, Asks
  <2>. QED
    BY <1>a, <2>1, <2>2 DEF PlanTold
<1>4. ASSUME UNCHANGED <<processed, plan, hook>>, \A e \in processed : events'[e] = events[e] PROVE PlanTold'
  <2>1. (Says(processed, plan))'
    BY <1>4, <1>a, SaysKept
  <2>. QED
    BY <1>4, <1>a, <2>1 DEF PlanTold
<1>5. ASSUME NEW x, Append(events, x) = events' PROVE \A e \in processed : events'[e] = events[e]
  BY <1>0, <1>5
<1>6. ASSUME NEW p \in AllPlans, PatchPlan(p) PROVE FALSE
  BY <1>0, <1>6 DEF PatchPlan
<1>7. CASE StripeNext
  <2>1. UNCHANGED <<processed, plan, hook>>
    BY <1>7 DEF StripeNext, Pay, Change, MissPayment, Cancel
  <2>2. \E x : Append(events, x) = events'
    BY <1>7 DEF StripeNext, Pay, Change, MissPayment, Cancel, Emit
  <2>. QED
    BY <1>4, <1>5, <2>1, <2>2
<1>8. CASE UNCHANGED <<processed, plan, hook, events>>
  BY <1>4, <1>8
<1>. QED
  BY <1>1, <1>2, <1>3, <1>6, <1>7, <1>8 DEF Bill, BillingNext, CreateCustomer, SaveCustomer, Checkout

LEMMA TrailStep == Types /\ Trail /\ [Next]_vars => Trail'
<1>. SUFFICES ASSUME Types, Trail, [Next]_vars PROVE Trail'
  OBVIOUS
<1>1. CASE Bill
  BY <1>1, TrailCustomers, TrailOrder, TrailPaid, TrailPlan DEF Trail
<1>2. CASE UNCHANGED billingVars
  <2>1. CustomersKnown'
    BY <1>2 DEF Trail, billingVars, CustomersKnown
  <2>2. InOrder'
    BY <1>2 DEF Trail, billingVars, InOrder
  <2>3. PaidTold'
    BY <1>2 DEF Trail, billingVars, PaidTold, Says, Asks
  <2>4. PlanTold'
    BY <1>2 DEF Trail, billingVars, PlanTold, Says, Asks, OneCustomer
  <2>. QED
    BY <2>1, <2>2, <2>3, <2>4 DEF Trail
<1>. QED
  BY <1>1, <1>2, Steps DEF vars

LEMMA TrailInit == Init => Trail
BY DEF Init, BillingInit, Trail, CustomersKnown, InOrder, PaidTold, PlanTold, Says

LEMMA TrailTells == Types /\ Trail => PlanIsPaid
<1>. SUFFICES ASSUME Types, Trail, processed = 1..Len(events), ~untidy, patches = 0, Cardinality(customers) = 1
              PROVE  plan = IF DOMAIN paid = {} THEN "free"
                            ELSE (CHOOSE x \in {paid[i].plan : i \in DOMAIN paid} : TRUE)
  BY DEF PlanIsPaid
<1>1. OneCustomer
  <2>1. IsFiniteSet(customers)
    BY MeteringAssumption, FS_Subset DEF Types, TypeOK, BillingTypeOK
  <2>. QED
    BY <2>1, FS_Singleton DEF OneCustomer
<1>2. Says(1..Len(events), plan) /\ 1..Len(events) \in SUBSET Nat
  BY <1>1 DEF Trail, PlanTold
<1>3. CASE DOMAIN paid = {}
  <2>1. Says(1..Len(events), "free")
    BY <1>3 DEF Trail, PaidTold
  <2>. QED
    BY <1>2, <1>3, <2>1, SaysOne
<1>4. CASE DOMAIN paid # {}
  <2>1. PICK i \in DOMAIN paid : Says(1..Len(events), paid[i].plan) /\ \A j \in DOMAIN paid : j = i
    BY <1>4 DEF Trail, PaidTold
  <2>2. plan = paid[i].plan
    BY <1>2, <2>1, SaysOne
  <2>3. {paid[j].plan : j \in DOMAIN paid} = {plan}
    BY <2>1, <2>2
  <2>. QED
    BY <1>4, <2>3
<1>. QED
  BY <1>3, <1>4

\* When every event was handled, each after the ones before it, the workspace has
\* the plan Stripe is paid for: deliveries that repeat, run side by side, fail or
\* write nothing because the plan looks unchanged do not matter.
THEOREM PlanFollowsPayments == Spec => []PlanIsPaid
BY InitTypes, NextTypes, TrailInit, TrailStep, TrailTells, PTL DEF Spec
=============================================================================
