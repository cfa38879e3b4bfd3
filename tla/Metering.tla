------------------------------ MODULE Metering ------------------------------
(***************************************************************************)
(* What a plan allows: the sliding-window rate limiter on Redis              *)
(* (middleware/rate_limiter.py), and the monthly tokens and the stored      *)
(* bytes checked before and recorded after the work                          *)
(* (services/usage_service.py), while Billing changes the plan.  A request  *)
(* works with the tenant row it read to authenticate.                       *)
(***************************************************************************)
EXTENDS Billing, Integers

CONSTANTS
    Slots,      \* requests served at a time
    Visitors,   \* client addresses of the widget
    Rate,       \* PLAN_LIMITS: queries per window
    Tokens,     \*   tokens per month
    Storage,    \*   stored bytes
    DocRate,    \* BUCKET_DEFAULTS["documents"]
    IpRate,     \* WIDGET_PER_IP_LIMIT
    Window,     \* WINDOW_SECONDS
    Cost,       \* bound: tokens of one query
    Size,       \* bound: bytes of one upload
    MaxTime,    \* bound: the clock
    Work        \* bound: requests, checkouts, plan changes, Stripe events and ticks together

Limits == [AllPlans -> Nat]

ASSUME MeteringAssumption ==
    /\ IsFiniteSet(Req) /\ IsFiniteSet(Slots) /\ Slots # {}
    /\ Rate \in Limits /\ Tokens \in Limits /\ Storage \in Limits
    /\ \A p \in AllPlans : Tokens[p] > 0
    /\ {DocRate, IpRate, Window, Cost, Size, MaxTime, Work} \subseteq Nat
    /\ Visitors \cap {"query", "documents"} = {}
    /\ None \notin Visitors

VARIABLES
    now,        \* the clock
    window,     \* Redis: the members of each bucket's sorted set, with their scores
    expires,    \*   and when the key goes
    call,       \* the requests being served
    served,     \* how many have arrived; names the members
    used,       \* usage_events: tokens of this month
    stored,     \*   sum of storage_delta_bytes
    docs,       \* uploaded documents that exist
    held,       \* history: the plans the workspace had
    passed      \* history: what each bucket let through without delay

meterVars == <<now, window, expires, call, served, used, stored, docs, held, passed>>
vars == <<billingVars, meterVars>>

Buckets == {"query", "documents"} \cup Visitors
Times == 0..MaxTime
Member == [at: Times, id: 1..Work]
Check == [bucket: Buckets, limit: Nat]

Idle == [at |-> "idle"]

\* A request: the plan it loaded, the buckets it has yet to pass, and the
\* score and name of the member it is adding.
Calls == [at: {"arrived", "stamped", "admitted", "working", "logged"}, kind: {"query", "upload"},
          plan: AllPlans, checks: Seq(Check), member: Member]

Busy == Cardinality({r \in Req : checkout[r] # "idle"}) + patches + Len(events) + served + now

-----------------------------------------------------------------------------
(* rate_limit                                                               *)

\* The buckets of a request: the workspace's, and the visitor's of the widget.
Checks(kind, v) ==
    IF kind = "upload" THEN <<[bucket |-> "documents", limit |-> DocRate]>>
    ELSE <<[bucket |-> "query", limit |-> Rate[plan]]>>
         \o (IF v = None THEN <<>> ELSE <<[bucket |-> v, limit |-> IpRate]>>)

\* resolve_principal reads the tenant row.
Arrive(c, kind, v) ==
    /\ call[c] = Idle
    /\ Busy < Work
    /\ kind = "upload" => v = None
    /\ served' = served + 1
    /\ call' = [call EXCEPT ![c] = [at |-> "arrived", kind |-> kind, plan |-> plan, checks |-> Checks(kind, v),
                                    member |-> [at |-> now, id |-> served + 1]]]
    /\ UNCHANGED <<now, window, expires, used, stored, docs, held, passed>>

\* time.time(), before the pipeline is sent.
Stamp(c) ==
    /\ call[c] # Idle
    /\ call[c].at = "arrived"
    /\ call' = [call EXCEPT ![c].at = "stamped", ![c].member.at = now]
    /\ UNCHANGED <<now, window, expires, served, used, stored, docs, held, passed>>

Bug_DropsNewest(b, m) == {x \in window[b] : x.at + Window > m.at + 1} \cup {m}

\* What the bucket still counts for a member: zremrangebyscore, then zadd.
Counted(b, m) == {x \in window[b] : x.at + Window > m.at} \cup {m}

\* The pipeline runs as one: remove, add, count, expire.  Above the limit the
\* member stays and the request is rejected.
Pipeline(c) ==
    LET check == Head(call[c].checks)
        b == check.bucket
        m == call[c].member
        admitted == Cardinality(Counted(b, m)) <= check.limit
    IN  /\ call[c] # Idle
        /\ call[c].at = "stamped"
        /\ window' = [window EXCEPT ![b] = Counted(b, m)]
        /\ expires' = [expires EXCEPT ![b] = now + Window]
        /\ call' = [call EXCEPT ![c] =
              IF ~admitted THEN Idle
              ELSE [call[c] EXCEPT !.checks = Tail(@), !.at = IF Len(call[c].checks) > 1 THEN "arrived" ELSE "admitted"]]
        /\ passed' = IF admitted /\ m.at = now THEN [passed EXCEPT ![b] = @ \cup {m}] ELSE passed
        /\ UNCHANGED <<now, served, used, stored, docs, held>>

\* The pipeline ran but its answer is lost: 503.
AnswerLost(c) ==
    LET b == Head(call[c].checks).bucket
    IN  /\ call[c] # Idle
        /\ call[c].at = "stamped"
        /\ window' = [window EXCEPT ![b] = Counted(b, call[c].member)]
        /\ expires' = [expires EXCEPT ![b] = now + Window]
        /\ call' = [call EXCEPT ![c] = Idle]
        /\ UNCHANGED <<now, served, used, stored, docs, held, passed>>

\* Time passes, and Redis drops the keys whose time has come.
Tick ==
    /\ now < MaxTime
    /\ Busy < Work
    /\ now' = now + 1
    /\ window' = [b \in Buckets |-> IF expires[b] <= now + 1 THEN {} ELSE window[b]]
    /\ UNCHANGED <<expires, call, served, used, stored, docs, held, passed>>

-----------------------------------------------------------------------------
(* The usage checks and records.                                            *)

Bug_ChecksNothing(c) == TRUE

\* check_query_limit and check_storage_limit: sums of what is recorded.
Allowed(c) == IF call[c].kind = "query" THEN used < Tokens[call[c].plan]
                                        ELSE stored + Size <= Storage[call[c].plan]

CheckLimit(c) ==
    /\ call[c] # Idle
    /\ call[c].at = "admitted"
    /\ call' = [call EXCEPT ![c] = IF Allowed(c) THEN [@ EXCEPT !.at = "working"] ELSE Idle]
    /\ UNCHANGED <<now, window, expires, served, used, stored, docs, held, passed>>

\* The query log, or the document, is committed ...
CommitLog(c) ==
    /\ call[c] # Idle
    /\ call[c].at = "working"
    /\ call' = [call EXCEPT ![c].at = "logged"]
    /\ docs' = IF call[c].kind = "upload" THEN docs + 1 ELSE docs
    /\ UNCHANGED <<now, window, expires, served, used, stored, held, passed>>

\* ... then what it used, in a transaction of its own.
RecordUsage(c, n) ==
    /\ call[c] # Idle
    /\ call[c].at = "logged"
    /\ IF call[c].kind = "query" THEN n \in 1..Cost /\ used' = used + n /\ UNCHANGED stored
                                 ELSE n = Size /\ stored' = stored + n /\ UNCHANGED used
    /\ call' = [call EXCEPT ![c] = Idle]
    /\ UNCHANGED <<now, window, expires, served, docs, held, passed>>

\* Answered from the cache, failed, or killed.
Leave(c) ==
    /\ call[c] # Idle
    /\ call' = [call EXCEPT ![c] = Idle]
    /\ UNCHANGED <<now, window, expires, served, used, stored, docs, held, passed>>

Bug_DeletesTwice ==
    /\ docs' = docs - 1
    /\ stored' = stored - Size
    /\ UNCHANGED <<now, window, expires, call, served, used, held, passed>>

\* A deletion gives the bytes of its document back, recorded or not.  (A second
\* deletion at the same time gives them back again, see Ingestion: the sum is then
\* lower than here.)
GiveBack ==
    /\ docs > 0
    /\ docs' = docs - 1
    /\ stored' = stored - Size
    /\ UNCHANGED <<now, window, expires, call, served, used, held, passed>>

\* start_of_month
NewMonth ==
    /\ used' = 0
    /\ UNCHANGED <<now, window, expires, call, served, stored, docs, held, passed>>

-----------------------------------------------------------------------------

Init ==
    /\ BillingInit
    /\ now = 0
    /\ window = [b \in Buckets |-> {}]
    /\ expires = [b \in Buckets |-> 0]
    /\ call = [c \in Slots |-> Idle]
    /\ served = 0
    /\ used = 0
    /\ stored = 0
    /\ docs = 0
    /\ held = {"free"}
    /\ passed = [b \in Buckets |-> {}]

MeterNext ==
    \/ \E c \in Slots : \/ \E kind \in {"query", "upload"}, v \in Visitors \cup {None} : Arrive(c, kind, v)
                        \/ Stamp(c)
                        \/ Pipeline(c)
                        \/ AnswerLost(c)
                        \/ CheckLimit(c)
                        \/ CommitLog(c)
                        \/ \E n \in 1..Cost \cup {Size} : RecordUsage(c, n)
                        \/ Leave(c)
    \/ Tick
    \/ GiveBack
    \/ NewMonth

Next ==
    \/ MeterNext /\ UNCHANGED billingVars
    \/ /\ BillingNext
       /\ UNCHANGED <<now, window, expires, call, served, used, stored, docs, passed>>
       /\ held' = held \cup {plan'}
       /\ Busy' <= Work

Spec == Init /\ [][Next]_vars

-----------------------------------------------------------------------------

TypeOK ==
    /\ BillingTypeOK
    /\ now \in Times
    /\ window \in [Buckets -> SUBSET Member]
    /\ expires \in [Buckets -> Nat]
    /\ call \in [Slots -> Calls \cup {Idle}]
    /\ served \in 0..Work
    /\ used \in Nat
    /\ stored \in Int
    /\ docs \in Nat
    /\ held \subseteq AllPlans /\ plan \in held
    /\ passed \in [Buckets -> SUBSET Member]

\* What a bucket may let through: the best of the plans bounds the queries.
WithinRate(ps, b, n) ==
    CASE b = "query" -> \E p \in ps : n <= Rate[p]
      [] b = "documents" -> n <= DocRate
      [] OTHER -> n <= IpRate

\* Whatever the order in which pipelines run, with slow, rejected and failed
\* requests among them and keys that expire, a bucket lets through at most its
\* limit in any window (of the requests whose pipeline ran when they were
\* stamped: a delayed one counts at its stamp).
WindowBound ==
    \A b \in Buckets, t \in Times :
        WithinRate(held, b, Cardinality({m \in passed[b] : m.at <= t /\ t < m.at + Window}))

\* The checks read what is recorded and not what is under way: tokens and
\* bytes exceed the plan by what the requests served at a time add, and never
\* by more, through plan changes, failures and the end of the month.
UsageBounded ==
    \E p \in held, q \in held : /\ used < Tokens[p] + Cost * Cardinality(Slots)
                                /\ stored + Size <= Storage[q] + Size * Cardinality(Slots)
=============================================================================
