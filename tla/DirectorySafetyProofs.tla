----------------------- MODULE DirectorySafetyProofs -----------------------
(***************************************************************************)
(* What people rely on when they sign in, for every number of workspaces,   *)
(* addresses, requests, seed accounts and directory events: required single *)
(* sign-on has a domain, a revocation ends what it overtook, refresh tokens *)
(* rotate one by one, and once its posts are answered the workspace follows *)
(* the directory.  `Good` of DirectorySyncProofs types the state and the    *)
(* open requests.                                                           *)
(***************************************************************************)
EXTENDS DirectorySyncProofs

-----------------------------------------------------------------------------
(* What a step does to the requests.                                       *)

Elsewhere(r) == req[r].op # "done" /\ \A q \in Req \ {r} : req'[q] = req[q]

LEMMA OneRequest ==
    ASSUME Good, [Next]_vars
    PROVE  req' = req \/ \E r \in Req : Elsewhere(r) \/ Sweep(r)
<1>1. CASE UNCHANGED vars \/ WebhookNext \/ \E ev \in Event : DirectoryChange(ev)
  BY <1>1 DEF vars, accountVars, WebhookNext, PostBatch, PostAgain, ReadUser, WriteUser, ApplyGroupEvent,
              Answer, PostFails, DirectoryChange
<1>2. ASSUME NEW r \in Req, AccountsBegin(r)
      PROVE  Elsewhere(r)
  BY <1>2 DEF AccountsBegin, Login, ChangePassword, RemoveTeamMember, ForgotPassword, UpdateTeamRole, UpdateProfile,
              Refresh, ResetPassword, Register, CreateTenant, AcceptInvite, InviteMember, PatchTenant, Starts, Idle,
              BeginRevoker, BeginCreate, Finish, Elsewhere, Good, TypeOK
<1>3. ASSUME NEW r \in Req, AccountsCommit(r)
      PROVE  Elsewhere(r) \/ Sweep(r)
  BY <1>3 DEF AccountsCommit, IssueAuthResponse, Rotate, CommitPassword, CommitRemove, CommitCreate, CommitSignup,
              CommitProfile, Abort, Refuse, Pending, Finish, Elsewhere, Good, TypeOK
<1>4. ASSUME NEW r \in Req, SsoBegin(r)
      PROVE  Elsewhere(r)
  BY <1>4 DEF SsoBegin, SsoStart, CreateConnection, DeleteConnection, SetDomains, Starts, Idle, Finish, Elsewhere,
              Good, TypeOK
<1>5. ASSUME NEW r \in Req, SsoCommit(r)
      PROVE  Elsewhere(r)
  BY <1>5 DEF SsoCommit, SsoCallback, PolisDelete, CommitDisconnect, FinishDelete, LoadTenant, CommitDomains, Refuse,
              BeginCreate, Pending, Finish, Elsewhere, Good, TypeOK
<1>6. ASSUME NEW r \in Req, NEW u \in RowIds, AddMember(r, u) \/ RemoveMember(r, u)
      PROVE  Elsewhere(r)
  BY <1>6 DEF AddMember, RemoveMember, MembersEdited, Starts, Idle, Finish, Elsewhere, Good, TypeOK
<1>. QED
  BY <1>1, <1>2, <1>3, <1>4, <1>5, <1>6 DEF Next

\* A request that has ended stays as it ended.
LEMMA DoneStays ==
    ASSUME Good, [Next]_vars, NEW q \in Req, req[q].op = "done"
    PROVE  req'[q] = req[q]
<1>1. ASSUME NEW r \in Req, Sweep(r)
      PROVE  req'[q] = req[q]
  BY <1>1 DEF Sweep
<1>. QED
  BY SMTT(30), <1>1, OneRequest DEF Elsewhere

-----------------------------------------------------------------------------
(* Required single sign-on.  A claim names the ended request that inserted  *)
(* it, and the rows a request to replace the domains has selected are its   *)
(* own workspace's.  Once its DELETE is through, it holds them: they are    *)
(* still there, and nobody else holds them.  So a request that will leave   *)
(* the switch alone, because it saw it off, cannot take the last domain     *)
(* from a workspace that has switched it on since.                          *)

Holds(r) == req[r].op = "domains" /\ req[r].phase # "deleting"

GoneOf(r) == {x[1] : x \in req[r].rows}

Unaware(r, t) == /\ req[r].op = "domains"
                 /\ req[r].phase = "loaded"
                 /\ ~req[r].loaded
                 /\ req[r].tenant = t

ClaimsDone == \A d \in Domains : claims[d] \in Claim => req[claims[d].by].op = "done"

RowsOwn == \A r \in Req : req[r].op = "domains" =>
              \A x \in req[r].rows :
                 /\ req[x[2]].op = "done"
                 /\ (claims[x[1]] \in Claim /\ claims[x[1]].by = x[2]) => claims[x[1]].tenant = req[r].tenant

RowsHeld == \A r \in Req : Holds(r) =>
               \A x \in req[r].rows : claims[x[1]] = [tenant |-> req[r].tenant, by |-> x[2]]

RowsApart == \A r, q \in Req : (r # q /\ Holds(r) /\ Holds(q)) => req[r].rows \cap req[q].rows = {}

Secured == \A t \in Tenants : enforced[t] =>
              \E d \in ClaimedBy(t) : \A r \in Req : Unaware(r, t) => d \notin GoneOf(r)

DomainsGood == ClaimsDone /\ RowsOwn /\ RowsHeld /\ RowsApart /\ Secured

DomainStep(r) ==
    \/ \E t \in Tenants, D \in SUBSET Domains, enf \in BOOLEAN : SetDomains(r, t, D, enf)
    \/ CommitDisconnect(r)
    \/ FinishDelete(r)
    \/ LoadTenant(r)
    \/ CommitDomains(r) /\ ~Refuse(r)

\* A revocation that selects the tokens changes its own request and those that
\* are issuing a token.
LEMMA SweepRequests ==
    ASSUME Good, NEW r \in Req, Sweep(r), NEW q \in Req, req'[q] # req[q]
    PROVE  req'[q].op \in {"login", "rotate", "reset", "change", "remove"}
<1>1. req[q] \in RequestState
  BY DEF Good, TypeOK
<1>2. CASE q = r
  <2>1. req[r] \in RevokeReq /\ req[r].op \in {"reset", "change", "remove"}
    BY ZenonT(40), <1>1, <1>2, RequestKinds DEF Sweep
  <2>. DEFINE live == {k \in TokenIds : sessions[k] # None /\ sessions[k].user = req[r].user /\ sessions[k].live}
  <2>2. req'[r] = [req[r] EXCEPT !.phase = "swept", !.swept = live]
    BY DEF Sweep
  <2>. HIDE DEF live
  <2>. QED
    BY SMTT(30), <1>2, <2>1, <2>2 DEF RevokeReq
<1>3. CASE q # r
  <2>1. req[q].op \in {"login", "rotate"} /\ req'[q] = [req[q] EXCEPT !.late = TRUE]
    BY <1>3 DEF Sweep
  <2>2. req[q] \in LoginReq \cup RotateReq
    BY <1>1, <2>1, RequestKinds
  <2>. QED
    BY SMTT(30), <2>1, <2>2 DEF LoginReq, RotateReq
<1>. QED
  BY <1>2, <1>3

\* Every other step leaves claims, switch and the requests to replace domains.
LEMMA OtherSteps ==
    ASSUME Good, [Next]_vars, \A r \in Req : ~DomainStep(r)
    PROVE  UNCHANGED <<claims, enforced>> /\ \A q \in Req : req'[q] = req[q] \/ req'[q].op # "domains"
<1>1. CASE UNCHANGED vars \/ WebhookNext \/ \E ev \in Event : DirectoryChange(ev)
  BY <1>1 DEF vars, accountVars, ssoVars, WebhookNext, PostBatch, PostAgain, ReadUser, WriteUser, ApplyGroupEvent,
              Answer, PostFails, DirectoryChange
<1>2. ASSUME NEW r \in Req, AccountsBegin(r), UNCHANGED <<ssoVars, feedVars>>
      PROVE  UNCHANGED <<claims, enforced>> /\ \A q \in Req : req'[q] = req[q] \/ req'[q].op # "domains"
  BY <1>2 DEF AccountsBegin, Login, ChangePassword, RemoveTeamMember, ForgotPassword, UpdateTeamRole, UpdateProfile,
              Refresh, ResetPassword, Register, CreateTenant, AcceptInvite, InviteMember, PatchTenant,
              BeginRevoker, BeginCreate, Finish, Done, Good, TypeOK, ssoVars
<1>3. ASSUME NEW r \in Req, AccountsCommit(r), ~Sweep(r), UNCHANGED <<ssoVars, feedVars>>
      PROVE  UNCHANGED <<claims, enforced>> /\ \A q \in Req : req'[q] = req[q] \/ req'[q].op # "domains"
  <2>1. \A did, u : Finish(r, did, u) =>
           \A q \in Req : req'[q] = req[q] \/ req'[q].op # "domains"
    BY DEF Finish, Done, Good, TypeOK
  <2>2. CASE CommitSignup(r)
    BY <1>3, <2>2 DEF CommitSignup, Good, TypeOK, ssoVars
  <2>. QED
    BY <1>3, <2>1, <2>2 DEF AccountsCommit, IssueAuthResponse, Rotate, CommitPassword, CommitRemove, CommitCreate,
                            CommitProfile, Abort, Refuse, ssoVars
<1>4. ASSUME NEW r \in Req, Sweep(r), UNCHANGED <<ssoVars, feedVars>>
      PROVE  UNCHANGED <<claims, enforced>> /\ \A q \in Req : req'[q] = req[q] \/ req'[q].op # "domains"
  BY <1>4, SweepRequests DEF Sweep, ssoVars
<1>5. ASSUME NEW r \in Req, SsoBegin(r)
      PROVE  UNCHANGED <<claims, enforced>> /\ \A q \in Req : req'[q] = req[q] \/ req'[q].op # "domains"
  <2>1. PICK t \in Tenants : SsoStart(r, t) \/ CreateConnection(r, t) \/ DeleteConnection(r, t)
    BY <1>5 DEF SsoBegin, DomainStep
  <2>. QED
    BY <2>1 DEF SsoStart, CreateConnection, DeleteConnection, Finish, Done, Good, TypeOK, ssoVars
<1>6. ASSUME NEW r \in Req, SsoCommit(r)
      PROVE  UNCHANGED <<claims, enforced>> /\ \A q \in Req : req'[q] = req[q] \/ req'[q].op # "domains"
  <2>1. CASE PolisDelete(r)
    <3>1. req[r] \in DisconnectReq
      BY <2>1, RequestKinds DEF PolisDelete, Pending, Good, TypeOK
    <3>. QED
      BY <2>1, <3>1 DEF PolisDelete, DisconnectReq, Good, TypeOK
  <2>2. CASE \E e \in Emails : SsoCallback(r, e)
    BY <2>2 DEF SsoCallback, BeginCreate, Good, TypeOK, ssoVars
  <2>3. CASE CommitDomains(r) /\ Refuse(r)
    <3>1. UNCHANGED enforced /\ Finish(r, "nothing", None)
      BY <2>3 DEF Refuse
    <3>2. req'[r] = Done("nothing", None) /\ \A q \in Req \ {r} : req'[q] = req[q]
      BY <3>1 DEF Finish, Good, TypeOK
    <3>3. ~Finish(r, "domains", None)
      BY <3>2 DEF Finish, Done, Good, TypeOK
    <3>4. UNCHANGED claims
      BY <2>3, <3>3 DEF CommitDomains
    <3>. QED
      BY <3>1, <3>2, <3>4 DEF Done
  <2>. QED
    BY <1>6, <2>1, <2>2, <2>3 DEF SsoCommit, DomainStep
<1>7. ASSUME NEW r \in Req, NEW u \in RowIds, AddMember(r, u) \/ RemoveMember(r, u)
      PROVE  UNCHANGED <<claims, enforced>> /\ \A q \in Req : req'[q] = req[q] \/ req'[q].op # "domains"
  BY <1>7 DEF AddMember, RemoveMember, MembersEdited, Finish, Done, Good, TypeOK, ssoVars
<1>. QED
  BY <1>1, <1>2, <1>3, <1>4, <1>5, <1>6, <1>7 DEF Next

LEMMA DomainsInit == ASSUME Init PROVE DomainsGood
<1>1. /\ \A d \in Domains : claims[d] = None
      /\ \A r \in Req : req[r].op = "idle"
      /\ \A t \in Tenants : ~enforced[t]
  BY DEF Init, AccountsInit, Idle
<1>. QED
  BY <1>1, DirectoryAssumption
  DEF DomainsGood, ClaimsDone, RowsOwn, RowsHeld, RowsApart, Secured, Holds

LEMMA OtherDomains ==
    ASSUME Good, DomainsGood, [Next]_vars, UNCHANGED claims, \A t \in Tenants : enforced'[t] => enforced[t],
           \A q \in Req : req'[q] = req[q] \/ req'[q].op # "domains"
    PROVE  DomainsGood'
<1>1. \A q \in Req : req[q].op = "done" => req'[q].op = "done"
  BY DoneStays
<1>2. ASSUME NEW r \in Req, req'[r].op = "domains"
      PROVE  /\ req'[r] = req[r] /\ req[r] \in DomainsReq
             /\ \A x \in req[r].rows : x[1] \in Domains /\ x[2] \in Req
  BY <1>2, RequestKinds DEF Good, TypeOK, DomainsReq
<1>3. ClaimsDone'
  BY <1>1 DEF DomainsGood, ClaimsDone, Claim
<1>4. RowsOwn'
  BY <1>1, <1>2 DEF DomainsGood, RowsOwn
<1>5. RowsHeld'
  BY <1>2 DEF DomainsGood, RowsHeld, Holds
<1>6. RowsApart'
  BY <1>2 DEF DomainsGood, RowsApart, Holds
<1>7. Secured'
  BY <1>2 DEF DomainsGood, Secured, Unaware, GoneOf, ClaimedBy
<1>. QED
  BY <1>3, <1>4, <1>5, <1>6, <1>7 DEF DomainsGood

\* The rows of one request change and nothing else.
LEMMA RowsStep ==
    ASSUME Good, DomainsGood, [Next]_vars, NEW r \in Req, NEW s \in DomainsReq, req' = [req EXCEPT ![r] = s],
           UNCHANGED <<claims, enforced>>,
           \A x \in s.rows :
              /\ req[x[2]].op = "done"
              /\ (claims[x[1]] \in Claim /\ claims[x[1]].by = x[2]) => claims[x[1]].tenant = s.tenant,
           s.phase # "deleting" =>
              /\ \A x \in s.rows : claims[x[1]] = [tenant |-> s.tenant, by |-> x[2]]
              /\ \A q \in Req \ {r} : Holds(q) => req[q].rows \cap s.rows = {},
           s.phase = "loaded" => s.loaded = enforced[s.tenant]
    PROVE  DomainsGood'
<1>1. /\ req'[r] = s /\ s.op = "domains" /\ \A q \in Req \ {r} : req'[q] = req[q]
      /\ \A x \in s.rows : x[1] \in Domains /\ x[2] \in Req
  BY DEF Good, TypeOK, DomainsReq
<1>2. \A q \in Req : req[q].op = "done" => req'[q].op = "done"
  BY DoneStays
<1>3. \A q \in Req : req[q].op = "domains" => \A x \in req[q].rows : x[1] \in Domains /\ x[2] \in Req
  BY RequestKinds DEF Good, TypeOK, DomainsReq
<1>4. ClaimsDone'
  BY <1>2 DEF DomainsGood, ClaimsDone, Claim
<1>5. RowsOwn'
  <2>1. ASSUME NEW q \in Req, req'[q].op = "domains", NEW x \in req'[q].rows
        PROVE  /\ req'[x[2]].op = "done"
               /\ (claims[x[1]] \in Claim /\ claims[x[1]].by = x[2]) => claims[x[1]].tenant = req'[q].tenant
    <3>1. CASE q = r
      BY <1>1, <1>2, <2>1, <3>1
    <3>2. CASE q # r
      BY <1>1, <1>2, <1>3, <2>1, <3>2 DEF DomainsGood, RowsOwn
    <3>. QED
      BY <3>1, <3>2
  <2>. QED
    BY <2>1 DEF RowsOwn
<1>6. RowsHeld'
  BY <1>1 DEF DomainsGood, RowsHeld, Holds
<1>7. RowsApart'
  BY <1>1 DEF DomainsGood, RowsApart, Holds
<1>8. Secured'
  <2>1. ASSUME NEW t \in Tenants, enforced[t]
        PROVE  \E d \in ClaimedBy(t) : \A q \in Req : Unaware(q, t)' => d \notin GoneOf(q)'
    <3>1. PICK d \in ClaimedBy(t) : \A q \in Req : Unaware(q, t) => d \notin GoneOf(q)
      BY <2>1 DEF DomainsGood, Secured
    <3>2. ~Unaware(r, t)'
      BY <1>1, <2>1 DEF Unaware
    <3>3. ASSUME NEW q \in Req \ {r}
          PROVE  Unaware(q, t)' = Unaware(q, t) /\ GoneOf(q)' = GoneOf(q)
      BY <1>1 DEF Unaware, GoneOf
    <3>. QED
      BY <3>1, <3>2, <3>3
  <2>. QED
    BY <2>1 DEF Secured, ClaimedBy
<1>. QED
  BY <1>4, <1>5, <1>6, <1>7, <1>8 DEF DomainsGood

LEMMA SetDomainsKeeps ==
    ASSUME Good, DomainsGood, [Next]_vars, NEW r \in Req, NEW t \in Tenants, NEW D \in SUBSET Domains,
           NEW enf \in BOOLEAN, SetDomains(r, t, D, enf)
    PROVE  DomainsGood'
<1>. DEFINE rows == {<<d, claims[d].by>> : d \in ClaimedBy(t)}
            s == [op |-> "domains", user |-> None, tenant |-> t, wanted |-> D, enf |-> enf, loaded |-> FALSE,
                  rows |-> rows, phase |-> "deleting"]
<1>1. \A d \in ClaimedBy(t) : d \in Domains /\ claims[d] \in Claim /\ claims[d].tenant = t
  BY DEF ClaimedBy, Good, TypeOK
<1>2. rows \subseteq Domains \X Req
  BY <1>1 DEF Claim
<1>3. s \in DomainsReq
  BY <1>2 DEF DomainsReq
<1>4. ASSUME NEW x \in rows
      PROVE  req[x[2]].op = "done" /\ claims[x[1]].tenant = t
  BY <1>1, <1>4 DEF DomainsGood, ClaimsDone
<1>5. req' = [req EXCEPT ![r] = s] /\ UNCHANGED <<claims, enforced>>
  BY DEF SetDomains, ssoVars
<1>6. s.rows = rows /\ s.tenant = t /\ s.phase = "deleting"
  OBVIOUS
<1>. HIDE DEF s, rows
<1>. QED
  BY <1>3, <1>4, <1>5, <1>6, RowsStep

LEMMA FinishDeleteKeeps ==
    ASSUME Good, DomainsGood, [Next]_vars, NEW r \in Req, FinishDelete(r)
    PROVE  DomainsGood'
<1>. DEFINE rows == {x \in req[r].rows : claims[x[1]] # None /\ claims[x[1]].by = x[2]}
            s == [req[r] EXCEPT !.phase = "deleted", !.rows = rows]
<1>1. req[r] \in DomainsReq /\ req[r].op = "domains" /\ req[r].rows \subseteq Domains \X Req
  BY RequestKinds DEF FinishDelete, Pending, Good, TypeOK, DomainsReq
<1>2. rows \in SUBSET (Domains \X Req) /\ rows \subseteq req[r].rows
  BY <1>1
<1>3. req' = [req EXCEPT ![r] = s] /\ UNCHANGED <<claims, enforced>>
  BY DEF FinishDelete, ssoVars
<1>4. ASSUME NEW x \in rows
      PROVE  req[x[2]].op = "done" /\ claims[x[1]] = [tenant |-> req[r].tenant, by |-> x[2]]
  <2>1. x \in req[r].rows /\ claims[x[1]] \in Claim /\ claims[x[1]].by = x[2]
    BY <1>1, <1>4 DEF Good, TypeOK
  <2>. QED
    BY <1>1, <2>1 DEF DomainsGood, RowsOwn, Claim
<1>5. \A q \in Req \ {r} : Holds(q) => req[q].rows \cap rows = {}
  BY <1>2 DEF FinishDelete, Holds, Pending
<1>6. s \in DomainsReq /\ s.rows = rows /\ s.phase = "deleted" /\ s.tenant = req[r].tenant
  <2>. HIDE DEF rows
  <2>. QED
    BY <1>1, <1>2 DEF DomainsReq
<1>. HIDE DEF s, rows
<1>7. \A x \in s.rows :
         /\ req[x[2]].op = "done"
         /\ (claims[x[1]] \in Claim /\ claims[x[1]].by = x[2]) => claims[x[1]].tenant = s.tenant
  <2>1. ASSUME NEW x \in s.rows
        PROVE  req[x[2]].op = "done" /\ claims[x[1]].tenant = s.tenant
    <3>1. /\ req[x[2]].op = "done" /\ claims[x[1]] = [tenant |-> req[r].tenant, by |-> x[2]]
          /\ s.tenant = req[r].tenant
      BY <1>4, <1>6
    <3>2. claims[x[1]].tenant = req[r].tenant
      BY <3>1
    <3>. QED
      BY <3>1, <3>2
  <2>. QED
    BY <2>1
<1>8. s.phase # "deleting" =>
         /\ \A x \in s.rows : claims[x[1]] = [tenant |-> s.tenant, by |-> x[2]]
         /\ \A q \in Req \ {r} : Holds(q) => req[q].rows \cap s.rows = {}
  BY <1>4, <1>5, <1>6
<1>9. s.phase = "loaded" => s.loaded = enforced[s.tenant]
  BY <1>6
<1>. QED
  BY <1>3, <1>6, <1>7, <1>8, <1>9, RowsStep

LEMMA LoadTenantKeeps ==
    ASSUME Good, DomainsGood, [Next]_vars, NEW r \in Req, LoadTenant(r)
    PROVE  DomainsGood'
<1>. DEFINE t == req[r].tenant
            s == [req[r] EXCEPT !.phase = "loaded", !.loaded = enforced[t]]
<1>1. req[r] \in DomainsReq /\ req[r].op = "domains" /\ t \in Tenants /\ Holds(r)
  BY RequestKinds DEF LoadTenant, Pending, Good, TypeOK, DomainsReq, Holds
<1>2. enforced[t] \in BOOLEAN
  BY <1>1 DEF Good, TypeOK
<1>3. req' = [req EXCEPT ![r] = s] /\ UNCHANGED <<claims, enforced>>
  BY DEF LoadTenant, ssoVars
<1>4. /\ s \in DomainsReq /\ s.rows = req[r].rows /\ s.phase = "loaded" /\ s.tenant = t
      /\ s.loaded = enforced[t]
  BY <1>1, <1>2 DEF DomainsReq
<1>5. \A x \in req[r].rows : /\ req[x[2]].op = "done"
                             /\ claims[x[1]] = [tenant |-> t, by |-> x[2]]
  BY <1>1 DEF DomainsGood, RowsOwn, RowsHeld
<1>6. \A q \in Req \ {r} : Holds(q) => req[q].rows \cap req[r].rows = {}
  BY <1>1 DEF DomainsGood, RowsApart
<1>. HIDE DEF s
<1>7. \A x \in s.rows :
         /\ req[x[2]].op = "done"
         /\ (claims[x[1]] \in Claim /\ claims[x[1]].by = x[2]) => claims[x[1]].tenant = s.tenant
  <2>1. ASSUME NEW x \in s.rows
        PROVE  req[x[2]].op = "done" /\ claims[x[1]].tenant = s.tenant
    <3>1. /\ req[x[2]].op = "done" /\ claims[x[1]] = [tenant |-> t, by |-> x[2]]
          /\ s.tenant = t
      BY <1>4, <1>5
    <3>2. claims[x[1]].tenant = t
      BY <3>1
    <3>. QED
      BY <3>1, <3>2
  <2>. QED
    BY <2>1
<1>8. s.phase # "deleting" =>
         /\ \A x \in s.rows : claims[x[1]] = [tenant |-> s.tenant, by |-> x[2]]
         /\ \A q \in Req \ {r} : Holds(q) => req[q].rows \cap s.rows = {}
  BY <1>4, <1>5, <1>6
<1>9. s.phase = "loaded" => s.loaded = enforced[s.tenant]
  BY <1>4
<1>. QED
  BY <1>3, <1>4, <1>7, <1>8, <1>9, RowsStep

LEMMA CommitDisconnectKeeps ==
    ASSUME Good, DomainsGood, [Next]_vars, NEW r \in Req, CommitDisconnect(r)
    PROVE  DomainsGood'
<1>1. req[r] \in DisconnectReq
  BY RequestKinds DEF CommitDisconnect, Pending, Good, TypeOK
<1>2. \A t \in Tenants : enforced'[t] => enforced[t]
  BY <1>1 DEF CommitDisconnect, DisconnectReq, Good, TypeOK
<1>3. \A q \in Req : req'[q] = req[q] \/ req'[q].op # "domains"
  BY DEF CommitDisconnect, Finish, Done, Good, TypeOK
<1>4. UNCHANGED claims
  BY DEF CommitDisconnect, ssoVars
<1>. QED
  BY <1>2, <1>3, <1>4, OtherDomains

LEMMA CommitDomainsKeeps ==
    ASSUME Good, DomainsGood, [Next]_vars, NEW r \in Req, CommitDomains(r), ~Refuse(r)
    PROVE  DomainsGood'
<1>. DEFINE t == req[r].tenant
            wanted == req[r].wanted
            gone == GoneOf(r)
            enf == req[r].enf /\ wanted # {}
            mine == [tenant |-> t, by |-> r]
<1>1. /\ req[r] \in DomainsReq /\ req[r].op = "domains" /\ req[r].phase = "loaded" /\ Holds(r)
      /\ t \in Tenants /\ wanted \subseteq Domains /\ enf \in BOOLEAN /\ req[r].loaded \in BOOLEAN
  BY RequestKinds DEF CommitDomains, Pending, Good, TypeOK, DomainsReq, Holds
<1>2. /\ \A d \in wanted \ gone : claims[d] = None
      /\ claims' = [d \in Domains |-> IF d \in wanted THEN mine ELSE IF d \in gone THEN None ELSE claims[d]]
      /\ enforced' = IF enf # req[r].loaded THEN [enforced EXCEPT ![t] = enf] ELSE enforced
      /\ Finish(r, "domains", None)
  BY DEF CommitDomains, GoneOf
<1>3. req'[r].op = "done" /\ \A q \in Req \ {r} : req'[q] = req[q]
  BY <1>2 DEF Finish, Done, Good, TypeOK
<1>4. \A q \in Req : req[q].op = "done" => req'[q].op = "done"
  BY DoneStays
<1>5. ASSUME NEW q \in Req, req[q].op = "domains", NEW x \in req[q].rows
      PROVE  /\ x[1] \in Domains /\ x[2] \in Req /\ x = <<x[1], x[2]>>
             /\ req[x[2]].op = "done"
             /\ Holds(q) => /\ claims[x[1]] \in Claim
                            /\ claims[x[1]].tenant = req[q].tenant
                            /\ claims[x[1]].by = x[2]
  <2>1. x \in Domains \X Req /\ req[q].tenant \in Tenants
    BY <1>5, RequestKinds DEF Good, TypeOK, DomainsReq
  <2>2. Holds(q) => claims[x[1]] = [tenant |-> req[q].tenant, by |-> x[2]]
    BY <1>5 DEF DomainsGood, RowsHeld
  <2>3. [tenant |-> req[q].tenant, by |-> x[2]] \in Claim
    BY <2>1 DEF Claim
  <2>. QED
    BY <1>5, <2>1, <2>2, <2>3 DEF DomainsGood, RowsOwn
<1>6. ASSUME NEW d \in gone
      PROVE  claims[d].tenant = t /\ <<d, claims[d].by>> \in req[r].rows
  BY <1>1, <1>5, <1>6 DEF GoneOf
<1>7. ASSUME NEW q \in Req \ {r}, Holds(q), NEW x \in req[q].rows
      PROVE  x[1] \notin gone /\ x[1] \notin wanted
  <2>1. x[1] \in Domains /\ x = <<x[1], x[2]>> /\ claims[x[1]] \in Claim /\ claims[x[1]].by = x[2]
    BY <1>5, <1>7 DEF Holds
  <2>2. x \notin req[r].rows
    BY <1>1, <1>7 DEF DomainsGood, RowsApart
  <2>3. x[1] \notin gone
    BY <1>6, <2>1, <2>2
  <2>. QED
    BY <1>2, <2>1, <2>3, DirectoryAssumption
<1>8. ClaimsDone'
  <2>1. ASSUME NEW d \in Domains, claims'[d] \in Claim
        PROVE  req'[claims'[d].by].op = "done"
    <3>1. CASE d \in wanted
      BY <1>2, <1>3, <2>1, <3>1
    <3>2. CASE d \notin wanted
      <4>1. claims'[d] = claims[d]
        BY <1>2, <2>1, <3>2, DirectoryAssumption
      <4>2. claims[d] \in Claim /\ claims[d].by \in Req
        BY <2>1, <4>1 DEF Claim
      <4>. QED
        BY <1>4, <4>1, <4>2 DEF DomainsGood, ClaimsDone
    <3>. QED
      BY <3>1, <3>2
  <2>. QED
    BY <2>1 DEF ClaimsDone
<1>9. RowsOwn'
  <2>1. ASSUME NEW q \in Req, req'[q].op = "domains", NEW x \in req'[q].rows
        PROVE  /\ req'[x[2]].op = "done"
               /\ (claims'[x[1]] \in Claim /\ claims'[x[1]].by = x[2]) => claims'[x[1]].tenant = req'[q].tenant
    <3>1. q # r /\ req'[q] = req[q] /\ req[q].op = "domains"
      BY <1>3, <2>1
    <3>2. x[1] \in Domains /\ x[2] \in Req /\ req[x[2]].op = "done"
      BY <1>5, <2>1, <3>1
    <3>3. CASE x[1] \in wanted
      <4>1. claims'[x[1]].by = r
        BY <1>2, <3>2, <3>3
      <4>. QED
        BY <1>1, <1>4, <3>2, <4>1
    <3>4. CASE x[1] \notin wanted
      <4>1. claims'[x[1]] = None \/ claims'[x[1]] = claims[x[1]]
        BY <1>2, <3>2, <3>4
      <4>. QED
        BY <1>4, <2>1, <3>1, <3>2, <4>1, DirectoryAssumption DEF DomainsGood, RowsOwn
    <3>. QED
      BY <3>3, <3>4
  <2>. QED
    BY <2>1 DEF RowsOwn
<1>10. RowsHeld'
  <2>1. ASSUME NEW q \in Req, Holds(q)', NEW x \in req'[q].rows
        PROVE  claims'[x[1]] = [tenant |-> req'[q].tenant, by |-> x[2]]
    <3>1. q # r /\ req'[q] = req[q] /\ Holds(q)
      BY <1>3, <2>1 DEF Holds
    <3>2. claims'[x[1]] = claims[x[1]]
      BY <1>2, <1>5, <1>7, <2>1, <3>1 DEF Holds
    <3>. QED
      BY <2>1, <3>1, <3>2 DEF DomainsGood, RowsHeld
  <2>. QED
    BY <2>1 DEF RowsHeld
<1>11. RowsApart'
  BY <1>3 DEF DomainsGood, RowsApart, Holds
<1>12. ASSUME NEW q \in Req, NEW s \in Tenants, Unaware(q, s)'
       PROVE  q # r /\ Unaware(q, s) /\ Holds(q) /\ GoneOf(q)' = GoneOf(q)
  BY <1>3, <1>12 DEF Unaware, Holds, GoneOf
<1>13. Secured'
  <2>1. ASSUME NEW s \in Tenants, enforced'[s], NEW d \in ClaimedBy(s)',
               \A q \in Req : Unaware(q, s)' => d \notin GoneOf(q)
        PROVE  \E c \in ClaimedBy(s)' : \A q \in Req : Unaware(q, s)' => c \notin GoneOf(q)'
    BY <1>12, <2>1
  <2>2. ASSUME NEW s \in Tenants, enforced'[s]
        PROVE  \E c \in ClaimedBy(s)' : \A q \in Req : Unaware(q, s)' => c \notin GoneOf(q)'
    <3>1. CASE s = t /\ enf
      <4>1. PICK d \in wanted : TRUE
        BY <3>1
      <4>2. claims'[d] = mine /\ mine \in Claim /\ mine.tenant = s
        BY <1>1, <1>2, <3>1, <4>1 DEF Claim
      <4>3. d \in ClaimedBy(s)'
        BY <1>1, <4>1, <4>2, DirectoryAssumption DEF ClaimedBy
      <4>4. ASSUME NEW q \in Req, Unaware(q, s)'
            PROVE  d \notin GoneOf(q)
        BY <1>7, <1>12, <4>1, <4>4 DEF GoneOf
      <4>. QED
        BY <2>1, <2>2, <4>3, <4>4
    <3>2. CASE ~(s = t /\ enf)
      <4>1. enforced[s] /\ (s = t => Unaware(r, s))
        <5>1. CASE s = t
          BY <1>1, <1>2, <2>2, <3>2, <5>1 DEF Unaware, Good, TypeOK
        <5>2. CASE s # t
          BY <1>1, <1>2, <2>2, <5>2 DEF Good, TypeOK
        <5>. QED
          BY <5>1, <5>2
      <4>2. PICK d \in ClaimedBy(s) : \A q \in Req : Unaware(q, s) => d \notin GoneOf(q)
        BY <4>1 DEF DomainsGood, Secured
      <4>3. d \in Domains /\ claims[d] # None /\ claims[d].tenant = s
        BY DEF ClaimedBy
      <4>4. d \notin gone
        BY <1>6, <4>1, <4>2, <4>3
      <4>5. claims'[d] # None /\ claims'[d].tenant = s
        <5>1. CASE d \in wanted
          BY <1>2, <4>3, <4>4, <5>1
        <5>2. CASE d \notin wanted
          BY <1>2, <4>3, <4>4, <5>2
        <5>. QED
          BY <5>1, <5>2
      <4>6. d \in ClaimedBy(s)'
        BY <4>3, <4>5 DEF ClaimedBy
      <4>7. \A q \in Req : Unaware(q, s)' => d \notin GoneOf(q)
        BY <1>12, <4>2
      <4>. QED
        BY <2>1, <2>2, <4>6, <4>7
    <3>. QED
      BY <3>1, <3>2
  <2>. QED
    BY <2>2 DEF Secured
<1>. QED
  BY <1>8, <1>9, <1>10, <1>11, <1>13 DEF DomainsGood

LEMMA DomainsAlwaysGood == Spec => []DomainsGood
<1>1. Init => DomainsGood
  BY DomainsInit
<1>2. ASSUME Good, DomainsGood, [Next]_vars
      PROVE  DomainsGood'
  <2>1. CASE \A r \in Req : ~DomainStep(r)
    BY <1>2, <2>1, OtherSteps, OtherDomains
  <2>2. ASSUME NEW r \in Req, DomainStep(r)
        PROVE  DomainsGood'
    BY <1>2, <2>2, SetDomainsKeeps, CommitDisconnectKeeps, FinishDeleteKeeps, LoadTenantKeeps, CommitDomainsKeeps
    DEF DomainStep
  <2>. QED
    BY <2>1, <2>2
<1>. QED
  BY <1>1, <1>2, AlwaysGood, PTL DEF Spec

-----------------------------------------------------------------------------
(* The connection behind the requirement.  A request that deletes it and    *)
(* saw the switch off will leave the switch alone; while one is open, a     *)
(* workspace that requires single sign-on is one where set_domains has      *)
(* switched it on without looking.                                          *)

Heedless(r, t) == req[r].op = "disconnect" /\ ~req[r].loaded /\ req[r].tenant = t

WayIn == \A t \in Tenants : enforced[t] => t \in idp \cup halfway \cup blind

Watched == \A t \in Tenants : enforced[t] => \A r \in Req : Heedless(r, t) => t \in blind

WayGood == WayIn /\ Watched

WayStep(r) ==
    \/ \E t \in Tenants : CreateConnection(r, t) \/ DeleteConnection(r, t)
    \/ PolisDelete(r)
    \/ CommitDisconnect(r)
    \/ CommitDomains(r) /\ ~Refuse(r)

WayVars == <<enforced, idp, halfway, blind>>

WaySame == UNCHANGED WayVars /\ \A q \in Req : req'[q] = req[q] \/ req'[q].op # "disconnect"

\* Every other step leaves connection, switch and the requests to delete it.
LEMMA OtherWays ==
    ASSUME Good, [Next]_vars, \A r \in Req : ~WayStep(r)
    PROVE  WaySame
<1>1. CASE UNCHANGED vars \/ WebhookNext \/ \E ev \in Event : DirectoryChange(ev)
  BY <1>1 DEF vars, accountVars, ssoVars, WebhookNext, PostBatch, PostAgain, ReadUser, WriteUser, ApplyGroupEvent,
              Answer, PostFails, DirectoryChange, WaySame, WayVars
<1>2. ASSUME NEW r \in Req, AccountsBegin(r), UNCHANGED <<ssoVars, feedVars>>
      PROVE  WaySame
  BY <1>2 DEF AccountsBegin, Login, ChangePassword, RemoveTeamMember, ForgotPassword, UpdateTeamRole, UpdateProfile,
              Refresh, ResetPassword, Register, CreateTenant, AcceptInvite, InviteMember, PatchTenant,
              BeginRevoker, BeginCreate, Finish, Done, Good, TypeOK, ssoVars, WaySame, WayVars
<1>3. ASSUME NEW r \in Req, AccountsCommit(r), ~Sweep(r), UNCHANGED <<ssoVars, feedVars>>
      PROVE  WaySame
  <2>1. \A did, u : Finish(r, did, u) =>
           \A q \in Req : req'[q] = req[q] \/ req'[q].op # "disconnect"
    BY DEF Finish, Done, Good, TypeOK
  <2>2. CASE CommitSignup(r)
    BY <1>3, <2>2 DEF CommitSignup, Good, TypeOK, ssoVars, WaySame, WayVars
  <2>. QED
    BY <1>3, <2>1, <2>2 DEF AccountsCommit, IssueAuthResponse, Rotate, CommitPassword, CommitRemove, CommitCreate,
                            CommitProfile, Abort, Refuse, ssoVars, WaySame, WayVars
<1>4. ASSUME NEW r \in Req, Sweep(r), UNCHANGED <<ssoVars, feedVars>>
      PROVE  WaySame
  BY <1>4, SweepRequests DEF Sweep, ssoVars, WaySame, WayVars
<1>5. ASSUME NEW r \in Req, SsoBegin(r)
      PROVE  WaySame
  <2>1. PICK t \in Tenants : SsoStart(r, t) \/ \E D \in SUBSET Domains, enf \in BOOLEAN : SetDomains(r, t, D, enf)
    BY <1>5 DEF SsoBegin, WayStep
  <2>. QED
    BY <2>1 DEF SsoStart, SetDomains, Good, TypeOK, ssoVars, WaySame, WayVars
<1>6. ASSUME NEW r \in Req, SsoCommit(r)
      PROVE  WaySame
  <2>1. CASE FinishDelete(r) \/ LoadTenant(r)
    <3>1. req[r] \in DomainsReq /\ req[r].op = "domains"
      BY <2>1, RequestKinds DEF FinishDelete, LoadTenant, Pending, Good, TypeOK
    <3>. QED
      BY <2>1, <3>1 DEF FinishDelete, LoadTenant, DomainsReq, Good, TypeOK, ssoVars, WaySame, WayVars
  <2>2. CASE \E e \in Emails : SsoCallback(r, e)
    BY <2>2 DEF SsoCallback, BeginCreate, Good, TypeOK, ssoVars, WaySame, WayVars
  <2>3. CASE CommitDomains(r) /\ Refuse(r)
    <3>1. UNCHANGED enforced /\ Finish(r, "nothing", None)
      BY <2>3 DEF Refuse
    <3>2. req'[r] = Done("nothing", None) /\ \A q \in Req \ {r} : req'[q] = req[q]
      BY <3>1 DEF Finish, Good, TypeOK
    <3>3. ~Finish(r, "domains", None)
      BY <3>2 DEF Finish, Done, Good, TypeOK
    <3>4. UNCHANGED <<idp, halfway, blind>>
      BY <2>3, <3>3 DEF CommitDomains
    <3>. QED
      BY <3>1, <3>2, <3>4 DEF Done, WaySame, WayVars
  <2>. QED
    BY <1>6, <2>1, <2>2, <2>3 DEF SsoCommit, WayStep
<1>7. ASSUME NEW r \in Req, NEW u \in RowIds, AddMember(r, u) \/ RemoveMember(r, u)
      PROVE  WaySame
  BY <1>7 DEF AddMember, RemoveMember, MembersEdited, Finish, Done, Good, TypeOK, ssoVars, WaySame, WayVars
<1>. QED
  BY <1>1, <1>2, <1>3, <1>4, <1>5, <1>6, <1>7 DEF Next

LEMMA WayInit == ASSUME Init PROVE WayGood
BY DEF Init, AccountsInit, WayGood, WayIn, Watched

LEMMA OtherWaysKeep == ASSUME WayGood, WaySame PROVE WayGood'
BY DEF WayGood, WayIn, Watched, Heedless, WaySame, WayVars

LEMMA CreateConnectionKeeps ==
    ASSUME Good, WayGood, NEW r \in Req, NEW t \in Tenants, CreateConnection(r, t)
    PROVE  WayGood'
<1>1. UNCHANGED <<enforced, blind>> /\ idp' = idp \cup {t} /\ halfway' = halfway \ {t}
  BY DEF CreateConnection, Connect
<1>2. \A q \in Req : req'[q] = req[q] \/ req'[q].op # "disconnect"
  BY DEF CreateConnection, Finish, Done, Good, TypeOK
<1>. QED
  BY <1>1, <1>2 DEF WayGood, WayIn, Watched, Heedless

LEMMA DeleteConnectionKeeps ==
    ASSUME Good, WayGood, NEW r \in Req, NEW t \in Tenants, DeleteConnection(r, t)
    PROVE  WayGood'
<1>1. UNCHANGED WayVars
  BY DEF DeleteConnection, ssoVars, WayVars
<1>2. /\ req'[r].tenant = t /\ req'[r].loaded = enforced[t]
      /\ \A q \in Req \ {r} : req'[q] = req[q]
  BY DEF DeleteConnection, Good, TypeOK
<1>. QED
  BY <1>1, <1>2 DEF WayGood, WayIn, Watched, Heedless, WayVars

LEMMA PolisDeleteKeeps ==
    ASSUME Good, WayGood, NEW r \in Req, PolisDelete(r)
    PROVE  WayGood'
<1>1. req[r] \in DisconnectReq
  BY RequestKinds DEF PolisDelete, Pending, Good, TypeOK
<1>2. /\ UNCHANGED <<enforced, blind>>
      /\ idp' = idp \ {req[r].tenant} /\ halfway' = halfway \cup {req[r].tenant}
  BY DEF PolisDelete
<1>3. /\ req'[r].op = req[r].op /\ req'[r].tenant = req[r].tenant /\ req'[r].loaded = req[r].loaded
      /\ \A q \in Req \ {r} : req'[q] = req[q]
  BY <1>1 DEF PolisDelete, DisconnectReq, Good, TypeOK
<1>4. WayIn'
  BY <1>2 DEF WayGood, WayIn
<1>5. Watched'
  BY <1>2, <1>3 DEF WayGood, Watched, Heedless
<1>. QED
  BY <1>4, <1>5 DEF WayGood

LEMMA CommitDisconnectWay ==
    ASSUME Good, WayGood, NEW r \in Req, CommitDisconnect(r)
    PROVE  WayGood'
<1>1. req[r] \in DisconnectReq /\ req[r].op = "disconnect" /\ req[r].tenant \in Tenants
      /\ req[r].loaded \in BOOLEAN
  BY RequestKinds DEF CommitDisconnect, Pending, Good, TypeOK, DisconnectReq
<1>2. /\ UNCHANGED <<idp, blind>> /\ halfway' = halfway \ {req[r].tenant}
      /\ enforced' = IF req[r].loaded THEN [enforced EXCEPT ![req[r].tenant] = FALSE] ELSE enforced
  BY DEF CommitDisconnect
<1>3. \A q \in Req : req'[q] = req[q] \/ req'[q].op # "disconnect"
  BY DEF CommitDisconnect, Finish, Done, Good, TypeOK
<1>4. \A t \in Tenants : enforced'[t] => enforced[t]
  BY <1>1, <1>2 DEF Good, TypeOK
<1>5. WayIn'
  <2>1. ASSUME NEW t \in Tenants, enforced'[t]
        PROVE  t \in idp \cup halfway' \cup blind
    <3>1. CASE t = req[r].tenant
      <4>1. ~req[r].loaded
        BY <1>1, <1>2, <2>1, <3>1 DEF Good, TypeOK
      <4>. QED
        BY <1>1, <1>4, <2>1, <3>1, <4>1 DEF WayGood, Watched, Heedless
    <3>2. CASE t # req[r].tenant
      BY <1>2, <1>4, <2>1, <3>2 DEF WayGood, WayIn
    <3>. QED
      BY <3>1, <3>2
  <2>. QED
    BY <1>2, <2>1 DEF WayIn
<1>6. Watched'
  BY <1>2, <1>3, <1>4 DEF WayGood, Watched, Heedless
<1>. QED
  BY <1>5, <1>6 DEF WayGood

LEMMA CommitDomainsWay ==
    ASSUME Good, WayGood, NEW r \in Req, CommitDomains(r), ~Refuse(r)
    PROVE  WayGood'
<1>1. req[r] \in DomainsReq /\ req[r].tenant \in Tenants
  BY RequestKinds DEF CommitDomains, Pending, Good, TypeOK, DomainsReq
<1>2. PICK t \in Tenants : t = req[r].tenant
  BY <1>1
<1>3. /\ UNCHANGED <<idp, halfway>>
      /\ blind' = IF enforced'[t] /\ Unconnected(t) THEN blind \cup {t} ELSE blind \ {t}
      /\ \A s \in Tenants \ {t} : enforced'[s] = enforced[s]
  BY <1>2 DEF CommitDomains, Good, TypeOK
<1>4. \A q \in Req : req'[q] = req[q] \/ req'[q].op # "disconnect"
  BY DEF CommitDomains, Finish, Done, Good, TypeOK
<1>5. ASSUME NEW s \in Tenants \ {t}, enforced'[s]
      PROVE  /\ s \in idp' \cup halfway' \cup blind'
             /\ \A q \in Req : Heedless(q, s)' => s \in blind'
  BY <1>3, <1>4, <1>5 DEF WayGood, WayIn, Watched, Heedless
<1>6. ASSUME enforced'[t]
      PROVE  /\ t \in idp' \cup halfway' \cup blind'
             /\ \A q \in Req : Heedless(q, t)' => t \in blind'
  <2>1. CASE Unconnected(t)
    BY <1>3, <1>6, <2>1
  <2>2. CASE ~Unconnected(t)
    BY <1>3, <1>4, <2>2 DEF Unconnected, Heedless, Pending
  <2>. QED
    BY <2>1, <2>2
<1>. QED
  BY <1>5, <1>6 DEF WayGood, WayIn, Watched

LEMMA WayAlwaysGood == Spec => []WayGood
<1>1. Init => WayGood
  BY WayInit
<1>2. ASSUME Good, WayGood, [Next]_vars
      PROVE  WayGood'
  <2>1. CASE \A r \in Req : ~WayStep(r)
    BY <1>2, <2>1, OtherWays, OtherWaysKeep
  <2>2. ASSUME NEW r \in Req, WayStep(r)
        PROVE  WayGood'
    BY <1>2, <2>2, CreateConnectionKeeps, DeleteConnectionKeeps, PolisDeleteKeeps, CommitDisconnectWay,
       CommitDomainsWay
    DEF WayStep
  <2>. QED
    BY <2>1, <2>2
<1>. QED
  BY <1>1, <1>2, AlwaysGood, PTL DEF Spec

\* A workspace that requires single sign-on keeps a domain, however many
\* requests replace the domains, switch the requirement or delete the
\* connection at once: the DELETE of one waits for the other's, and set_domains
\* reads the switch after its DELETE.  It keeps a connection too, but for the
\* workspaces where set_domains switched the requirement on without one (or
\* while a request that had seen it off deleted it) and those where
\* delete_connection stopped before its commit.
THEOREM NoOtherWayOut == Spec => []NoOtherLockOut
<1>1. DomainsGood /\ WayGood => NoOtherLockOut
  BY DEF DomainsGood, Secured, WayGood, WayIn, NoOtherLockOut
<1>. QED
  BY <1>1, DomainsAlwaysGood, WayAlwaysGood, PTL

-----------------------------------------------------------------------------
(* Sessions.  A request that issues a token knows that it is late as soon   *)
(* as a revocation has selected the tokens to end; if it is not, the user's *)
(* sessions have not been revoked since it read.  A revocation about to     *)
(* commit has selected every live token but the late ones.                  *)

Issuer(r) == req[r].op \in {"login", "rotate"}

Swept(r) == req[r].op \in {"reset", "change", "remove"} /\ req[r].phase = "swept"

ReadEpoch(r) == IF req[r].op = "login" THEN req[r].epoch ELSE sessions[req[r].old].epoch

Fresh(r) ==
    /\ (Issuer(r) /\ ~req[r].late) => /\ ~Revoking(req[r].user)
                                      /\ ReadEpoch(r) = users[req[r].user].epoch
    /\ Swept(r) => \A k \in TokenIds :
                      (sessions[k] \in Session /\ sessions[k].live /\ sessions[k].user = req[r].user)
                         => k \in req[r].swept \/ sessions[k].late

SessionsOwned == \A k \in TokenIds : sessions[k] \in Session => Exists(sessions[k].user)

CurrentOrLate ==
    \A k \in TokenIds : (sessions[k] \in Session /\ sessions[k].live /\ ~sessions[k].late)
                           => sessions[k].epoch = users[sessions[k].user].epoch

SessionsGood == (\A r \in Req : Fresh(r)) /\ SessionsOwned /\ CurrentOrLate

EpochsKept == \A u \in RowIds : Exists(u) => users'[u].epoch = users[u].epoch

\* A step that neither issues nor ends a session, nor starts to.
Quiet ==
    /\ UNCHANGED sessions
    /\ EpochsKept
    /\ \A q \in Req : \/ req'[q] = req[q]
                       \/ /\ ~Issuer(q)'
                          /\ ~Swept(q)'

\* A request begins to issue a token: a login, a rotation, a sign-in through
\* the identity provider, or the second half of a sign-up.
BeginsIssue(r) ==
    /\ UNCHANGED sessions
    /\ EpochsKept
    /\ Elsewhere(r)
    /\ Issuer(r)'
    /\ \/ /\ req'[r].op = "login"
          /\ req'[r].user \in RowIds /\ Exists(req'[r].user)
          /\ req'[r].epoch = users[req'[r].user].epoch
          /\ req'[r].late = Revoking(req'[r].user)
       \/ /\ req'[r].op = "rotate"
          /\ req'[r].old \in TokenIds /\ sessions[req'[r].old] \in Session /\ sessions[req'[r].old].live
          /\ req'[r].user = sessions[req'[r].old].user
          /\ req'[r].late = (sessions[req'[r].old].late \/ Revoking(req'[r].user))
       \/ /\ req'[r].op = "login"
          /\ req'[r].user \in RowIds /\ users[req'[r].user] = None
          /\ req'[r].epoch = users'[req'[r].user].epoch

SessionStep(r) ==
    \/ IssueAuthResponse(r)
    \/ Rotate(r)
    \/ Sweep(r)
    \/ CommitPassword(r)
    \/ CommitRemove(r)
    \/ CommitCreate(r) /\ ~Refuse(r)
    \/ BeginsIssue(r)

LEMMA InsertEpochs ==
    ASSUME NEW n \in RowIds, users[n] = None, NEW row, users' = [users EXCEPT ![n] = row],
           users \in [RowIds -> UserRow \cup {None}]
    PROVE  EpochsKept
BY DEF EpochsKept, Exists

LEMMA QuietRequest ==
    ASSUME Good, NEW r \in Req, NEW s, req' = [req EXCEPT ![r] = s], s.op \notin {"login", "rotate"},
           s.op \in {"reset", "change", "remove"} => s.phase # "swept", UNCHANGED sessions, EpochsKept
    PROVE  Quiet
BY DEF Quiet, Issuer, Swept, Good, TypeOK

LEMMA QuietFinish ==
    ASSUME Good, NEW r \in Req, NEW did, NEW u, Finish(r, did, u), UNCHANGED sessions, EpochsKept
    PROVE  Quiet
BY DEF Quiet, Issuer, Swept, Finish, Done, Good, TypeOK

LEMMA BeginKinds ==
    ASSUME Good, NEW r \in Req, AccountsBegin(r)
    PROVE  Quiet \/ BeginsIssue(r)
<1>1. ASSUME UNCHANGED users
      PROVE  EpochsKept
  BY <1>1 DEF EpochsKept
<1>2. ASSUME NEW u \in RowIds, Login(r, u)
      PROVE  BeginsIssue(r)
  <2>. DEFINE s == [op |-> "login", user |-> u, epoch |-> users[u].epoch, late |-> Revoking(u)]
  <2>1. req'[r] = s /\ \A q \in Req \ {r} : req'[q] = req[q]
    BY <1>2 DEF Login, Good, TypeOK
  <2>2. UNCHANGED <<users, sessions>> /\ Exists(u) /\ req[r].op # "done"
    BY <1>2 DEF Login, CanAct, Starts, Idle
  <2>. QED
    BY <1>1, <2>1, <2>2 DEF BeginsIssue, Elsewhere, Issuer, Exists
<1>3. ASSUME NEW k \in TokenIds, Refresh(r, k)
      PROVE  BeginsIssue(r)
  <2>. DEFINE s == [op |-> "rotate", user |-> sessions[k].user, old |-> k,
                    late |-> sessions[k].late \/ Revoking(sessions[k].user)]
  <2>1. req'[r] = s /\ \A q \in Req \ {r} : req'[q] = req[q]
    BY <1>3 DEF Refresh, Good, TypeOK
  <2>2. /\ UNCHANGED <<users, sessions>> /\ Exists(sessions[k].user) /\ req[r].op # "done"
        /\ sessions[k] \in Session /\ sessions[k].live
    BY <1>3 DEF Refresh, CanAct, Starts, Idle, Good, TypeOK
  <2>3. sessions[k].user \in RowIds
    BY <2>2 DEF Session
  <2>. QED
    BY <1>1, <2>1, <2>2, <2>3 DEF BeginsIssue, Elsewhere, Issuer, Exists
<1>4. ASSUME NEW op \in {"reset", "change", "remove"}, NEW u, NEW x, BeginRevoker(r, op, u, x),
             UNCHANGED <<users, sessions>>
      PROVE  Quiet
  BY <1>1, <1>4, QuietRequest DEF BeginRevoker
<1>5. ASSUME NEW u \in RowIds, ForgotPassword(r, u)
      PROVE  Quiet
  BY <1>1, <1>5, QuietFinish DEF ForgotPassword
<1>6. ASSUME NEW u \in RowIds, NEW role \in {"admin", "member"}, UpdateTeamRole(r, u, role)
      PROVE  Quiet
  <2>1. users[u] \in UserRow
    BY <1>6 DEF UpdateTeamRole, Exists, Good, TypeOK
  <2>2. EpochsKept
    BY <1>6, <2>1 DEF UpdateTeamRole, EpochsKept, UserRow, Good, TypeOK
  <2>. QED
    BY <1>6, <2>2, QuietFinish DEF UpdateTeamRole
<1>7. ASSUME NEW u \in RowIds, NEW e \in Emails, UpdateProfile(r, u, e)
      PROVE  Quiet
  BY <1>1, <1>7, QuietRequest DEF UpdateProfile
<1>8. ASSUME NEW t \in Tenants, NEW e \in Emails, NEW role, BeginCreate(r, t, e, role), UNCHANGED <<users, sessions>>
      PROVE  Quiet
  BY <1>1, <1>8, QuietRequest DEF BeginCreate
<1>9. ASSUME NEW t \in Tenants, NEW e \in Emails, CreateTenant(r, t, e)
      PROVE  Quiet
  <2>1. users[r] = None
    BY <1>9 DEF CreateTenant, Starts, Idle, Good, Ready
  <2>2. EpochsKept
    BY <1>9, <2>1, InsertEpochs, RowNames DEF CreateTenant, Good, TypeOK
  <2>. QED
    BY <1>9, <2>2, QuietFinish DEF CreateTenant
<1>10. ASSUME NEW i \in Invite, InviteMember(r, i)
       PROVE  Quiet
  BY <1>1, <1>10, QuietFinish DEF InviteMember
<1>11. ASSUME NEW t \in Tenants, NEW status \in {"active", "suspended"}, PatchTenant(r, t, status)
       PROVE  Quiet
  BY <1>1, <1>11, QuietFinish DEF PatchTenant
<1>. QED
  BY <1>2, <1>3, <1>4, <1>5, <1>6, <1>7, <1>8, <1>9, <1>10, <1>11
  DEF AccountsBegin, ChangePassword, RemoveTeamMember, ResetPassword, Register, AcceptInvite, Invite

LEMMA CommitKinds ==
    ASSUME Good, NEW r \in Req, AccountsCommit(r)
    PROVE  Quiet \/ SessionStep(r)
<1>1. CASE Refuse(r)
  BY <1>1, QuietFinish DEF Refuse, EpochsKept
<1>2. CASE CommitProfile(r) /\ ~Refuse(r)
  <2>1. req[r].user \in RowIds /\ users[req[r].user] \in UserRow
    <3>1. req[r] \in ProfileReq /\ Exists(req[r].user)
      BY <1>2, RequestKinds DEF CommitProfile, Pending, Good, TypeOK, Ready
    <3>. QED
      BY <3>1 DEF ProfileReq, Exists, Good, TypeOK
  <2>2. EpochsKept
    <3>1. users' = [users EXCEPT ![req[r].user].email = req[r].email]
      BY <1>2 DEF CommitProfile
    <3>2. [users[req[r].user] EXCEPT !.email = req[r].email].epoch = users[req[r].user].epoch
      BY <2>1 DEF UserRow
    <3>. QED
      BY <2>1, <3>1, <3>2 DEF EpochsKept, Good, TypeOK
  <2>. QED
    BY <1>2, <2>2, QuietFinish DEF CommitProfile
<1>3. CASE CommitSignup(r)
  <2>. DEFINE s == [op |-> "login", user |-> r, epoch |-> None, late |-> FALSE]
              row == NewUser(req[r].tenant, req[r].email, "owner")
  <2>1. req[r] \in CreateReq /\ users[r] = None /\ r \in RowIds
    BY <1>3, RequestKinds, RowNames DEF CommitSignup, Pending, Good, TypeOK, Ready
  <2>2. row \in UserRow /\ row # None /\ row.epoch = None
    BY <2>1, NewUserType DEF CreateReq, Roles, NewUser
  <2>3. users'[r] = row /\ EpochsKept
    BY <1>3, <2>1, InsertEpochs DEF CommitSignup, Good, TypeOK
  <2>4. req'[r] = s /\ UNCHANGED sessions /\ Elsewhere(r)
    BY <1>3 DEF CommitSignup, Pending, Elsewhere, Good, TypeOK
  <2>5. /\ req'[r].op = "login" /\ req'[r].user = r /\ req'[r].epoch = None
        /\ users'[req'[r].user].epoch = None
    BY <2>2, <2>3, <2>4
  <2>6. BeginsIssue(r)
    BY <2>1, <2>3, <2>4, <2>5 DEF BeginsIssue, Issuer
  <2>. QED
    BY <2>6 DEF SessionStep
<1>. QED
  BY <1>1, <1>2, <1>3 DEF AccountsCommit, SessionStep, Abort

LEMMA SsoKinds ==
    ASSUME Good, NEW r \in Req, SsoBegin(r) \/ SsoCommit(r)
    PROVE  Quiet \/ BeginsIssue(r)
<1>1. ASSUME UNCHANGED users
      PROVE  EpochsKept
  BY <1>1 DEF EpochsKept
<1>2. CASE SsoBegin(r)
  <2>1. UNCHANGED <<users, sessions>>
    BY <1>2 DEF SsoBegin, SsoStart, CreateConnection, DeleteConnection, SetDomains
  <2>2. \A q \in Req : req'[q] = req[q] \/ req'[q].op \in {"sso", "disconnect", "domains", "done"}
    BY <1>2 DEF SsoBegin, SsoStart, CreateConnection, DeleteConnection, SetDomains, Finish, Done, Good, TypeOK
  <2>. QED
    BY <1>1, <2>1, <2>2 DEF Quiet, Issuer, Swept
<1>3. ASSUME NEW e \in Emails, SsoCallback(r, e)
      PROVE  Quiet \/ BeginsIssue(r)
  <2>1. CASE BeginCreate(r, req[r].tenant, e, "member")
    BY <1>1, <1>3, <2>1, QuietRequest DEF SsoCallback, BeginCreate
  <2>2. ASSUME NEW u \in ByEmail(e),
               req' = [req EXCEPT ![r] = [op |-> "login", user |-> u, epoch |-> users[u].epoch, late |-> Revoking(u)]]
        PROVE  BeginsIssue(r)
    <3>. DEFINE s == [op |-> "login", user |-> u, epoch |-> users[u].epoch, late |-> Revoking(u)]
    <3>1. req'[r] = s /\ \A q \in Req \ {r} : req'[q] = req[q]
      BY <2>2 DEF Good, TypeOK
    <3>2. UNCHANGED <<users, sessions>> /\ u \in RowIds /\ Exists(u) /\ req[r].op # "done"
      BY <1>3 DEF SsoCallback, ByEmail, Rows, Pending
    <3>. QED
      BY <1>1, <3>1, <3>2 DEF BeginsIssue, Elsewhere, Issuer, Exists
  <2>. QED
    BY <1>3, <2>1, <2>2 DEF SsoCallback
<1>4. CASE PolisDelete(r) \/ FinishDelete(r) \/ LoadTenant(r)
  <2>1. req[r] \in DisconnectReq \cup DomainsReq
    BY <1>4, RequestKinds DEF PolisDelete, FinishDelete, LoadTenant, Pending, Good, TypeOK
  <2>2. UNCHANGED <<users, sessions>> /\ \A q \in Req \ {r} : req'[q] = req[q]
    BY <1>4 DEF PolisDelete, FinishDelete, LoadTenant, Good, TypeOK
  <2>3. req'[r].op \in {"disconnect", "domains"}
    <3>1. CASE FinishDelete(r)
      <4>. DEFINE rows == {x \in req[r].rows : claims[x[1]] # None /\ claims[x[1]].by = x[2]}
      <4>1. req'[r] = [req[r] EXCEPT !.phase = "deleted", !.rows = rows] /\ req[r] \in DomainsReq
        BY <3>1, RequestKinds DEF FinishDelete, Pending, Good, TypeOK
      <4>. HIDE DEF rows
      <4>. QED
        BY <4>1 DEF DomainsReq
    <3>2. CASE PolisDelete(r) \/ LoadTenant(r)
      BY <2>1, <3>2 DEF PolisDelete, LoadTenant, DisconnectReq, DomainsReq, Good, TypeOK
    <3>. QED
      BY <1>4, <3>1, <3>2
  <2>. QED
    BY <1>1, <2>2, <2>3 DEF Quiet, Issuer, Swept
<1>5. CASE CommitDisconnect(r)
  BY <1>1, <1>5, QuietFinish DEF CommitDisconnect
<1>6. CASE CommitDomains(r)
  BY <1>1, <1>6, QuietFinish DEF CommitDomains, Refuse
<1>. QED
  BY <1>2, <1>3, <1>4, <1>5, <1>6 DEF SsoCommit

LEMMA SessionKinds ==
    ASSUME Good, [Next]_vars
    PROVE  Quiet \/ \E r \in Req : SessionStep(r)
<1>1. CASE UNCHANGED vars \/ \E ev \in Event : DirectoryChange(ev)
  BY <1>1 DEF vars, accountVars, DirectoryChange, Quiet, EpochsKept
<1>2. CASE WebhookNext
  <2>1. CASE WriteUser
    <3>1. UNCHANGED <<sessions, req>>
      BY <2>1 DEF WriteUser
    <3>2. EpochsKept
      <4>1. CASE users' = users
        BY <4>1 DEF EpochsKept
      <4>2. CASE \E n \in 1..Work : ~Exists(n)
                    /\ users' = [users EXCEPT ![n] = NewUser(DirTenant, TheEvent.email, "member")]
        <5>1. PICK n \in 1..Work : ~Exists(n)
                    /\ users' = [users EXCEPT ![n] = NewUser(DirTenant, TheEvent.email, "member")]
          BY <4>2
        <5>. QED
          BY <5>1, InsertEpochs, DirectoryAssumption DEF Exists, Good, TypeOK
      <4>3. CASE courier.row # None /\ users' = [users EXCEPT ![courier.row].active = TheEvent.active]
        <5>1. courier.row \in RowIds /\ users[courier.row] \in UserRow
          <6>1. courier \in Post /\ courier # NoPost /\ courier.at = "read"
            BY <2>1, HandledEvent DEF WriteUser, Handling
          <6>. QED
            BY <4>3, <6>1, GoodFeed DEF PostsWithin, Exists, Post, Good, TypeOK
        <5>. QED
          BY <4>3, <5>1 DEF EpochsKept, UserRow, Good, TypeOK
      <4>. QED
        <5>1. CASE courier.row = None
          BY <2>1, <4>1, <4>2, <5>1 DEF WriteUser, CreateFromDirectory, FreeRow
        <5>2. CASE courier.row # None
          BY <2>1, <4>1, <4>3, <5>2 DEF WriteUser, Deactivated
        <5>. QED
          BY <5>1, <5>2
    <3>. QED
      BY <3>1, <3>2 DEF Quiet
  <2>2. CASE ~WriteUser
    BY <1>2, <2>2 DEF WebhookNext, PostBatch, PostAgain, ReadUser, ApplyGroupEvent, Answer, PostFails, accountVars,
                      Quiet, EpochsKept
  <2>. QED
    BY <2>1, <2>2
<1>3. ASSUME NEW r \in Req, AccountsBegin(r) \/ SsoBegin(r) \/ SsoCommit(r)
      PROVE  Quiet \/ BeginsIssue(r)
  BY <1>3, BeginKinds, SsoKinds
<1>4. ASSUME NEW r \in Req, AccountsCommit(r)
      PROVE  Quiet \/ SessionStep(r)
  BY <1>4, CommitKinds
<1>5. ASSUME NEW r \in Req, NEW u \in RowIds, AddMember(r, u) \/ RemoveMember(r, u)
      PROVE  Quiet
  <2>1. EpochsKept /\ UNCHANGED sessions
    BY <1>5 DEF AddMember, RemoveMember, MembersEdited, EpochsKept
  <2>. QED
    BY <1>5, <2>1, QuietFinish DEF AddMember, RemoveMember, MembersEdited
<1>. QED
  BY <1>1, <1>2, <1>3, <1>4, <1>5 DEF Next, SessionStep

LEMMA IssuerState ==
    ASSUME Good, NEW q \in Req, Issuer(q)
    PROVE  /\ req[q].user \in RowIds /\ Exists(req[q].user) /\ req[q].late \in BOOLEAN
           /\ sessions[q] = None /\ q \in TokenIds
           /\ req[q].op # "login" => /\ req[q].old \in TokenIds /\ sessions[req[q].old] \in Session
                                     /\ sessions[req[q].old].user = req[q].user
<1>1. req[q] \in LoginReq \cup RotateReq
  BY RequestKinds DEF Issuer, Good, TypeOK
<1>. QED
  BY <1>1, RowNames DEF Issuer, Good, Ready, LoginReq, RotateReq

LEMMA SweptState ==
    ASSUME Good, NEW q \in Req, Swept(q)
    PROVE  req[q].user \in RowIds /\ Exists(req[q].user) /\ req[q].swept \subseteq TokenIds
<1>1. req[q] \in RevokeReq
  BY RequestKinds DEF Swept, Good, TypeOK
<1>. QED
  BY <1>1 DEF Swept, Good, Ready, RevokeReq

LEMMA RevokingStays ==
    ASSUME \A q \in Req : Swept(q)' => Swept(q) /\ req'[q].user = req[q].user, NEW u
    PROVE  Revoking(u)' => Revoking(u)
BY DEF Revoking, Swept

LEMMA QuietKeeps ==
    ASSUME Good, SessionsGood, [Next]_vars, Quiet
    PROVE  SessionsGood'
<1>1. \A q \in Req : (Issuer(q)' \/ Swept(q)') => req'[q] = req[q] /\ (Issuer(q) \/ Swept(q))
  BY DEF Quiet, Issuer, Swept
<1>2. \A u : Revoking(u)' => Revoking(u)
  BY <1>1, RevokingStays DEF Issuer, Swept
<1>3. sessions' = sessions /\ \A u \in RowIds : Exists(u) => Exists(u)' /\ users'[u].epoch = users[u].epoch
  BY StepGood DEF Quiet, KeepsUsers, EpochsKept
<1>4. ASSUME NEW q \in Req
      PROVE  Fresh(q)'
  <2>1. CASE Issuer(q)'
    <3>1. req'[q] = req[q] /\ Issuer(q) /\ Fresh(q)
      BY <1>1, <2>1 DEF Issuer, Swept, SessionsGood
    <3>. QED
      BY <1>2, <1>3, <3>1, IssuerState DEF Fresh, Issuer, Swept, ReadEpoch
  <2>2. CASE Swept(q)'
    <3>1. req'[q] = req[q] /\ Swept(q) /\ Fresh(q)
      BY <1>1, <2>2 DEF Issuer, Swept, SessionsGood
    <3>. QED
      BY <1>3, <3>1 DEF Fresh, Issuer, Swept
  <2>. QED
    BY <2>1, <2>2 DEF Fresh
<1>5. \A k \in TokenIds : sessions[k] \in Session => sessions[k].user \in RowIds /\ Exists(sessions[k].user)
  BY DEF SessionsGood, SessionsOwned, Session
<1>. QED
  BY <1>3, <1>4, <1>5 DEF SessionsGood, SessionsOwned, CurrentOrLate

LEMMA BeginsIssueKeeps ==
    ASSUME Good, SessionsGood, [Next]_vars, NEW r \in Req, BeginsIssue(r)
    PROVE  SessionsGood'
<1>. PICK u : u = req'[r].user
  OBVIOUS
<1>1. /\ sessions' = sessions /\ \A v \in RowIds : Exists(v) => Exists(v)' /\ users'[v].epoch = users[v].epoch
      /\ \A q \in Req \ {r} : req'[q] = req[q]
      /\ Issuer(r)' /\ ~Swept(r)'
  BY StepGood DEF BeginsIssue, Elsewhere, KeepsUsers, EpochsKept, Issuer, Swept
<1>2. \A v : Revoking(v)' => Revoking(v)
  BY <1>1, RevokingStays DEF Swept
<1>3. \A k \in TokenIds : sessions[k] \in Session => sessions[k].user \in RowIds /\ Exists(sessions[k].user)
  BY DEF SessionsGood, SessionsOwned, Session
<1>4. ASSUME NEW q \in Req \ {r}
      PROVE  Fresh(q)'
  <2>1. Fresh(q) /\ req'[q] = req[q] /\ Issuer(q)' = Issuer(q) /\ Swept(q)' = Swept(q)
    BY <1>1 DEF SessionsGood, Issuer, Swept
  <2>2. CASE Issuer(q)
    BY <1>1, <1>2, <2>1, <2>2, IssuerState DEF Fresh, Issuer, Swept, ReadEpoch
  <2>3. CASE Swept(q)
    BY <1>1, <2>1, <2>3 DEF Fresh, Issuer, Swept
  <2>. QED
    BY <2>1, <2>2, <2>3 DEF Fresh
<1>5. ASSUME ~req'[r].late
      PROVE  ~Revoking(u)' /\ ReadEpoch(r)' = users'[u].epoch
  <2>1. CASE /\ req'[r].op = "login" /\ u \in RowIds /\ Exists(u) /\ req'[r].epoch = users[u].epoch
             /\ req'[r].late = Revoking(u)
    BY <1>1, <1>2, <1>5, <2>1 DEF ReadEpoch
  <2>2. CASE /\ req'[r].op = "rotate" /\ req'[r].old \in TokenIds /\ sessions[req'[r].old] \in Session
             /\ sessions[req'[r].old].live /\ u = sessions[req'[r].old].user
             /\ req'[r].late = (sessions[req'[r].old].late \/ Revoking(u))
    BY ZenonT(40), <1>1, <1>2, <1>3, <1>5, <2>2 DEF ReadEpoch, SessionsGood, CurrentOrLate
  <2>3. CASE /\ req'[r].op = "login" /\ u \in RowIds /\ users[u] = None /\ req'[r].epoch = users'[u].epoch
    <3>1. ~Revoking(u)
      BY <2>3, SweptState DEF Revoking, Swept, Exists
    <3>. QED
      BY <1>2, <2>3, <3>1 DEF ReadEpoch
  <2>. QED
    BY <2>1, <2>2, <2>3 DEF BeginsIssue
<1>6. Fresh(r)'
  <2>1. ~Swept(r)'
    BY <1>1
  <2>2. ~req'[r].late => ~Revoking(req[r].user)' /\ ReadEpoch(r)' = users'[req'[r].user].epoch
    BY <1>5
  <2>. QED
    BY <2>1, <2>2 DEF Fresh
<1>. QED
  BY <1>1, <1>3, <1>4, <1>6 DEF SessionsGood, SessionsOwned, CurrentOrLate

\* A token with what its request has read; other tokens at most die.
LEMMA IssuedKeeps ==
    ASSUME Good, SessionsGood, NEW r \in Req, Issuer(r), Elsewhere(r), req'[r].op = "done", users' = users,
           NEW new \in Session, new.user = req[r].user, new.epoch = ReadEpoch(r), new.late = req[r].late,
           sessions'[r] = new,
           \A k \in TokenIds \ {r} :
              \/ sessions'[k] = sessions[k]
              \/ /\ sessions[k] \in Session /\ sessions'[k] \in Session /\ ~sessions'[k].live
                 /\ sessions'[k].user = sessions[k].user /\ sessions'[k].epoch = sessions[k].epoch
    PROVE  SessionsGood'
<1>1. /\ Fresh(r) /\ req[r].user \in RowIds /\ Exists(req[r].user) /\ sessions[r] = None /\ r \in TokenIds
      /\ req[r].late \in BOOLEAN
  BY IssuerState DEF SessionsGood
<1>2. \A q \in Req \ {r} : req'[q] = req[q] /\ Issuer(q)' = Issuer(q) /\ Swept(q)' = Swept(q)
  BY DEF Elsewhere, Issuer, Swept
<1>3. ~Issuer(r)' /\ ~Swept(r)'
  BY DEF Issuer, Swept
<1>4. \A v : Revoking(v)' => Revoking(v)
  BY <1>2, <1>3, RevokingStays
<1>5. ASSUME NEW q \in Req \ {r}
      PROVE  Fresh(q)'
  <2>1. Fresh(q) /\ req'[q] = req[q]
    BY <1>2 DEF SessionsGood
  <2>2. ASSUME Issuer(q), ~req[q].late
        PROVE  ~Revoking(req[q].user)' /\ ReadEpoch(q)' = users'[req[q].user].epoch
    <3>1. req[q].op # "login" => req[q].old \in TokenIds \ {r} /\ sessions[req[q].old] \in Session
      BY <1>1, <2>2, IssuerState, NoneIsNoRow
    <3>2. ReadEpoch(q)' = ReadEpoch(q)
      BY <2>1, <3>1 DEF ReadEpoch
    <3>. QED
      BY <1>4, <2>1, <2>2, <3>2 DEF Fresh
  <2>3. ASSUME Swept(q), NEW k \in TokenIds, sessions'[k] \in Session, sessions'[k].live,
               sessions'[k].user = req[q].user
        PROVE  k \in req[q].swept \/ sessions'[k].late
    <3>1. CASE k = r
      <4>1. Revoking(req[r].user)
        BY <2>3, <3>1 DEF Revoking, Swept
      <4>. QED
        BY <1>1, <3>1, <4>1 DEF Fresh
    <3>2. CASE k # r
      <4>1. sessions'[k] = sessions[k]
        BY <2>3, <3>2
      <4>. QED
        BY <2>1, <2>3, <4>1 DEF Fresh
    <3>. QED
      BY <3>1, <3>2
  <2>. QED
    BY <1>2, <2>1, <2>2, <2>3 DEF Fresh
<1>6. Fresh(r)'
  BY <1>3 DEF Fresh
<1>7. SessionsOwned'
  BY <1>1 DEF SessionsGood, SessionsOwned, Exists
<1>8. CurrentOrLate'
  BY <1>1 DEF SessionsGood, CurrentOrLate, Fresh
<1>. QED
  BY <1>5, <1>6, <1>7, <1>8 DEF SessionsGood

LEMMA IssueSession ==
    ASSUME Good, SessionsGood, NEW r \in Req, IssueAuthResponse(r)
    PROVE  SessionsGood'
<1>. DEFINE new == NewSession(r, req[r].user, req[r].epoch, req[r].late)
<1>1. req[r] \in LoginReq /\ req[r].op = "login" /\ r \in TokenIds
  BY RequestKinds, RowNames DEF IssueAuthResponse, Pending, Good, TypeOK
<1>2. /\ new \in Session /\ new.user = req[r].user /\ new.epoch = ReadEpoch(r) /\ new.late = req[r].late
      /\ Issuer(r)
  BY <1>1 DEF NewSession, Session, LoginReq, ReadEpoch, Issuer
<1>3. sessions'[r] = new /\ \A k \in TokenIds \ {r} : sessions'[k] = sessions[k]
  BY <1>1 DEF IssueAuthResponse, Good, TypeOK
<1>4. Elsewhere(r) /\ req'[r].op = "done" /\ users' = users
  BY <1>1 DEF IssueAuthResponse, Elsewhere, Finish, Done, Good, TypeOK
<1>. QED
  BY <1>2, <1>3, <1>4, IssuedKeeps

LEMMA RotateSession ==
    ASSUME Good, SessionsGood, NEW r \in Req, Rotate(r)
    PROVE  SessionsGood'
<1>. DEFINE k == req[r].old
            dead == [sessions[k] EXCEPT !.live = FALSE]
<1>1. /\ req[r] \in RotateReq /\ req[r].op = "rotate" /\ r \in TokenIds /\ k \in TokenIds /\ sessions[k] \in Session
      /\ sessions[k].user = req[r].user
  BY RequestKinds, RowNames DEF Rotate, Pending, Good, TypeOK, Ready, RotateReq
<1>2. /\ Heir(r) \in Session /\ Heir(r).user = req[r].user /\ Heir(r).epoch = ReadEpoch(r)
      /\ Heir(r).late = req[r].late /\ Issuer(r)
  BY <1>1 DEF Heir, Session, RotateReq, ReadEpoch, Issuer
<1>3. /\ dead \in Session /\ ~dead.live /\ dead.user = sessions[k].user /\ dead.epoch = sessions[k].epoch
  BY <1>1 DEF Session
<1>4. /\ sessions'[r] = Heir(r)
      /\ \A j \in TokenIds \ {r} : sessions'[j] = IF j = k THEN dead ELSE sessions[j]
  BY <1>1, <1>2, <1>3 DEF Rotate, Good, TypeOK
<1>5. Elsewhere(r) /\ req'[r].op = "done" /\ users' = users
  BY <1>1 DEF Rotate, Elsewhere, Finish, Done, Good, TypeOK
<1>6. \A j \in TokenIds \ {r} :
         \/ sessions'[j] = sessions[j]
         \/ /\ sessions[j] \in Session /\ sessions'[j] \in Session /\ ~sessions'[j].live
            /\ sessions'[j].user = sessions[j].user /\ sessions'[j].epoch = sessions[j].epoch
  BY <1>1, <1>3, <1>4
<1>. QED
  BY <1>2, <1>4, <1>5, <1>6, IssuedKeeps

\* The first session of a new account.
LEMMA CreateSession ==
    ASSUME Good, SessionsGood, [Next]_vars, NEW r \in Req, CommitCreate(r), ~Refuse(r)
    PROVE  SessionsGood'
<1>. DEFINE row == NewUser(req[r].tenant, req[r].email, req[r].role)
            new == NewSession(r, r, None, FALSE)
<1>1. /\ req[r] \in CreateReq /\ req[r].op = "create" /\ users[r] = None /\ r \in RowIds /\ r \in TokenIds
      /\ sessions[r] = None
  BY RequestKinds, RowNames DEF CommitCreate, Pending, Good, TypeOK, Ready
<1>2. row \in UserRow /\ row # None /\ row.epoch = None
  BY <1>1, NewUserType DEF CreateReq, NewUser
<1>3. new \in Session /\ new.user = r /\ new.epoch = None /\ ~new.late
  BY <1>1 DEF NewSession, Session
<1>4. /\ users' = [users EXCEPT ![r] = row] /\ sessions' = [sessions EXCEPT ![r] = new]
      /\ Finish(r, "create", r)
  BY DEF CommitCreate
<1>5. /\ users'[r] = row /\ \A v \in RowIds : Exists(v) => v # r /\ Exists(v)' /\ users'[v] = users[v]
      /\ sessions'[r] = new /\ \A k \in TokenIds \ {r} : sessions'[k] = sessions[k]
  BY <1>1, <1>2, <1>4 DEF Exists, Good, TypeOK
<1>6. /\ \A q \in Req \ {r} : req'[q] = req[q] /\ Issuer(q)' = Issuer(q) /\ Swept(q)' = Swept(q)
      /\ ~Issuer(r)' /\ ~Swept(r)'
  BY <1>4 DEF Finish, Done, Issuer, Swept, Good, TypeOK
<1>7. \A v : Revoking(v)' => Revoking(v)
  BY <1>6, RevokingStays
<1>8. ASSUME NEW q \in Req \ {r}
      PROVE  Fresh(q)'
  <2>1. Fresh(q) /\ req'[q] = req[q]
    BY <1>6 DEF SessionsGood
  <2>2. ASSUME Issuer(q), ~req[q].late
        PROVE  ~Revoking(req[q].user)' /\ ReadEpoch(q)' = users'[req[q].user].epoch
    <3>1. req[q].op # "login" => req[q].old \in TokenIds \ {r} /\ sessions[req[q].old] \in Session
      BY <1>1, <2>2, IssuerState, NoneIsNoRow
    <3>2. ReadEpoch(q)' = ReadEpoch(q)
      BY <1>5, <2>1, <3>1 DEF ReadEpoch
    <3>. QED
      BY <1>5, <1>7, <2>1, <2>2, <3>2, IssuerState DEF Fresh
  <2>3. ASSUME Swept(q), NEW k \in TokenIds, sessions'[k] \in Session, sessions'[k].live,
               sessions'[k].user = req[q].user
        PROVE  k \in req[q].swept \/ sessions'[k].late
    <3>1. req[q].user # r
      BY <1>5, <2>3, SweptState
    <3>2. sessions'[k] = sessions[k]
      BY <1>3, <1>5, <2>3, <3>1
    <3>. QED
      BY <2>1, <2>3, <3>2 DEF Fresh
  <2>. QED
    BY <1>6, <2>1, <2>2, <2>3 DEF Fresh
<1>9. Fresh(r)'
  BY <1>6 DEF Fresh
<1>10. \A k \in TokenIds : sessions[k] \in Session => sessions[k].user \in RowIds /\ Exists(sessions[k].user)
  BY DEF SessionsGood, SessionsOwned, Session
<1>11. ASSUME NEW k \in TokenIds, sessions'[k] \in Session
       PROVE  /\ Exists(sessions[k].user)'
              /\ sessions'[k].live /\ ~sessions'[k].late => sessions'[k].epoch = users'[sessions'[k].user].epoch
  <2>1. CASE k = r
    BY <1>2, <1>3, <1>5, <2>1 DEF Exists
  <2>2. CASE k # r
    <3>1. sessions'[k] = sessions[k] /\ sessions[k].user \in RowIds /\ Exists(sessions[k].user)
      BY <1>5, <1>10, <1>11, <2>2
    <3>. QED
      BY <1>5, <1>11, <3>1 DEF SessionsGood, CurrentOrLate, Exists
  <2>. QED
    BY <2>1, <2>2
<1>12. SessionsOwned' /\ CurrentOrLate'
  BY <1>11 DEF SessionsOwned, CurrentOrLate
<1>. QED
  BY <1>8, <1>9, <1>12 DEF SessionsGood

\* The SELECT of a revocation: whoever has read is late from here on.
LEMMA SweepSession ==
    ASSUME Good, SessionsGood, NEW r \in Req, Sweep(r)
    PROVE  SessionsGood'
<1>. DEFINE u == req[r].user
            live == {k \in TokenIds : sessions[k] # None /\ sessions[k].user = u /\ sessions[k].live}
<1>1. req[r] \in RevokeReq /\ req[r].op \in {"reset", "change", "remove"} /\ req[r].phase = "read"
  BY RequestKinds DEF Sweep, Good, TypeOK
<1>2. /\ req'[r] = [req[r] EXCEPT !.phase = "swept", !.swept = live]
      /\ UNCHANGED <<users, sessions>>
  BY DEF Sweep
<1>3. req'[r].op = req[r].op /\ req'[r].user = u /\ req'[r].swept = live
  <2>. HIDE DEF live
  <2>. QED
    BY <1>1, <1>2 DEF RevokeReq
<1>4. ASSUME NEW q \in Req, Issuer(q)'
      PROVE  /\ q # r /\ Issuer(q)
             /\ req'[q].op = req[q].op /\ req'[q].user = req[q].user /\ (req[q].op # "login" => req'[q].old = req[q].old)
             /\ (req[q].op = "login" => req'[q].epoch = req[q].epoch)
             /\ req[q].user = u => req'[q].late
             /\ ~req'[q].late => ~req[q].late
  <2>1. q # r
    BY <1>1, <1>3, <1>4 DEF Issuer
  <2>2. CASE req[q].op \in {"login", "rotate"} /\ req[q].user = u
    <3>1. req'[q] = [req[q] EXCEPT !.late = TRUE]
      BY <2>1, <2>2 DEF Sweep
    <3>2. req[q] \in LoginReq \cup RotateReq
      BY <2>2, RequestKinds DEF Good, TypeOK
    <3>3. CASE req[q] \in LoginReq
      BY <2>1, <2>2, <3>1, <3>3 DEF LoginReq, Issuer
    <3>4. CASE req[q] \in RotateReq
      BY <2>1, <2>2, <3>1, <3>4 DEF RotateReq, Issuer
    <3>. QED
      BY SMTT(30), <3>2, <3>3, <3>4
  <2>3. CASE ~(req[q].op \in {"login", "rotate"} /\ req[q].user = u)
    <3>1. req'[q] = req[q]
      BY <2>1, <2>3 DEF Sweep
    <3>. QED
      BY SMTT(30), <1>4, <2>1, <2>3, <3>1 DEF Issuer
  <2>. QED
    BY <2>2, <2>3
<1>5. ASSUME NEW q \in Req \ {r}, Swept(q)'
      PROVE  req'[q] = req[q] /\ Swept(q)
  <2>1. CASE req[q].op \in {"login", "rotate"} /\ req[q].user = u
    <3>1. req'[q] = [req[q] EXCEPT !.late = TRUE]
      BY <1>5, <2>1 DEF Sweep
    <3>2. req[q] \in LoginReq \cup RotateReq
      BY SMTT(30), <2>1, RequestKinds DEF Good, TypeOK
    <3>. QED
      BY SMTT(30), <1>5, <2>1, <3>1, <3>2 DEF LoginReq, RotateReq, Swept
  <2>2. CASE ~(req[q].op \in {"login", "rotate"} /\ req[q].user = u)
    BY <1>5, <2>2 DEF Sweep, Swept
  <2>. QED
    BY <2>1, <2>2
<1>6. ASSUME NEW v, v # u, Revoking(v)'
      PROVE  Revoking(v)
  <2>1. PICK q \in Req : Swept(q)' /\ req'[q].user = v
    BY <1>6 DEF Revoking, Swept
  <2>2. q # r
    BY <1>3, <1>6, <2>1
  <2>. QED
    BY <1>5, <2>1, <2>2 DEF Revoking, Swept
<1>7. ASSUME NEW q \in Req
      PROVE  Fresh(q)'
  <2>1. Fresh(q)
    BY DEF SessionsGood
  <2>2. ASSUME Issuer(q)', ~req'[q].late
        PROVE  ~Revoking(req[q].user)' /\ ReadEpoch(q)' = users'[req'[q].user].epoch
    <3>1. /\ Issuer(q) /\ ~req[q].late /\ req[q].user # u /\ req'[q].user = req[q].user /\ req'[q].op = req[q].op
          /\ (req[q].op # "login" => req'[q].old = req[q].old)
          /\ (req[q].op = "login" => req'[q].epoch = req[q].epoch)
      BY <1>4, <2>2
    <3>2. ReadEpoch(q)' = ReadEpoch(q)
      BY <1>2, <3>1 DEF ReadEpoch
    <3>3. ~Revoking(req[q].user) /\ ReadEpoch(q) = users[req[q].user].epoch
      BY <2>1, <3>1 DEF Fresh
    <3>4. ASSUME Revoking(req[q].user)'
          PROVE  FALSE
      <4>1. PICK v : v = req'[q].user
        OBVIOUS
      <4>2. Revoking(v)' /\ v # u
        BY <3>1, <3>4, <4>1
      <4>. QED
        BY <1>6, <3>1, <3>3, <4>1, <4>2
    <3>. QED
      BY <1>2, <3>1, <3>2, <3>3, <3>4
  <2>3. ASSUME Swept(q)', NEW k \in TokenIds, sessions'[k] \in Session, sessions'[k].live,
               sessions'[k].user = req'[q].user
        PROVE  k \in req'[q].swept \/ sessions'[k].late
    <3>1. CASE q = r
      BY <1>2, <1>3, <2>3, <3>1, NoneIsNoRow
    <3>2. CASE q # r
      BY <1>2, <1>5, <2>1, <2>3, <3>2 DEF Fresh
    <3>. QED
      BY <3>1, <3>2
  <2>. QED
    BY <2>2, <2>3 DEF Fresh
<1>8. SessionsOwned' /\ CurrentOrLate'
  BY <1>2 DEF SessionsGood, SessionsOwned, CurrentOrLate, Exists
<1>. QED
  BY <1>7, <1>8 DEF SessionsGood

\* The commit of a revocation: every live token of the user it leaves is late.
LEMMA RevokeSession ==
    ASSUME Good, SessionsGood, [Next]_vars, NEW r \in Req, CommitPassword(r) \/ CommitRemove(r)
    PROVE  SessionsGood'
<1>. DEFINE u == req[r].user
<1>1. Swept(r) /\ Fresh(r) /\ u \in RowIds /\ users[u] \in UserRow /\ req[r].swept \subseteq TokenIds
  <2>1. Swept(r)
    BY DEF CommitPassword, CommitRemove, Pending, Swept
  <2>. QED
    BY <2>1, SweptState DEF SessionsGood, Good, TypeOK, Exists
<1>2. /\ users'[u].epoch = r
      /\ \A v \in RowIds \ {u} : users'[v] = users[v]
      /\ \A v \in RowIds : Exists(v) => Exists(v)'
  <2>1. \A v \in RowIds \ {u} : users'[v] = users[v]
    BY <1>1 DEF CommitPassword, CommitRemove, Good, TypeOK
  <2>2. ASSUME CommitPassword(r)
        PROVE  users'[u].epoch = r
    BY <1>1, <2>2 DEF CommitPassword, UserRow, Good, TypeOK
  <2>3. ASSUME CommitRemove(r)
        PROVE  users'[u].epoch = r
    <3>. DEFINE row == [users[u] EXCEPT !.epoch = r, !.active = ~req[r].loaded /\ users[u].active]
    <3>1. users' = [users EXCEPT ![u] = row]
      BY <1>1, <2>3 DEF CommitRemove, Good, TypeOK
    <3>2. row.epoch = r
      BY <1>1 DEF UserRow
    <3>. QED
      BY <1>1, <3>1, <3>2 DEF Good, TypeOK
  <2>. QED
    BY <2>1, <2>2, <2>3, StepGood DEF KeepsUsers
<1>3. req'[r].op = "done" /\ \A q \in Req \ {r} : req'[q] = req[q]
  BY DEF CommitPassword, CommitRemove, Finish, Done, Good, TypeOK
<1>4. ASSUME NEW k \in TokenIds, sessions'[k] \in Session
      PROVE  /\ sessions[k] \in Session /\ sessions'[k].user = sessions[k].user
             /\ sessions'[k].epoch = sessions[k].epoch /\ sessions'[k].late = sessions[k].late
             /\ sessions'[k].live => k \notin req[r].swept /\ sessions'[k] = sessions[k]
  <2>1. sessions'[k] = IF k \in req[r].swept THEN [sessions[k] EXCEPT !.live = FALSE] ELSE sessions[k]
    BY DEF CommitPassword, CommitRemove, Revoked
  <2>2. k \in req[r].swept => sessions[k] \in Session
    BY <1>1 DEF Good, Ready, Swept
  <2>. QED
    BY <1>4, <2>1, <2>2 DEF Session
<1>5. /\ ~Issuer(r)' /\ ~Swept(r)'
      /\ \A q \in Req \ {r} : Issuer(q)' = Issuer(q) /\ Swept(q)' = Swept(q)
  BY <1>3 DEF Issuer, Swept
<1>6. \A v : Revoking(v)' => Revoking(v)
  BY <1>3, <1>5, RevokingStays
<1>7. Revoking(u)
  BY <1>1 DEF Revoking, Swept
<1>8. ASSUME NEW q \in Req \ {r}
      PROVE  Fresh(q)'
  <2>1. Fresh(q) /\ req'[q] = req[q]
    BY <1>3 DEF SessionsGood
  <2>2. ASSUME Issuer(q), ~req[q].late
        PROVE  ~Revoking(req[q].user)' /\ ReadEpoch(q)' = users'[req[q].user].epoch
    <3>1. /\ req[q].user \in RowIds
          /\ req[q].op # "login" => req[q].old \in TokenIds /\ sessions[req[q].old] \in Session
      BY <2>2, IssuerState
    <3>2. req[q].user # u
      BY <1>7, <2>1, <2>2 DEF Fresh
    <3>3. ReadEpoch(q)' = ReadEpoch(q)
      <4>1. sessions' = Revoked(r) /\ req[r].op \in {"reset", "change", "remove"}
        BY <1>1 DEF CommitPassword, CommitRemove, Swept
      <4>2. req[q].op # "login" => sessions'[req[q].old] \in Session
        BY <3>1, <4>1, RevokedKeeps
      <4>. QED
        BY <1>4, <2>1, <3>1, <4>2 DEF ReadEpoch
    <3>4. ~Revoking(req[q].user) /\ ReadEpoch(q) = users[req[q].user].epoch
      BY <2>1, <2>2 DEF Fresh
    <3>5. PICK v : v = req[q].user
      OBVIOUS
    <3>6. ~Revoking(v)'
      BY <1>6, <3>4, <3>5
    <3>. QED
      BY <1>2, <2>1, <3>1, <3>2, <3>3, <3>4, <3>5, <3>6
  <2>3. ASSUME Swept(q), NEW k \in TokenIds, sessions'[k] \in Session, sessions'[k].live,
               sessions'[k].user = req[q].user
        PROVE  k \in req[q].swept \/ sessions'[k].late
    BY <1>4, <2>1, <2>3 DEF Fresh
  <2>. QED
    BY <1>5, <2>1, <2>2, <2>3 DEF Fresh
<1>9. Fresh(r)'
  BY <1>5 DEF Fresh
<1>10. SessionsOwned'
  BY <1>2, <1>4 DEF SessionsGood, SessionsOwned, Session
<1>11. CurrentOrLate'
  <2>1. ASSUME NEW k \in TokenIds, sessions'[k] \in Session, sessions'[k].live, ~sessions'[k].late
        PROVE  sessions'[k].epoch = users'[sessions'[k].user].epoch
    <3>1. /\ sessions[k] \in Session /\ sessions[k].live /\ ~sessions[k].late /\ k \notin req[r].swept
          /\ sessions'[k] = sessions[k] /\ sessions[k].user \in RowIds
      BY <1>4, <2>1 DEF Session
    <3>2. sessions[k].user # u
      BY <1>1, <3>1 DEF Fresh
    <3>. QED
      BY <1>2, <3>1, <3>2 DEF SessionsGood, CurrentOrLate
  <2>. QED
    BY <2>1 DEF CurrentOrLate
<1>. QED
  BY <1>8, <1>9, <1>10, <1>11 DEF SessionsGood

LEMMA SessionsInit == ASSUME Init PROVE SessionsGood
<1>1. \A r \in Req : req[r].op = "idle"
  BY DEF Init, AccountsInit, Idle
<1>2. \A r \in Req : Fresh(r)
  BY <1>1 DEF Fresh, Issuer, Swept
<1>3. ASSUME NEW k \in TokenIds, sessions[k] \in Session
      PROVE  /\ k \in Seeds /\ k \in RowIds /\ users[k] = SeedRow[k] /\ SeedRow[k] \in UserRow
             /\ sessions[k] = NewSession(k, k, SeedRow[k].epoch, FALSE)
  BY <1>3, AccountsAssumption DEF Init, AccountsInit, TokenIds
<1>4. ASSUME NEW k \in TokenIds, sessions[k] \in Session
      PROVE  Exists(sessions[k].user) /\ sessions[k].epoch = users[sessions[k].user].epoch
  <2>1. sessions[k].user = k /\ sessions[k].epoch = SeedRow[k].epoch
    <3>. DEFINE new == NewSession(k, k, SeedRow[k].epoch, FALSE)
    <3>1. new.user = k /\ new.epoch = SeedRow[k].epoch
      BY DEF NewSession
    <3>2. sessions[k] = new
      BY <1>3, <1>4
    <3>. HIDE DEF new
    <3>. QED
      BY <3>1, <3>2
  <2>2. users[k] = SeedRow[k] /\ SeedRow[k] # None
    BY <1>3, <1>4, NoneIsNoRow
  <2>3. users[sessions[k].user] = SeedRow[k]
    BY <2>1, <2>2
  <2>. QED
    BY <2>1, <2>2, <2>3 DEF Exists
<1>. QED
  BY <1>2, <1>4 DEF SessionsGood, SessionsOwned, CurrentOrLate

LEMMA SessionsAlwaysGood == Spec => []SessionsGood
<1>1. Init => SessionsGood
  BY SessionsInit
<1>2. ASSUME Good, SessionsGood, [Next]_vars
      PROVE  SessionsGood'
  BY <1>2, SessionKinds, QuietKeeps, BeginsIssueKeeps, IssueSession, RotateSession, CreateSession, SweepSession,
     RevokeSession DEF SessionStep
<1>. QED
  BY <1>1, <1>2, AlwaysGood, PTL DEF Spec

\* A password reset or change and a removal end every session of the user,
\* also one that was rotated meanwhile, save what a request issues that
\* overlapped the revocation: it had read and not committed when the
\* revocation selected the tokens to end, or read between that and its commit.
THEOREM RevocationEndsSessions == Spec => []SessionsEndTogether
<1>1. Good /\ SessionsGood => SessionsEndTogether
  BY NoneIsNoRow DEF SessionsGood, CurrentOrLate, SessionsEndTogether, Outlived, Good, TypeOK
<1>. QED
  BY <1>1, AlwaysGood, SessionsAlwaysGood, PTL

-----------------------------------------------------------------------------
(* Rotation.  No token descends from a request that has not issued one.    *)

Roots == \A r \in Req : req[r].op # "done" =>
            \A k \in TokenIds : sessions[k] \in Session => sessions[k].root # r

RotationGood == Roots /\ OneSessionPerLogin

LEMMA SoleToken ==
    ASSUME Good, NEW k \in TokenIds
    PROVE  Sole(k) <=> sessions[k] \in Session /\ sessions[k].live /\ ~sessions[k].forked
BY NoneIsNoRow DEF Sole, Good, TypeOK

\* No new token, and no dead one comes back to life.
LEMMA NoNewToken ==
    ASSUME Good, RotationGood, [Next]_vars,
           \A k \in TokenIds : sessions'[k] \in Session =>
              /\ sessions[k] \in Session /\ sessions'[k].root = sessions[k].root
              /\ sessions'[k].forked = sessions[k].forked /\ (sessions'[k].live => sessions[k].live)
    PROVE  RotationGood'
<1>1. Roots'
  BY DoneStays DEF RotationGood, Roots
<1>2. ASSUME NEW k \in TokenIds, Sole(k)'
      PROVE  Sole(k) /\ sessions'[k].root = sessions[k].root
  <2>1. sessions'[k] \in Session /\ sessions'[k].live /\ ~sessions'[k].forked
    BY <1>2, StepGood, NoneIsNoRow DEF Sole, Good, TypeOK
  <2>. QED
    BY <2>1, SoleToken
<1>3. OneSessionPerLogin'
  BY <1>2 DEF RotationGood, OneSessionPerLogin
<1>. QED
  BY <1>1, <1>3 DEF RotationGood

\* The first token of a sign-in.
LEMMA NewRoot ==
    ASSUME Good, RotationGood, [Next]_vars, NEW r \in Req, req[r].op # "done", req'[r].op = "done",
           NEW new \in Session, new.root = r, sessions'[r] = new,
           \A k \in TokenIds \ {r} : sessions'[k] = sessions[k]
    PROVE  RotationGood'
<1>1. Roots'
  <2>1. ASSUME NEW q \in Req, req'[q].op # "done", NEW k \in TokenIds, sessions'[k] \in Session
        PROVE  sessions'[k].root # q
    <3>1. q # r /\ req[q].op # "done"
      BY <2>1, DoneStays
    <3>. QED
      BY <2>1, <3>1 DEF RotationGood, Roots
  <2>. QED
    BY <2>1 DEF Roots
<1>2. ASSUME NEW k \in TokenIds \ {r}, Sole(k)'
      PROVE  Sole(k) /\ sessions'[k] = sessions[k] /\ sessions[k].root # r
  <2>1. sessions'[k] = sessions[k] /\ Sole(k)
    BY <1>2 DEF Sole
  <2>. QED
    BY <2>1, SoleToken DEF RotationGood, Roots
<1>3. OneSessionPerLogin'
  <2>1. ASSUME NEW j \in TokenIds, NEW k \in TokenIds, Sole(j)', Sole(k)', sessions'[j].root = sessions'[k].root
        PROVE  j = k
    <3>1. CASE j # r /\ k # r
      BY <1>2, <2>1, <3>1 DEF RotationGood, OneSessionPerLogin
    <3>2. CASE j = r \/ k = r
      BY <1>2, <2>1, <3>2
    <3>. QED
      BY <3>1, <3>2
  <2>. QED
    BY <2>1 DEF OneSessionPerLogin
<1>. QED
  BY <1>1, <1>3 DEF RotationGood

LEMMA RotateRoot ==
    ASSUME Good, RotationGood, [Next]_vars, NEW r \in Req, Rotate(r)
    PROVE  RotationGood'
<1>. DEFINE k == req[r].old
            dead == [sessions[k] EXCEPT !.live = FALSE]
<1>1. /\ req[r].op = "rotate" /\ r \in TokenIds /\ k \in TokenIds /\ sessions[k] \in Session
      /\ sessions[r] = None /\ k # r
  BY RequestKinds, RowNames, NoneIsNoRow DEF Rotate, Pending, Good, TypeOK, Ready, RotateReq
<1>2. req[r].late \in BOOLEAN
  BY RequestKinds DEF Rotate, Pending, Good, TypeOK, RotateReq
<1>3. /\ Heir(r) \in Session /\ Heir(r).root = sessions[k].root
      /\ Heir(r).forked = (sessions[k].forked \/ ~sessions[k].live)
  BY <1>1, <1>2 DEF Heir, Session
<1>4. dead \in Session /\ ~dead.live /\ dead.root = sessions[k].root
  BY <1>1 DEF Session
<1>5. /\ sessions'[r] = Heir(r)
      /\ \A j \in TokenIds \ {r} : sessions'[j] = IF j = k THEN dead ELSE sessions[j]
  BY <1>1, <1>3, <1>4 DEF Rotate, Good, TypeOK
<1>6. req'[r].op = "done"
  BY DEF Rotate, Finish, Done, Good, TypeOK
<1>7. Roots'
  <2>1. ASSUME NEW q \in Req, req'[q].op # "done", NEW j \in TokenIds, sessions'[j] \in Session
        PROVE  sessions'[j].root # q
    <3>1. req[q].op # "done"
      BY <2>1, DoneStays
    <3>2. CASE j = r \/ j = k
      <4>1. sessions'[j].root = sessions[k].root
        BY <1>1, <1>3, <1>4, <1>5, <3>2
      <4>2. sessions[k].root # q
        BY <1>1, <3>1 DEF RotationGood, Roots
      <4>. QED
        BY <4>1, <4>2
    <3>3. CASE j # r /\ j # k
      BY <1>5, <2>1, <3>1, <3>3 DEF RotationGood, Roots
    <3>. QED
      BY <3>2, <3>3
  <2>. QED
    BY <2>1 DEF Roots
<1>8. ASSUME NEW j \in TokenIds \ {r}, Sole(j)'
      PROVE  j # k /\ Sole(j) /\ sessions'[j] = sessions[j]
  BY <1>4, <1>5, <1>8 DEF Sole
<1>9. Sole(r)' => Sole(k)
  BY <1>1, <1>3, <1>5, SoleToken DEF Sole
<1>10. OneSessionPerLogin'
  <2>1. ASSUME NEW i \in TokenIds, NEW j \in TokenIds, Sole(i)', Sole(j)', sessions'[i].root = sessions'[j].root
        PROVE  i = j
    <3>1. CASE i # r /\ j # r
      BY <1>8, <2>1, <3>1 DEF RotationGood, OneSessionPerLogin
    <3>2. ASSUME NEW h \in TokenIds \ {r}, Sole(h)', Sole(r)', sessions'[h].root = sessions'[r].root
          PROVE  FALSE
      <4>1. h # k /\ Sole(h) /\ sessions[h].root = sessions[k].root
        BY <1>3, <1>5, <1>8, <3>2
      <4>2. Sole(k)
        BY SMTT(30), <1>9, <3>2
      <4>. QED
        BY <1>1, <4>1, <4>2 DEF RotationGood, OneSessionPerLogin
    <3>. QED
      BY <2>1, <3>1, <3>2
  <2>. QED
    BY <2>1 DEF OneSessionPerLogin
<1>. QED
  BY <1>7, <1>10 DEF RotationGood

LEMMA RotationStep ==
    ASSUME Good, RotationGood, [Next]_vars
    PROVE  RotationGood'
<1>1. ASSUME UNCHANGED sessions
      PROVE  RotationGood'
  BY <1>1, NoNewToken
<1>2. ASSUME NEW r \in Req, CommitPassword(r) \/ CommitRemove(r)
      PROVE  RotationGood'
  <2>1. req[r].op \in {"reset", "change", "remove"} /\ sessions' = Revoked(r)
    BY <1>2 DEF CommitPassword, CommitRemove, Pending
  <2>2. \A k \in req[r].swept : sessions[k] \in Session
    BY <2>1 DEF Good, Ready
  <2>3. ASSUME NEW k \in TokenIds, sessions'[k] \in Session
        PROVE  /\ sessions[k] \in Session /\ sessions'[k].root = sessions[k].root
               /\ sessions'[k].forked = sessions[k].forked /\ (sessions'[k].live => sessions[k].live)
    <3>1. sessions'[k] = IF k \in req[r].swept THEN [sessions[k] EXCEPT !.live = FALSE] ELSE sessions[k]
      BY <2>1 DEF Revoked
    <3>. QED
      BY <2>2, <2>3, <3>1 DEF Session
  <2>. QED
    BY <2>3, NoNewToken
<1>3. ASSUME NEW r \in Req, IssueAuthResponse(r)
      PROVE  RotationGood'
  <2>. DEFINE new == NewSession(r, req[r].user, req[r].epoch, req[r].late)
  <2>1. req[r] \in LoginReq /\ req[r].op = "login" /\ r \in TokenIds
    BY <1>3, RequestKinds, RowNames DEF IssueAuthResponse, Pending, Good, TypeOK
  <2>2. new \in Session /\ new.root = r
    BY <2>1 DEF NewSession, Session, LoginReq
  <2>3. /\ sessions'[r] = new /\ \A k \in TokenIds \ {r} : sessions'[k] = sessions[k]
        /\ req'[r].op = "done" /\ req[r].op # "done"
    BY <1>3, <2>1 DEF IssueAuthResponse, Finish, Done, Good, TypeOK
  <2>. QED
    BY <2>2, <2>3, NewRoot
<1>4. ASSUME NEW r \in Req, CommitCreate(r), ~Refuse(r)
      PROVE  RotationGood'
  <2>. DEFINE new == NewSession(r, r, None, FALSE)
  <2>1. r \in RowIds /\ r \in TokenIds /\ req[r].op = "create"
    BY <1>4, RowNames DEF CommitCreate, Pending
  <2>2. new \in Session /\ new.root = r
    BY <2>1 DEF NewSession, Session
  <2>3. sessions' = [sessions EXCEPT ![r] = new] /\ Finish(r, "create", r)
    BY <1>4 DEF CommitCreate
  <2>4. /\ sessions'[r] = new /\ \A k \in TokenIds \ {r} : sessions'[k] = sessions[k]
        /\ req'[r].op = "done" /\ req[r].op # "done"
    BY <2>1, <2>3 DEF Finish, Done, Good, TypeOK
  <2>. QED
    BY <2>2, <2>4, NewRoot
<1>. QED
  BY <1>1, <1>2, <1>3, <1>4, SessionKinds, RotateRoot DEF SessionStep, Quiet, BeginsIssue, Sweep

LEMMA RotationInit == ASSUME Init PROVE RotationGood
<1>1. ASSUME NEW k \in TokenIds, sessions[k] # None
      PROVE  k \in Seeds /\ sessions[k].root = k
  <2>1. k \in Seeds /\ sessions[k] = NewSession(k, k, SeedRow[k].epoch, FALSE)
    BY <1>1 DEF Init, AccountsInit
  <2>2. NewSession(k, k, SeedRow[k].epoch, FALSE).root = k
    BY DEF NewSession
  <2>. QED
    BY <2>1, <2>2
<1>2. Roots
  BY <1>1, AccountsAssumption, NoneIsNoRow DEF Roots
<1>3. OneSessionPerLogin
  BY <1>1 DEF OneSessionPerLogin, Sole
<1>. QED
  BY <1>2, <1>3 DEF RotationGood

\* Of the refresh tokens that descend from one sign-in at most one is alive:
\* only two rotations that both read the same live token leave two, and from
\* then on their descendants are told apart.
THEOREM RotationIsLinear == Spec => []OneSessionPerLogin
<1>1. Init => RotationGood
  BY RotationInit
<1>2. Good /\ RotationGood /\ [Next]_vars => RotationGood'
  BY RotationStep
<1>3. RotationGood => OneSessionPerLogin
  BY DEF RotationGood
<1>. QED
  BY <1>1, <1>2, <1>3, AlwaysGood, PTL DEF Spec

-----------------------------------------------------------------------------
(* The directory and the workspace.  Mirror says, at every point of every   *)
(* post, what the rows here owe to the events posted so far: an event that  *)
(* is not ahead has had its effect, in the order of the feed.  A batch that *)
(* is owed again puts its events ahead once more, so the effects of a post  *)
(* that failed half-way say nothing until it is repeated.  Between the read *)
(* and the write of a user event the row may be anybody's, so what was read *)
(* is part of the invariant.                                               *)

\* Event i was posted and is still to be handled, perhaps once more.
Ahead(i) == (courier # NoPost /\ courier.pos <= i) \/ \E b \in owed : b.from <= i

PostedOf(kind, e) == {i \in 1..posted : feed[i].kind = kind /\ feed[i].email = e}

Ended(S) == \A i \in S : ~Ahead(i)

IsLast(S, i) == i \in S /\ \A j \in S : j <= i

\* In order, one batch is on its way at most, the last one.
InOrder ==
    /\ courier # NoPost => courier.batch.from <= courier.pos
    /\ ~overtaken =>
          /\ courier # NoPost => owed = {} /\ courier.batch.to = posted
          /\ \A b \in owed : b.to = posted /\ \A c \in owed : b = c

Mirrors(u) ==
    LET S == PostedOf("user", users[u].email)
    IN  (S # {} /\ Ended(S)) => \E i \in S : IsLast(S, i) /\ users[u].active = feed[i].active

\* An account nobody else touched follows the directory's last word on it,
\* unless that word is still to be handled.
Mirroring ==
    ~overtaken => \A u \in Colleagues(DirTenant) : (users[u].role # "owner" /\ LeftAlone(u)) => Mirrors(u)

\* The account the webhook has read is still the one of its address, and as
\* it was read.
ReadFresh ==
    courier.at = "read" =>
        /\ \A u \in ByEmail(TheEvent.email) : (users[u].role # "owner" /\ LeftAlone(u)) => u = courier.row
        /\ (courier.row # None /\ users[courier.row].role # "owner" /\ LeftAlone(courier.row)) =>
              users[courier.row].active = courier.loaded /\ users[courier.row].email = TheEvent.email

Added(u) ==
    LET S == PostedOf("member", users[u].email)
    IN  Ended(S) => \E i \in S : /\ IsLast(S, i) /\ feed[i].added
                                 /\ \A k \in 1..posted : (feed[k].kind = "group" /\ ~feed[k].exists /\ ~Ahead(k)) => k < i

\* The members the directory put into its group.
Followers == members \ byHand

\* The directory added them to it after it last deleted the group, unless its
\* last word on the member is still to be handled.
Membership ==
    /\ ~group => members = {}
    /\ ~overtaken => \A u \in Followers : LeftAlone(u) => Added(u)

Mirror == InOrder /\ Mirroring /\ ReadFresh /\ Membership

-----------------------------------------------------------------------------
(* Steps of requests.                                                      *)

\* An account that nobody has created, removed or renamed is as it was, or it
\* is the owner of a workspace that has just signed up.
Untouched(u) ==
    \/ Exists(u) /\ users'[u].email = users[u].email /\ users'[u].active = users[u].active
    \/ ~Exists(u) /\ users'[u].role = "owner"

LEMMA StillAlone ==
    ASSUME Good, [Next]_vars, NEW u \in RowIds, LeftAlone(u)'
    PROVE  LeftAlone(u)
BY DoneStays DEF LeftAlone

\* The step ends a request that creates, removes or renames row u.
LEMMA NotAlone ==
    ASSUME Good, NEW r \in Req, NEW u \in RowIds, NEW did \in {"create", "remove", "profile"}, Finish(r, did, u)
    PROVE  ~LeftAlone(u)'
<1>1. req'[r] = Done(did, u)
  BY DEF Finish, Good, TypeOK
<1>2. req'[r].op = "done" /\ req'[r].user = u /\ req'[r].did = did
  BY <1>1 DEF Done
<1>. QED
  BY <1>2 DEF LeftAlone

LEMMA SameUsers ==
    ASSUME UNCHANGED users, NEW u \in RowIds, Exists(u)'
    PROVE  Untouched(u)
BY DEF Exists, Untouched

LEMMA TouchedByBegin ==
    ASSUME Good, NEW r \in Req, AccountsBegin(r), NEW u \in RowIds, Exists(u)', LeftAlone(u)'
    PROVE  Untouched(u)
<1>1. CASE UNCHANGED users
  BY <1>1, SameUsers
<1>2. ASSUME NEW v \in RowIds, NEW role \in {"admin", "member"}, UpdateTeamRole(r, v, role)
      PROVE  Untouched(u)
  <2>. DEFINE row == [users[v] EXCEPT !.role = role]
  <2>1. users[v] \in UserRow /\ Exists(v) /\ users' = [users EXCEPT ![v] = row]
    BY <1>2 DEF UpdateTeamRole, Exists, Good, TypeOK
  <2>2. row.email = users[v].email /\ row.active = users[v].active
    BY <2>1 DEF UserRow
  <2>. HIDE DEF row
  <2>3. users'[v] = row /\ \A w \in RowIds \ {v} : users'[w] = users[w]
    BY <2>1 DEF Good, TypeOK
  <2>. QED
    BY <2>1, <2>2, <2>3 DEF Untouched, Exists
<1>3. ASSUME NEW t \in Tenants, NEW e \in Emails, CreateTenant(r, t, e)
      PROVE  Untouched(u)
  <2>1. users' = [users EXCEPT ![r] = NewUser(t, e, "owner")] /\ Finish(r, "create", r) /\ r \in RowIds
    BY <1>3, RowNames DEF CreateTenant
  <2>2. u # r
    BY <2>1, NotAlone
  <2>. QED
    BY <2>1, <2>2 DEF Untouched, Exists, Good, TypeOK
<1>. QED
  BY <1>1, <1>2, <1>3
  DEF AccountsBegin, Login, ChangePassword, RemoveTeamMember, ForgotPassword, UpdateProfile,
      Refresh, ResetPassword, Register, AcceptInvite, InviteMember, PatchTenant

LEMMA TouchedByCommit ==
    ASSUME Good, NEW r \in Req, AccountsCommit(r), NEW u \in RowIds, Exists(u)', LeftAlone(u)'
    PROVE  Untouched(u)
<1>1. CASE UNCHANGED users
  BY <1>1, SameUsers
<1>2. CASE CommitPassword(r)
  <2>. DEFINE v == req[r].user
              row == [users[v] EXCEPT !.epoch = r]
  <2>1. v \in RowIds /\ users[v] \in UserRow /\ Exists(v)
    BY <1>2, RequestKinds DEF CommitPassword, Good, TypeOK, Ready, RevokeReq, Exists
  <2>2. users' = [users EXCEPT ![v] = row]
    BY <1>2 DEF CommitPassword
  <2>3. row.email = users[v].email /\ row.active = users[v].active
    BY <2>1 DEF UserRow
  <2>. HIDE DEF row, v
  <2>4. users'[v] = row /\ \A w \in RowIds \ {v} : users'[w] = users[w]
    BY <2>1, <2>2 DEF Good, TypeOK
  <2>. QED
    BY <2>1, <2>3, <2>4 DEF Untouched, Exists
<1>3. CASE CommitRemove(r) \/ (CommitProfile(r) /\ ~Refuse(r))
  <2>. DEFINE v == req[r].user
  <2>1. v \in RowIds
    BY <1>3, RequestKinds DEF CommitRemove, CommitProfile, Pending, Good, TypeOK, RevokeReq, ProfileReq
  <2>2. Finish(r, "remove", v) \/ Finish(r, "profile", v)
    BY <1>3 DEF CommitRemove, CommitProfile
  <2>3. \A w \in RowIds \ {v} : users'[w] = users[w]
    BY <1>3 DEF CommitRemove, CommitProfile, Good, TypeOK
  <2>4. u # v
    BY <2>1, <2>2, NotAlone
  <2>. QED
    BY <2>3, <2>4 DEF Untouched, Exists
<1>4. CASE CommitCreate(r) /\ ~Refuse(r)
  <2>1. Finish(r, "create", r) /\ r \in RowIds /\ \A w \in RowIds \ {r} : users'[w] = users[w]
    BY <1>4, RowNames DEF CommitCreate, Good, TypeOK
  <2>. QED
    BY <2>1, NotAlone DEF Untouched, Exists
<1>5. CASE CommitSignup(r)
  <2>1. r \in RowIds /\ ~Exists(r)
    BY <1>5, RowNames DEF CommitSignup, Pending, Good, Ready, Exists
  <2>2. users' = [users EXCEPT ![r] = NewUser(req[r].tenant, req[r].email, "owner")]
    BY <1>5 DEF CommitSignup
  <2>3. users'[r].role = "owner" /\ \A w \in RowIds \ {r} : users'[w] = users[w]
    BY <2>1, <2>2 DEF NewUser, Good, TypeOK
  <2>. QED
    BY <2>1, <2>3 DEF Untouched, Exists
<1>6. CASE IssueAuthResponse(r) \/ Rotate(r) \/ Sweep(r) \/ Refuse(r)
  <2>1. IssueAuthResponse(r) => users' = users
    BY DEF IssueAuthResponse
  <2>2. Rotate(r) => users' = users
    BY DEF Rotate
  <2>3. Sweep(r) => UNCHANGED <<users, sessions, links, invites, tenants, enforced>>
    BY Zenon DEF Sweep
  <2>4. Refuse(r) => users' = users
    BY DEF Refuse
  <2>. QED
    BY <1>1, <1>6, <2>1, <2>2, <2>3, <2>4
<1>. QED
  BY <1>2, <1>3, <1>4, <1>5, <1>6 DEF AccountsCommit, Abort

\* No event is handled; nobody becomes a follower of the directory.
Undirected ==
    /\ UNCHANGED <<feed, posted, owed, courier, group, overtaken>>
    /\ Followers' \subseteq Followers
    /\ ~group => members' = {}

LEMMA FeedSame ==
    ASSUME Undirected
    PROVE  /\ \A i : Ahead(i)' = Ahead(i)
           /\ \A kind, e : PostedOf(kind, e)' = PostedOf(kind, e)
BY DEF Undirected, Ahead, PostedOf

LEMMA FeedUndirected == ASSUME Mirror, UNCHANGED feedVars PROVE Undirected
BY DEF Undirected, feedVars, Followers, Mirror, Membership

LEMMA RequestMirror ==
    ASSUME Good, Mirror, [Next]_vars, Undirected,
           \A u \in RowIds : (Exists(u)' /\ LeftAlone(u)') => Untouched(u)
    PROVE  Mirror'
<1>1. KeepsUsers
  BY StepGood
<1>2. ASSUME NEW u \in RowIds, Exists(u)', LeftAlone(u)', users'[u].role # "owner"
      PROVE  /\ Exists(u) /\ LeftAlone(u) /\ users[u].role # "owner" /\ users'[u].tenant = users[u].tenant
             /\ users'[u].email = users[u].email /\ users'[u].active = users[u].active
  BY <1>1, <1>2, StillAlone DEF Untouched, KeepsUsers
<1>3. InOrder'
  BY DEF Undirected, Mirror, InOrder
<1>4. Mirroring'
  <2>1. ASSUME NEW u \in Colleagues(DirTenant)', users'[u].role # "owner", LeftAlone(u)', ~overtaken'
        PROVE  Mirrors(u)'
    <3>1. u \in RowIds /\ Exists(u)' /\ users'[u].tenant = DirTenant
      BY DEF Colleagues, Rows
    <3>2. u \in Colleagues(DirTenant) /\ users[u].role # "owner" /\ LeftAlone(u) /\ ~overtaken
      BY <1>2, <2>1, <3>1 DEF Colleagues, Rows, Undirected
    <3>3. Mirrors(u)
      BY <3>2 DEF Mirror, Mirroring
    <3>4. users'[u].email = users[u].email /\ users'[u].active = users[u].active
      BY <1>2, <2>1, <3>1
    <3>5. feed' = feed
      BY DEF Undirected
    <3>. QED
      BY <3>3, <3>4, <3>5, FeedSame DEF Mirrors, Ended, IsLast
  <2>. QED
    BY <2>1 DEF Mirroring
<1>5. ReadFresh'
  <2>1. courier' = courier /\ TheEvent' = TheEvent
    BY DEF Undirected, TheEvent
  <2>2. SUFFICES ASSUME courier.at = "read"
                 PROVE  ReadFresh'
    BY <2>1 DEF ReadFresh
  <2>3. ASSUME NEW u \in ByEmail(TheEvent.email)', users'[u].role # "owner", LeftAlone(u)'
        PROVE  u = courier.row
    <3>1. u \in RowIds /\ Exists(u)' /\ users'[u].email = TheEvent.email
      BY <2>1 DEF ByEmail, Rows
    <3>2. u \in ByEmail(TheEvent.email) /\ users[u].role # "owner" /\ LeftAlone(u)
      BY <1>2, <2>3, <3>1 DEF ByEmail, Rows
    <3>. QED
      BY <2>2, <3>2 DEF Mirror, ReadFresh
  <2>4. ASSUME NEW v \in RowIds, v = courier.row, users'[v].role # "owner", LeftAlone(v)'
        PROVE  users'[v].active = courier.loaded /\ users'[v].email = TheEvent.email
    <3>1. courier # NoPost /\ courier \in Post
      BY <2>2 DEF Good, TypeOK, NoPost
    <3>2. v # None /\ Exists(v)
      BY <2>2, <2>4, <3>1, RowNames DEF Good, PostsWithin
    <3>3. Exists(v)'
      BY <1>1, <3>2 DEF KeepsUsers
    <3>4. /\ LeftAlone(v) /\ users[v].role # "owner"
          /\ users'[v].email = users[v].email /\ users'[v].active = users[v].active
      BY <1>2, <2>4, <3>3
    <3>5. users[v].active = courier.loaded /\ users[v].email = TheEvent.email
      BY <2>2, <2>4, <3>2, <3>4 DEF Mirror, ReadFresh
    <3>. QED
      BY <3>4, <3>5
  <2>5. courier.row \in RowIds \cup {None}
    BY <2>2 DEF Good, TypeOK, NoPost, Post
  <2>. QED
    BY <2>1, <2>3, <2>4, <2>5 DEF ReadFresh
<1>6. Membership'
  <2>1. (~group => members' = {}) /\ group' = group /\ Followers' \subseteq Followers /\ overtaken' = overtaken
        /\ posted' = posted /\ feed' = feed
    BY DEF Undirected
  <2>2. ASSUME NEW u \in Followers, LeftAlone(u)', ~overtaken
        PROVE  Added(u)'
    <3>1. u \in RowIds /\ Exists(u)
      BY DEF Good, TypeOK, Colleagues, Rows, Followers
    <3>2. Exists(u)'
      BY <1>1, <3>1 DEF KeepsUsers
    <3>3. users'[u].email = users[u].email
      BY <2>2, <3>1, <3>2 DEF Untouched
    <3>4. LeftAlone(u)
      BY <2>2, <3>1, StillAlone
    <3>5. Added(u)
      BY <2>2, <3>4 DEF Mirror, Membership
    <3>. QED
      BY <2>1, <3>3, <3>5, FeedSame DEF Added, Ended, IsLast
  <2>. QED
    BY <2>1, <2>2 DEF Membership
<1>. QED
  BY <1>3, <1>4, <1>5, <1>6 DEF Mirror

-----------------------------------------------------------------------------
(* Steps of the directory and of the posts.                                *)

\* The events posted so far stay, what is ahead stays ahead, and what is posted
\* now is ahead.
Onward ==
    /\ ~overtaken
    /\ posted <= posted'
    /\ \A i \in 1..posted : feed'[i] = feed[i] /\ (Ahead(i) => Ahead(i)')
    /\ \A i \in 1..posted' : i \in 1..posted \/ Ahead(i)'

LEMMA OnwardPosts ==
    ASSUME Good, Good', Onward, NEW kind, NEW e, Ended(PostedOf(kind, e))'
    PROVE  PostedOf(kind, e)' = PostedOf(kind, e) /\ Ended(PostedOf(kind, e))
<1>1. posted \in Nat /\ posted' \in Nat
  BY DEF Good, TypeOK
<1>2. \A i \in PostedOf(kind, e)' : i \in PostedOf(kind, e)
  BY DEF Ended, PostedOf, Onward
<1>3. \A i \in PostedOf(kind, e) : i \in PostedOf(kind, e)'
  BY <1>1 DEF PostedOf, Onward
<1>4. PostedOf(kind, e)' = PostedOf(kind, e)
  BY <1>2, <1>3
<1>5. \A i \in PostedOf(kind, e) : i \in 1..posted /\ ~Ahead(i)'
  BY <1>4 DEF Ended, PostedOf
<1>. QED
  BY <1>4, <1>5 DEF Ended, Onward

LEMMA FeedMirror ==
    ASSUME Good, Good', Mirror, UNCHANGED <<users, req, group, members, byHand>>, ~overtaken' => Onward
    PROVE  Mirroring' /\ Membership'
<1>0. \A u : LeftAlone(u)' = LeftAlone(u)
  BY DEF LeftAlone
<1>1. ASSUME NEW u \in Colleagues(DirTenant), users[u].role # "owner", LeftAlone(u), ~overtaken'
      PROVE  Mirrors(u)'
  <2>. DEFINE S == PostedOf("user", users[u].email)
  <2>1. SUFFICES ASSUME S' # {}, Ended(S)'
                 PROVE  \E i \in S' : IsLast(S, i)' /\ users'[u].active = feed'[i].active
    BY DEF Mirrors
  <2>2. S' = PostedOf("user", users[u].email)' /\ Onward
    BY <1>1
  <2>3. S' = S /\ Ended(S)
    BY <2>1, <2>2, OnwardPosts
  <2>4. PICK i \in S : IsLast(S, i) /\ users[u].active = feed[i].active
    BY <1>1, <2>1, <2>2, <2>3 DEF Mirror, Mirroring, Mirrors, Onward
  <2>5. feed'[i] = feed[i]
    BY <2>2, <2>4 DEF Onward, PostedOf
  <2>. HIDE DEF S
  <2>. QED
    BY <2>3, <2>4, <2>5 DEF IsLast
<1>2. ASSUME NEW u \in Followers, LeftAlone(u), ~overtaken'
      PROVE  Added(u)'
  <2>. DEFINE S == PostedOf("member", users[u].email)
  <2>1. SUFFICES ASSUME Ended(S)'
                 PROVE  \E i \in S' : /\ IsLast(S, i)' /\ feed'[i].added
                                      /\ \A k \in 1..posted' :
                                           (feed'[k].kind = "group" /\ ~feed'[k].exists /\ ~Ahead(k)') => k < i
    BY DEF Added
  <2>2. Onward
    BY <1>2
  <2>3. S' = S /\ Ended(S)
    BY <2>1, <2>2, OnwardPosts
  <2>4. PICK i \in S : /\ IsLast(S, i) /\ feed[i].added
                       /\ \A k \in 1..posted : (feed[k].kind = "group" /\ ~feed[k].exists /\ ~Ahead(k)) => k < i
    BY <1>2, <2>2, <2>3 DEF Mirror, Membership, Added, Onward
  <2>5. feed'[i] = feed[i]
    BY <2>2, <2>4 DEF Onward, PostedOf
  <2>6. ASSUME NEW k \in 1..posted', feed'[k].kind = "group", ~feed'[k].exists, ~Ahead(k)'
        PROVE  k < i
    BY <2>2, <2>4, <2>6 DEF Onward
  <2>. HIDE DEF S
  <2>. QED
    BY <2>3, <2>4, <2>5, <2>6 DEF IsLast
<1>3. Mirroring'
  BY <1>0, <1>1 DEF Mirroring, Colleagues, Rows, Exists
<1>4. Membership'
  BY <1>0, <1>2 DEF Membership, Mirror, Followers
<1>. QED
  BY <1>3, <1>4

LEMMA CarryState ==
    ASSUME NEW b, Carry(b)
    PROVE  courier' # NoPost /\ courier'.batch = b /\ courier'.pos = b.from /\ courier'.at = "start"
BY DEF Carry, NoPost

LEMMA PostBatchMirror ==
    ASSUME Good, Good', Mirror, PostBatch
    PROVE  Mirror'
<1>1. PICK to \in posted + 1..Len(feed) : Carry([from |-> posted + 1, to |-> to]) /\ posted' = to
  BY DEF PostBatch
<1>2. /\ courier' # NoPost /\ courier'.batch.from = posted + 1 /\ courier'.batch.to = to
      /\ courier'.pos = posted + 1 /\ courier'.at = "start"
  BY <1>1, CarryState
<1>3. courier = NoPost /\ overtaken' = (overtaken \/ owed # {}) /\ feed' = feed /\ owed' = owed
  BY DEF PostBatch
<1>4. posted \in Nat /\ to \in Nat /\ overtaken \in BOOLEAN
  BY <1>1 DEF Good, TypeOK
<1>5. InOrder'
  <2>1. ASSUME ~overtaken'
        PROVE  owed' = {}
    BY <1>3, <2>1
  <2>. QED
    BY <1>1, <1>2, <1>4, <2>1 DEF InOrder
<1>6. ~overtaken' => Onward
  BY <1>1, <1>2, <1>3, <1>4 DEF Onward, Ahead
<1>7. ReadFresh'
  BY <1>2 DEF ReadFresh
<1>. QED
  BY <1>5, <1>6, <1>7, FeedMirror DEF PostBatch, accountVars, Mirror

LEMMA PostAgainMirror ==
    ASSUME Good, Good', Mirror, NEW b \in Batch, PostAgain(b)
    PROVE  Mirror'
<1>1. /\ courier' # NoPost /\ courier'.batch = b /\ courier'.pos = b.from /\ courier'.at = "start"
  BY CarryState DEF PostAgain
<1>2. courier = NoPost /\ b \in owed /\ owed' = owed \ {b} /\ UNCHANGED <<posted, feed, overtaken>>
  BY DEF PostAgain
<1>3. b.from \in Nat /\ posted \in Nat
  BY DEF Batch, Good, TypeOK
<1>4. ~overtaken => owed = {b} /\ b.to = posted
  BY <1>2 DEF Mirror, InOrder
<1>5. InOrder'
  BY <1>1, <1>2, <1>3, <1>4 DEF InOrder
<1>6. ~overtaken' => Onward
  <2>1. SUFFICES ASSUME ~overtaken
                 PROVE  Onward
    BY <1>2
  <2>2. \A i : Ahead(i) => Ahead(i)'
    BY <1>1, <1>2, <1>4, <2>1 DEF Ahead
  <2>. QED
    BY <1>2, <1>3, <2>1, <2>2 DEF Onward
<1>7. ReadFresh'
  BY <1>1 DEF ReadFresh
<1>. QED
  BY <1>5, <1>6, <1>7, FeedMirror DEF PostAgain, accountVars, Mirror

LEMMA PostEndsMirror ==
    ASSUME Good, Good', Mirror, Answer \/ PostFails
    PROVE  Mirror'
<1>1. /\ courier # NoPost /\ courier \in Post /\ courier' = NoPost /\ UNCHANGED <<posted, feed, overtaken>>
      /\ (owed' = owed /\ courier.pos > courier.batch.to) \/ owed' = owed \cup {courier.batch}
  BY DEF Answer, PostFails, Good, TypeOK
<1>2. /\ courier.pos \in Nat /\ courier.batch.from \in Nat /\ courier.batch.to \in Nat /\ posted \in Nat
      /\ courier.batch.from <= courier.pos
  BY <1>1 DEF Post, Batch, Good, TypeOK, Mirror, InOrder
<1>3. ~overtaken => owed = {} /\ courier.batch.to = posted
  BY <1>1 DEF Mirror, InOrder
<1>4. InOrder'
  BY <1>1, <1>3 DEF InOrder
<1>5. ASSUME ~overtaken, NEW i \in 1..posted, Ahead(i)
      PROVE  Ahead(i)'
  <2>1. courier.pos <= i
    BY <1>3, <1>5 DEF Ahead
  <2>2. owed' = owed \cup {courier.batch}
    BY <1>1, <1>2, <1>3, <1>5, <2>1
  <2>. QED
    BY <1>2, <2>1, <2>2 DEF Ahead
<1>6. ~overtaken' => Onward
  BY <1>1, <1>2, <1>5 DEF Onward
<1>7. ReadFresh'
  BY <1>1 DEF ReadFresh, NoPost
<1>. QED
  BY <1>4, <1>6, <1>7, FeedMirror DEF Answer, PostFails, accountVars, Mirror

LEMMA DirectoryChangeMirror ==
    ASSUME Good, Good', Mirror, NEW ev \in Event, DirectoryChange(ev)
    PROVE  Mirror'
<1>1. feed' = Append(feed, ev) /\ UNCHANGED <<users, req, posted, owed, courier, group, members, byHand, overtaken>>
  BY DEF DirectoryChange, accountVars
<1>2. posted \in 0..Len(feed) /\ feed \in Seq(Event) /\ Len(feed) \in Nat
  BY DEF Good, TypeOK
<1>3. \A i \in 1..posted : feed'[i] = feed[i]
  BY <1>1, <1>2
<1>4. InOrder'
  BY <1>1 DEF Mirror, InOrder
<1>5. ~overtaken' => Onward
  BY <1>1, <1>2, <1>3 DEF Onward, Ahead
<1>6. ReadFresh'
  <2>1. SUFFICES ASSUME courier.at = "read"
                 PROVE  ReadFresh'
    BY <1>1 DEF ReadFresh
  <2>2. courier \in Post /\ courier # NoPost
    BY <2>1 DEF NoPost, Good, TypeOK
  <2>3. courier.pos \in 1..posted
    BY <1>2, <2>1, <2>2 DEF Good, PostsWithin, Post, Batch
  <2>4. TheEvent' = TheEvent
    BY <1>1, <1>3, <2>3 DEF TheEvent
  <2>5. /\ \A u : LeftAlone(u)' = LeftAlone(u)
        /\ ByEmail(TheEvent.email)' = ByEmail(TheEvent.email)
    BY <1>1, <2>4 DEF LeftAlone, ByEmail, Rows, Exists
  <2>. QED
    BY <1>1, <2>1, <2>4, <2>5 DEF Mirror, ReadFresh
<1>. QED
  BY <1>1, <1>4, <1>5, <1>6, FeedMirror DEF Mirror

LEMMA ReadUserMirror ==
    ASSUME Good, Good', Mirror, ReadUser
    PROVE  Mirror'
<1>1. courier \in Post /\ courier # NoPost /\ courier.pos \in 1..Len(feed)
  BY Zenon, HandledEvent DEF ReadUser
<1>2. UNCHANGED <<users, req, feed, posted, owed, group, members, byHand, overtaken>>
  <2>1. UNCHANGED <<accountVars, ssoVars, feed, posted, owed, group, members, byHand, overtaken>>
    BY Zenon DEF ReadUser
  <2>. QED
    BY <2>1 DEF accountVars
<1>. DEFINE found == ByEmail(TheEvent.email)
            Nobody == found = {} /\ courier' = [courier EXCEPT !.at = "read", !.row = None]
            Person(u) == /\ found = {u}
                         /\ courier' = [courier EXCEPT !.at = "read", !.row = u, !.loaded = users[u].active]
<1>3. Nobody \/ \E u \in found : Person(u)
  BY Zenon DEF ReadUser
<1>4. Nobody => courier' # NoPost /\ courier'.batch = courier.batch /\ courier'.pos = courier.pos /\ courier'.row = None
  BY <1>1 DEF Post, NoPost
<1>5. ASSUME NEW u \in found, Person(u)
      PROVE  /\ courier' # NoPost /\ courier'.batch = courier.batch /\ courier'.pos = courier.pos
             /\ courier'.row = u /\ courier'.loaded = users[u].active
  BY <1>1, <1>5 DEF Post, NoPost
<1>6. ASSUME NEW u \in found, Person(u)
      PROVE  found = {u} /\ users[u].email = TheEvent.email
  BY <1>6 DEF ByEmail
<1>7. Nobody => found = {}
  OBVIOUS
<1>. HIDE DEF Nobody, Person
<1>8. courier' # NoPost /\ courier'.batch = courier.batch /\ courier'.pos = courier.pos
  BY <1>3, <1>4, <1>5
<1>9. InOrder'
  BY <1>1, <1>2, <1>8 DEF Mirror, InOrder
<1>10. ~overtaken' => Onward
  BY <1>1, <1>2, <1>8 DEF Onward, Ahead, Good, TypeOK
<1>11. ReadFresh'
  <2>1. TheEvent' = TheEvent /\ found' = found /\ \A u : LeftAlone(u)' = LeftAlone(u)
    BY <1>2, <1>8 DEF TheEvent, LeftAlone, ByEmail, Rows, Exists
  <2>. HIDE DEF found
  <2>2. CASE Nobody
    BY <1>4, <1>7, <2>1, <2>2 DEF ReadFresh, found
  <2>3. ASSUME NEW u \in found, Person(u)
        PROVE  ReadFresh'
    <3>1. /\ courier'.row = u /\ courier'.loaded = users[u].active
          /\ found = {u} /\ users[u].email = TheEvent.email
      BY <1>5, <1>6, <2>3
    <3>. QED
      BY <1>2, <2>1, <3>1 DEF ReadFresh, found
  <2>. QED
    BY <1>3, <2>2, <2>3
<1>. QED
  BY <1>2, <1>9, <1>10, <1>11, FeedMirror DEF Mirror

-----------------------------------------------------------------------------
(* Events handled.                                                         *)

Handled == NextEvent /\ UNCHANGED <<req, feed, posted, owed, overtaken>>

LEMMA HandledAhead ==
    ASSUME Good, Mirror, NEW at \in {"start", "read"}, Handling(at), Handled
    PROVE  /\ courier.pos \in 1..posted /\ TheEvent \in Event
           /\ InOrder' /\ ReadFresh'
           /\ ~overtaken => \A i \in 1..posted : (Ahead(i) <=> courier.pos <= i) /\ (Ahead(i)' <=> courier.pos < i)
<1>1. /\ courier \in Post /\ courier # NoPost /\ courier.pos \in 1..Len(feed) /\ courier.batch.to <= posted
      /\ TheEvent \in Event /\ courier.pos <= courier.batch.to
  BY HandledEvent DEF Handling
<1>2. courier.pos \in Nat /\ courier.batch.from \in Nat /\ courier.batch.to \in Nat /\ posted \in Nat
  BY <1>1 DEF Post, Batch, Good, TypeOK
<1>3. courier' # NoPost /\ courier'.batch = courier.batch /\ courier'.pos = courier.pos + 1 /\ courier'.at = "start"
  BY <1>1 DEF Handled, NextEvent, Post, NoPost
<1>4. courier.pos \in 1..posted
  BY <1>1, <1>2
<1>5. InOrder'
  BY <1>1, <1>2, <1>3 DEF Handled, Mirror, InOrder
<1>6. ReadFresh'
  BY <1>3 DEF ReadFresh
<1>7. ASSUME ~overtaken, NEW i \in 1..posted
      PROVE  (Ahead(i) <=> courier.pos <= i) /\ (Ahead(i)' <=> courier.pos < i)
  <2>1. owed = {} /\ owed' = {}
    BY <1>1, <1>7 DEF Handled, Mirror, InOrder
  <2>. QED
    BY <1>1, <1>2, <1>3, <2>1 DEF Ahead
<1>. QED
  BY <1>1, <1>4, <1>5, <1>6, <1>7

\* Handling an event of another kind or address says nothing about this one.
LEMMA OtherPosts ==
    ASSUME Good, Mirror, NEW at \in {"start", "read"}, Handling(at), Handled, ~overtaken,
           NEW kind, NEW e, Ended(PostedOf(kind, e))'
    PROVE  /\ PostedOf(kind, e)' = PostedOf(kind, e)
           /\ courier.pos \in PostedOf(kind, e) => IsLast(PostedOf(kind, e), courier.pos)
           /\ courier.pos \notin PostedOf(kind, e) => Ended(PostedOf(kind, e))
<1>1. PostedOf(kind, e)' = PostedOf(kind, e)
  BY DEF Handled, PostedOf
<1>2. \A i \in PostedOf(kind, e) : i \in 1..posted /\ ~Ahead(i)'
  BY <1>1 DEF Ended, PostedOf
<1>3. /\ courier.pos \in 1..posted /\ posted \in Nat
      /\ \A i \in 1..posted : (Ahead(i) <=> courier.pos <= i) /\ (Ahead(i)' <=> courier.pos < i)
  BY HandledAhead DEF Good, TypeOK
<1>4. \A i \in PostedOf(kind, e) : i <= courier.pos
  BY <1>2, <1>3
<1>. QED
  BY <1>1, <1>2, <1>3, <1>4 DEF Ended, IsLast

\* Membership of one whose events and whose groups' ends were handled before.
LEMMA StillAdded ==
    ASSUME Good, Mirror, NEW at \in {"start", "read"}, Handling(at), Handled, ~overtaken,
           NEW u, u \in Followers, LeftAlone(u), NEW e, users[u].email = e, users'[u].email = e,
           courier.pos \notin PostedOf("member", e), ~(TheEvent.kind = "group" /\ ~TheEvent.exists)
    PROVE  Added(u)'
<1>. DEFINE S == PostedOf("member", e)
<1>1. SUFFICES ASSUME Ended(S)'
               PROVE  \E i \in S' : /\ IsLast(S, i)' /\ feed'[i].added
                                    /\ \A k \in 1..posted' :
                                         (feed'[k].kind = "group" /\ ~feed'[k].exists /\ ~Ahead(k)') => k < i
  BY DEF Added
<1>2. S' = S /\ Ended(S)
  BY <1>1, OtherPosts
<1>3. PICK i \in S : /\ IsLast(S, i) /\ feed[i].added
                     /\ \A k \in 1..posted : (feed[k].kind = "group" /\ ~feed[k].exists /\ ~Ahead(k)) => k < i
  BY <1>2 DEF Mirror, Membership, Added
<1>4. ASSUME NEW k \in 1..posted, feed[k].kind = "group", ~feed[k].exists, ~Ahead(k)'
      PROVE  k < i
  <2>1. /\ courier.pos \in 1..posted /\ posted \in Nat
        /\ (Ahead(k) <=> courier.pos <= k) /\ (Ahead(k)' <=> courier.pos < k)
    BY HandledAhead DEF Good, TypeOK
  <2>2. k # courier.pos
    BY <1>4 DEF TheEvent
  <2>. QED
    BY <1>3, <1>4, <2>1, <2>2
<1>5. posted' = posted /\ feed' = feed
  BY DEF Handled
<1>. HIDE DEF S
<1>. QED
  BY <1>2, <1>3, <1>4, <1>5 DEF IsLast

\* An account that handling the event leaves as it was.
LEMMA StillMirrors ==
    ASSUME Good, Mirror, NEW at \in {"start", "read"}, Handling(at), Handled, ~overtaken,
           NEW u \in Colleagues(DirTenant), users[u].role # "owner", LeftAlone(u),
           NEW e, users[u].email = e, users'[u].email = e, users'[u].active = users[u].active,
           courier.pos \notin PostedOf("user", e)
    PROVE  Mirrors(u)'
<1>. DEFINE S == PostedOf("user", e)
<1>1. SUFFICES ASSUME S' # {}, Ended(S)'
               PROVE  \E i \in S' : IsLast(S, i)' /\ users'[u].active = feed'[i].active
  BY DEF Mirrors
<1>2. S' = S /\ Ended(S)
  BY <1>1, OtherPosts
<1>3. PICK i \in S : IsLast(S, i) /\ users[u].active = feed[i].active
  BY <1>1, <1>2 DEF Mirror, Mirroring, Mirrors
<1>4. feed' = feed
  BY DEF Handled
<1>. HIDE DEF S
<1>. QED
  BY <1>2, <1>3, <1>4 DEF IsLast

\* The account the event is about, written as the event says.
LEMMA NowMirrors ==
    ASSUME Good, Mirror, NEW at \in {"start", "read"}, Handling(at), Handled, ~overtaken, NEW u, NEW e,
           TheEvent.kind = "user", TheEvent.email = e, users'[u].email = e, users'[u].active = TheEvent.active
    PROVE  Mirrors(u)'
<1>. DEFINE S == PostedOf("user", e)
<1>1. courier.pos \in S
  BY HandledAhead DEF PostedOf, TheEvent
<1>2. SUFFICES ASSUME Ended(S)'
               PROVE  \E i \in S' : IsLast(S, i)' /\ users'[u].active = feed'[i].active
  BY DEF Mirrors
<1>3. S' = S /\ IsLast(S, courier.pos)
  BY <1>1, <1>2, OtherPosts
<1>4. feed' = feed /\ TheEvent = feed[courier.pos]
  BY DEF Handled, TheEvent
<1>5. users'[u].active = feed'[courier.pos].active
  BY <1>4
<1>. HIDE DEF S
<1>. QED
  BY <1>1, <1>3, <1>5 DEF IsLast

LEMMA GroupEventMirror ==
    ASSUME Good, Good', Mirror, ApplyGroupEvent
    PROVE  Mirror'
<1>1. Handling("start") /\ Handled /\ UNCHANGED <<users, req>>
  BY DEF ApplyGroupEvent, Handled, accountVars
<1>2. InOrder' /\ ReadFresh' /\ courier.pos \in 1..posted /\ TheEvent \in Event
  BY <1>1, HandledAhead
<1>3. /\ \A u : LeftAlone(u)' = LeftAlone(u) /\ users'[u] = users[u]
      /\ Colleagues(DirTenant)' = Colleagues(DirTenant) /\ overtaken' = overtaken
  BY <1>1 DEF LeftAlone, Colleagues, Rows, Exists, Handled
<1>4. TheEvent.kind # "user"
  BY DEF ApplyGroupEvent
<1>5. Mirroring'
  <2>1. ASSUME NEW u \in Colleagues(DirTenant), users[u].role # "owner", LeftAlone(u), ~overtaken
        PROVE  Mirrors(u)'
    <3>1. PICK e : e = users[u].email
      OBVIOUS
    <3>2. courier.pos \notin PostedOf("user", e)
      BY <1>4 DEF PostedOf, TheEvent
    <3>. QED
      BY <1>1, <1>3, <2>1, <3>1, <3>2, StillMirrors
  <2>. QED
    BY <1>3, <2>1 DEF Mirroring
<1>6. Membership'
  <2>1. ASSUME NEW u \in Followers', u \in Followers, LeftAlone(u), ~overtaken,
               ~(TheEvent.kind = "member" /\ TheEvent.email = users[u].email),
               ~(TheEvent.kind = "group" /\ ~TheEvent.exists)
        PROVE  Added(u)'
    <3>1. PICK e : e = users[u].email
      OBVIOUS
    <3>2. courier.pos \notin PostedOf("member", e)
      BY <2>1, <3>1 DEF PostedOf, TheEvent
    <3>. QED
      BY <1>1, <1>3, <2>1, <3>1, <3>2, StillAdded
  <2>2. CASE TheEvent.kind = "group"
    <3>1. /\ group' = TheEvent.exists /\ members' = IF TheEvent.exists THEN members ELSE {}
          /\ byHand' = IF TheEvent.exists THEN byHand ELSE {}
      BY <2>2 DEF ApplyGroupEvent
    <3>2. TheEvent.exists \in BOOLEAN
      BY <1>2, <2>2, EventKinds DEF GroupEvent
    <3>3. CASE TheEvent.exists
      <4>1. Followers' = Followers /\ members' = members
        BY <3>1, <3>3 DEF Followers
      <4>2. ASSUME NEW u \in Followers', LeftAlone(u), ~overtaken
            PROVE  Added(u)'
        BY <2>1, <2>2, <3>3, <4>1, <4>2
      <4>. QED
        BY <1>3, <3>1, <3>3, <4>2 DEF Membership
    <3>4. CASE ~TheEvent.exists
      BY <3>1, <3>4 DEF Membership, Followers
    <3>. QED
      BY <3>3, <3>4
  <2>3. CASE TheEvent.kind = "member"
    <3>1. group' = group /\ ApplyMember(group, TheEvent) /\ byHand' = byHand \ InDirTenant(TheEvent.email)
      BY <2>3 DEF ApplyGroupEvent
    <3>2. TheEvent.added \in BOOLEAN /\ group \in BOOLEAN
      BY <1>2, <2>3, EventKinds DEF MemberEvent, Good, TypeOK
    <3>3. CASE ~group
      <4>1. members' = {}
        BY <3>1, <3>3 DEF ApplyMember, Mirror, Membership
      <4>. QED
        BY <4>1 DEF Membership, Followers
    <3>4. CASE group /\ TheEvent.added
      <4>1. members' = members \cup InDirTenant(TheEvent.email)
        BY <3>1, <3>4 DEF ApplyMember
      <4>2. ASSUME NEW u \in Followers', LeftAlone(u), ~overtaken, users[u].email = TheEvent.email
            PROVE  Added(u)'
        <5>1. PICK e : e = users[u].email
          OBVIOUS
        <5>. DEFINE S == PostedOf("member", e)
        <5>2. courier.pos \in S
          BY <1>2, <2>3, <4>2, <5>1 DEF PostedOf, TheEvent
        <5>3. SUFFICES ASSUME Ended(S)'
                       PROVE  \E i \in S' : /\ IsLast(S, i)' /\ feed'[i].added
                                            /\ \A k \in 1..posted' :
                                                 (feed'[k].kind = "group" /\ ~feed'[k].exists /\ ~Ahead(k)') => k < i
          BY <1>3, <5>1 DEF Added
        <5>4. S' = S /\ IsLast(S, courier.pos)
          BY <1>1, <4>2, <5>2, <5>3, OtherPosts
        <5>5. feed' = feed /\ posted' = posted /\ TheEvent = feed[courier.pos]
          BY <1>1 DEF Handled, TheEvent
        <5>6. ASSUME NEW k \in 1..posted, feed[k].kind = "group", ~Ahead(k)'
              PROVE  k < courier.pos
          <6>1. posted \in Nat /\ (Ahead(k)' <=> courier.pos < k)
            BY <1>1, <4>2, HandledAhead DEF Good, TypeOK
          <6>2. k # courier.pos
            BY <2>3, <5>5, <5>6
          <6>. QED
            BY <1>2, <5>6, <6>1, <6>2
        <5>7. feed'[courier.pos].added
          BY <3>4, <5>5
        <5>. HIDE DEF S
        <5>. QED
          BY <5>2, <5>4, <5>5, <5>6, <5>7 DEF IsLast
      <4>3. ASSUME NEW u \in Followers', LeftAlone(u), ~overtaken, users[u].email # TheEvent.email
            PROVE  Added(u)'
        BY <2>1, <2>3, <3>1, <4>1, <4>3 DEF InDirTenant, Followers
      <4>. QED
        BY <1>3, <3>1, <3>4, <4>2, <4>3 DEF Membership
    <3>5. CASE group /\ ~TheEvent.added
      <4>1. members' = members \ InDirTenant(TheEvent.email)
        BY <3>1, <3>5 DEF ApplyMember
      <4>2. ASSUME NEW u \in Followers', LeftAlone(u), ~overtaken
            PROVE  Added(u)'
        BY <2>1, <2>3, <3>1, <4>1, <4>2 DEF InDirTenant, Good, TypeOK, Followers
      <4>. QED
        BY <1>3, <3>1, <3>5, <4>2 DEF Membership
    <3>. QED
      BY <3>2, <3>3, <3>4, <3>5
  <2>. QED
    BY <2>2, <2>3 DEF ApplyGroupEvent
<1>. QED
  BY <1>2, <1>5, <1>6 DEF Mirror

\* What writing a user event does to the rows.
LEMMA Written ==
    ASSUME Good, WriteUser, NEW u \in RowIds, Exists(u)'
    PROVE  \/ Exists(u) /\ users'[u] = users[u]
           \/ /\ ~Exists(u)
              /\ users'[u].email = TheEvent.email /\ users'[u].active = TheEvent.active
           \/ /\ u = courier.row /\ Exists(u)
              /\ users'[u].email = users[u].email /\ users'[u].active = TheEvent.active
<1>1. courier \in Post /\ TheEvent \in Event /\ TheEvent.kind = "user"
  BY HandledEvent, GoodFeed DEF WriteUser, Handling, PostsWithin, TheEvent
<1>2. TheEvent.email \in Emails /\ TheEvent.active \in BOOLEAN
  BY <1>1, EventKinds DEF UserEvent
<1>3. CASE users' = users
  BY <1>3 DEF Exists
<1>4. CASE courier.row = None /\ users' # users
  <2>. DEFINE row == NewUser(DirTenant, TheEvent.email, "member")
  <2>1. users' = [users EXCEPT ![FreeRow] = row] /\ TheEvent.active /\ \E n \in 1..Work : ~Exists(n)
    BY <1>4 DEF WriteUser, CreateFromDirectory
  <2>2. FreeRow \in 1..Work /\ ~Exists(FreeRow)
    BY <2>1 DEF FreeRow
  <2>3. FreeRow \in RowIds
    BY <2>2, DirectoryAssumption
  <2>4. row.email = TheEvent.email /\ row.active = TRUE
    BY DEF NewUser
  <2>. HIDE DEF row
  <2>5. users'[FreeRow] = row /\ \A w \in RowIds \ {FreeRow} : users'[w] = users[w]
    BY <2>1, <2>3 DEF Good, TypeOK
  <2>6. TheEvent.active = TRUE
    BY <1>2, <2>1
  <2>. QED
    BY <2>2, <2>4, <2>5, <2>6 DEF Exists
<1>5. CASE courier.row # None /\ users' # users
  <2>. DEFINE v == courier.row
              row == [users[v] EXCEPT !.active = TheEvent.active]
  <2>1. users' = [users EXCEPT ![v] = row]
    BY <1>5 DEF WriteUser, Deactivated
  <2>2. v \in RowIds /\ Exists(v) /\ users[v] \in UserRow
    <3>1. courier # NoPost /\ courier.at = "read"
      BY HandledEvent DEF WriteUser, Handling
    <3>. QED
      BY <1>1, <1>5, <3>1, GoodFeed DEF PostsWithin, Post, Good, TypeOK, Exists
  <2>3. row.email = users[v].email /\ row.active = TheEvent.active
    BY <2>2 DEF UserRow
  <2>. HIDE DEF row, v
  <2>4. users'[v] = row /\ \A w \in RowIds \ {v} : users'[w] = users[w]
    BY <2>1, <2>2 DEF Good, TypeOK
  <2>. QED
    BY <2>2, <2>3, <2>4 DEF Exists, v
<1>. QED
  BY <1>3, <1>4, <1>5

\* A row of the connected workspace that was read is left as the event says.
LEMMA WrittenRow ==
    ASSUME Good, WriteUser, NEW u \in RowIds, u = courier.row, users[u].tenant = DirTenant,
           users[u].role # "owner", users[u].active = courier.loaded, users[u] \in UserRow
    PROVE  users'[u].active = TheEvent.active
<1>1. courier.row # None
  BY RowNames
<1>2. users' = Deactivated(u, TheEvent.active)
  BY <1>1 DEF WriteUser
<1>3. CASE TheEvent.active = courier.loaded
  BY <1>2, <1>3 DEF Deactivated
<1>4. CASE TheEvent.active # courier.loaded
  <2>. DEFINE row == [users[u] EXCEPT !.active = TheEvent.active]
  <2>1. users' = [users EXCEPT ![u] = row]
    BY <1>2, <1>4 DEF Deactivated
  <2>2. row.active = TheEvent.active
    BY DEF UserRow
  <2>. HIDE DEF row
  <2>. QED
    BY <2>1, <2>2 DEF Good, TypeOK
<1>. QED
  BY <1>3, <1>4

LEMMA WriteUserMirror ==
    ASSUME Good, Good', Mirror, [Next]_vars, WriteUser
    PROVE  Mirror'
<1>1. Handling("read") /\ Handled /\ UNCHANGED <<req, group, members, byHand>> /\ courier.at = "read"
  BY DEF WriteUser, Handled, Handling
<1>2. InOrder' /\ ReadFresh' /\ courier.pos \in 1..posted /\ TheEvent \in Event
  BY <1>1, HandledAhead
<1>3. \A u : LeftAlone(u)' = LeftAlone(u)
  BY <1>1 DEF LeftAlone
<1>4. TheEvent.kind = "user"
  BY <1>1, HandledEvent, GoodFeed DEF PostsWithin, TheEvent
<1>5. KeepsUsers
  BY StepGood
<1>6. Mirroring'
  <2>1. ASSUME NEW u \in RowIds, Exists(u)', users'[u].tenant = DirTenant, users'[u].role # "owner", LeftAlone(u),
               ~overtaken
        PROVE  Mirrors(u)'
    <3>1. CASE ~Exists(u)
      <4>1. PICK e : e = TheEvent.email
        OBVIOUS
      <4>2. users'[u].email = e /\ users'[u].active = TheEvent.active
        BY <2>1, <3>1, <4>1, Written
      <4>. QED
        BY <1>1, <1>4, <2>1, <4>1, <4>2, NowMirrors
    <3>2. CASE Exists(u)
      <4>1. PICK e : e = users[u].email
        OBVIOUS
      <4>2. users[u].tenant = DirTenant /\ users[u].role # "owner" /\ users[u] \in UserRow
        BY <1>5, <2>1, <3>2 DEF KeepsUsers, Good, TypeOK, Exists
      <4>3. users'[u].email = e
        BY <2>1, <3>2, <4>1, Written
      <4>4. CASE e = TheEvent.email
        <5>1. u \in ByEmail(TheEvent.email)
          BY <3>2, <4>1, <4>4 DEF ByEmail, Rows
        <5>2. u = courier.row
          BY <1>1, <2>1, <4>2, <5>1 DEF Mirror, ReadFresh
        <5>3. courier.row # None
          BY <5>2, RowNames
        <5>4. users[u].active = courier.loaded
          BY <1>1, <2>1, <4>2, <5>2, <5>3 DEF Mirror, ReadFresh
        <5>5. users'[u].active = TheEvent.active
          BY <4>2, <5>2, <5>4, WrittenRow
        <5>. QED
          BY <1>1, <1>4, <2>1, <4>3, <4>4, <5>5, NowMirrors
      <4>5. CASE e # TheEvent.email
        <5>1. ASSUME u = courier.row
              PROVE  FALSE
          <6>1. courier.row # None
            BY <5>1, RowNames
          <6>. QED
            BY <1>1, <2>1, <4>1, <4>2, <4>5, <5>1, <6>1 DEF Mirror, ReadFresh
        <5>2. users'[u] = users[u]
          BY <2>1, <3>2, <5>1, Written
        <5>3. u \in Colleagues(DirTenant)
          BY <3>2, <4>2 DEF Colleagues, Rows
        <5>4. courier.pos \notin PostedOf("user", e)
          BY <4>5 DEF PostedOf, TheEvent
        <5>. QED
          BY <1>1, <2>1, <4>1, <4>2, <4>3, <5>2, <5>3, <5>4, StillMirrors
      <4>. QED
        BY <4>4, <4>5
    <3>. QED
      BY <3>1, <3>2
  <2>. QED
    BY <1>1, <1>3, <2>1 DEF Mirroring, Colleagues, Rows, Handled
<1>7. Membership'
  <2>1. ASSUME NEW u \in Followers, LeftAlone(u), ~overtaken
        PROVE  Added(u)'
    <3>1. PICK e : e = users[u].email
      OBVIOUS
    <3>2. u \in RowIds /\ Exists(u)
      BY DEF Good, TypeOK, Colleagues, Rows, Followers
    <3>3. Exists(u)'
      BY <1>5, <3>2 DEF KeepsUsers
    <3>4. users'[u].email = e
      BY <3>1, <3>2, <3>3, Written
    <3>5. courier.pos \notin PostedOf("member", e)
      BY <1>4 DEF PostedOf, TheEvent
    <3>. QED
      BY <1>1, <1>4, <2>1, <3>1, <3>4, <3>5, StillAdded
  <2>. QED
    BY <1>1, <1>3, <2>1 DEF Mirror, Membership, Handled, Followers
<1>. QED
  BY <1>2, <1>6, <1>7 DEF Mirror

-----------------------------------------------------------------------------

LEMMA MirrorInit == ASSUME Init PROVE Mirror
<1>1. courier = NoPost /\ owed = {} /\ posted = 0 /\ members = {} /\ group = FALSE
  BY DEF Init
<1>2. \A kind, e : PostedOf(kind, e) = {}
  BY <1>1 DEF PostedOf
<1>3. InOrder /\ ReadFresh /\ Membership
  BY <1>1 DEF InOrder, ReadFresh, Membership, Followers, NoPost
<1>4. Mirroring
  BY <1>2 DEF Mirroring, Mirrors
<1>. QED
  BY <1>3, <1>4 DEF Mirror

LEMMA MirrorStep == ASSUME Good, Mirror, [Next]_vars PROVE Mirror'
<1>0. Good'
  BY StepGood
<1>1. CASE UNCHANGED vars
  <2>1. UNCHANGED <<users, feedVars>>
    BY <1>1 DEF vars, accountVars
  <2>. QED
    BY <2>1, SameUsers, RequestMirror, FeedUndirected
<1>2. ASSUME NEW r \in Req, AccountsBegin(r), UNCHANGED <<ssoVars, feedVars>>
      PROVE  Mirror'
  BY <1>2, TouchedByBegin, RequestMirror, FeedUndirected
<1>3. ASSUME NEW r \in Req, AccountsCommit(r), UNCHANGED <<ssoVars, feedVars>>
      PROVE  Mirror'
  BY <1>3, TouchedByCommit, RequestMirror, FeedUndirected
<1>4. ASSUME NEW r \in Req, SsoBegin(r) \/ SsoCommit(r)
      PROVE  Mirror'
  <2>1. SsoBegin(r) => UNCHANGED <<users, feedVars>>
    BY DEF SsoBegin, SsoStart, CreateConnection, DeleteConnection, SetDomains
  <2>2. SsoCommit(r) => UNCHANGED <<users, feedVars>>
    BY DEF SsoCommit, SsoCallback, PolisDelete, CommitDisconnect, FinishDelete, LoadTenant, CommitDomains, Refuse
  <2>. QED
    BY <1>4, <2>1, <2>2, SameUsers, RequestMirror, FeedUndirected
<1>5. ASSUME NEW ev \in Event, DirectoryChange(ev)
      PROVE  Mirror'
  BY <1>0, <1>5, DirectoryChangeMirror
<1>6. CASE WebhookNext
  BY <1>0, <1>6, PostBatchMirror, PostAgainMirror, ReadUserMirror, WriteUserMirror, GroupEventMirror, PostEndsMirror
  DEF WebhookNext
<1>7. ASSUME NEW r \in Req, NEW u \in RowIds, AddMember(r, u) \/ RemoveMember(r, u)
      PROVE  Mirror'
  <2>1. UNCHANGED users
    BY <1>7 DEF AddMember, RemoveMember, MembersEdited
  <2>2. Undirected
    BY <1>7 DEF AddMember, RemoveMember, MembersEdited, Undirected, Followers
  <2>. QED
    BY <2>1, <2>2, SameUsers, RequestMirror
<1>. QED
  BY <1>1, <1>2, <1>3, <1>4, <1>5, <1>6, <1>7 DEF Next

LEMMA MirrorAlways == Spec => []Mirror
<1>1. Init => Mirror
  BY MirrorInit
<1>2. Good /\ Mirror /\ [Next]_vars => Mirror'
  BY MirrorStep
<1>. QED
  BY <1>1, <1>2, AlwaysGood, PTL DEF Spec

\* Nothing is ahead of a directory whose posts were all answered.
LEMMA SettledEvents ==
    ASSUME Good, Settled, NEW kind, NEW e
    PROVE  PostedOf(kind, e) = EventsOf(kind, e) /\ Ended(PostedOf(kind, e))
BY DEF Settled, PostedOf, EventsOf, Ended, Ahead

LEMMA LatestIsLast ==
    ASSUME Good, NEW S \in SUBSET (1..Len(feed)), NEW i \in S, IsLast(S, i)
    PROVE  Latest(S) = feed[i]
<1>1. Len(feed) \in Nat
  BY DEF Good, TypeOK
<1>. DEFINE Is(c) == c \in S /\ \A j \in S : j <= c
<1>2. \A c : Is(c) => c = i
  BY <1>1 DEF IsLast
<1>3. Is(i)
  BY DEF IsLast
<1>4. (CHOOSE c \in S : \A j \in S : j <= c) = i
  BY <1>2, <1>3
<1>. QED
  BY <1>4 DEF Latest

\* Once every batch was answered, in order, an account the directory manages
\* is active exactly if the directory's last word on it says so, whatever
\* failed half-way and was repeated, and whoever signed in or up meanwhile.
THEOREM DirectoryFollowed == Spec => []DirectoryMirrored
<1>1. ASSUME Good, Mirror
      PROVE  DirectoryMirrored
  <2>1. SUFFICES ASSUME Settled, NEW e \in Emails, EventsOf("user", e) # {}, NEW u \in InDirTenant(e),
                        users[u].role # "owner", LeftAlone(u)
                 PROVE  users[u].active = Latest(EventsOf("user", e)).active
    BY DEF DirectoryMirrored
  <2>2. u \in Colleagues(DirTenant) /\ users[u].email = e
    BY DEF InDirTenant
  <2>3. Mirrors(u)
    BY <1>1, <2>1, <2>2 DEF Mirror, Mirroring, Settled
  <2>. DEFINE S == EventsOf("user", e)
  <2>4. PostedOf("user", e) = S /\ Ended(S)
    BY <1>1, <2>1, SettledEvents
  <2>5. PICK i \in S : IsLast(S, i) /\ users[u].active = feed[i].active
    BY <2>1, <2>2, <2>3, <2>4 DEF Mirrors
  <2>6. S \in SUBSET (1..Len(feed))
    BY DEF EventsOf
  <2>. HIDE DEF S
  <2>7. Latest(S) = feed[i]
    BY <1>1, <2>5, <2>6, LatestIsLast
  <2>. QED
    BY <2>5, <2>7 DEF S
<1>. QED
  BY <1>1, AlwaysGood, MirrorAlways, PTL

\* ... and nobody is in the directory's group here whom the directory has not
\* added to it since it last removed them or the group, but for those whom an
\* administrator put in (add_member does not look at the group's source) and the
\* directory has not spoken of since.
THEOREM MembershipFollowed == Spec => []NothingBeyondDirectory
<1>1. ASSUME Good, Mirror
      PROVE  NothingBeyondDirectory
  <2>1. SUFFICES ASSUME Settled, NEW u \in members \ byHand, LeftAlone(u)
                 PROVE  LET added == EventsOf("member", users[u].email)
                        IN  /\ added # {}
                            /\ Latest(added).added
                            /\ \A i \in 1..Len(feed) :
                                  (feed[i].kind = "group" /\ ~feed[i].exists) => \E j \in added : j > i
    BY DEF NothingBeyondDirectory
  <2>. DEFINE S == EventsOf("member", users[u].email)
  <2>2. Added(u) /\ PostedOf("member", users[u].email) = S /\ Ended(S) /\ posted = Len(feed)
    BY <1>1, <2>1, SettledEvents DEF Mirror, Membership, Followers, Settled
  <2>3. PICK i \in S : /\ IsLast(S, i) /\ feed[i].added
                       /\ \A k \in 1..posted : (feed[k].kind = "group" /\ ~feed[k].exists /\ ~Ahead(k)) => k < i
    BY <2>2 DEF Added
  <2>4. S \in SUBSET (1..Len(feed)) /\ Len(feed) \in Nat
    BY <1>1 DEF EventsOf, Good, TypeOK
  <2>5. \A k \in 1..Len(feed) : ~Ahead(k)
    BY <2>1 DEF Settled, Ahead
  <2>6. \A k \in 1..Len(feed) : (feed[k].kind = "group" /\ ~feed[k].exists) => i > k
    BY <2>2, <2>3, <2>4, <2>5
  <2>. HIDE DEF S
  <2>7. Latest(S) = feed[i]
    BY <1>1, <2>3, <2>4, LatestIsLast
  <2>8. S # {} /\ Latest(S).added
    BY <2>3, <2>7
  <2>. QED
    BY <2>3, <2>6, <2>8 DEF S
<1>. QED
  BY <1>1, AlwaysGood, MirrorAlways, PTL
=============================================================================
