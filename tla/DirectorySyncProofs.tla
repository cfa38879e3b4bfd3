------------------------ MODULE DirectorySyncProofs ------------------------
(***************************************************************************)
(* Types and owners of Accounts and DirectorySync, for every number of      *)
(* workspaces, addresses, requests, seed accounts and directory events.     *)
(***************************************************************************)
EXTENDS DirectorySync, FiniteSetTheorems, TLAPS

-----------------------------------------------------------------------------
(* The invariant.  A request refers to rows that exist; a row it is to      *)
(* insert does not.  A batch ends within the feed, and a user event was     *)
(* read before it is written.                                               *)

AccountTypes ==
    /\ users \in [RowIds -> UserRow \cup {None}]
    /\ sessions \in [TokenIds -> Session \cup {None}]
    /\ links \in [Req -> Link \cup {None}]
    /\ invites \subseteq Invite
    /\ tenants \in [Tenants -> {"none", "active", "suspended"}]
    /\ enforced \in [Tenants -> BOOLEAN]
    /\ req \in [Req -> RequestState]

Ready(r) ==
    /\ req[r].op \in {"login", "rotate", "reset", "change", "remove", "profile"} => Exists(req[r].user)
    /\ req[r].op = "rotate" =>
          sessions[req[r].old] \in Session /\ sessions[req[r].old].user = req[r].user
    /\ req[r].op = "reset" => req[r].link \in Req /\ links[req[r].link] \in Link
    /\ req[r].op = "remove" => users[req[r].user].role # "owner"
    /\ req[r].op \in {"reset", "change", "remove"} => \A k \in req[r].swept : sessions[k] \in Session
    /\ req[r].op \in {"idle", "sso", "create"} => users[r] = None
    /\ req[r].op # "done" => sessions[r] = None /\ links[r] = None

LinksOwned == \A x \in Req : links[x] \in Link => Exists(links[x].user)

PostsWithin ==
    /\ \A b \in owed : b.to <= posted
    /\ courier # NoPost =>
          /\ courier.batch.to <= posted
          /\ courier.at = "read" =>
                /\ courier.pos <= courier.batch.to
                /\ feed[courier.pos].kind = "user"
                /\ courier.row # None => Exists(courier.row)

Good == /\ TypeOK
        /\ \A r \in Req : Ready(r)
        /\ LinksOwned
        /\ PostsWithin

-----------------------------------------------------------------------------
(* Requests by kind, and what a step of request r leaves as it was.        *)

LEMMA RequestKinds ==
    ASSUME NEW s \in RequestState
    PROVE  /\ s.op = "login" => s \in LoginReq
           /\ s.op = "rotate" => s \in RotateReq
           /\ s.op \in {"reset", "change", "remove"} => s \in RevokeReq
           /\ s.op = "create" => s \in CreateReq
           /\ s.op = "profile" => s \in ProfileReq
           /\ s.op = "sso" => s \in SsoReq
           /\ s.op = "disconnect" => s \in DisconnectReq
           /\ s.op = "domains" => s \in DomainsReq
           /\ s.op = "done" => s \in DoneReq
           /\ s.op \in {"idle", "login", "rotate", "reset", "change", "remove", "create", "profile",
                        "sso", "disconnect", "domains", "done"}
BY DEF RequestState, LoginReq, RotateReq, RevokeReq, CreateReq, ProfileReq, SsoReq, DisconnectReq,
       DomainsReq, DoneReq, Idle

\* Rows are never deleted, never change workspace, and an owner stays what it is.
KeepsUsers ==
    \A u \in RowIds : Exists(u) =>
       /\ Exists(u)' /\ users'[u].tenant = users[u].tenant
       /\ users[u].role = "owner" <=> users'[u].role = "owner"
       /\ users[u].role = "owner" => users'[u].active = users[u].active

KeepsTokens ==
    /\ \A k \in TokenIds : sessions[k] \in Session =>
          sessions'[k] \in Session /\ sessions'[k].user = sessions[k].user
    /\ \A x \in Req : links[x] \in Link => links'[x] \in Link /\ links'[x].user = links[x].user

Others(r) ==
    \A q \in Req \ {r} :
       /\ req'[q] = req[q]
       /\ users[q] = None => users'[q] = None
       /\ sessions[q] = None => sessions'[q] = None
       /\ links[q] = None => links'[q] = None

Effect(r) == AccountTypes' /\ KeepsUsers /\ KeepsTokens /\ LinksOwned' /\ Others(r) /\ Ready(r)'

LEMMA OthersReady ==
    ASSUME Good, NEW r \in Req, NEW q \in Req \ {r}, KeepsUsers, KeepsTokens, Others(r)
    PROVE  Ready(q)'
<1>1. /\ req'[q] = req[q] /\ Ready(q) /\ req[q] \in RequestState
      /\ users[q] = None => users'[q] = None
      /\ sessions[q] = None => sessions'[q] = None
      /\ links[q] = None => links'[q] = None
  BY DEF Good, TypeOK, Others
<1>2. /\ req[q].op \in {"login", "rotate", "reset", "change", "remove", "profile"} => req[q].user \in RowIds
      /\ req[q].op = "rotate" => req[q].old \in TokenIds
      /\ req[q].op \in {"reset", "change", "remove"} => req[q].swept \subseteq TokenIds
  BY <1>1, RequestKinds DEF LoginReq, RotateReq, RevokeReq, ProfileReq
<1>. QED
  BY <1>1, <1>2 DEF Ready, KeepsUsers, KeepsTokens, Exists

LinkTypes ==
    /\ claims \in [Domains -> Claim \cup {None}]
    /\ idp \subseteq Tenants /\ halfway \subseteq Tenants /\ blind \subseteq Tenants

LEMMA LinksSame == ASSUME Good, UNCHANGED ssoVars PROVE LinkTypes'
BY DEF Good, TypeOK, LinkTypes, ssoVars

\* A step of one request that leaves the directory and its webhook alone.
LEMMA MembersAreGood ==
    ASSUME Good, NEW r \in Req, Effect(r), LinkTypes',
           UNCHANGED <<feed, posted, owed, courier, group, overtaken>>,
           members' \subseteq Colleagues(DirTenant), byHand' \subseteq members'
    PROVE  Good'
<1>1. TypeOK'
  <2>1. Colleagues(DirTenant) \subseteq Colleagues(DirTenant)'
    BY DEF Effect, KeepsUsers, Colleagues, Rows, Exists
  <2>2. /\ feed' \in Seq(Event) /\ Len(feed') <= Work /\ posted' \in 0..Len(feed') /\ owed' \subseteq Batch
        /\ courier' \in Post \cup {NoPost} /\ group' \in BOOLEAN /\ overtaken' \in BOOLEAN
    BY DEF Good, TypeOK
  <2>. QED
    BY <2>1, <2>2 DEF Effect, AccountTypes, LinkTypes, TypeOK
<1>2. \A q \in Req : Ready(q)'
  BY OthersReady DEF Effect
<1>3. PostsWithin'
  <2>1. courier # NoPost => courier \in Post
    BY DEF Good, TypeOK
  <2>. QED
    BY <2>1 DEF Effect, KeepsUsers, Good, PostsWithin, Post
<1>. QED
  BY <1>1, <1>2, <1>3 DEF Effect, Good

LEMMA EffectIsGood ==
    ASSUME Good, NEW r \in Req, Effect(r), LinkTypes', UNCHANGED feedVars
    PROVE  Good'
<1>1. members \subseteq Colleagues(DirTenant) /\ byHand \subseteq members
  BY DEF Good, TypeOK
<1>. QED
  BY <1>1, MembersAreGood DEF feedVars

\* A request that only reads and remembers.
LEMMA OnlyReads ==
    ASSUME Good, NEW r \in Req, NEW s \in RequestState, req' = [req EXCEPT ![r] = s],
           UNCHANGED <<users, sessions, links, invites, tenants, enforced>>, Ready(r)'
    PROVE  Effect(r)
<1>1. AccountTypes'
  BY DEF Good, TypeOK, AccountTypes
<1>2. KeepsUsers /\ KeepsTokens /\ LinksOwned' /\ Others(r)
  BY DEF Good, TypeOK, KeepsUsers, KeepsTokens, LinksOwned, Others, Exists
<1>. QED
  BY <1>1, <1>2 DEF Effect

-----------------------------------------------------------------------------
(* The requests of Accounts: what each reads.                              *)

LEMMA RowNames == Req \subseteq RowIds /\ TokenIds \subseteq RowIds /\ Req \subseteq TokenIds /\ None \notin RowIds
BY AccountsAssumption DEF TokenIds

LEMMA NoneIsNoRow == None \notin UserRow /\ None \notin Session /\ None \notin Link
BY AccountsAssumption

\* A request that changes rows but refers to none afterwards.
LEMMA DoneIsReady ==
    ASSUME NEW r \in Req, req'[r].op = "done"
    PROVE  Ready(r)'
BY DEF Ready

LEMMA DoneState ==
    ASSUME NEW did \in Outcomes, NEW u \in RowIds \cup {None}
    PROVE  Done(did, u) \in RequestState /\ Done(did, u).op = "done"
BY DEF Done, RequestState, DoneReq, Outcomes

LEMMA LoginEffect ==
    ASSUME Good, NEW r \in Req, NEW u \in RowIds, Login(r, u)
    PROVE  Effect(r)
<1>. DEFINE s == [op |-> "login", user |-> u, epoch |-> users[u].epoch, late |-> Revoking(u)]
<1>1. users[u] \in UserRow
  BY DEF Login, CanAct, Exists, Good, TypeOK
<1>2. s \in RequestState
  BY <1>1 DEF RequestState, LoginReq, UserRow, Revoking
<1>3. req'[r] = s
  BY DEF Login, Good, TypeOK
<1>4. Ready(r)'
  BY <1>3 DEF Ready, Login, CanAct, Exists, Starts, Idle, Good
<1>. QED
  BY <1>2, <1>4, OnlyReads DEF Login

LEMMA RefreshEffect ==
    ASSUME Good, NEW r \in Req, NEW k \in TokenIds, Refresh(r, k)
    PROVE  Effect(r)
<1>. DEFINE s == [op |-> "rotate", user |-> sessions[k].user, old |-> k,
                  late |-> sessions[k].late \/ Revoking(sessions[k].user)]
<1>1. sessions[k] \in Session
  BY DEF Refresh, Good, TypeOK
<1>2. s \in RequestState
  BY <1>1 DEF RequestState, RotateReq, Session, Revoking
<1>3. req'[r] = s
  BY DEF Refresh, Good, TypeOK
<1>4. Ready(r)'
  BY <1>1, <1>3 DEF Ready, Refresh, CanAct, Exists, Starts, Idle, Good
<1>. QED
  BY <1>2, <1>4, OnlyReads DEF Refresh

LEMMA RevokerEffect ==
    ASSUME Good, NEW r \in Req,
           (\E x \in Req : ResetPassword(r, x))
              \/ \E u \in RowIds : ChangePassword(r, u) \/ RemoveTeamMember(r, u)
    PROVE  Effect(r)
<1>1. ASSUME NEW op \in {"reset", "change", "remove"}, NEW u \in RowIds, Exists(u), NEW x \in Req \cup {None},
             op = "reset" => x \in Req /\ links[x] \in Link,
             op = "remove" => users[u].role # "owner",
             BeginRevoker(r, op, u, x),
             UNCHANGED <<users, sessions, links, invites, tenants, enforced>>, req[r].op # "done"
      PROVE  Effect(r)
  <2>. DEFINE s == [op |-> op, user |-> u, link |-> x, phase |-> "read", loaded |-> users[u].active,
                    swept |-> {}]
  <2>1. users[u] \in UserRow
    BY <1>1 DEF Exists, Good, TypeOK
  <2>2. s \in RequestState
    BY <2>1 DEF RequestState, RevokeReq, UserRow
  <2>3. req'[r] = s
    BY <1>1 DEF BeginRevoker, Good, TypeOK
  <2>4. Ready(r)'
    BY <1>1, <2>3 DEF Ready, Exists, Good
  <2>. QED
    BY <1>1, <2>2, <2>4, OnlyReads DEF BeginRevoker
<1>2. ASSUME NEW x \in Req, ResetPassword(r, x)
      PROVE  Effect(r)
  <2>1. links[x] \in Link /\ links[x].user \in RowIds /\ Exists(links[x].user)
    BY <1>2 DEF ResetPassword, Good, TypeOK, LinksOwned, Link
  <2>. QED
    BY <1>1, <1>2, <2>1 DEF ResetPassword, Starts, Idle
<1>3. ASSUME NEW u \in RowIds, ChangePassword(r, u)
      PROVE  Effect(r)
  BY <1>1, <1>3 DEF ChangePassword, CanAct, Starts, Idle
<1>4. ASSUME NEW u \in RowIds, RemoveTeamMember(r, u)
      PROVE  Effect(r)
  BY <1>1, <1>4 DEF RemoveTeamMember, Starts, Idle
<1>. QED
  BY <1>2, <1>3, <1>4

LEMMA BeginCreateEffect ==
    ASSUME Good, NEW r \in Req, req[r].op \in {"idle", "sso"},
           NEW t \in Tenants, NEW e \in Emails, NEW role \in Roles, BeginCreate(r, t, e, role),
           UNCHANGED <<users, sessions, links, invites, tenants, enforced>>
    PROVE  Effect(r)
<1>. DEFINE s == [op |-> "create", user |-> r, tenant |-> t, email |-> e, role |-> role]
<1>1. s \in RequestState
  BY RowNames DEF RequestState, CreateReq
<1>2. req'[r] = s
  BY DEF BeginCreate, Good, TypeOK
<1>3. users[r] = None
  BY DEF Good, Ready
<1>4. Ready(r)'
  BY <1>2, <1>3 DEF Ready, Good
<1>. QED
  BY <1>1, <1>4, OnlyReads DEF BeginCreate

LEMMA UpdateProfileEffect ==
    ASSUME Good, NEW r \in Req, NEW u \in RowIds, NEW e \in Emails, UpdateProfile(r, u, e)
    PROVE  Effect(r)
<1>. DEFINE s == [op |-> "profile", user |-> u, email |-> e]
<1>1. s \in RequestState
  BY DEF RequestState, ProfileReq
<1>2. req'[r] = s
  BY DEF UpdateProfile, Good, TypeOK
<1>3. Ready(r)'
  BY <1>2 DEF Ready, UpdateProfile, CanAct, Exists, Starts, Idle, Good
<1>. QED
  BY <1>1, <1>3, OnlyReads DEF UpdateProfile

\* A request that ends without having changed a row.
LEMMA FinishEffect ==
    ASSUME Good, NEW r \in Req, NEW did \in Outcomes, NEW u \in RowIds \cup {None}, Finish(r, did, u),
           UNCHANGED <<users, sessions, links, invites, tenants, enforced>>
    PROVE  Effect(r)
<1>1. req'[r] = Done(did, u)
  BY DEF Finish, Good, TypeOK
<1>. QED
  BY <1>1, DoneState, DoneIsReady, OnlyReads DEF Finish

\* The request of a step that ends it.
LEMMA FinishState ==
    ASSUME Good, NEW r \in Req, NEW did \in Outcomes, NEW u \in RowIds \cup {None}, Finish(r, did, u)
    PROVE  req' \in [Req -> RequestState] /\ Ready(r)' /\ \A q \in Req \ {r} : req'[q] = req[q]
<1>1. req'[r] = Done(did, u) /\ req' = [req EXCEPT ![r] = Done(did, u)]
  BY DEF Finish, Good, TypeOK
<1>. QED
  BY <1>1, DoneState, DoneIsReady DEF Good, TypeOK

LEMMA ForgotPasswordEffect ==
    ASSUME Good, NEW r \in Req, NEW u \in RowIds, ForgotPassword(r, u)
    PROVE  Effect(r)
<1>1. req' \in [Req -> RequestState] /\ Ready(r)' /\ \A q \in Req \ {r} : req'[q] = req[q]
  BY FinishState DEF ForgotPassword, Outcomes
<1>2. [user |-> u, used |-> FALSE] \in Link
  BY DEF Link
<1>3. AccountTypes'
  BY <1>1, <1>2 DEF ForgotPassword, Good, TypeOK, AccountTypes
<1>4. LinksOwned'
  <2>1. \A x \in Req : links'[x] = IF x = r THEN [user |-> u, used |-> FALSE] ELSE links[x]
    BY DEF ForgotPassword, Good, TypeOK
  <2>2. users' = users /\ Exists(u)
    BY DEF ForgotPassword
  <2>. QED
    BY <2>1, <2>2 DEF Good, LinksOwned, Exists
<1>5. KeepsUsers /\ KeepsTokens /\ Others(r)
  <2>9. req[r].op = "idle"
    BY DEF ForgotPassword, Starts, Idle
  <2>0. links[r] = None /\ links[r] \notin Link
    BY AccountsAssumption, <2>9 DEF Good, Ready
  <2>1. \A x \in Req \ {r} : links'[x] = links[x]
    BY DEF ForgotPassword, Good, TypeOK
  <2>. QED
    BY <1>1, <2>0, <2>1 DEF ForgotPassword, KeepsUsers, KeepsTokens, Others, Exists
<1>. QED
  BY <1>1, <1>3, <1>4, <1>5 DEF Effect

LEMMA UpdateTeamRoleEffect ==
    ASSUME Good, NEW r \in Req, NEW u \in RowIds, NEW role \in {"admin", "member"}, UpdateTeamRole(r, u, role)
    PROVE  Effect(r)
<1>1. req' \in [Req -> RequestState] /\ Ready(r)' /\ \A q \in Req \ {r} : req'[q] = req[q]
  BY FinishState DEF UpdateTeamRole, Outcomes
<1>2. users[u] \in UserRow /\ users[u].role # "owner"
  BY DEF UpdateTeamRole, Exists, Good, TypeOK
<1>3. users' = [users EXCEPT ![u] = [users[u] EXCEPT !.role = role]] /\ [users[u] EXCEPT !.role = role] \in UserRow
  BY <1>2 DEF UpdateTeamRole, UserRow, Roles, Good, TypeOK
<1>4. AccountTypes'
  BY <1>1, <1>3 DEF UpdateTeamRole, Good, TypeOK, AccountTypes
<1>5. KeepsUsers
  <2>1. users'[u] # None /\ users'[u].tenant = users[u].tenant /\ users'[u].role = role
    BY <1>2, <1>3, AccountsAssumption DEF UserRow, Good, TypeOK
  <2>2. \A v \in RowIds \ {u} : users'[v] = users[v]
    BY <1>3 DEF Good, TypeOK
  <2>. QED
    BY <1>2, <2>1, <2>2 DEF KeepsUsers, Exists
<1>6. KeepsTokens /\ LinksOwned' /\ Others(r)
  <2>1. \A q \in Req : users[q] = None => users'[q] = None
    BY <1>2, RowNames, AccountsAssumption DEF UpdateTeamRole, Good, TypeOK
  <2>. QED
    BY <1>1, <1>5, <2>1
    DEF UpdateTeamRole, Good, TypeOK, LinksOwned, Link, KeepsUsers, KeepsTokens, Others, Exists
<1>. QED
  BY <1>1, <1>4, <1>5, <1>6 DEF Effect

LEMMA NewUserType ==
    ASSUME NEW t \in Tenants, NEW e \in Emails, NEW role \in Roles
    PROVE  NewUser(t, e, role) \in UserRow /\ NewUser(t, e, role) # None
<1>1. NewUser(t, e, role) \in UserRow
  BY DEF NewUser, UserRow
<1>. QED
  BY <1>1, NoneIsNoRow

\* A row inserted under a name not in use leaves all others.
LEMMA InsertKeeps ==
    ASSUME Good, NEW n \in RowIds, users[n] = None, NEW row \in UserRow, users' = [users EXCEPT ![n] = row]
    PROVE  /\ users' \in [RowIds -> UserRow \cup {None}]
           /\ users'[n] = row /\ \A v \in RowIds \ {n} : users'[v] = users[v]
           /\ KeepsUsers
<1>1. users \in [RowIds -> UserRow \cup {None}]
  BY DEF Good, TypeOK
<1>. QED
  BY <1>1 DEF KeepsUsers, Exists

LEMMA CreateTenantEffect ==
    ASSUME Good, NEW r \in Req, NEW t \in Tenants, NEW e \in Emails, CreateTenant(r, t, e)
    PROVE  Effect(r)
<1>1. req' \in [Req -> RequestState] /\ Ready(r)' /\ \A q \in Req \ {r} : req'[q] = req[q]
  BY FinishState, RowNames DEF CreateTenant, Outcomes
<1>2. users[r] = None /\ r \in RowIds
  BY RowNames DEF CreateTenant, Starts, Idle, Good, Ready
<1>3. NewUser(t, e, "owner") \in UserRow
  BY NewUserType DEF Roles
<1>4. /\ users' \in [RowIds -> UserRow \cup {None}] /\ KeepsUsers
      /\ \A v \in RowIds \ {r} : users'[v] = users[v]
  BY <1>2, <1>3, InsertKeeps DEF CreateTenant
<1>5. AccountTypes'
  BY <1>1, <1>4 DEF CreateTenant, Good, TypeOK, AccountTypes
<1>6. KeepsTokens /\ LinksOwned' /\ Others(r)
  BY <1>1, <1>4, RowNames DEF CreateTenant, Good, TypeOK, LinksOwned, Link, KeepsUsers, KeepsTokens, Others, Exists
<1>. QED
  BY <1>1, <1>4, <1>5, <1>6 DEF Effect

\* Requests that touch neither rows nor tokens.
LEMMA OtherTablesEffect ==
    ASSUME Good, NEW r \in Req, NEW did \in Outcomes, Finish(r, did, None),
           UNCHANGED <<users, sessions, links>>, invites' \subseteq Invite,
           tenants' \in [Tenants -> {"none", "active", "suspended"}], enforced' \in [Tenants -> BOOLEAN]
    PROVE  Effect(r)
<1>1. req' \in [Req -> RequestState] /\ Ready(r)' /\ \A q \in Req \ {r} : req'[q] = req[q]
  BY FinishState
<1>2. AccountTypes'
  BY <1>1 DEF Good, TypeOK, AccountTypes
<1>3. KeepsUsers /\ KeepsTokens /\ LinksOwned' /\ Others(r)
  BY <1>1 DEF Good, TypeOK, KeepsUsers, KeepsTokens, LinksOwned, Others, Exists
<1>. QED
  BY <1>1, <1>2, <1>3 DEF Effect

LEMMA InviteMemberEffect ==
    ASSUME Good, NEW r \in Req, NEW i \in Invite, InviteMember(r, i)
    PROVE  Effect(r)
BY OtherTablesEffect DEF InviteMember, Outcomes, Good, TypeOK

LEMMA PatchTenantEffect ==
    ASSUME Good, NEW r \in Req, NEW t \in Tenants, NEW status \in {"active", "suspended"}, PatchTenant(r, t, status)
    PROVE  Effect(r)
<1>1. tenants' \in [Tenants -> {"none", "active", "suspended"}]
  BY DEF PatchTenant, Good, TypeOK
<1>. QED
  BY <1>1, OtherTablesEffect DEF PatchTenant, Outcomes, Good, TypeOK

LEMMA BeginEffect ==
    ASSUME Good, NEW r \in Req, AccountsBegin(r)
    PROVE  Effect(r)
<1>1. ASSUME NEW u \in RowIds,
             \/ Login(r, u) \/ ChangePassword(r, u) \/ RemoveTeamMember(r, u) \/ ForgotPassword(r, u)
             \/ \E role \in {"admin", "member"} : UpdateTeamRole(r, u, role)
             \/ \E e \in Emails : UpdateProfile(r, u, e)
      PROVE  Effect(r)
  BY <1>1, LoginEffect, RevokerEffect, ForgotPasswordEffect, UpdateTeamRoleEffect, UpdateProfileEffect
<1>2. ASSUME NEW k \in TokenIds, Refresh(r, k)
      PROVE  Effect(r)
  BY <1>2, RefreshEffect
<1>3. ASSUME NEW x \in Req, ResetPassword(r, x)
      PROVE  Effect(r)
  BY <1>3, RevokerEffect
<1>4. ASSUME NEW t \in Tenants, NEW e \in Emails, Register(r, t, e) \/ CreateTenant(r, t, e)
      PROVE  Effect(r)
  <2>1. CASE Register(r, t, e)
    BY <2>1, BeginCreateEffect DEF Register, Starts, Idle, Roles
  <2>. QED
    BY <1>4, <2>1, CreateTenantEffect
<1>5. ASSUME NEW i \in Invite, AcceptInvite(r, i) \/ InviteMember(r, i)
      PROVE  Effect(r)
  <2>1. CASE AcceptInvite(r, i)
    BY <2>1, BeginCreateEffect DEF AcceptInvite, Starts, Idle, Roles, Invite
  <2>. QED
    BY <1>5, <2>1, InviteMemberEffect
<1>6. ASSUME NEW t \in Tenants, NEW status \in {"active", "suspended"}, PatchTenant(r, t, status)
      PROVE  Effect(r)
  BY <1>6, PatchTenantEffect
<1>. QED
  BY <1>1, <1>2, <1>3, <1>4, <1>5, <1>6 DEF AccountsBegin

-----------------------------------------------------------------------------
(* The requests of Accounts: what each commits.                            *)

\* A new token under the name of its request.
LEMMA TokenInserted ==
    ASSUME Good, NEW r \in Req, req[r].op # "done", NEW new \in Session,
           \A k \in TokenIds \ {r} : \/ sessions'[k] = sessions[k]
                                     \/ /\ sessions[k] \in Session /\ sessions'[k] \in Session
                                        /\ sessions'[k].user = sessions[k].user,
           sessions' \in [TokenIds -> Session \cup {None}], sessions'[r] = new,
           UNCHANGED links
    PROVE  KeepsTokens /\ \A q \in Req \ {r} : sessions[q] = None => sessions'[q] = None
<1>1. sessions[r] \notin Session
  BY NoneIsNoRow DEF Good, Ready
<1>2. \A q \in Req \ {r} : sessions[q] = None => sessions'[q] = None
  BY NoneIsNoRow, RowNames
<1>. QED
  BY <1>1, <1>2 DEF KeepsTokens, Good, TypeOK

LEMMA IssueEffect ==
    ASSUME Good, NEW r \in Req, IssueAuthResponse(r)
    PROVE  Effect(r)
<1>. DEFINE new == NewSession(r, req[r].user, req[r].epoch, req[r].late)
<1>1. req[r] \in LoginReq /\ r \in TokenIds
  BY RequestKinds DEF IssueAuthResponse, Pending, Good, TypeOK, TokenIds
<1>2. new \in Session
  BY <1>1 DEF NewSession, Session, LoginReq
<1>3. req' \in [Req -> RequestState] /\ Ready(r)' /\ \A q \in Req \ {r} : req'[q] = req[q]
  BY <1>1, FinishState DEF IssueAuthResponse, Outcomes, LoginReq
<1>4. /\ sessions' \in [TokenIds -> Session \cup {None}] /\ sessions'[r] = new
      /\ \A k \in TokenIds \ {r} : sessions'[k] = sessions[k]
  BY <1>1, <1>2 DEF IssueAuthResponse, Good, TypeOK
<1>5. KeepsTokens /\ \A q \in Req \ {r} : sessions[q] = None => sessions'[q] = None
  BY <1>2, <1>4, TokenInserted DEF IssueAuthResponse, Pending
<1>6. AccountTypes'
  BY <1>3, <1>4 DEF IssueAuthResponse, Good, TypeOK, AccountTypes
<1>7. KeepsUsers /\ LinksOwned' /\ Others(r)
  BY <1>3, <1>5 DEF IssueAuthResponse, Good, TypeOK, KeepsUsers, LinksOwned, Others, Exists
<1>. QED
  BY <1>3, <1>5, <1>6, <1>7 DEF Effect

LEMMA RotateEffect ==
    ASSUME Good, NEW r \in Req, Rotate(r)
    PROVE  Effect(r)
<1>. DEFINE k == req[r].old
            dead == [sessions[k] EXCEPT !.live = FALSE]
<1>1. req[r] \in RotateReq /\ r \in TokenIds /\ k \in TokenIds /\ sessions[k] \in Session
  BY RequestKinds DEF Rotate, Pending, Good, TypeOK, TokenIds, Ready, RotateReq
<1>2. dead \in Session /\ dead.user = sessions[k].user
  BY <1>1 DEF Session
<1>3. Heir(r) \in Session
  BY <1>1 DEF Heir, Session, RotateReq
<1>4. req' \in [Req -> RequestState] /\ Ready(r)' /\ \A q \in Req \ {r} : req'[q] = req[q]
  BY <1>1, FinishState DEF Rotate, Outcomes, RotateReq
<1>5. /\ sessions' \in [TokenIds -> Session \cup {None}] /\ sessions'[r] = Heir(r)
      /\ \A j \in TokenIds \ {r} : sessions'[j] = IF j = k THEN dead ELSE sessions[j]
  BY <1>1, <1>2, <1>3 DEF Rotate, Good, TypeOK
<1>6. KeepsTokens /\ \A q \in Req \ {r} : sessions[q] = None => sessions'[q] = None
  BY <1>1, <1>2, <1>3, <1>5, TokenInserted DEF Rotate, Pending
<1>7. AccountTypes'
  BY <1>4, <1>5 DEF Rotate, Good, TypeOK, AccountTypes
<1>8. KeepsUsers /\ LinksOwned' /\ Others(r)
  BY <1>4, <1>6 DEF Rotate, Good, TypeOK, KeepsUsers, LinksOwned, Others, Exists
<1>. QED
  BY <1>4, <1>6, <1>7, <1>8 DEF Effect

\* The sweep: a revocation remembers tokens, sign-ins under way become late.
LEMMA SweepKeeps ==
    ASSUME Good, NEW r \in Req, Sweep(r)
    PROVE  /\ req' \in [Req -> RequestState]
           /\ \A q \in Req : Ready(q)'
           /\ UNCHANGED <<users, sessions, links, invites, tenants, enforced>>
<1>. DEFINE u == req[r].user
            live == {k \in TokenIds : sessions[k] # None /\ sessions[k].user = u /\ sessions[k].live}
            swept == [req[r] EXCEPT !.phase = "swept", !.swept = live]
<1>1. req[r] \in RevokeReq
  BY RequestKinds DEF Sweep, Good, TypeOK
<1>2. /\ swept \in RequestState /\ swept.op = req[r].op
      /\ swept.user = req[r].user /\ swept.link = req[r].link
      /\ \A k \in swept.swept : sessions[k] \in Session
  BY ZenonT(40), <1>1 DEF RequestState, RevokeReq, Good, TypeOK
<1>3. ASSUME NEW q \in Req \ {r}
      PROVE  /\ req'[q] \in RequestState
             /\ req'[q] = req[q] \/ (/\ req[q].op \in {"login", "rotate"} /\ req'[q].op = req[q].op
                                     /\ req'[q].user = req[q].user
                                     /\ req[q].op = "rotate" => req'[q].old = req[q].old)
  <2>1. CASE req[q].op \in {"login", "rotate"} /\ req[q].user = u
    <3>1. req'[q] = [req[q] EXCEPT !.late = TRUE]
      BY <1>3, <2>1 DEF Sweep
    <3>2. CASE req[q].op = "login"
      <4>1. req[q] \in LoginReq
        BY <3>2, RequestKinds DEF Good, TypeOK
      <4>. QED
        BY <3>1, <3>2, <4>1 DEF LoginReq, RequestState
    <3>3. CASE req[q].op = "rotate"
      <4>1. req[q] \in RotateReq
        BY <3>3, RequestKinds DEF Good, TypeOK
      <4>. QED
        BY <3>1, <3>3, <4>1 DEF RotateReq, RequestState
    <3>. QED
      BY <2>1, <3>2, <3>3
  <2>2. CASE ~(req[q].op \in {"login", "rotate"} /\ req[q].user = u)
    <3>1. req'[q] = req[q]
      BY <1>3, <2>2 DEF Sweep
    <3>. QED
      BY SMTT(30), <3>1 DEF Good, TypeOK
  <2>. QED
    BY <2>1, <2>2
<1>4. req'[r] = swept
  BY ZenonT(40) DEF Sweep
<1>5. req' \in [Req -> RequestState]
  BY <1>2, <1>3, <1>4 DEF Sweep
<1>6. UNCHANGED <<users, sessions, links, invites, tenants, enforced>>
  BY DEF Sweep
<1>7. ASSUME NEW q \in Req
      PROVE  Ready(q)'
  <2>1. CASE q = r
    <3>1. /\ req'[r].op = req[r].op /\ req'[r].user = req[r].user /\ req'[r].link = req[r].link
          /\ \A k \in req'[r].swept : sessions[k] \in Session
      BY <1>2, <1>4
    <3>2. Ready(r) /\ req[r].op \in {"reset", "change", "remove"}
      BY DEF Good, Sweep
    <3>. QED
      BY <1>6, <2>1, <3>1, <3>2 DEF Ready, Exists
  <2>2. CASE q # r
    <3>1. Ready(q)
      BY DEF Good
    <3>2. CASE req'[q] = req[q]
      BY <1>6, <3>1, <3>2 DEF Ready, Exists
    <3>3. CASE /\ req[q].op \in {"login", "rotate"} /\ req'[q].op = req[q].op
               /\ req'[q].user = req[q].user
               /\ req[q].op = "rotate" => req'[q].old = req[q].old
      BY <1>6, <3>1, <3>3 DEF Ready, Exists
    <3>. QED
      BY <1>3, <2>2, <3>2, <3>3
  <2>. QED
    BY <2>1, <2>2
<1>. QED
  BY <1>5, <1>6, <1>7

LEMMA RefuseEffect ==
    ASSUME Good, NEW r \in Req, Refuse(r)
    PROVE  Effect(r)
BY FinishEffect DEF Refuse, Outcomes

\* Tokens a revocation ends stay tokens of their user.
LEMMA RevokedKeeps ==
    ASSUME Good, NEW r \in Req, req[r].op \in {"reset", "change", "remove"}, sessions' = Revoked(r)
    PROVE  /\ sessions' \in [TokenIds -> Session \cup {None}]
           /\ \A k \in TokenIds : /\ sessions[k] = None => sessions'[k] = None
                                  /\ sessions[k] \in Session => /\ sessions'[k] \in Session
                                                                /\ sessions'[k].user = sessions[k].user
<1>1. \A k \in req[r].swept : sessions[k] \in Session
  BY DEF Good, Ready
<1>2. ASSUME NEW k \in TokenIds
      PROVE  /\ sessions'[k] \in Session \cup {None}
             /\ sessions[k] = None => sessions'[k] = None
             /\ sessions[k] \in Session => sessions'[k] \in Session /\ sessions'[k].user = sessions[k].user
  <2>1. CASE k \in req[r].swept
    <3>1. sessions'[k] = [sessions[k] EXCEPT !.live = FALSE] /\ sessions[k] \in Session
      BY <1>1, <1>2, <2>1 DEF Revoked
    <3>. QED
      BY <3>1, NoneIsNoRow DEF Session
  <2>2. CASE k \notin req[r].swept
    <3>1. sessions'[k] = sessions[k]
      BY <1>2, <2>2 DEF Revoked
    <3>. QED
      BY <3>1 DEF Good, TypeOK
  <2>. QED
    BY <2>1, <2>2
<1>. QED
  BY <1>2 DEF Revoked

\* A row that keeps its workspace and role; an owner keeps its status as well.
LEMMA ChangeKeeps ==
    ASSUME Good, NEW u \in RowIds, users[u] \in UserRow, NEW row \in UserRow, users' = [users EXCEPT ![u] = row],
           row.tenant = users[u].tenant, row.role = users[u].role,
           row.role = "owner" => row.active = users[u].active
    PROVE  /\ users' \in [RowIds -> UserRow \cup {None}]
           /\ KeepsUsers
           /\ \A v \in RowIds : users[v] = None => users'[v] = None
<1>1. users'[u] = row /\ \A v \in RowIds \ {u} : users'[v] = users[v]
  BY DEF Good, TypeOK
<1>. QED
  BY <1>1, NoneIsNoRow DEF KeepsUsers, Exists, Good, TypeOK

LEMMA CommitPasswordEffect ==
    ASSUME Good, NEW r \in Req, CommitPassword(r)
    PROVE  Effect(r)
<1>. DEFINE u == req[r].user
            row == [users[u] EXCEPT !.epoch = r]
<1>1. req[r] \in RevokeReq /\ u \in RowIds /\ users[u] \in UserRow /\ req[r].op \in {"reset", "change"}
  BY RequestKinds DEF CommitPassword, Good, TypeOK, Ready, RevokeReq, Exists
<1>2. /\ users' = [users EXCEPT ![u] = row] /\ row \in UserRow
      /\ row.tenant = users[u].tenant /\ row.role = users[u].role /\ row.active = users[u].active
  BY <1>1 DEF CommitPassword, UserRow, Good, TypeOK
<1>3. /\ users' \in [RowIds -> UserRow \cup {None}] /\ KeepsUsers
      /\ \A v \in RowIds : users[v] = None => users'[v] = None
  BY <1>1, <1>2, ChangeKeeps
<1>4. /\ sessions' \in [TokenIds -> Session \cup {None}]
      /\ \A k \in TokenIds : /\ sessions[k] = None => sessions'[k] = None
                             /\ sessions[k] \in Session => /\ sessions'[k] \in Session
                                                           /\ sessions'[k].user = sessions[k].user
  BY <1>1, RevokedKeeps DEF CommitPassword
<1>5. /\ links' \in [Req -> Link \cup {None}]
      /\ \A x \in Req : /\ links[x] = None => links'[x] = None
                        /\ links[x] \in Link => links'[x] \in Link /\ links'[x].user = links[x].user
  <2>1. CASE req[r].op = "reset"
    <3>1. links' = [links EXCEPT ![req[r].link].used = TRUE]
      BY <2>1 DEF CommitPassword
    <3>2. req[r].link \in Req /\ links[req[r].link] \in Link
      BY <2>1 DEF Good, Ready
    <3>. DEFINE x == req[r].link
                after == [links[x] EXCEPT !.used = TRUE]
    <3>3. after \in Link /\ after.user = links[x].user
      BY <3>2 DEF Link
    <3>4. /\ links' \in [Req -> Link \cup {None}]
          /\ \A y \in Req : links'[y] = IF y = x THEN after ELSE links[y]
      BY <3>1, <3>2, <3>3 DEF Good, TypeOK
    <3>. QED
      BY <3>2, <3>3, <3>4, NoneIsNoRow
  <2>2. CASE req[r].op # "reset"
    BY <2>2 DEF CommitPassword, Good, TypeOK
  <2>. QED
    BY <2>1, <2>2
<1>6. req' \in [Req -> RequestState] /\ Ready(r)' /\ \A q \in Req \ {r} : req'[q] = req[q]
  BY <1>1, FinishState DEF CommitPassword, Outcomes
<1>7. AccountTypes'
  BY <1>3, <1>4, <1>5, <1>6 DEF CommitPassword, Good, TypeOK, AccountTypes
<1>8. KeepsTokens /\ Others(r)
  BY <1>3, <1>4, <1>5, <1>6, RowNames DEF KeepsTokens, Others
<1>9. LinksOwned'
  BY <1>3, <1>5, NoneIsNoRow DEF Good, TypeOK, LinksOwned, KeepsUsers, Link
<1>. QED
  BY <1>3, <1>6, <1>7, <1>8, <1>9 DEF Effect

LEMMA CommitRemoveEffect ==
    ASSUME Good, NEW r \in Req, CommitRemove(r)
    PROVE  Effect(r)
<1>. DEFINE u == req[r].user
            row == [users[u] EXCEPT !.epoch = r, !.active = ~req[r].loaded /\ users[u].active]
<1>1. req[r] \in RevokeReq /\ u \in RowIds /\ users[u] \in UserRow /\ users[u].role # "owner"
  BY RequestKinds DEF CommitRemove, Pending, Good, TypeOK, Ready, RevokeReq, Exists
<1>2. /\ users' = [users EXCEPT ![u] = row] /\ row \in UserRow
      /\ row.tenant = users[u].tenant /\ row.role = users[u].role
  BY <1>1 DEF CommitRemove, UserRow, RevokeReq, Good, TypeOK
<1>3. /\ users' \in [RowIds -> UserRow \cup {None}] /\ KeepsUsers
      /\ \A v \in RowIds : users[v] = None => users'[v] = None
  BY <1>1, <1>2, ChangeKeeps
<1>4. /\ sessions' \in [TokenIds -> Session \cup {None}]
      /\ \A k \in TokenIds : /\ sessions[k] = None => sessions'[k] = None
                             /\ sessions[k] \in Session => /\ sessions'[k] \in Session
                                                           /\ sessions'[k].user = sessions[k].user
  BY RevokedKeeps DEF CommitRemove, Pending
<1>5. req' \in [Req -> RequestState] /\ Ready(r)' /\ \A q \in Req \ {r} : req'[q] = req[q]
  BY <1>1, FinishState DEF CommitRemove, Outcomes
<1>6. AccountTypes'
  BY SMTT(30), <1>3, <1>4, <1>5 DEF CommitRemove, Good, TypeOK, AccountTypes
<1>7. KeepsTokens /\ Others(r)
  BY SMTT(30), <1>3, <1>4, <1>5, RowNames DEF CommitRemove, KeepsTokens, Others
<1>8. LinksOwned'
  BY <1>3 DEF CommitRemove, Good, TypeOK, LinksOwned, KeepsUsers, Link
<1>. QED
  BY <1>3, <1>5, <1>6, <1>7, <1>8 DEF Effect

LEMMA CommitCreateEffect ==
    ASSUME Good, NEW r \in Req, CommitCreate(r)
    PROVE  Effect(r)
<1>1. req[r] \in CreateReq /\ users[r] = None /\ r \in RowIds /\ r \in TokenIds
  BY RequestKinds, RowNames DEF CommitCreate, Pending, Good, TypeOK, Ready
<1>2. CASE Refuse(r)
  BY <1>2, RefuseEffect
<1>3. CASE ~Refuse(r)
  <2>. DEFINE row == NewUser(req[r].tenant, req[r].email, req[r].role)
              new == NewSession(r, r, None, FALSE)
  <2>1. /\ users' = [users EXCEPT ![r] = row] /\ sessions' = [sessions EXCEPT ![r] = new]
        /\ tenants' = IF req[r].role = "owner" THEN [tenants EXCEPT ![req[r].tenant] = "active"] ELSE tenants
        /\ Finish(r, "create", r) /\ UNCHANGED <<links, invites, enforced>>
    BY <1>3 DEF CommitCreate
  <2>2. row \in UserRow
    BY <1>1, NewUserType DEF CreateReq
  <2>3. new \in Session
    BY <1>1 DEF NewSession, Session
  <2>4. /\ users' \in [RowIds -> UserRow \cup {None}] /\ KeepsUsers
        /\ \A v \in RowIds \ {r} : users'[v] = users[v]
    BY <1>1, <2>1, <2>2, InsertKeeps
  <2>5. /\ sessions' \in [TokenIds -> Session \cup {None}] /\ sessions'[r] = new
        /\ \A k \in TokenIds \ {r} : sessions'[k] = sessions[k]
    BY <1>1, <2>1, <2>3 DEF Good, TypeOK
  <2>6. KeepsTokens /\ \A q \in Req \ {r} : sessions[q] = None => sessions'[q] = None
    BY <2>1, <2>3, <2>5, TokenInserted DEF CommitCreate, Pending
  <2>7. req' \in [Req -> RequestState] /\ Ready(r)' /\ \A q \in Req \ {r} : req'[q] = req[q]
    BY <1>1, <2>1, FinishState DEF Outcomes
  <2>8. tenants' \in [Tenants -> {"none", "active", "suspended"}]
    BY <1>1, <2>1 DEF CreateReq, Good, TypeOK
  <2>9. AccountTypes'
    BY <2>1, <2>4, <2>5, <2>7, <2>8 DEF Good, TypeOK, AccountTypes
  <2>10. LinksOwned' /\ Others(r)
    BY <2>1, <2>4, <2>6, <2>7, RowNames DEF Good, TypeOK, LinksOwned, Link, KeepsUsers, Others
  <2>. QED
    BY <2>4, <2>6, <2>7, <2>9, <2>10 DEF Effect
<1>. QED
  BY <1>2, <1>3

LEMMA CommitSignupEffect ==
    ASSUME Good, NEW r \in Req, CommitSignup(r)
    PROVE  Effect(r)
<1>. DEFINE row == NewUser(req[r].tenant, req[r].email, "owner")
            s == [op |-> "login", user |-> r, epoch |-> None, late |-> FALSE]
<1>1. req[r] \in CreateReq /\ users[r] = None /\ sessions[r] = None /\ links[r] = None /\ r \in RowIds
  BY RequestKinds, RowNames DEF CommitSignup, Pending, Good, TypeOK, Ready
<1>2. row \in UserRow
  BY <1>1, NewUserType DEF CreateReq, Roles
<1>3. /\ users' \in [RowIds -> UserRow \cup {None}] /\ KeepsUsers /\ users'[r] = row
      /\ \A v \in RowIds \ {r} : users'[v] = users[v]
  BY <1>1, <1>2, InsertKeeps DEF CommitSignup
<1>4. s \in RequestState
  BY <1>1 DEF RequestState, LoginReq
<1>5. req' \in [Req -> RequestState] /\ req'[r] = s /\ \A q \in Req \ {r} : req'[q] = req[q]
  BY <1>4 DEF CommitSignup, Good, TypeOK
<1>6. tenants' \in [Tenants -> {"none", "active", "suspended"}]
  BY <1>1 DEF CommitSignup, CreateReq, Good, TypeOK
<1>7. AccountTypes'
  BY <1>3, <1>5, <1>6 DEF CommitSignup, Good, TypeOK, AccountTypes
<1>8. KeepsTokens /\ LinksOwned' /\ Others(r)
  BY <1>3, <1>5, RowNames DEF CommitSignup, Good, TypeOK, LinksOwned, Link, KeepsUsers, KeepsTokens, Others
<1>9. Ready(r)'
  <2>1. Exists(r)'
    BY <1>2, <1>3, NoneIsNoRow DEF Exists
  <2>. QED
    BY <1>1, <1>5, <2>1 DEF CommitSignup, Ready
<1>. QED
  BY <1>3, <1>7, <1>8, <1>9 DEF Effect

LEMMA CommitProfileEffect ==
    ASSUME Good, NEW r \in Req, CommitProfile(r)
    PROVE  Effect(r)
<1>. DEFINE u == req[r].user
            row == [users[u] EXCEPT !.email = req[r].email]
<1>1. req[r] \in ProfileReq /\ u \in RowIds /\ users[u] \in UserRow
  BY RequestKinds DEF CommitProfile, Pending, Good, TypeOK, Ready, ProfileReq, Exists
<1>2. CASE Refuse(r)
  BY <1>2, RefuseEffect
<1>3. CASE ~Refuse(r)
  <2>1. /\ users' = [users EXCEPT ![u].email = req[r].email] /\ Finish(r, "profile", u)
        /\ UNCHANGED <<sessions, links, invites, tenants, enforced>>
    BY <1>3 DEF CommitProfile
  <2>2. /\ users' = [users EXCEPT ![u] = row] /\ row \in UserRow
        /\ row.tenant = users[u].tenant /\ row.role = users[u].role /\ row.active = users[u].active
    BY <1>1, <2>1 DEF UserRow, ProfileReq, Good, TypeOK
  <2>3. /\ users' \in [RowIds -> UserRow \cup {None}] /\ KeepsUsers
        /\ \A v \in RowIds : users[v] = None => users'[v] = None
    BY <1>1, <2>2, ChangeKeeps
  <2>4. req' \in [Req -> RequestState] /\ Ready(r)' /\ \A q \in Req \ {r} : req'[q] = req[q]
    BY <1>1, <2>1, FinishState DEF Outcomes
  <2>5. AccountTypes'
    BY <2>1, <2>3, <2>4 DEF Good, TypeOK, AccountTypes
  <2>6. KeepsTokens /\ LinksOwned' /\ Others(r)
    BY <2>1, <2>3, <2>4, RowNames DEF Good, TypeOK, LinksOwned, Link, KeepsUsers, KeepsTokens, Others
  <2>. QED
    BY <2>3, <2>4, <2>5, <2>6 DEF Effect
<1>. QED
  BY <1>2, <1>3

LEMMA CommitEffect ==
    ASSUME Good, NEW r \in Req, AccountsCommit(r), ~Sweep(r)
    PROVE  Effect(r)
BY IssueEffect, RotateEffect, CommitPasswordEffect, CommitRemoveEffect, CommitCreateEffect,
   CommitSignupEffect, CommitProfileEffect, RefuseEffect
DEF AccountsCommit, Abort

LEMMA AccountsStep ==
    ASSUME Good, NEW r \in Req, AccountsBegin(r) \/ AccountsCommit(r), UNCHANGED <<ssoVars, feedVars>>
    PROVE  Good' /\ KeepsUsers
<1>1. CASE Sweep(r)
  <2>1. /\ req' \in [Req -> RequestState] /\ \A q \in Req : Ready(q)'
        /\ UNCHANGED <<users, sessions, links, invites, tenants, enforced>>
    BY <1>1, SweepKeeps
  <2>. QED
    BY <2>1 DEF Good, TypeOK, LinksOwned, PostsWithin, KeepsUsers, Exists, Colleagues, Rows, ssoVars, feedVars
<1>2. CASE ~Sweep(r)
  <2>1. Effect(r)
    BY <1>2, BeginEffect, CommitEffect
  <2>2. LinkTypes' /\ UNCHANGED feedVars
    BY LinksSame
  <2>. QED
    BY <2>1, <2>2, EffectIsGood DEF Effect
<1>. QED
  BY <1>1, <1>2

-----------------------------------------------------------------------------
(* Single sign-on.                                                         *)

\* A request of routers/sso.py that reads and remembers, or moves to its next phase.
LEMMA SsoReads ==
    ASSUME Good, NEW r \in Req, req[r].op # "done", NEW s \in SsoReq \cup DisconnectReq \cup DomainsReq,
           s.op = "sso" => users[r] = None, req' = [req EXCEPT ![r] = s],
           UNCHANGED <<users, sessions, links, invites, tenants, enforced, feedVars>>, LinkTypes'
    PROVE  Good' /\ KeepsUsers
<1>1. s \in RequestState
  BY DEF RequestState
<1>2. s.op \in {"sso", "disconnect", "domains"}
  BY DEF SsoReq, DisconnectReq, DomainsReq
<1>3. req'[r] = s
  BY DEF Good, TypeOK
<1>4. Ready(r)'
  BY <1>2, <1>3 DEF Ready, Good
<1>5. Effect(r)
  BY <1>1, <1>4, OnlyReads
<1>. QED
  BY <1>5, EffectIsGood DEF Effect

LEMMA SsoBeginStep ==
    ASSUME Good, NEW r \in Req, SsoBegin(r)
    PROVE  Good' /\ KeepsUsers
<1>1. PICK t \in Tenants : \/ SsoStart(r, t) \/ CreateConnection(r, t) \/ DeleteConnection(r, t)
                           \/ \E D \in SUBSET Domains, enf \in BOOLEAN : SetDomains(r, t, D, enf)
  BY DEF SsoBegin
<1>2. CASE SsoStart(r, t)
  <2>. DEFINE s == [op |-> "sso", user |-> None, tenant |-> t]
  <2>1. s \in SsoReq
    BY DEF SsoReq
  <2>2. req[r].op = "idle" /\ users[r] = None
    BY <1>2 DEF SsoStart, Starts, Idle, Good, Ready
  <2>. QED
    BY <1>2, <2>1, <2>2, SsoReads, LinksSame DEF SsoStart
<1>3. CASE CreateConnection(r, t)
  <2>1. Effect(r)
    BY <1>3, FinishEffect DEF CreateConnection, Outcomes
  <2>2. LinkTypes' /\ UNCHANGED feedVars
    BY <1>3 DEF CreateConnection, Connect, Good, TypeOK, LinkTypes
  <2>. QED
    BY <2>1, <2>2, EffectIsGood DEF Effect
<1>4. CASE DeleteConnection(r, t)
  <2>. DEFINE s == [op |-> "disconnect", user |-> None, tenant |-> t, loaded |-> enforced[t], phase |-> "read"]
  <2>1. s \in DisconnectReq
    BY DEF DisconnectReq, Good, TypeOK
  <2>2. req[r].op = "idle" /\ s.op = "disconnect"
    BY <1>4 DEF DeleteConnection, Starts, Idle
  <2>. QED
    BY <1>4, <2>1, <2>2, SsoReads, LinksSame DEF DeleteConnection
<1>5. ASSUME NEW D \in SUBSET Domains, NEW enf \in BOOLEAN, SetDomains(r, t, D, enf)
      PROVE  Good' /\ KeepsUsers
  <2>. DEFINE rows == {<<d, claims[d].by>> : d \in ClaimedBy(t)}
              s == [op |-> "domains", user |-> None, tenant |-> t, wanted |-> D, enf |-> enf, loaded |-> FALSE,
                    rows |-> rows, phase |-> "deleting"]
  <2>1. rows \subseteq Domains \X Req
    <3>1. \A d \in ClaimedBy(t) : d \in Domains /\ claims[d] \in Claim
      BY DEF ClaimedBy, Good, TypeOK
    <3>. QED
      BY <3>1 DEF Claim
  <2>2. s \in DomainsReq
    BY <2>1 DEF DomainsReq
  <2>3. req[r].op = "idle" /\ s.op = "domains"
    BY <1>5 DEF SetDomains, Starts, Idle
  <2>. QED
    BY <1>5, <2>2, <2>3, SsoReads, LinksSame DEF SetDomains
<1>. QED
  BY <1>1, <1>2, <1>3, <1>4, <1>5

LEMMA SsoCallbackStep ==
    ASSUME Good, NEW r \in Req, NEW e \in Emails, SsoCallback(r, e)
    PROVE  Good' /\ KeepsUsers
<1>. DEFINE t == req[r].tenant
<1>1. req[r] \in SsoReq /\ t \in Tenants /\ req[r].op = "sso"
  BY RequestKinds DEF SsoCallback, Pending, Good, TypeOK, SsoReq
<1>2. ASSUME BeginCreate(r, t, e, "member")
      PROVE  Effect(r)
  BY <1>1, <1>2, BeginCreateEffect DEF SsoCallback, Roles
<1>3. ASSUME NEW u \in ByEmail(e), users[u].active,
             req' = [req EXCEPT ![r] = [op |-> "login", user |-> u, epoch |-> users[u].epoch, late |-> Revoking(u)]]
      PROVE  Effect(r)
  <2>. DEFINE s == [op |-> "login", user |-> u, epoch |-> users[u].epoch, late |-> Revoking(u)]
  <2>1. u \in RowIds /\ Exists(u)
    BY DEF ByEmail, Rows
  <2>2. users[u] \in UserRow
    BY <2>1 DEF Exists, Good, TypeOK
  <2>3. s \in RequestState
    BY <2>1, <2>2 DEF RequestState, LoginReq, UserRow, Revoking
  <2>4. req'[r] = s
    BY <1>3 DEF Good, TypeOK
  <2>5. Ready(r)'
    BY <1>1, <2>1, <2>4 DEF Ready, Good, SsoCallback, Exists
  <2>. QED
    BY <1>3, <2>3, <2>5, OnlyReads DEF SsoCallback
<1>4. Effect(r)
  BY <1>2, <1>3 DEF SsoCallback
<1>5. LinkTypes' /\ UNCHANGED feedVars
  BY LinksSame DEF SsoCallback
<1>. QED
  BY <1>4, <1>5, EffectIsGood DEF Effect

LEMMA DisconnectStep ==
    ASSUME Good, NEW r \in Req, PolisDelete(r) \/ CommitDisconnect(r)
    PROVE  Good' /\ KeepsUsers
<1>1. req[r] \in DisconnectReq /\ req[r].op = "disconnect"
  BY RequestKinds DEF PolisDelete, CommitDisconnect, Pending, Good, TypeOK
<1>2. CASE PolisDelete(r)
  <2>. DEFINE s == [req[r] EXCEPT !.phase = "gone"]
  <2>1. s \in DisconnectReq /\ s.op = "disconnect" /\ req' = [req EXCEPT ![r] = s]
    BY <1>1, <1>2 DEF PolisDelete, DisconnectReq
  <2>2. LinkTypes'
    BY <1>1, <1>2 DEF PolisDelete, DisconnectReq, Good, TypeOK, LinkTypes
  <2>. QED
    BY <1>1, <1>2, <2>1, <2>2, SsoReads DEF PolisDelete
<1>3. CASE CommitDisconnect(r)
  <2>1. enforced' \in [Tenants -> BOOLEAN]
    BY <1>1, <1>3 DEF CommitDisconnect, DisconnectReq, Good, TypeOK
  <2>2. Effect(r)
    BY <1>3, <2>1, OtherTablesEffect DEF CommitDisconnect, Outcomes, Good, TypeOK
  <2>3. LinkTypes' /\ UNCHANGED feedVars
    BY <1>3 DEF CommitDisconnect, Good, TypeOK, LinkTypes
  <2>. QED
    BY <2>2, <2>3, EffectIsGood DEF Effect
<1>. QED
  BY <1>2, <1>3

LEMMA DomainsStep ==
    ASSUME Good, NEW r \in Req, FinishDelete(r) \/ LoadTenant(r) \/ CommitDomains(r)
    PROVE  Good' /\ KeepsUsers
<1>. DEFINE t == req[r].tenant
<1>1. req[r] \in DomainsReq /\ req[r].op = "domains" /\ t \in Tenants
  BY RequestKinds DEF FinishDelete, LoadTenant, CommitDomains, Pending, Good, TypeOK, DomainsReq
<1>2. CASE FinishDelete(r)
  <2>. DEFINE rows == {x \in req[r].rows : claims[x[1]] # None /\ claims[x[1]].by = x[2]}
              s == [req[r] EXCEPT !.phase = "deleted", !.rows = rows]
  <2>1. req' = [req EXCEPT ![r] = s]
    BY <1>2 DEF FinishDelete
  <2>2. s \in DomainsReq /\ s.op = "domains"
    <3>1. rows \in SUBSET (Domains \X Req)
      BY <1>1 DEF DomainsReq
    <3>. HIDE DEF rows
    <3>. QED
      BY <1>1, <3>1 DEF DomainsReq
  <2>. QED
    BY <1>1, <1>2, <2>1, <2>2, SsoReads, LinksSame DEF FinishDelete
<1>3. CASE LoadTenant(r)
  <2>. DEFINE s == [req[r] EXCEPT !.phase = "loaded", !.loaded = enforced[t]]
  <2>1. req' = [req EXCEPT ![r] = s]
    BY <1>3 DEF LoadTenant
  <2>2. s \in DomainsReq /\ s.op = "domains"
    <3>1. enforced[t] \in BOOLEAN
      BY <1>1 DEF Good, TypeOK
    <3>. QED
      BY <1>1, <3>1 DEF DomainsReq
  <2>. QED
    BY <1>1, <1>3, <2>1, <2>2, SsoReads, LinksSame DEF LoadTenant
<1>4. CASE CommitDomains(r)
  <2>1. CASE Refuse(r) /\ UNCHANGED <<claims, blind>>
    <3>1. Effect(r)
      BY <2>1, RefuseEffect
    <3>2. LinkTypes' /\ UNCHANGED feedVars
      BY <1>4, <2>1 DEF CommitDomains, Good, TypeOK, LinkTypes
    <3>. QED
      BY <3>1, <3>2, EffectIsGood DEF Effect
  <2>2. CASE ~(Refuse(r) /\ UNCHANGED <<claims, blind>>)
    <3>. DEFINE gone == {x[1] : x \in req[r].rows}
                enf == req[r].enf /\ req[r].wanted # {}
    <3>1. /\ claims' = [d \in Domains |-> IF d \in req[r].wanted THEN [tenant |-> t, by |-> r]
                                          ELSE IF d \in gone THEN None ELSE claims[d]]
          /\ enforced' = IF enf # req[r].loaded THEN [enforced EXCEPT ![t] = enf] ELSE enforced
          /\ Finish(r, "domains", None)
          /\ UNCHANGED <<users, sessions, links, invites, tenants>>
          /\ blind' = IF enforced'[t] /\ Unconnected(t) THEN blind \cup {t} ELSE blind \ {t}
          /\ UNCHANGED <<idp, halfway, feedVars>>
      BY <1>4, <2>2 DEF CommitDomains
    <3>2. [tenant |-> t, by |-> r] \in Claim
      BY <1>1 DEF Claim
    <3>3. claims' \in [Domains -> Claim \cup {None}]
      BY <3>1, <3>2 DEF Good, TypeOK
    <3>4. enforced' \in [Tenants -> BOOLEAN]
      <4>1. enf \in BOOLEAN
        BY <1>1 DEF DomainsReq
      <4>. HIDE DEF enf
      <4>. QED
        BY <1>1, <3>1, <4>1 DEF Good, TypeOK
    <3>5. Effect(r)
      BY <3>1, <3>4, OtherTablesEffect DEF Outcomes, Good, TypeOK
    <3>6. LinkTypes' /\ UNCHANGED feedVars
      BY <1>1, <3>1, <3>3 DEF Good, TypeOK, LinkTypes
    <3>. QED
      BY <3>3, <3>5, <3>6, EffectIsGood DEF Effect
  <2>. QED
    BY <2>1, <2>2
<1>. QED
  BY <1>2, <1>3, <1>4

-----------------------------------------------------------------------------
(* Members edited by hand.                                                 *)

LEMMA MemberStep ==
    ASSUME Good, NEW r \in Req, NEW u \in RowIds, AddMember(r, u) \/ RemoveMember(r, u)
    PROVE  Good' /\ KeepsUsers
<1>1. PICK did \in {"add_member", "remove_member"} : MembersEdited(r, did, u)
  BY DEF AddMember, RemoveMember
<1>2. Effect(r)
  BY <1>1, FinishEffect DEF MembersEdited, Outcomes
<1>3. LinkTypes'
  BY <1>1, LinksSame DEF MembersEdited
<1>4. members' \subseteq Colleagues(DirTenant) /\ byHand' \subseteq members'
  BY DEF AddMember, RemoveMember, Good, TypeOK
<1>. QED
  BY <1>1, <1>2, <1>3, <1>4, MembersAreGood DEF MembersEdited, Effect

-----------------------------------------------------------------------------
(* The directory and its webhook.                                          *)

FeedTypes ==
    /\ feed \in Seq(Event) /\ Len(feed) <= Work
    /\ posted \in 0..Len(feed)
    /\ owed \subseteq Batch
    /\ courier \in Post \cup {NoPost}
    /\ group \in BOOLEAN /\ overtaken \in BOOLEAN
    /\ members \subseteq Colleagues(DirTenant)
    /\ byHand \subseteq members

LEMMA GoodFeed == ASSUME Good PROVE FeedTypes /\ PostsWithin
BY DEF Good, TypeOK, FeedTypes

\* A step that at most writes rows of users that no request is about to insert.
LEMMA WebhookKeeps ==
    ASSUME Good, UNCHANGED <<sessions, links, invites, tenants, enforced, req, ssoVars>>,
           users' \in [RowIds -> UserRow \cup {None}], KeepsUsers,
           \A r \in Req : users[r] = None => users'[r] = None,
           FeedTypes', PostsWithin'
    PROVE  Good'
<1>1. TypeOK'
  BY DEF Good, TypeOK, FeedTypes, ssoVars
<1>2. ASSUME NEW r \in Req
      PROVE  Ready(r)'
  <2>1. req'[r] = req[r] /\ Ready(r) /\ req[r] \in RequestState
    BY DEF Good, TypeOK
  <2>2. req[r].op \in {"login", "rotate", "reset", "change", "remove", "profile"} => req[r].user \in RowIds
    BY <2>1, RequestKinds DEF LoginReq, RotateReq, RevokeReq, ProfileReq
  <2>. QED
    BY <2>1, <2>2 DEF Ready, KeepsUsers, Exists
<1>3. LinksOwned'
  BY DEF Good, TypeOK, LinksOwned, KeepsUsers, Link
<1>. QED
  BY <1>1, <1>2, <1>3 DEF Good

\* A step of the webhook that writes no row.
LEMMA FeedOnly ==
    ASSUME Good, UNCHANGED <<accountVars, ssoVars>>, FeedTypes', PostsWithin'
    PROVE  Good' /\ KeepsUsers
<1>1. KeepsUsers /\ users' \in [RowIds -> UserRow \cup {None}] /\ users' = users
  BY DEF KeepsUsers, Exists, accountVars, Good, TypeOK
<1>2. UNCHANGED <<sessions, links, invites, tenants, enforced, req, ssoVars>>
  BY DEF accountVars
<1>. QED
  BY <1>1, <1>2, WebhookKeeps

LEMMA EventKinds ==
    ASSUME NEW ev \in Event
    PROVE  /\ ev.kind = "user" => ev \in UserEvent
           /\ ev.kind = "group" => ev \in GroupEvent
           /\ ev.kind = "member" => ev \in MemberEvent
BY DEF Event, UserEvent, GroupEvent, MemberEvent

LEMMA DirectoryChangeStep ==
    ASSUME Good, NEW ev \in Event, Started < Work, DirectoryChange(ev)
    PROVE  Good' /\ KeepsUsers
<1>1. Len(feed) < Work
  <2>1. IsFiniteSet({r \in Req : req[r] # Idle})
    BY AccountsAssumption, FS_Subset
  <2>2. Cardinality({r \in Req : req[r] # Idle}) \in Nat
    BY <2>1, FS_CardinalityType
  <2>3. Len(feed) \in Nat
    BY GoodFeed DEF FeedTypes
  <2>. QED
    BY <2>2, <2>3, DirectoryAssumption DEF Started
<1>2. /\ feed' \in Seq(Event) /\ Len(feed') = Len(feed) + 1
      /\ \A i \in 1..Len(feed) : feed'[i] = feed[i]
  BY GoodFeed DEF DirectoryChange, FeedTypes
<1>3. FeedTypes'
  <2>1. Colleagues(DirTenant)' = Colleagues(DirTenant)
    BY DEF DirectoryChange, accountVars, Colleagues, Rows, Exists
  <2>. QED
    BY <1>1, <1>2, <2>1, GoodFeed, DirectoryAssumption DEF DirectoryChange, FeedTypes
<1>4. PostsWithin'
  <2>1. courier # NoPost => courier \in Post
    BY GoodFeed DEF FeedTypes
  <2>2. courier # NoPost /\ courier.at = "read" => courier.pos \in 1..Len(feed)
    BY <2>1, GoodFeed DEF FeedTypes, PostsWithin, Post, Batch
  <2>. QED
    BY <1>2, <2>1, <2>2, GoodFeed DEF DirectoryChange, PostsWithin, accountVars, Exists
<1>. QED
  BY <1>3, <1>4, FeedOnly DEF DirectoryChange

\* Polis posts a batch that lies within what it has posted.
LEMMA CarryStep ==
    ASSUME Good, NEW b \in Batch, Carry(b), b.to <= posted', posted <= posted', posted' \in 0..Len(feed),
           owed' \subseteq owed, overtaken' \in BOOLEAN, UNCHANGED <<accountVars, ssoVars, feed, group, members, byHand>>
    PROVE  Good' /\ KeepsUsers
<1>1. courier' \in Post /\ courier'.at = "start" /\ courier'.batch = b
  BY DirectoryAssumption DEF Carry, Post, Batch
<1>2. FeedTypes'
  <2>1. Colleagues(DirTenant)' = Colleagues(DirTenant)
    BY DEF accountVars, Colleagues, Rows, Exists
  <2>. QED
    BY <1>1, <2>1, GoodFeed DEF FeedTypes
<1>3. PostsWithin'
  <2>1. \A c \in owed : c.to <= posted /\ c.to \in Nat
    BY GoodFeed, DirectoryAssumption DEF FeedTypes, PostsWithin, Batch
  <2>2. posted \in Nat /\ posted' \in Nat
    BY GoodFeed DEF FeedTypes
  <2>3. \A c \in owed' : c.to <= posted'
    BY <2>1, <2>2
  <2>. QED
    BY <1>1, <2>3 DEF PostsWithin
<1>. QED
  BY <1>2, <1>3, FeedOnly

LEMMA PostStep ==
    ASSUME Good, PostBatch \/ \E b \in Batch : PostAgain(b)
    PROVE  Good' /\ KeepsUsers
<1>1. CASE PostBatch
  <2>1. PICK to \in posted + 1..Len(feed) : Carry([from |-> posted + 1, to |-> to]) /\ posted' = to
    BY <1>1 DEF PostBatch
  <2>. DEFINE b == [from |-> posted + 1, to |-> to]
  <2>2. /\ b \in Batch /\ b.to <= posted' /\ posted <= posted' /\ posted' \in 0..Len(feed)
    BY <2>1, GoodFeed, DirectoryAssumption DEF FeedTypes, Batch
  <2>3. overtaken' \in BOOLEAN /\ owed' \subseteq owed
    BY <1>1 DEF PostBatch
  <2>. QED
    BY <1>1, <2>1, <2>2, <2>3, CarryStep DEF PostBatch
<1>2. ASSUME NEW b \in Batch, PostAgain(b)
      PROVE  Good' /\ KeepsUsers
  <2>1. b.to <= posted /\ posted' = posted /\ posted \in 0..Len(feed) /\ posted <= posted
    BY <1>2, GoodFeed DEF PostAgain, PostsWithin, FeedTypes
  <2>2. overtaken' \in BOOLEAN /\ owed' \subseteq owed
    BY <1>2, GoodFeed DEF PostAgain, FeedTypes
  <2>. QED
    BY <1>2, <2>1, <2>2, CarryStep DEF PostAgain
<1>. QED
  BY <1>1, <1>2

LEMMA AnswerStep ==
    ASSUME Good, Answer \/ PostFails
    PROVE  Good' /\ KeepsUsers
<1>1. courier # NoPost /\ courier \in Post /\ courier.batch \in Batch /\ courier.batch.to <= posted
  BY GoodFeed DEF Answer, PostFails, FeedTypes, PostsWithin, Post
<1>2. FeedTypes'
  <2>1. Colleagues(DirTenant)' = Colleagues(DirTenant)
    BY DEF Answer, PostFails, accountVars, Colleagues, Rows, Exists
  <2>. QED
    BY <1>1, <2>1, GoodFeed DEF Answer, PostFails, FeedTypes
<1>3. PostsWithin'
  BY <1>1, GoodFeed DEF Answer, PostFails, PostsWithin
<1>. QED
  BY <1>2, <1>3, FeedOnly DEF Answer, PostFails

LEMMA HandledEvent ==
    ASSUME Good, NEW at \in {"start", "read"}, Handling(at)
    PROVE  /\ courier \in Post /\ courier # NoPost /\ courier.pos \in 1..Len(feed) /\ courier.batch.to <= posted
           /\ TheEvent \in Event
           /\ courier.pos + 1 \in 1..Work + 1
<1>1. courier \in Post /\ courier # NoPost
  BY GoodFeed DEF Handling, FeedTypes, NoPost
<1>2. courier.pos \in 1..Len(feed) /\ courier.batch.to <= posted
  BY <1>1, GoodFeed, DirectoryAssumption DEF Handling, FeedTypes, PostsWithin, Post, Batch
<1>3. TheEvent \in Event
  BY <1>2, GoodFeed DEF TheEvent, FeedTypes
<1>. QED
  BY <1>1, <1>2, <1>3, GoodFeed, DirectoryAssumption DEF FeedTypes

LEMMA ReadUserStep ==
    ASSUME Good, ReadUser
    PROVE  Good' /\ KeepsUsers
<1>1. /\ courier \in Post /\ courier.pos \in 1..Len(feed) /\ courier.batch.to <= posted
      /\ courier.pos <= courier.batch.to /\ feed[courier.pos].kind = "user"
  BY HandledEvent DEF ReadUser, Handling, TheEvent
<1>2. /\ courier' \in Post /\ courier'.batch = courier.batch /\ courier'.pos = courier.pos
      /\ courier'.row # None => Exists(courier'.row)
  <2>1. CASE courier' = [courier EXCEPT !.at = "read", !.row = None]
    BY <1>1, <2>1 DEF Post
  <2>2. ASSUME NEW u \in ByEmail(TheEvent.email),
               courier' = [courier EXCEPT !.at = "read", !.row = u, !.loaded = users[u].active]
        PROVE  /\ courier' \in Post /\ courier'.batch = courier.batch /\ courier'.pos = courier.pos
               /\ courier'.row # None => Exists(courier'.row)
    <3>1. u \in RowIds /\ Exists(u) /\ users[u] \in UserRow
      BY DEF ByEmail, Rows, Exists, Good, TypeOK
    <3>2. users[u].active \in BOOLEAN
      BY <3>1 DEF UserRow
    <3>. QED
      BY <1>1, <2>2, <3>1, <3>2 DEF Post
  <2>. QED
    BY <2>1, <2>2 DEF ReadUser
<1>3. FeedTypes'
  <2>1. Colleagues(DirTenant)' = Colleagues(DirTenant)
    BY DEF ReadUser, accountVars, Colleagues, Rows, Exists
  <2>. QED
    BY ZenonT(40), <1>2, <2>1, GoodFeed DEF ReadUser, FeedTypes
<1>4. PostsWithin'
  BY <1>1, <1>2, GoodFeed DEF ReadUser, PostsWithin, accountVars, Exists
<1>. QED
  BY <1>3, <1>4, FeedOnly DEF ReadUser

\* The post moves on to its next event.
LEMMA NextEventState ==
    ASSUME Good, NEW at \in {"start", "read"}, Handling(at), NextEvent, UNCHANGED <<posted, owed>>
    PROVE  courier' \in Post /\ PostsWithin'
<1>1. courier' \in Post /\ courier'.at = "start" /\ courier'.batch = courier.batch
  BY HandledEvent DEF NextEvent, Post
<1>. QED
  BY <1>1, HandledEvent, GoodFeed DEF PostsWithin

LEMMA GroupEventStep ==
    ASSUME Good, ApplyGroupEvent
    PROVE  Good' /\ KeepsUsers
<1>1. courier' \in Post /\ PostsWithin'
  BY NextEventState DEF ApplyGroupEvent
<1>2. group' \in BOOLEAN
  BY HandledEvent, EventKinds, GoodFeed DEF ApplyGroupEvent, FeedTypes, GroupEvent
<1>3. members' \subseteq Colleagues(DirTenant) /\ byHand' \subseteq members'
  <2>1. CASE TheEvent.kind = "group"
    BY <2>1, GoodFeed DEF ApplyGroupEvent, FeedTypes
  <2>2. CASE TheEvent.kind = "member"
    BY <2>2, GoodFeed DEF ApplyGroupEvent, ApplyMember, InDirTenant, FeedTypes
  <2>. QED
    BY <2>1, <2>2 DEF ApplyGroupEvent
<1>4. FeedTypes'
  <2>1. Colleagues(DirTenant)' = Colleagues(DirTenant)
    BY DEF ApplyGroupEvent, accountVars, Colleagues, Rows, Exists
  <2>. QED
    BY <1>1, <1>2, <1>3, <2>1, GoodFeed DEF ApplyGroupEvent, FeedTypes
<1>. QED
  BY <1>1, <1>4, FeedOnly DEF ApplyGroupEvent

LEMMA WriteUserStep ==
    ASSUME Good, WriteUser
    PROVE  Good' /\ KeepsUsers
<1>1. courier' \in Post /\ PostsWithin'
  BY NextEventState DEF WriteUser
<1>2. /\ courier \in Post /\ TheEvent \in Event /\ TheEvent.kind = "user"
      /\ courier.row # None => courier.row \in RowIds /\ users[courier.row] \in UserRow
  <2>1. courier \in Post /\ TheEvent \in Event /\ courier # NoPost /\ courier.at = "read"
    BY HandledEvent DEF WriteUser, Handling
  <2>. QED
    BY <2>1, GoodFeed DEF PostsWithin, TheEvent, Post, Good, TypeOK, Exists
<1>3. TheEvent.email \in Emails /\ TheEvent.active \in BOOLEAN
  BY <1>2, EventKinds DEF UserEvent
<1>4. /\ users' \in [RowIds -> UserRow \cup {None}] /\ KeepsUsers
      /\ \A r \in Req : users[r] = None => users'[r] = None
  <2>1. CASE users' = users
    BY <2>1 DEF KeepsUsers, Exists, Good, TypeOK
  <2>2. CASE courier.row = None /\ users' # users
    <3>. DEFINE row == NewUser(DirTenant, TheEvent.email, "member")
    <3>1. users' = [users EXCEPT ![FreeRow] = row] /\ \E n \in 1..Work : ~Exists(n)
      BY <2>2 DEF WriteUser, CreateFromDirectory
    <3>2. FreeRow \in 1..Work /\ ~Exists(FreeRow)
      BY <3>1 DEF FreeRow
    <3>3. FreeRow \in RowIds /\ FreeRow \notin Req /\ users[FreeRow] = None
      BY <3>2, DirectoryAssumption DEF TokenIds, Exists
    <3>4. row \in UserRow
      BY <1>3, DirectoryAssumption, NewUserType DEF Roles
    <3>5. /\ users' \in [RowIds -> UserRow \cup {None}] /\ KeepsUsers
          /\ \A v \in RowIds \ {FreeRow} : users'[v] = users[v]
      BY <3>1, <3>3, <3>4, InsertKeeps
    <3>. QED
      BY <3>3, <3>5, RowNames
  <2>3. CASE courier.row # None /\ users' # users
    <3>. DEFINE u == courier.row
                row == [users[u] EXCEPT !.active = TheEvent.active]
    <3>1. users[u].role # "owner" /\ users' = [users EXCEPT ![u].active = TheEvent.active]
      BY <2>3 DEF WriteUser, Deactivated
    <3>2. /\ users' = [users EXCEPT ![u] = row] /\ row \in UserRow
          /\ row.tenant = users[u].tenant /\ row.role = users[u].role
      BY <1>2, <1>3, <2>3, <3>1 DEF UserRow, Good, TypeOK
    <3>. QED
      BY <1>2, <2>3, <3>1, <3>2, ChangeKeeps, RowNames
  <2>. QED
    BY <2>1, <2>2, <2>3
<1>5. FeedTypes'
  <2>1. Colleagues(DirTenant) \subseteq Colleagues(DirTenant)'
    BY <1>4 DEF KeepsUsers, Colleagues, Rows, Exists
  <2>. QED
    BY <1>1, <2>1, GoodFeed DEF WriteUser, FeedTypes
<1>. QED
  BY <1>1, <1>4, <1>5, WebhookKeeps DEF WriteUser

-----------------------------------------------------------------------------
(* The invariant holds of every behaviour.                                 *)

LEMMA InitGood == ASSUME Init PROVE Good
<1>. USE DEF Init, AccountsInit
<1>1. /\ users \in [RowIds -> UserRow \cup {None}] /\ \A r \in Req : users[r] = None
      /\ \A s \in Seeds : users[s] = SeedRow[s]
  <2>1. /\ SeedRow \in [Seeds -> UserRow] /\ Seeds \subseteq RowIds /\ Req \cap Seeds = {} /\ Req \subseteq RowIds
    BY AccountsAssumption
  <2>. QED
    BY <2>1
<1>2. sessions \in [TokenIds -> Session \cup {None}] /\ \A r \in Req : sessions[r] = None
  <2>1. ASSUME NEW k \in Seeds
        PROVE  NewSession(k, k, SeedRow[k].epoch, FALSE) \in Session
    <3>1. k \in RowIds /\ k \in TokenIds /\ SeedRow[k].epoch \in Req \cup {None}
      BY AccountsAssumption DEF TokenIds, UserRow
    <3>. QED
      BY <3>1 DEF NewSession, Session
  <2>2. Req \cap Seeds = {} /\ Req \subseteq TokenIds
    BY AccountsAssumption DEF TokenIds
  <2>. QED
    BY <2>1, <2>2
<1>3. req \in [Req -> RequestState]
  BY DEF RequestState
<1>4. claims \in [Domains -> Claim \cup {None}]
  OBVIOUS
<1>5. feed \in Seq(Event) /\ Len(feed) = 0
  OBVIOUS
<1>6. TypeOK
  <2>1. /\ links \in [Req -> Link \cup {None}] /\ invites \subseteq Invite
        /\ tenants \in [Tenants -> {"none", "active", "suspended"}] /\ enforced \in [Tenants -> BOOLEAN]
    OBVIOUS
  <2>2. Len(feed) <= Work /\ posted \in 0..Len(feed)
    BY <1>5, DirectoryAssumption
  <2>3. /\ idp \subseteq Tenants /\ owed \subseteq Batch /\ courier \in Post \cup {NoPost}
        /\ group \in BOOLEAN /\ overtaken \in BOOLEAN /\ members \subseteq Colleagues(DirTenant)
        /\ byHand \subseteq members /\ halfway \subseteq Tenants /\ blind \subseteq Tenants
    OBVIOUS
  <2>. QED
    BY <1>1, <1>2, <1>3, <1>4, <1>5, <2>1, <2>2, <2>3 DEF TypeOK
<1>7. ASSUME NEW r \in Req
      PROVE  Ready(r)
  BY <1>1, <1>2 DEF Ready, Idle
<1>8. LinksOwned /\ PostsWithin
  BY NoneIsNoRow DEF LinksOwned, PostsWithin
<1>. QED
  BY <1>6, <1>7, <1>8 DEF Good

LEMMA StepGood == ASSUME Good, [Next]_vars PROVE Good' /\ KeepsUsers
<1>1. CASE UNCHANGED vars
  <2>1. UNCHANGED <<accountVars, ssoVars, feedVars>>
    BY <1>1 DEF vars
  <2>. QED
    BY <2>1 DEF accountVars, ssoVars, feedVars, Good, TypeOK, Ready, LinksOwned, PostsWithin, KeepsUsers,
                Exists, Colleagues, Rows
<1>2. ASSUME NEW r \in Req, AccountsBegin(r) \/ AccountsCommit(r), UNCHANGED <<ssoVars, feedVars>>
      PROVE  Good' /\ KeepsUsers
  BY <1>2, AccountsStep
<1>3. ASSUME NEW r \in Req, SsoBegin(r)
      PROVE  Good' /\ KeepsUsers
  BY <1>3, SsoBeginStep
<1>4. ASSUME NEW r \in Req, SsoCommit(r)
      PROVE  Good' /\ KeepsUsers
  BY <1>4, SsoCallbackStep, DisconnectStep, DomainsStep DEF SsoCommit
<1>5. ASSUME NEW ev \in Event, Started < Work, DirectoryChange(ev)
      PROVE  Good' /\ KeepsUsers
  BY <1>5, DirectoryChangeStep
<1>7. ASSUME NEW r \in Req, NEW u \in RowIds, AddMember(r, u) \/ RemoveMember(r, u)
      PROVE  Good' /\ KeepsUsers
  BY <1>7, MemberStep
<1>6. CASE WebhookNext
  BY <1>6, PostStep, ReadUserStep, WriteUserStep, GroupEventStep, AnswerStep DEF WebhookNext
<1>. QED
  BY <1>1, <1>2, <1>3, <1>4, <1>5, <1>6, <1>7 DEF Next

LEMMA AlwaysGood == Spec => []Good
<1>1. Init => Good
  BY InitGood
<1>2. Good /\ [Next]_vars => Good'
  BY StepGood
<1>. QED
  BY <1>1, <1>2, PTL DEF Spec

\* Every table and every request keeps rows of its kind, every post lies
\* within the directory's history, and the group here has only people of the
\* connected workspace: the webhook looks people up in the group's workspace.
THEOREM TypesCorrect == Spec => []TypeOK
<1>1. Good => TypeOK
  BY DEF Good
<1>. QED
  BY <1>1, AlwaysGood, PTL

-----------------------------------------------------------------------------
(* Owners.                                                                 *)

HasOwner(t) == \E u \in Colleagues(t) : users[u].role = "owner" /\ users[u].active

\* A workspace comes into being with its owner's row.
LEMMA NewTenantOwned ==
    ASSUME Good, [Next]_vars, NEW t \in Tenants, tenants[t] = "none", tenants'[t] # "none"
    PROVE  HasOwner(t)'
<1>1. tenants' # tenants
  OBVIOUS
<1>2. PICK r \in Req : (\E s \in Tenants, e \in Emails : CreateTenant(r, s, e)) \/ CommitCreate(r) \/ CommitSignup(r)
  <2>1. ~UNCHANGED vars /\ ~WebhookNext /\ \A ev \in Event : ~DirectoryChange(ev)
    BY <1>1 DEF vars, accountVars, WebhookNext, PostBatch, PostAgain, ReadUser, WriteUser, ApplyGroupEvent,
                Answer, PostFails, DirectoryChange
  <2>6. \A r \in Req, u \in RowIds : ~AddMember(r, u) /\ ~RemoveMember(r, u)
    BY <1>1 DEF AddMember, RemoveMember, MembersEdited
  <2>2. \A r \in Req : ~SsoBegin(r)
    BY <1>1 DEF SsoBegin, SsoStart, CreateConnection, DeleteConnection, SetDomains
  <2>3. \A r \in Req : ~SsoCommit(r)
    BY SMTT(30), <1>1 DEF SsoCommit, SsoCallback, PolisDelete, CommitDisconnect, FinishDelete, LoadTenant, CommitDomains, Refuse
  <2>4. ASSUME NEW r \in Req, AccountsCommit(r)
        PROVE  CommitCreate(r) \/ CommitSignup(r)
    BY <1>1, <2>4 DEF AccountsCommit, IssueAuthResponse, Rotate, Sweep, CommitPassword, CommitRemove,
                      CommitProfile, Abort, Refuse
  <2>5. ASSUME NEW r \in Req, AccountsBegin(r)
        PROVE  \E s \in Tenants, e \in Emails : CreateTenant(r, s, e)
    <3>1. ASSUME NEW s \in Tenants, NEW status \in {"active", "suspended"}, PatchTenant(r, s, status)
          PROVE  FALSE
      BY <3>1 DEF PatchTenant, Good, TypeOK
    <3>. QED
      BY <1>1, <2>5, <3>1
      DEF AccountsBegin, Login, ChangePassword, RemoveTeamMember, ForgotPassword, UpdateTeamRole, UpdateProfile,
          Refresh, ResetPassword, Register, AcceptInvite, InviteMember
  <2>. QED
    BY <2>1, <2>2, <2>3, <2>4, <2>5, <2>6 DEF Next
<1>3. ASSUME NEW e \in Emails, users' = [users EXCEPT ![r] = NewUser(t, e, "owner")]
      PROVE  HasOwner(t)'
  <2>1. users'[r] = NewUser(t, e, "owner") /\ r \in RowIds
    BY <1>3, RowNames DEF Good, TypeOK
  <2>2. NewUser(t, e, "owner") # None
    BY NewUserType DEF Roles
  <2>. QED
    BY <2>1, <2>2 DEF HasOwner, Colleagues, Rows, Exists, NewUser
<1>4. ASSUME NEW s \in Tenants, NEW e \in Emails, CreateTenant(r, s, e)
      PROVE  HasOwner(t)'
  <2>1. s = t
    BY <1>4 DEF CreateTenant, Good, TypeOK
  <2>. QED
    BY <1>3, <1>4, <2>1 DEF CreateTenant
<1>5. CASE CommitCreate(r) \/ CommitSignup(r)
  <2>1. req[r] \in CreateReq /\ req[r].email \in Emails
    BY <1>5, RequestKinds DEF CommitCreate, CommitSignup, Pending, Good, TypeOK, CreateReq
  <2>2. req[r].tenant = t /\ users' = [users EXCEPT ![r] = NewUser(t, req[r].email, "owner")]
    BY <1>5, <2>1 DEF CommitCreate, CommitSignup, Refuse, CreateReq, Good, TypeOK
  <2>. QED
    BY <1>3, <2>1, <2>2
<1>. QED
  BY <1>2, <1>4, <1>5

LEMMA OwnersInit == ASSUME Init PROVE OwnersStay
<1>1. SUFFICES ASSUME NEW t \in Tenants, tenants[t] # "none"
               PROVE  \E u \in Colleagues(t) : users[u].role = "owner" /\ users[u].active
  BY DEF OwnersStay
<1>2. PICK s \in Seeds : SeedRow[s].tenant = t
  BY <1>1 DEF Init, AccountsInit
<1>3. PICK o \in Seeds :
        SeedRow[o] = [SeedRow[o] EXCEPT !.tenant = SeedRow[s].tenant, !.role = "owner", !.active = TRUE]
  BY AccountsAssumption
<1>4. SeedRow[o] \in UserRow /\ o \in RowIds
  BY AccountsAssumption
<1>5. SeedRow[o].tenant = t /\ SeedRow[o].role = "owner" /\ SeedRow[o].active
  BY <1>2, <1>3, <1>4 DEF UserRow
<1>6. users[o] = SeedRow[o] /\ SeedRow[o] # None
  BY <1>4, NoneIsNoRow DEF Init, AccountsInit
<1>. QED
  BY <1>4, <1>5, <1>6 DEF Colleagues, Rows, Exists

LEMMA OwnersStep == ASSUME Good, OwnersStay, [Next]_vars PROVE OwnersStay'
<1>1. SUFFICES ASSUME NEW t \in Tenants, tenants'[t] # "none"
               PROVE  HasOwner(t)'
  BY DEF OwnersStay, HasOwner
<1>2. CASE tenants[t] = "none"
  BY <1>1, <1>2, NewTenantOwned
<1>3. CASE tenants[t] # "none"
  <2>1. PICK u \in Colleagues(t) : users[u].role = "owner" /\ users[u].active
    BY <1>3 DEF OwnersStay
  <2>2. u \in RowIds /\ Exists(u) /\ users[u].tenant = t
    BY DEF Colleagues, Rows
  <2>3. KeepsUsers
    BY StepGood
  <2>. QED
    BY <2>1, <2>2, <2>3 DEF KeepsUsers, HasOwner, Colleagues, Rows, Exists
<1>. QED
  BY <1>2, <1>3

\* No interleaving of removals, role changes, profile changes, password resets
\* and directory events leaves a workspace without an active owner: every
\* handler that demotes or deactivates looks at the role first, and nothing
\* turns a member into an owner or back between that look and its commit.
THEOREM OwnersAlwaysStay == Spec => []OwnersStay
<1>1. Init => OwnersStay
  BY OwnersInit
<1>2. Good /\ OwnersStay /\ [Next]_vars => OwnersStay'
  BY OwnersStep
<1>. QED
  BY <1>1, <1>2, AlwaysGood, PTL DEF Spec
=============================================================================
