------------------------------ MODULE Accounts ------------------------------
(***************************************************************************)
(* The accounts of all workspaces: rows of `users`, the refresh tokens that *)
(* keep a person signed in, the links that reset a password, invitations,  *)
(* and the requests of routers/auth.py and routers/admin.py that change     *)
(* them.  A request first reads what its guards need and commits later;     *)
(* between the two any other request may commit (READ COMMITTED).  A        *)
(* request that only reads, or that stops at a guard, changes nothing and   *)
(* is left out.                                                             *)
(*                                                                          *)
(* Every request is used once, so its name also names the row it inserts:   *)
(* the refresh token, reset link or user created by request r is called r.  *)
(* `epoch`, `late` and `forked` are history: which request last revoked the *)
(* sessions of a user, whether a token was issued by a request that         *)
(* overlapped such a revocation, and whether two requests rotated one token.*)
(***************************************************************************)
EXTENDS Naturals, FiniteSets

CONSTANTS
    Req,        \* requests
    Seeds,      \* accounts that exist at the start, each signed in once
    SeedRow,    \* their rows
    RowIds,     \* every name a user row can have
    Emails,
    Tenants,
    None

Roles == {"owner", "admin", "member"}

UserRow == [tenant: Tenants, email: Emails, role: Roles, active: BOOLEAN, epoch: Req \cup {None}]

TokenIds == Req \cup Seeds

Session == [user: RowIds, root: TokenIds, epoch: Req \cup {None}, live: BOOLEAN, late: BOOLEAN, forked: BOOLEAN]

Link == [user: RowIds, used: BOOLEAN]

ASSUME AccountsAssumption ==
    /\ IsFiniteSet(Req)
    /\ Req \subseteq RowIds
    /\ Seeds \subseteq RowIds
    /\ Req \cap Seeds = {}
    /\ None \notin RowIds /\ None \notin UserRow /\ None \notin Session /\ None \notin Link
    /\ SeedRow \in [Seeds -> UserRow]
    /\ \A s \in Seeds : \E o \in Seeds :
          SeedRow[o] = [SeedRow[o] EXCEPT !.tenant = SeedRow[s].tenant, !.role = "owner", !.active = TRUE]

VARIABLES
    users,      \* users[u]: the row u, or None
    sessions,   \* sessions[k]: the refresh token k, or None
    links,      \* links[r]: the password reset link request r mailed, or None
    invites,    \* rows of invite_tokens within their seven days
    tenants,    \* tenants[t]: "none", "active" or "suspended"
    enforced,   \* tenants.sso_enforced
    req         \* what request r has read and has yet to commit

accountVars == <<users, sessions, links, invites, tenants, enforced, req>>

Invite == [tenant: Tenants, email: Emails, role: {"admin", "member"}]

\* What a request remembers between its read and its commit.
LoginReq == [op: {"login"}, user: RowIds, epoch: Req \cup {None}, late: BOOLEAN]
RotateReq == [op: {"rotate"}, user: RowIds, old: TokenIds, late: BOOLEAN]
RevokeReq == [op: {"reset", "change", "remove"}, user: RowIds, link: Req \cup {None}, phase: {"read", "swept"},
              loaded: BOOLEAN, swept: SUBSET TokenIds]
CreateReq == [op: {"create"}, user: RowIds, tenant: Tenants, email: Emails, role: Roles]
ProfileReq == [op: {"profile"}, user: RowIds, email: Emails]
Outcomes == {"login", "rotate", "reset", "change", "remove", "create", "profile", "forgot", "invite", "role",
             "patch", "connect", "disconnect", "domains", "add_member", "remove_member", "nothing"}
DoneReq == [op: {"done"}, did: Outcomes, user: RowIds \cup {None}]

Idle == [op |-> "idle"]

Done(did, u) == [op |-> "done", did |-> did, user |-> u]

-----------------------------------------------------------------------------
(* Reads shared by the handlers.                                            *)

Exists(u) == users[u] # None

Rows == {u \in RowIds : Exists(u)}

\* select(User).where(User.email == email)
ByEmail(e) == {u \in Rows : users[u].email = e}

Colleagues(t) == {u \in Rows : users[u].tenant = t}

Taken(t, e) == \E u \in Colleagues(t) : users[u].email = e

\* get_current_user_optional and resolve_principal accept u's access token.
CanAct(u) == /\ Exists(u)
             /\ users[u].active
             /\ tenants[users[u].tenant] = "active"

\* Some caller passes require_owner for workspace t.
Managed(t) == \E u \in Colleagues(t) : CanAct(u) /\ users[u].role \in {"owner", "admin"}

Starts(r) == req[r] = Idle

Pending(r, op) == req[r].op = op

Finish(r, did, u) == req' = [req EXCEPT ![r] = Done(did, u)]

\* A request is between its sweep of u's sessions and its commit.
Revoking(u) == \E q \in Req : /\ req[q].op \in {"reset", "change", "remove"}
                              /\ req[q].user = u
                              /\ req[q].phase = "swept"

-----------------------------------------------------------------------------
(* Signing in.                                                              *)

\* login: one row has the email, the password matched, the account and the
\* workspace are active, and SSO is not required of this role.
Login(r, u) ==
    /\ Starts(r)
    /\ CanAct(u)
    /\ ByEmail(users[u].email) = {u}
    /\ ~(enforced[users[u].tenant] /\ users[u].role # "owner")
    /\ req' = [req EXCEPT ![r] = [op |-> "login", user |-> u, epoch |-> users[u].epoch, late |-> Revoking(u)]]
    /\ UNCHANGED <<users, sessions, links, invites, tenants, enforced>>

NewSession(r, u, epoch, late) ==
    [user |-> u, root |-> r, epoch |-> epoch, live |-> TRUE, late |-> late, forked |-> FALSE]

\* issue_auth_response: insert a refresh token and commit.
IssueAuthResponse(r) ==
    /\ Pending(r, "login")
    /\ sessions' = [sessions EXCEPT ![r] = NewSession(r, req[r].user, req[r].epoch, req[r].late)]
    /\ Finish(r, "login", req[r].user)
    /\ UNCHANGED <<users, links, invites, tenants, enforced>>

\* refresh: the token is unrevoked, its user and workspace are active.  The
\* two reads are one step: a change between them leads to the same commit as
\* one before the first, or to a refusal.
Refresh(r, k) ==
    /\ Starts(r)
    /\ sessions[k] # None
    /\ sessions[k].live
    /\ CanAct(sessions[k].user)
    /\ req' = [req EXCEPT ![r] = [op |-> "rotate", user |-> sessions[k].user, old |-> k,
                                  late |-> sessions[k].late \/ Revoking(sessions[k].user)]]
    /\ UNCHANGED <<users, sessions, links, invites, tenants, enforced>>

Heir(r) ==
    LET old == sessions[req[r].old]
    IN  [old EXCEPT !.live = TRUE, !.late = req[r].late, !.forked = old.forked \/ ~old.live]

Bug_RotateKeepsOld(r) ==
    /\ Pending(r, "rotate")
    /\ sessions' = [sessions EXCEPT ![r] = Heir(r)]
    /\ Finish(r, "rotate", req[r].user)
    /\ UNCHANGED <<users, links, invites, tenants, enforced>>

\* rotate_refresh_token: revoke the row that was read, whatever became of it
\* since, and insert its successor.
Rotate(r) ==
    /\ Pending(r, "rotate")
    /\ sessions' = [sessions EXCEPT ![req[r].old].live = FALSE, ![r] = Heir(r)]
    /\ Finish(r, "rotate", req[r].user)
    /\ UNCHANGED <<users, links, invites, tenants, enforced>>

-----------------------------------------------------------------------------
(* Requests that end the sessions of a user: they read what they act on,    *)
(* then select the unrevoked tokens, then commit.                           *)

BeginRevoker(r, op, u, link) ==
    req' = [req EXCEPT ![r] = [op |-> op, user |-> u, link |-> link, phase |-> "read",
                               loaded |-> users[u].active, swept |-> {}]]

\* reset_password: the link is unused; its user may be inactive.
ResetPassword(r, x) ==
    /\ Starts(r)
    /\ links[x] # None
    /\ ~links[x].used
    /\ BeginRevoker(r, "reset", links[x].user, x)
    /\ UNCHANGED <<users, sessions, links, invites, tenants, enforced>>

\* change_password: the current password matched the row read to authenticate.
ChangePassword(r, u) ==
    /\ Starts(r)
    /\ CanAct(u)
    /\ BeginRevoker(r, "change", u, None)
    /\ UNCHANGED <<users, sessions, links, invites, tenants, enforced>>

Bug_RemoveAnyone(r, u) ==
    /\ Starts(r)
    /\ Exists(u)
    /\ Managed(users[u].tenant)
    /\ BeginRevoker(r, "remove", u, None)
    /\ UNCHANGED <<users, sessions, links, invites, tenants, enforced>>

\* remove_team_member
RemoveTeamMember(r, u) ==
    /\ Starts(r)
    /\ Exists(u)
    /\ Managed(users[u].tenant)
    /\ users[u].role # "owner"
    /\ BeginRevoker(r, "remove", u, None)
    /\ UNCHANGED <<users, sessions, links, invites, tenants, enforced>>

\* revoke_user_refresh_tokens: the SELECT.  Requests that have read but not
\* committed a token of this user are late from here on.
Sweep(r) ==
    /\ req[r].op \in {"reset", "change", "remove"}
    /\ req[r].phase = "read"
    /\ LET u == req[r].user
           live == {k \in TokenIds : sessions[k] # None /\ sessions[k].user = u /\ sessions[k].live}
       IN  req' = [q \in Req |->
                     CASE q = r -> [req[q] EXCEPT !.phase = "swept", !.swept = live]
                       [] req[q].op \in {"login", "rotate"} /\ req[q].user = u -> [req[q] EXCEPT !.late = TRUE]
                       [] OTHER -> req[q]]
    /\ UNCHANGED <<users, sessions, links, invites, tenants, enforced>>

Bug_RevokesNone(r) == sessions

Revoked(r) == [k \in TokenIds |-> IF k \in req[r].swept THEN [sessions[k] EXCEPT !.live = FALSE] ELSE sessions[k]]

CommitPassword(r) ==
    /\ req[r].op \in {"reset", "change"}
    /\ req[r].phase = "swept"
    /\ users' = [users EXCEPT ![req[r].user].epoch = r]
    /\ links' = IF req[r].op = "reset" THEN [links EXCEPT ![req[r].link].used = TRUE] ELSE links
    /\ sessions' = Revoked(r)
    /\ Finish(r, req[r].op, req[r].user)
    /\ UNCHANGED <<invites, tenants, enforced>>

\* is_active is written only if the loaded row had it set.
CommitRemove(r) ==
    /\ Pending(r, "remove")
    /\ req[r].phase = "swept"
    /\ users' = [users EXCEPT ![req[r].user].epoch = r,
                              ![req[r].user].active = ~req[r].loaded /\ users[req[r].user].active]
    /\ sessions' = Revoked(r)
    /\ Finish(r, "remove", req[r].user)
    /\ UNCHANGED <<links, invites, tenants, enforced>>

-----------------------------------------------------------------------------
(* New accounts and changed addresses: the address is looked up first and   *)
(* the row inserted later; only (tenant, email) is unique in the database.  *)

BeginCreate(r, t, e, role) ==
    req' = [req EXCEPT ![r] = [op |-> "create", user |-> r, tenant |-> t, email |-> e, role |-> role]]

\* A workspace id nobody has or is creating.
FreshTenant(t) == /\ tenants[t] = "none"
                  /\ \A q \in Req : Pending(q, "create") => req[q].tenant # t

\* register
Register(r, t, e) ==
    /\ Starts(r)
    /\ FreshTenant(t)
    /\ ByEmail(e) = {}
    /\ BeginCreate(r, t, e, "owner")
    /\ UNCHANGED <<users, sessions, links, invites, tenants, enforced>>

\* accept_invite: accepted_at is set on a row of a closed session and never
\* reaches the database, so the invitation stays as it was.
AcceptInvite(r, i) ==
    /\ Starts(r)
    /\ i \in invites
    /\ ByEmail(i.email) = {}
    /\ BeginCreate(r, i.tenant, i.email, i.role)
    /\ UNCHANGED <<users, sessions, links, invites, tenants, enforced>>

NewUser(t, e, role) == [tenant |-> t, email |-> e, role |-> role, active |-> TRUE, epoch |-> None]

Refuse(r) ==
    /\ Finish(r, "nothing", None)
    /\ UNCHANGED <<users, sessions, links, invites, tenants, enforced>>

\* The INSERT, the token and the commit; a duplicate address in the workspace
\* fails the INSERT and rolls the request back.
CommitCreate(r) ==
    /\ Pending(r, "create")
    /\ IF Taken(req[r].tenant, req[r].email)
       THEN Refuse(r)
       ELSE /\ users' = [users EXCEPT ![r] = NewUser(req[r].tenant, req[r].email, req[r].role)]
            /\ sessions' = [sessions EXCEPT ![r] = NewSession(r, r, None, FALSE)]
            /\ tenants' = IF req[r].role = "owner" THEN [tenants EXCEPT ![req[r].tenant] = "active"] ELSE tenants
            /\ Finish(r, "create", r)
            /\ UNCHANGED <<links, invites, enforced>>

\* register, when Stripe is set up: ensure_stripe_customer commits the workspace
\* and its owner before the token is inserted.
CommitSignup(r) ==
    /\ Pending(r, "create")
    /\ req[r].role = "owner"
    /\ users' = [users EXCEPT ![r] = NewUser(req[r].tenant, req[r].email, "owner")]
    /\ tenants' = [tenants EXCEPT ![req[r].tenant] = "active"]
    /\ req' = [req EXCEPT ![r] = [op |-> "login", user |-> r, epoch |-> None, late |-> FALSE]]
    /\ UNCHANGED <<sessions, links, invites, enforced>>

\* update_profile: the address is free in the caller's own workspace.
UpdateProfile(r, u, e) ==
    /\ Starts(r)
    /\ CanAct(u)
    /\ ~Taken(users[u].tenant, e)
    /\ req' = [req EXCEPT ![r] = [op |-> "profile", user |-> u, email |-> e]]
    /\ UNCHANGED <<users, sessions, links, invites, tenants, enforced>>

CommitProfile(r) ==
    /\ Pending(r, "profile")
    /\ IF Taken(users[req[r].user].tenant, req[r].email)
       THEN Refuse(r)
       ELSE /\ users' = [users EXCEPT ![req[r].user].email = req[r].email]
            /\ Finish(r, "profile", req[r].user)
            /\ UNCHANGED <<sessions, links, invites, tenants, enforced>>

-----------------------------------------------------------------------------
(* Requests of one transaction whose guards nothing else can invalidate.    *)

\* forgot_password: earlier links of the user stay valid.
ForgotPassword(r, u) ==
    /\ Starts(r)
    /\ Exists(u)
    /\ ByEmail(users[u].email) = {u}
    /\ links' = [links EXCEPT ![r] = [user |-> u, used |-> FALSE]]
    /\ Finish(r, "forgot", u)
    /\ UNCHANGED <<users, sessions, invites, tenants, enforced>>

\* invite_member
InviteMember(r, i) ==
    /\ Starts(r)
    /\ Managed(i.tenant)
    /\ invites' = invites \cup {i}
    /\ Finish(r, "invite", None)
    /\ UNCHANGED <<users, sessions, links, tenants, enforced>>

\* update_team_role
UpdateTeamRole(r, u, role) ==
    /\ Starts(r)
    /\ Exists(u)
    /\ Managed(users[u].tenant)
    /\ users[u].role # "owner"
    /\ users' = [users EXCEPT ![u].role = role]
    /\ Finish(r, "role", u)
    /\ UNCHANGED <<sessions, links, invites, tenants, enforced>>

\* admin.create_tenant: no look at the address, and no session.
CreateTenant(r, t, e) ==
    /\ Starts(r)
    /\ FreshTenant(t)
    /\ users' = [users EXCEPT ![r] = NewUser(t, e, "owner")]
    /\ tenants' = [tenants EXCEPT ![t] = "active"]
    /\ Finish(r, "create", r)
    /\ UNCHANGED <<sessions, links, invites, enforced>>

\* admin.patch_tenant, is_active
PatchTenant(r, t, status) ==
    /\ Starts(r)
    /\ tenants[t] # "none"
    /\ tenants' = [tenants EXCEPT ![t] = status]
    /\ Finish(r, "patch", None)
    /\ UNCHANGED <<users, sessions, links, invites, enforced>>

\* A request that has read but not committed stops: its transaction is gone.
Abort(r) == /\ req[r].op \notin {"idle", "done"}
            /\ Refuse(r)

-----------------------------------------------------------------------------

AccountsInit ==
    /\ users = [u \in RowIds |-> IF u \in Seeds THEN SeedRow[u] ELSE None]
    /\ sessions = [k \in TokenIds |-> IF k \in Seeds THEN NewSession(k, k, SeedRow[k].epoch, FALSE) ELSE None]
    /\ links = [r \in Req |-> None]
    /\ invites = {}
    /\ tenants = [t \in Tenants |-> IF \E s \in Seeds : SeedRow[s].tenant = t THEN "active" ELSE "none"]
    /\ enforced = [t \in Tenants |-> FALSE]
    /\ req = [r \in Req |-> Idle]

AccountsBegin(r) ==
    \/ \E u \in RowIds : \/ Login(r, u)
                         \/ ChangePassword(r, u)
                         \/ RemoveTeamMember(r, u)
                         \/ ForgotPassword(r, u)
                         \/ \E role \in {"admin", "member"} : UpdateTeamRole(r, u, role)
                         \/ \E e \in Emails : UpdateProfile(r, u, e)
    \/ \E k \in TokenIds : Refresh(r, k)
    \/ \E x \in Req : ResetPassword(r, x)
    \/ \E t \in Tenants, e \in Emails : Register(r, t, e) \/ CreateTenant(r, t, e)
    \/ \E i \in Invite : AcceptInvite(r, i) \/ InviteMember(r, i)
    \/ \E t \in Tenants, status \in {"active", "suspended"} : PatchTenant(r, t, status)

AccountsCommit(r) ==
    \/ IssueAuthResponse(r)
    \/ Rotate(r)
    \/ Sweep(r)
    \/ CommitPassword(r)
    \/ CommitRemove(r)
    \/ CommitCreate(r)
    \/ CommitSignup(r)
    \/ CommitProfile(r)
    \/ Abort(r)

-----------------------------------------------------------------------------

\* A session that was alive when its owner's sessions were last revoked (a
\* password reset or change, a removal) is dead, unless the request that
\* issued it overlapped that revocation: no sequence of sign-ins, rotations
\* and revocations by different requests keeps an old session alive.
Outlived(k) == /\ sessions[k] # None
               /\ sessions[k].live
               /\ sessions[k].epoch # users[sessions[k].user].epoch

SessionsEndTogether == \A k \in TokenIds : Outlived(k) => sessions[k].late

\* Rotation is linear: of the refresh tokens that descend from one sign-in at
\* most one is alive, counting out what descends from a token that another
\* request used up between the read and the commit of its rotation.
Sole(k) == sessions[k] # None /\ sessions[k].live /\ ~sessions[k].forked

OneSessionPerLogin ==
    \A j, k \in TokenIds : (Sole(j) /\ Sole(k) /\ sessions[j].root = sessions[k].root) => j = k

\* Every workspace keeps an active owner, the account that may sign in with
\* its password when single sign-on is required, whatever administrators,
\* role changes and the directory do.
OwnersStay ==
    \A t \in Tenants :
        tenants[t] # "none" => \E u \in Colleagues(t) : users[u].role = "owner" /\ users[u].active
=============================================================================
