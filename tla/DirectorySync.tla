--------------------------- MODULE DirectorySync ---------------------------
(***************************************************************************)
(* Single sign-on and directory sync (routers/sso.py, services/polis.py) on  *)
(* top of the accounts: the claimed domains and the switch that requires    *)
(* SSO, sign-in through the identity provider, and the webhook that applies *)
(* the directory's events.  The identity provider and Polis are external:   *)
(* `feed` is the history of one workspace's directory, which Polis posts in *)
(* batches and posts again when a post is not answered with success.        *)
(***************************************************************************)
EXTENDS Accounts, Sequences

CONSTANTS
    DirTenant,  \* the workspace whose directory is connected
    DomainOf,   \* the domain of an address
    BatchSize,  \* bound: events per post
    Work        \* bound: requests started plus directory events

Domains == {DomainOf[e] : e \in Emails}

Claim == [tenant: Tenants, by: Req]

ASSUME DirectoryAssumption ==
    /\ None \notin Claim
    /\ DirTenant \in Tenants
    /\ 1..Work \subseteq RowIds
    /\ (1..Work) \cap TokenIds = {}
    /\ Work \in Nat
    /\ BatchSize \in Nat

VARIABLES
    claims,     \* sso_domains: [tenant, by] of each claimed domain, by the request that inserted it
    idp,        \* workspaces with a connection at Polis
    feed,       \* events of the directory so far
    posted,     \* how many of them Polis has put in a batch
    owed,       \* batches to post again
    courier,    \* the post being handled: batch, next event, the row read for it
    group,      \* the directory's group row exists here
    members,    \* its group_members
    overtaken,  \* history: a batch was posted before an earlier one was answered
    byHand,     \* history: members an administrator put in, of whom the directory has said nothing since
    halfway,    \* history: workspaces whose connection went at Polis, and the request that deleted it no further
    blind       \* history: workspaces that came to require SSO without a connection, or while one was being deleted

ssoVars == <<claims, idp, halfway, blind>>
feedVars == <<feed, posted, owed, courier, group, members, overtaken, byHand>>
vars == <<accountVars, ssoVars, feedVars>>

UserEvent == [kind: {"user"}, email: Emails, active: BOOLEAN]
GroupEvent == [kind: {"group"}, exists: BOOLEAN]
MemberEvent == [kind: {"member"}, email: Emails, added: BOOLEAN]
Event == UserEvent \cup GroupEvent \cup MemberEvent

Batch == [from: 1..Work, to: 1..Work]

Post == [at: {"start", "read"}, batch: Batch, pos: 1..Work + 1, row: RowIds \cup {None}, loaded: BOOLEAN]
NoPost == [at |-> "none"]

\* The bound on what may begin.
Started == Cardinality({r \in Req : req[r] # Idle}) + Len(feed)

-----------------------------------------------------------------------------
(* Signing in through the identity provider.                                *)

ClaimedBy(t) == {d \in Domains : claims[d] # None /\ claims[d].tenant = t}

\* start: a one-time state for the workspace that claims the domain.
SsoStart(r, t) ==
    /\ Starts(r)
    /\ ClaimedBy(t) # {}
    /\ req' = [req EXCEPT ![r] = [op |-> "sso", user |-> None, tenant |-> t]]
    /\ UNCHANGED <<users, sessions, links, invites, tenants, enforced, ssoVars, feedVars>>

\* exchange_code: the addresses Polis may assert for workspace t, none without
\* a connection.
Asserted(t) == IF t \in idp THEN Emails ELSE {}

\* callback, up to the user: GETDEL gives the state to one callback, the code
\* exchange asserts address e for the same workspace.
SsoCallback(r, e) ==
    LET t == req[r].tenant
        found == ByEmail(e)
    IN  /\ Pending(r, "sso")
        /\ e \in Asserted(t)
        /\ tenants[t] = "active"
        /\ DomainOf[e] \in ClaimedBy(t)
        /\ \/ /\ found = {}
              /\ BeginCreate(r, t, e, "member")
           \/ \E u \in found :
                 /\ found = {u}
                 /\ users[u].tenant = t
                 /\ users[u].active
                 /\ req' = [req EXCEPT ![r] = [op |-> "login", user |-> u, epoch |-> users[u].epoch,
                                               late |-> Revoking(u)]]
        /\ UNCHANGED <<users, sessions, links, invites, tenants, enforced, ssoVars, feedVars>>

-----------------------------------------------------------------------------
(* The administrator's settings.                                            *)

\* polis.create_connection
Connect(t) == idp' = idp \cup {t}

\* create_connection
CreateConnection(r, t) ==
    /\ Starts(r)
    /\ Managed(t)
    /\ Connect(t)
    /\ halfway' = halfway \ {t}
    /\ Finish(r, "connect", None)
    /\ UNCHANGED <<users, sessions, links, invites, tenants, enforced, claims, blind, feedVars>>

\* delete_connection: the tenant row is the copy read to authenticate.
DeleteConnection(r, t) ==
    /\ Starts(r)
    /\ Managed(t)
    /\ req' = [req EXCEPT ![r] = [op |-> "disconnect", user |-> None, tenant |-> t, loaded |-> enforced[t],
                                  phase |-> "read"]]
    /\ UNCHANGED <<users, sessions, links, invites, tenants, enforced, ssoVars, feedVars>>

PolisDelete(r) ==
    /\ Pending(r, "disconnect")
    /\ req[r].phase = "read"
    /\ idp' = idp \ {req[r].tenant}
    /\ halfway' = halfway \cup {req[r].tenant}
    /\ req' = [req EXCEPT ![r].phase = "gone"]
    /\ UNCHANGED <<users, sessions, links, invites, tenants, enforced, claims, blind, feedVars>>

Bug_LeavesSwitch(r) ==
    /\ Pending(r, "disconnect")
    /\ req[r].phase = "gone"
    /\ halfway' = halfway \ {req[r].tenant}
    /\ Finish(r, "disconnect", None)
    /\ UNCHANGED <<users, sessions, links, invites, tenants, enforced, claims, idp, blind, feedVars>>

\* An unchanged attribute is not written: a switch that was off when the request
\* authenticated is not switched off here.
CommitDisconnect(r) ==
    /\ Pending(r, "disconnect")
    /\ req[r].phase = "gone"
    /\ enforced' = IF req[r].loaded THEN [enforced EXCEPT ![req[r].tenant] = FALSE] ELSE enforced
    /\ halfway' = halfway \ {req[r].tenant}
    /\ Finish(r, "disconnect", None)
    /\ UNCHANGED <<users, sessions, links, invites, tenants, claims, idp, blind, feedVars>>

\* Nothing will switch the requirement off again: there is no connection, or a
\* request that saw the switch off is deleting it.
Unconnected(t) ==
    \/ t \notin idp
    \/ \E q \in Req : Pending(q, "disconnect") /\ req[q].tenant = t /\ ~req[q].loaded

\* set_domains: checks, then the DELETE starts on the rows it sees.
SetDomains(r, t, D, enf) ==
    /\ Starts(r)
    /\ \E u \in Colleagues(t) :
          /\ CanAct(u)
          /\ \/ users[u].role = "owner"
             \/ users[u].role = "admin" /\ (enf => DomainOf[users[u].email] \in D)
    /\ \A d \in D : claims[d] # None => claims[d].tenant = t
    /\ req' = [req EXCEPT ![r] =
                 [op |-> "domains", user |-> None, tenant |-> t, wanted |-> D, enf |-> enf, loaded |-> FALSE,
                  rows |-> {<<d, claims[d].by>> : d \in ClaimedBy(t)}, phase |-> "deleting"]]
    /\ UNCHANGED <<users, sessions, links, invites, tenants, enforced, ssoVars, feedVars>>

\* The DELETE waits for rows another open transaction has deleted, and skips
\* rows that are gone by then.
FinishDelete(r) ==
    /\ Pending(r, "domains")
    /\ req[r].phase = "deleting"
    /\ \A q \in Req \ {r} :
          (Pending(q, "domains") /\ req[q].phase # "deleting") => req[q].rows \cap req[r].rows = {}
    /\ req' = [req EXCEPT ![r].phase = "deleted",
                          ![r].rows = {x \in @ : claims[x[1]] # None /\ claims[x[1]].by = x[2]}]
    /\ UNCHANGED <<users, sessions, links, invites, tenants, enforced, ssoVars, feedVars>>

\* The tenant row is read after the DELETE, in the same transaction.
LoadTenant(r) ==
    /\ Pending(r, "domains")
    /\ req[r].phase = "deleted"
    /\ req' = [req EXCEPT ![r].phase = "loaded", ![r].loaded = enforced[req[r].tenant]]
    /\ UNCHANGED <<users, sessions, links, invites, tenants, enforced, ssoVars, feedVars>>

\* INSERTs, the changed switch, commit; a domain somebody else inserted in
\* the meantime fails the request.
CommitDomains(r) ==
    LET t == req[r].tenant
        gone == {x[1] : x \in req[r].rows}
        enf == req[r].enf /\ req[r].wanted # {}
    IN  /\ Pending(r, "domains")
        /\ req[r].phase = "loaded"
        /\ IF \E d \in req[r].wanted \ gone : claims[d] # None
           THEN Refuse(r) /\ UNCHANGED <<claims, blind>>
           ELSE /\ claims' = [d \in Domains |-> IF d \in req[r].wanted THEN [tenant |-> t, by |-> r]
                                                ELSE IF d \in gone THEN None ELSE claims[d]]
                /\ enforced' = IF enf # req[r].loaded THEN [enforced EXCEPT ![t] = enf] ELSE enforced
                /\ blind' = IF enforced'[t] /\ Unconnected(t) THEN blind \cup {t} ELSE blind \ {t}
                /\ Finish(r, "domains", None)
                /\ UNCHANGED <<users, sessions, links, invites, tenants>>
        /\ UNCHANGED <<idp, halfway, feedVars>>

-----------------------------------------------------------------------------
(* The members of a group can be edited by hand, whoever manages the group  *)
(* (routers/access.py).                                                     *)

MembersEdited(r, did, u) ==
    /\ Starts(r)
    /\ Managed(DirTenant)
    /\ group
    /\ Finish(r, did, u)
    /\ UNCHANGED <<users, sessions, links, invites, tenants, enforced, ssoVars, feed, posted, owed, courier, group,
                   overtaken>>

\* add_member
AddMember(r, u) ==
    /\ u \in Colleagues(DirTenant) \ members
    /\ members' = members \cup {u}
    /\ byHand' = byHand \cup {u}
    /\ MembersEdited(r, "add_member", u)

\* remove_member
RemoveMember(r, u) ==
    /\ u \in members
    /\ members' = members \ {u}
    /\ byHand' = byHand \ {u}
    /\ MembersEdited(r, "remove_member", u)

-----------------------------------------------------------------------------
(* The directory and its webhook.                                           *)

\* Somebody edits the directory.
DirectoryChange(ev) ==
    /\ feed' = Append(feed, ev)
    /\ UNCHANGED <<accountVars, ssoVars, posted, owed, courier, group, members, overtaken, byHand>>

Carry(b) == courier' = [at |-> "start", batch |-> b, pos |-> b.from, row |-> None, loaded |-> FALSE]

\* Polis posts the next events.
PostBatch ==
    /\ courier = NoPost
    /\ \E to \in posted + 1..Len(feed) :
          /\ to - posted <= BatchSize
          /\ Carry([from |-> posted + 1, to |-> to])
          /\ posted' = to
    /\ overtaken' = (overtaken \/ owed # {})
    /\ UNCHANGED <<accountVars, ssoVars, feed, owed, group, members, byHand>>

\* ... or posts again what was not answered.
PostAgain(b) ==
    /\ courier = NoPost
    /\ b \in owed
    /\ Carry(b)
    /\ owed' = owed \ {b}
    /\ UNCHANGED <<accountVars, ssoVars, feed, posted, group, members, overtaken, byHand>>

Handling(at) == courier.at = at /\ courier.pos <= courier.batch.to

TheEvent == feed[courier.pos]

InDirTenant(e) == {u \in Colleagues(DirTenant) : users[u].email = e}

\* _apply_event, user events: the row of this address in any workspace.
ReadUser ==
    /\ Handling("start")
    /\ TheEvent.kind = "user"
    /\ LET found == ByEmail(TheEvent.email)
       IN  \/ found = {} /\ courier' = [courier EXCEPT !.at = "read", !.row = None]
           \/ \E u \in found :
                 /\ found = {u}
                 /\ courier' = [courier EXCEPT !.at = "read", !.row = u, !.loaded = users[u].active]
    /\ UNCHANGED <<accountVars, ssoVars, feed, posted, owed, group, members, overtaken, byHand>>

NextEvent == courier' = [courier EXCEPT !.at = "start", !.pos = @ + 1, !.row = None, !.loaded = FALSE]

\* is_active of a row, as the flush writes it.
Deactivated(u, active) ==
    IF users[u].role # "owner" /\ active # courier.loaded THEN [users EXCEPT ![u].active = active] ELSE users

\* A row name not in use.
FreeRow == CHOOSE n \in 1..Work : ~Exists(n)

\* An unknown person is created, unless the event says they left.
CreateFromDirectory(ev) ==
    IF ev.active
    THEN /\ ~Taken(DirTenant, ev.email)
         /\ \E n \in 1..Work : ~Exists(n)
         /\ users' = [users EXCEPT ![FreeRow] = NewUser(DirTenant, ev.email, "member")]
    ELSE UNCHANGED users

\* ... and the write and commit of that event.
WriteUser ==
    /\ Handling("read")
    /\ LET u == courier.row
       IN  CASE u = None -> CreateFromDirectory(TheEvent)
             [] u # None /\ users[u].tenant = DirTenant -> users' = Deactivated(u, TheEvent.active)
             [] OTHER -> UNCHANGED users
    /\ NextEvent
    /\ UNCHANGED <<sessions, links, invites, tenants, enforced, req, ssoVars, feed, posted, owed, group, members,
                   overtaken, byHand>>

Bug_AddAlways(g, ev) ==
    members' = IF g THEN members \cup InDirTenant(ev.email) ELSE members

Bug_AnyTenant(g, ev) ==
    members' = CASE g /\ ev.added -> members \cup ByEmail(ev.email)
                 [] g /\ ~ev.added -> members \ ByEmail(ev.email)
                 [] OTHER -> members

\* group.user_added and group.user_removed, when both rows exist.
ApplyMember(g, ev) ==
    members' = CASE g /\ ev.added -> members \cup InDirTenant(ev.email)
                 [] g /\ ~ev.added -> members \ InDirTenant(ev.email)
                 [] OTHER -> members

\* _apply_event, group events: one transaction; deleting the group deletes
\* its members.
ApplyGroupEvent ==
    /\ Handling("start")
    /\ \/ /\ TheEvent.kind = "group"
          /\ group' = TheEvent.exists
          /\ members' = IF TheEvent.exists THEN members ELSE {}
          /\ byHand' = IF TheEvent.exists THEN byHand ELSE {}
       \/ /\ TheEvent.kind = "member"
          /\ ApplyMember(group, TheEvent)
          /\ byHand' = byHand \ InDirTenant(TheEvent.email)
          /\ UNCHANGED group
    /\ NextEvent
    /\ UNCHANGED <<accountVars, ssoVars, feed, posted, owed, overtaken>>

\* The post is answered with success.
Answer ==
    /\ courier # NoPost
    /\ courier.pos > courier.batch.to
    /\ courier' = NoPost
    /\ UNCHANGED <<accountVars, ssoVars, feed, posted, owed, group, members, overtaken, byHand>>

Bug_ForgetBatch ==
    /\ courier # NoPost
    /\ courier' = NoPost
    /\ UNCHANGED <<accountVars, ssoVars, feed, posted, owed, group, members, overtaken, byHand>>

\* An exception, a crash or a lost answer: what was committed stays, and the
\* whole batch is owed again.
PostFails ==
    /\ courier # NoPost
    /\ owed' = owed \cup {courier.batch}
    /\ courier' = NoPost
    /\ UNCHANGED <<accountVars, ssoVars, feed, posted, group, members, overtaken, byHand>>

-----------------------------------------------------------------------------

Init ==
    /\ AccountsInit
    /\ claims = [d \in Domains |-> None]
    /\ idp = {}
    /\ feed = <<>>
    /\ posted = 0
    /\ owed = {}
    /\ courier = NoPost
    /\ group = FALSE
    /\ members = {}
    /\ overtaken = FALSE
    /\ byHand = {}
    /\ halfway = {}
    /\ blind = {}

SsoBegin(r) ==
    \E t \in Tenants : \/ SsoStart(r, t)
                       \/ CreateConnection(r, t)
                       \/ DeleteConnection(r, t)
                       \/ \E D \in SUBSET Domains, enf \in BOOLEAN : SetDomains(r, t, D, enf)

SsoCommit(r) ==
    \/ \E e \in Emails : SsoCallback(r, e)
    \/ PolisDelete(r)
    \/ CommitDisconnect(r)
    \/ FinishDelete(r)
    \/ LoadTenant(r)
    \/ CommitDomains(r)

WebhookNext ==
    \/ PostBatch
    \/ \E b \in Batch : PostAgain(b)
    \/ ReadUser
    \/ WriteUser
    \/ ApplyGroupEvent
    \/ Answer
    \/ PostFails

Next ==
    \/ Started < Work /\ \E r \in Req : AccountsBegin(r) /\ UNCHANGED <<ssoVars, feedVars>>
    \/ Started < Work /\ \E r \in Req : SsoBegin(r)
    \/ Started < Work /\ \E r \in Req, u \in RowIds : AddMember(r, u) \/ RemoveMember(r, u)
    \/ Started < Work /\ \E ev \in Event : DirectoryChange(ev)
    \/ \E r \in Req : AccountsCommit(r) /\ UNCHANGED <<ssoVars, feedVars>>
    \/ \E r \in Req : SsoCommit(r)
    \/ WebhookNext

Spec == Init /\ [][Next]_vars

-----------------------------------------------------------------------------

SsoReq == [op: {"sso"}, user: {None}, tenant: Tenants]
DisconnectReq == [op: {"disconnect"}, user: {None}, tenant: Tenants, loaded: BOOLEAN, phase: {"read", "gone"}]
DomainsReq == [op: {"domains"}, user: {None}, tenant: Tenants, wanted: SUBSET Domains, enf: BOOLEAN,
               loaded: BOOLEAN, rows: SUBSET (Domains \X Req), phase: {"deleting", "deleted", "loaded"}]
RequestState ==
    {Idle} \cup LoginReq \cup RotateReq \cup RevokeReq \cup CreateReq \cup ProfileReq
    \cup SsoReq \cup DisconnectReq \cup DomainsReq \cup DoneReq

\* Every table and request holds rows of its kind, and the directory's group
\* only people of its workspace.
TypeOK ==
    /\ users \in [RowIds -> UserRow \cup {None}]
    /\ sessions \in [TokenIds -> Session \cup {None}]
    /\ links \in [Req -> Link \cup {None}]
    /\ invites \subseteq Invite
    /\ tenants \in [Tenants -> {"none", "active", "suspended"}]
    /\ enforced \in [Tenants -> BOOLEAN]
    /\ req \in [Req -> RequestState]
    /\ claims \in [Domains -> Claim \cup {None}]
    /\ idp \subseteq Tenants
    /\ feed \in Seq(Event) /\ Len(feed) <= Work
    /\ posted \in 0..Len(feed)
    /\ owed \subseteq Batch
    /\ courier \in Post \cup {NoPost}
    /\ group \in BOOLEAN /\ overtaken \in BOOLEAN
    /\ byHand \subseteq members
    /\ halfway \subseteq Tenants /\ blind \subseteq Tenants
    /\ members \subseteq Colleagues(DirTenant)

\* A workspace that requires single sign-on has claimed a domain, however the
\* requests that replace the domains and the switch interleave; and it has a
\* connection to sign in through, unless set_domains switched the requirement on
\* where it does not look (no connection, or one that a request which saw the
\* switch off is deleting), or a delete_connection stopped between Polis and its
\* commit.  Those are the ways to be locked out that delete_connection's comment
\* means to exclude, and there is no other.
NoOtherLockOut ==
    \A t \in Tenants : enforced[t] => /\ ClaimedBy(t) # {}
                                      /\ t \in idp \cup halfway \cup blind

Settled == courier = NoPost /\ owed = {} /\ posted = Len(feed) /\ ~overtaken

EventsOf(kind, e) == {i \in 1..Len(feed) : feed[i].kind = kind /\ feed[i].email = e}

Latest(S) == feed[CHOOSE i \in S : \A j \in S : j <= i]

\* No request has created, removed or renamed this account.
LeftAlone(u) ==
    \A r \in Req : req[r].op = "done" /\ req[r].user = u => req[r].did \notin {"create", "remove", "profile"}

\* Once every batch was answered, in order and however often batches failed
\* half-way and were repeated, an account the directory manages is active
\* exactly if the directory's last word on it says so.
DirectoryMirrored ==
    Settled =>
        \A e \in Emails : EventsOf("user", e) # {} =>
            \A u \in InDirTenant(e) :
                (users[u].role # "owner" /\ LeftAlone(u)) => users[u].active = Latest(EventsOf("user", e)).active

\* ... and nobody is in the directory's group here who is not in it there,
\* except whom an administrator put in by hand and the directory has not spoken
\* of since: a lost, repeated or late event never leaves access the directory
\* revoked.
NothingBeyondDirectory ==
    Settled =>
        \A u \in members \ byHand : LeftAlone(u) =>
            LET added == EventsOf("member", users[u].email)
            IN  /\ added # {}
                /\ Latest(added).added
                /\ \A i \in 1..Len(feed) :
                      (feed[i].kind = "group" /\ ~feed[i].exists) => \E j \in added : j > i
=============================================================================
