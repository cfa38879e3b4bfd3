----------------------------- MODULE Collections -----------------------------
(***************************************************************************)
(* Collections, their access lists, groups and scoped keys, the documents  *)
(* placed in them, and the scope a caller is given (routers/access.py,     *)
(* routers/api_keys.py, services/access.py, and the placing half of        *)
(* routers/documents.py).                                                  *)
(*                                                                         *)
(* Every handler reads, checks and commits without a lock of its own: what *)
(* it checked may have changed by the time it commits, and only foreign    *)
(* keys, primary keys and row locks are left to notice.                    *)
(***************************************************************************)
EXTENDS AccessScope

CONSTANTS
    Groups,   \* group ids
    Members,  \* users with the role member
    Owners,   \* users with the role owner or admin; secret keys see the same
    Keys,     \* ids of publishable API keys
    Docs,     \* document ids
    Editors,  \* write requests served at a time
    Readers,  \* queries served at a time
    None

ASSUME CallersAssumption ==
    /\ Members \cap Owners = {} /\ Keys \cap (Members \cup Owners) = {}
    /\ "none" \notin Collections

Colls == Collections \ {General}
Callers == Members \cup Owners \cup Keys

VARIABLES
    coll,    \* table collections: the visibility of each, while it exists
    groups,  \* table groups: those that exist
    access,  \* table collection_access: pairs of a collection and a group
    members, \* table group_members: pairs of a group and a user
    keys,    \* table api_keys
    place,   \* documents.collection_id, once the document exists
    edit,    \* local state of each write request
    query,   \* local state of each query
    wanted,  \* history: the collection a document was last put into by a request
    lists,   \* history: the access list last given to each collection
    races    \* history: see the properties

vars == <<coll, groups, access, members, keys, place, edit, query, wanted, lists, races>>
tables == <<coll, groups, access, members, keys>>

Visibility == {"tenant", "restricted"}
Lives(c) == coll[c] \in Visibility
ListOf(c) == {g \in Groups : <<c, g>> \in access}

NoKey == [status |-> "none", coll |-> None]
IdleEdit == [pc |-> "idle", coll |-> None, vis |-> None, list |-> None, seen |-> None,
             rows |-> {}, doc |-> None]
IdleQuery == [pc |-> "idle", caller |-> None, scope |-> None, could |-> {}, open |-> {}]

Init ==
    /\ coll = [c \in Colls |-> "none"]
    /\ groups = {} /\ access = {} /\ members = {} /\ races = {}
    /\ keys = [k \in Keys |-> NoKey]
    /\ place = [d \in Docs |-> "none"]
    /\ wanted = [d \in Docs |-> None]
    /\ lists = [c \in Colls |-> {}]
    /\ edit = [r \in Editors |-> IdleEdit]
    /\ query = [q \in Readers |-> IdleQuery]

-----------------------------------------------------------------------------
(* resolve_scope, statement by statement.                                  *)

TenantVisible == {c \in Colls : coll[c] = "tenant"}
Granted(u) == {c \in Colls : \E g \in Groups : <<c, g>> \in access /\ <<g, u>> \in members}

Only(c) == [all_documents |-> FALSE, include_general |-> FALSE, collection_ids |-> {c}]
GeneralAnd(cs) == [all_documents |-> FALSE, include_general |-> TRUE, collection_ids |-> cs]

\* What the README's table promises each caller, in the current state.  (A comment
\* on the column api_keys.collection_id lets a scoped key see General too; the table,
\* services/access.py and the tests do not.)
MaySee(x) ==
    IF x \in Owners THEN Collections
    ELSE IF x \in Members
    THEN {General} \cup {c \in Colls : \/ coll[c] = "tenant"
                                      \/ \E g \in ListOf(c) : <<g, x>> \in members}
    ELSE IF keys[x].coll \in Colls THEN {keys[x].coll}
    ELSE {General} \cup TenantVisible
Sees == [x \in Callers |-> MaySee(x)]

\* What everybody in the tenant may see.
Open == {General} \cup TenantVisible

\* Every query notes what its caller, and what everybody, could see while it is
\* under way.
Observe ==
    query' = [q \in Readers |->
        IF query[q].pc = "idle" THEN query[q]
        ELSE [query[q] EXCEPT !.could = @ \cup Sees'[query[q].caller], !.open = @ \cup Open']]

\* resolve_principal: a user, or a key that is active.
Authenticate(q, x) ==
    /\ query[q].pc = "idle"
    /\ x \in Keys => keys[x].status = "active"
    /\ query' = [query EXCEPT ![q] = [IdleQuery EXCEPT !.pc = "known", !.caller = x,
                                                       !.could = MaySee(x), !.open = Open]]
    /\ UNCHANGED <<tables, place, edit, wanted, lists, races>>

Bug_GoneSeesAll(k) ==
    IF keys[k].status = "gone" THEN Everything
    ELSE IF keys[k].coll \in Colls THEN Only(keys[k].coll) ELSE GeneralAnd(TenantVisible)

\* The key is loaded again, in another session: a row that is gone reads as unscoped.
KeyScope(k) ==
    IF keys[k].status # "gone" /\ keys[k].coll \in Colls
    THEN Only(keys[k].coll) ELSE GeneralAnd(TenantVisible)

Resolve(q) ==
    LET x == query[q].caller IN
    /\ query[q].pc = "known"
    /\ query' = [query EXCEPT
          ![q].pc = IF x \in Members THEN "granting" ELSE "resolved",
          ![q].scope = IF x \in Owners THEN Everything
                       ELSE IF x \in Keys THEN KeyScope(x)
                       ELSE GeneralAnd(TenantVisible)]
    /\ UNCHANGED <<tables, place, edit, wanted, lists, races>>

\* A member's second statement, with a snapshot of its own.
ResolveGranted(q) ==
    /\ query[q].pc = "granting"
    /\ query' = [query EXCEPT ![q].pc = "resolved",
                              ![q].scope.collection_ids = @ \cup Granted(query[q].caller)]
    /\ UNCHANGED <<tables, place, edit, wanted, lists, races>>

QueryEnds(q) ==
    /\ query[q].pc # "idle"
    /\ query' = [query EXCEPT ![q] = IdleQuery]
    /\ UNCHANGED <<tables, place, edit, wanted, lists, races>>

-----------------------------------------------------------------------------
(* Groups and keys: handlers whose one commit is all that matters.         *)

\* Ids are never used twice: one that nobody holds any more stands for a new one.
FreshGroup(g) ==
    /\ g \notin groups
    /\ \A r \in Editors : edit[r].list # None => g \notin edit[r].list

CreateGroup(g) ==
    /\ FreshGroup(g)
    /\ groups' = groups \cup {g}
    /\ UNCHANGED <<coll, access, members, keys, place, edit, wanted, lists, races>>
    /\ Observe

Bug_KeepsAccess(g) == access
AccessWithout(g) == {a \in access : a[2] # g}

\* Members and access rows go with the group (ON DELETE CASCADE).
DeleteGroup(r, g) ==
    /\ edit[r].pc = "idle" /\ g \in groups
    /\ groups' = groups \ {g}
    /\ access' = AccessWithout(g)
    /\ members' = {m \in members : m[1] # g}
    /\ lists' = [c \in Colls |-> lists[c] \ {g}]
    /\ edit' = [edit EXCEPT ![r].pc = "bump"]
    /\ UNCHANGED <<coll, keys, place, wanted, races>>
    /\ Observe

AddMember(g, u) ==
    /\ g \in groups
    /\ members' = members \cup {<<g, u>>}
    /\ UNCHANGED <<coll, groups, access, keys, place, edit, wanted, lists, races>>
    /\ Observe

RemoveMember(g, u) ==
    /\ g \in groups
    /\ members' = members \ {<<g, u>>}
    /\ UNCHANGED <<coll, groups, access, keys, place, edit, wanted, lists, races>>
    /\ Observe

\* A publishable key, for one collection (c) or for none (None).
CreateKey(k, c) ==
    /\ keys[k].status = "none"
    /\ c \in Colls => Lives(c)
    /\ keys' = [keys EXCEPT ![k] = [status |-> "active", coll |-> c]]
    /\ UNCHANGED <<coll, groups, access, members, place, edit, wanted, lists, races>>
    /\ Observe

RevokeKey(k) ==
    /\ keys[k].status = "active"
    /\ keys' = [keys EXCEPT ![k].status = "revoked"]
    /\ UNCHANGED <<coll, groups, access, members, place, edit, wanted, lists, races>>
    /\ Observe

-----------------------------------------------------------------------------
(* Collections.                                                            *)

CreateCollection(c, v) ==
    /\ coll[c] = "none"
    /\ coll' = [coll EXCEPT ![c] = v]
    /\ UNCHANGED <<groups, access, members, keys, place, edit, wanted, lists, races>>
    /\ Observe

\* PATCH /collections/{id}: the row is loaded; v is its visibility afterwards, which
\* the ORM writes only if it differs from the one loaded; l is the new access list, or
\* None when the body has none.
UpdateLoad(r, c, v, l) ==
    /\ edit[r].pc = "idle" /\ Lives(c)
    /\ edit' = [edit EXCEPT ![r] = [IdleEdit EXCEPT !.pc = "updating", !.coll = c, !.list = l,
                                                    !.vis = IF v = coll[c] THEN None ELSE v]]
    /\ UNCHANGED <<tables, place, query, wanted, lists, races>>

\* The UPDATE of the row is flushed ahead of the next SELECT and locks it to the commit.
WritesRow(r) == edit[r].vis # None
Locked(r, c) ==
    \E s \in Editors \ {r} : edit[s].pc = "replacing" /\ edit[s].coll = c /\ WritesRow(s)
Replacing(c) == {r \in Editors : edit[r].pc = "replacing" /\ edit[r].coll = c}

Bug_AddsToList(c) == {}
OldAccess(c) == {a \in access : a[1] = c}

\* The groups exist; DELETE removes the access rows committed when it starts.
ReplaceList(r) ==
    LET c == edit[r].coll IN
    /\ edit[r].pc = "updating" /\ edit[r].list # None
    /\ WritesRow(r) => Lives(c) /\ ~Locked(r, c)
    /\ edit[r].list \subseteq groups
    /\ edit' = [edit EXCEPT ![r].pc = "replacing", ![r].rows = OldAccess(c)]
    /\ races' = IF Replacing(c) = {} THEN races ELSE races \cup {<<"lists", c>>}
    /\ UNCHANGED <<tables, place, query, wanted, lists>>

\* The new rows are inserted: their keys must be new, and what they refer to exist.
UpdateCommit(r) ==
    LET c == edit[r].coll
        new == IF edit[r].list = None THEN {} ELSE {<<c, g>> : g \in edit[r].list}
        kept == access \ edit[r].rows
    IN
    /\ edit[r].pc = (IF edit[r].list = None THEN "updating" ELSE "replacing")
    /\ WritesRow(r) => Lives(c) /\ ~Locked(r, c)
    /\ new # {} => Lives(c) /\ edit[r].list \subseteq groups /\ new \cap kept = {}
    /\ coll' = IF WritesRow(r) THEN [coll EXCEPT ![c] = edit[r].vis] ELSE coll
    /\ access' = kept \cup new
    /\ lists' = IF edit[r].list = None THEN lists ELSE [lists EXCEPT ![c] = edit[r].list]
    /\ edit' = [edit EXCEPT ![r] = [IdleEdit EXCEPT !.pc = "bump"]]
    /\ UNCHANGED <<groups, members, keys, place, wanted, races>>
    /\ Observe

Bug_AnyCollection(c) == TRUE
Empty(c) == \A d \in Docs : place[d] # c

\* DELETE /collections/{id}: "Only empty collections can be deleted".
DeleteCount(r, c) ==
    /\ edit[r].pc = "idle" /\ Lives(c)
    /\ Empty(c)
    /\ edit' = [edit EXCEPT ![r] = [IdleEdit EXCEPT !.pc = "deleting", !.coll = c]]
    /\ UNCHANGED <<tables, place, query, wanted, lists, races>>

\* ON DELETE CASCADE for access rows and keys, ON DELETE SET NULL for documents.
DeleteCommit(r) ==
    LET c == edit[r].coll IN
    /\ edit[r].pc = "deleting" /\ ~Locked(r, c)
    /\ coll' = [coll EXCEPT ![c] = "gone"]
    /\ access' = access \ OldAccess(c)
    /\ keys' = [k \in Keys |-> IF keys[k].coll = c THEN [keys[k] EXCEPT !.status = "gone"]
                               ELSE keys[k]]
    /\ place' = [d \in Docs |-> IF place[d] = c THEN General ELSE place[d]]
    /\ races' = races \cup {<<"key", k>> : k \in {x \in Keys : keys[x].coll = c}}
    /\ lists' = [lists EXCEPT ![c] = {}]
    /\ edit' = [edit EXCEPT ![r] = [IdleEdit EXCEPT !.pc = "bump"]]
    /\ UNCHANGED <<groups, members, wanted>>
    /\ Observe

-----------------------------------------------------------------------------
(* Placing documents: an upload, a URL ingest or a move.  Deleting one, see *)
(* Ingestion, empties a collection as a move does.                         *)

PlaceCheck(r, d, c) ==
    /\ edit[r].pc = "idle"
    /\ c \in Colls => Lives(c)
    /\ place[d] = "none" => \A s \in Editors : edit[s].doc # d
    /\ edit' = [edit EXCEPT ![r] = [IdleEdit EXCEPT !.pc = "placing", !.coll = c, !.doc = d,
                                                    !.seen = place[d]]]
    /\ UNCHANGED <<tables, place, query, wanted, lists, races>>

\* A new row, or a column that differs from the one loaded, is written; the
\* collection must still exist.
PlaceCommit(r) ==
    LET d == edit[r].doc
        c == edit[r].coll
    IN
    /\ edit[r].pc = "placing"
    /\ IF c = edit[r].seen
       THEN UNCHANGED <<place, wanted, races>>
       ELSE /\ c \in Colls => Lives(c)
            /\ place' = [place EXCEPT ![d] = c]
            /\ wanted' = [wanted EXCEPT ![d] = c]
            /\ races' = IF \E s \in Editors : edit[s].pc = "deleting" /\ edit[s].coll = c
                        THEN races \cup {<<"refill", d>>}
                        ELSE races
    /\ edit' = [edit EXCEPT ![r] = IdleEdit]
    /\ UNCHANGED <<tables, query, lists>>

\* bump_corpus_version (the counter is AnswerCache's), or its failure.
Bump(r) ==
    /\ edit[r].pc = "bump"
    /\ edit' = [edit EXCEPT ![r] = IdleEdit]
    /\ UNCHANGED <<tables, place, query, wanted, lists, races>>

\* 404, 409, StaleDataError, a broken deadlock, a crash: the transaction rolls back.
EditFails(r) ==
    /\ edit[r].pc \in {"updating", "replacing", "deleting", "placing"}
    /\ edit' = [edit EXCEPT ![r] = IdleEdit]
    /\ UNCHANGED <<tables, place, query, wanted, lists, races>>

Directory ==
    \/ \E g \in Groups :
          \/ CreateGroup(g)
          \/ \E u \in Members : AddMember(g, u) \/ RemoveMember(g, u)
    \/ \E k \in Keys : RevokeKey(k) \/ \E c \in Colls \cup {None} : CreateKey(k, c)
    \/ \E c \in Colls, v \in Visibility : CreateCollection(c, v)

Edit(r) ==
    \/ \E g \in Groups : DeleteGroup(r, g)
    \/ \E c \in Colls :
          \/ \E v \in Visibility, l \in {None} \cup SUBSET Groups : UpdateLoad(r, c, v, l)
          \/ DeleteCount(r, c)
    \/ \E c \in Collections, d \in Docs : PlaceCheck(r, d, c)
    \/ ReplaceList(r) \/ UpdateCommit(r) \/ DeleteCommit(r) \/ PlaceCommit(r)
    \/ Bump(r) \/ EditFails(r)

Query(q) ==
    \/ \E x \in Callers : Authenticate(q, x)
    \/ Resolve(q) \/ ResolveGranted(q) \/ QueryEnds(q)

Next == Directory \/ (\E r \in Editors : Edit(r)) \/ (\E q \in Readers : Query(q))

Spec == Init /\ [][Next]_vars

-----------------------------------------------------------------------------
(* Properties.  `races` marks what is known to break a promise: "lists", two *)
(* edits of one access list that overlapped; "refill", a document put into  *)
(* a collection between the count and the deletion; "key", a key whose      *)
(* collection was deleted.                                                  *)

EditState ==
    [pc : {"idle", "bump", "updating", "replacing", "deleting", "placing"},
     coll : Collections \cup {None}, vis : Visibility \cup {None},
     list : (SUBSET Groups) \cup {None},
     seen : Collections \cup {None, "none"},
     rows : SUBSET (Colls \X Groups), doc : Docs \cup {None}]

QueryState ==
    [pc : {"idle", "known", "granting", "resolved"}, caller : Callers \cup {None},
     scope : AccessScopes \cup {None}, could : SUBSET Collections, open : SUBSET Collections]

KeyState == [status : {"none", "active", "revoked", "gone"}, coll : Colls \cup {None}]

TypeOK ==
    /\ coll \in [Colls -> Visibility \cup {"none", "gone"}]
    /\ groups \subseteq Groups
    /\ access \subseteq Colls \X Groups
    /\ members \subseteq Groups \X Members
    /\ keys \in [Keys -> KeyState]
    /\ place \in [Docs -> Collections \cup {"none"}]
    /\ edit \in [Editors -> EditState]
    /\ query \in [Readers -> QueryState]
    /\ wanted \in [Docs -> Collections \cup {None}]
    /\ lists \in [Colls -> SUBSET Groups]
    /\ races \subseteq ({"lists"} \X Colls) \cup ({"refill"} \X Docs) \cup ({"key"} \X Keys)

\* Access rows, members, keys and documents refer only to what exists, whatever is
\* deleted while they are being written.
NothingDangles ==
    /\ \A a \in access : Lives(a[1]) /\ a[2] \in groups
    /\ \A m \in members : m[1] \in groups
    /\ \A k \in Keys : keys[k].status \in {"active", "revoked"} /\ keys[k].coll \in Colls
                          => Lives(keys[k].coll)
    /\ \A d \in Docs : place[d] \in Colls => Lives(place[d])

\* "Moving their documents to General automatically would make restricted documents
\* visible to everyone": a document is where a request last put it, unless it was put
\* into a collection between the count that found the collection empty and its deletion.
OnlyEmptyDeleted ==
    \A d \in Docs : place[d] \in Collections => place[d] = wanted[d] \/ <<"refill", d>> \in races

\* group_ids "replaces the access list": the groups that may see a collection are
\* exactly those last given, less the deleted ones, unless two edits overlapped.
LastListHolds ==
    \A c \in Colls : ListOf(c) = lists[c] \/ <<"lists", c>> \in races

\* A query's scope, put together from up to three statements while edits commit in
\* between, holds no collection its caller could not see at some time since it was
\* authenticated.  A key that was authenticated and then deleted with its collection
\* reads as unscoped: even it is given no collection that was not open to all.
WithinSight(q) == Filter(query[q].scope) \subseteq query[q].could
WithinOpen(q) == Filter(query[q].scope) \subseteq query[q].open
ScopeWasVisible ==
    \A q \in Readers :
       query[q].pc \in {"granting", "resolved"} =>
          \/ WithinSight(q)
          \/ <<"key", query[q].caller>> \in races /\ WithinOpen(q)

\* The inductive invariant behind the proofs of CollectionsProofs.
EditsWellFormed ==
    \A r \in Editors :
       /\ edit[r].pc \in {"updating", "replacing", "deleting"} => edit[r].coll \in Colls
       /\ edit[r].pc = "replacing" =>
             /\ edit[r].list \in SUBSET Groups
             /\ \A a \in edit[r].rows : a[1] = edit[r].coll
       /\ edit[r].pc = "updating" => edit[r].rows = {}
       /\ edit[r].pc = "placing" => edit[r].doc \in Docs /\ edit[r].coll \in Collections
QueriesWellFormed ==
    \A q \in Readers :
       /\ query[q].pc # "idle" => query[q].caller \in Callers
       /\ query[q].pc = "granting" => query[q].caller \in Members
       /\ query[q].pc \in {"granting", "resolved"} => query[q].scope \in AccessScopes
DeletingEmpty ==
    \A r \in Editors, d \in Docs :
       edit[r].pc = "deleting" /\ place[d] = edit[r].coll => <<"refill", d>> \in races
ReplacingAll ==
    \A r \in Editors :
       edit[r].pc = "replacing" =>
          \/ <<"lists", edit[r].coll>> \in races
          \/ /\ OldAccess(edit[r].coll) \subseteq edit[r].rows
             /\ Replacing(edit[r].coll) = {r}
GoneKeysMarked == \A k \in Keys : keys[k].status = "gone" => <<"key", k>> \in races
SeesNow ==
    \A q \in Readers :
       query[q].pc # "idle" => MaySee(query[q].caller) \subseteq query[q].could
OpenNow == \A q \in Readers : query[q].pc # "idle" => Open \subseteq query[q].open
IInv ==
    /\ TypeOK /\ EditsWellFormed /\ QueriesWellFormed
    /\ NothingDangles
    /\ OnlyEmptyDeleted /\ DeletingEmpty
    /\ LastListHolds /\ ReplacingAll
    /\ ScopeWasVisible /\ GoneKeysMarked /\ SeesNow /\ OpenNow
=============================================================================
