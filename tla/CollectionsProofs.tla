-------------------------- MODULE CollectionsProofs --------------------------
(***************************************************************************)
(* Safety of Collections for every number of collections, groups, users,   *)
(* keys, documents and concurrent requests: types, referential integrity,  *)
(* documents stay where they were put, access lists are the last given,    *)
(* and no query is given a scope its caller never had.                     *)
(***************************************************************************)
EXTENDS Collections, TLAPS

-----------------------------------------------------------------------------
(* Type correctness, with the shape of requests and queries.               *)

Shape == TypeOK /\ EditsWellFormed /\ QueriesWellFormed

LEMMA ObserveType ==
    ASSUME Shape, Observe, coll' \in [Colls -> Visibility \cup {"none", "gone"}],
           keys' \in [Keys -> KeyState]
    PROVE  /\ query' \in [Readers -> QueryState]
           /\ QueriesWellFormed'
<1>0. General \in Collections
  BY ScopeAssumption
<1>1. ASSUME NEW x \in Callers
      PROVE  Sees'[x] \subseteq Collections
  <2>1. Sees'[x] = MaySee(x)'
    BY <1>1 DEF Sees
  <2>. QED
    BY <2>1, <1>0 DEF MaySee, TenantVisible, Colls
<1>3. Open' \subseteq Collections
  BY <1>0 DEF Open, TenantVisible, Colls
<1>2. ASSUME NEW q \in Readers
      PROVE  /\ query'[q] \in QueryState
             /\ query'[q].pc = query[q].pc /\ query'[q].caller = query[q].caller
             /\ query'[q].scope = query[q].scope
  <2>1. query[q] \in QueryState
    BY DEF Shape, TypeOK
  <2>2. CASE query[q].pc = "idle"
    BY <2>1, <2>2 DEF Observe
  <2>3. CASE query[q].pc # "idle"
    <3>1. query[q].caller \in Callers
      BY <2>3 DEF Shape, QueriesWellFormed
    <3>2. query'[q] = [query[q] EXCEPT !.could = @ \cup Sees'[query[q].caller], !.open = @ \cup Open']
      BY <2>3 DEF Observe
    <3>. QED
      BY <2>1, <3>1, <3>2, <1>1, <1>3 DEF QueryState
  <2>. QED
    BY <2>2, <2>3
<1>. QED
  BY <1>2 DEF Observe, Shape, QueriesWellFormed

LEMMA InitShape == Init => Shape
<1>. SUFFICES ASSUME Init PROVE Shape
  OBVIOUS
<1>1. coll \in [Colls -> Visibility \cup {"none", "gone"}]
  BY DEF Init
<1>2. /\ keys \in [Keys -> KeyState]
      /\ place \in [Docs -> Collections \cup {"none"}]
  BY DEF Init, NoKey, KeyState
<1>3. edit \in [Editors -> EditState] /\ EditsWellFormed
  BY DEF Init, IdleEdit, EditState, EditsWellFormed
<1>4. /\ query \in [Readers -> QueryState]
      /\ QueriesWellFormed
  BY DEF Init, IdleQuery, QueryState, QueriesWellFormed
<1>. QED
  BY <1>1, <1>2, <1>3, <1>4 DEF Init, Shape, TypeOK

\* A request's record changes; every other keeps its shape.
LEMMA EditMoves ==
    ASSUME Shape, NEW r \in Editors, NEW new \in EditState,
           edit' = [edit EXCEPT ![r] = new],
           new.pc \in {"updating", "replacing", "deleting"} => new.coll \in Colls,
           new.pc = "replacing" =>
              new.list \in SUBSET Groups /\ \A a \in new.rows : a[1] = new.coll,
           new.pc = "updating" => new.rows = {},
           new.pc = "placing" => new.doc \in Docs /\ new.coll \in Collections
    PROVE  edit' \in [Editors -> EditState] /\ EditsWellFormed'
BY DEF Shape, TypeOK, EditsWellFormed

LEMMA QueryMoves ==
    ASSUME Shape, NEW q \in Readers, NEW new \in QueryState,
           query' = [query EXCEPT ![q] = new], UNCHANGED <<tables, place, edit, wanted, lists, races>>,
           new.pc # "idle" => new.caller \in Callers,
           new.pc = "granting" => new.caller \in Members,
           new.pc \in {"granting", "resolved"} => new.scope \in AccessScopes
    PROVE  Shape'
BY DEF Shape, TypeOK, EditsWellFormed, QueriesWellFormed, tables

LEMMA IdleIsEdit == IdleEdit \in EditState
BY DEF IdleEdit, EditState

LEMMA DirectoryShape == Shape /\ Directory => Shape'
<1>. SUFFICES ASSUME Shape, Directory PROVE Shape'
  OBVIOUS
<1>. USE DEF Shape, TypeOK
<1>1. ASSUME NEW g \in Groups, CreateGroup(g) PROVE Shape'
  BY <1>1, ObserveType DEF CreateGroup, EditsWellFormed
<1>2. ASSUME NEW g \in Groups, NEW u \in Members, AddMember(g, u) PROVE Shape'
  BY <1>2, ObserveType DEF AddMember, EditsWellFormed
<1>3. ASSUME NEW g \in Groups, NEW u \in Members, RemoveMember(g, u) PROVE Shape'
  BY <1>3, ObserveType DEF RemoveMember, EditsWellFormed
<1>4. ASSUME NEW k \in Keys, RevokeKey(k) PROVE Shape'
  BY <1>4, ObserveType DEF RevokeKey, KeyState, EditsWellFormed
<1>5. ASSUME NEW k \in Keys, NEW c \in Colls \cup {None}, CreateKey(k, c) PROVE Shape'
  BY <1>5, ObserveType DEF CreateKey, KeyState, EditsWellFormed
<1>6. ASSUME NEW c \in Colls, NEW v \in Visibility, CreateCollection(c, v) PROVE Shape'
  BY <1>6, ObserveType DEF CreateCollection, EditsWellFormed
<1>. QED
  BY <1>1, <1>2, <1>3, <1>4, <1>5, <1>6 DEF Directory

LEMMA QueryShape ==
    ASSUME Shape, NEW q \in Readers, Query(q)
    PROVE  Shape'
<1>0. query[q] \in QueryState
  BY DEF Shape, TypeOK
<1>1. ASSUME NEW x \in Callers, Authenticate(q, x) PROVE Shape'
  <2>. DEFINE new == [IdleQuery EXCEPT !.pc = "known", !.caller = x, !.could = MaySee(x), !.open = Open]
  <2>1. MaySee(x) \subseteq Collections /\ Open \subseteq Collections
    BY ScopeAssumption DEF MaySee, Open, TenantVisible, Colls, Shape, TypeOK
  <2>2. new \in QueryState /\ new.pc = "known" /\ new.caller = x
    BY <2>1 DEF IdleQuery, QueryState
  <2>. QED
    BY <1>1, <2>2, QueryMoves DEF Authenticate
<1>2. ASSUME Resolve(q) PROVE Shape'
  <2>. DEFINE x == query[q].caller
              scope == IF x \in Owners THEN Everything
                       ELSE IF x \in Keys THEN KeyScope(x) ELSE GeneralAnd(TenantVisible)
              new == [query[q] EXCEPT !.pc = IF x \in Members THEN "granting" ELSE "resolved",
                                      !.scope = scope]
  <2>1. x \in Callers
    BY <1>2 DEF Resolve, QueriesWellFormed, Shape
  <2>2. /\ TenantVisible \in SUBSET Colls
        /\ Everything \in AccessScopes
        /\ GeneralAnd(TenantVisible) \in AccessScopes
    BY DEF TenantVisible, GeneralAnd, Everything, AccessScopes, Colls
  <2>3. \A k \in Keys : KeyScope(k) \in AccessScopes
    BY <2>2 DEF KeyScope, Only, AccessScopes, Colls
  <2>4. scope \in AccessScopes
    BY <2>2, <2>3
  <2>. HIDE DEF scope
  <2>5. /\ new \in QueryState /\ new.caller = x /\ new.scope = scope
        /\ new.pc = IF x \in Members THEN "granting" ELSE "resolved"
    BY <1>0, <2>4 DEF QueryState
  <2>6. query' = [query EXCEPT ![q] = new]
    BY <1>0, <1>2 DEF Resolve, QueryState, scope
  <2>7. UNCHANGED <<tables, place, edit, wanted, lists, races>>
    BY <1>2 DEF Resolve
  <2>8. new.pc = "granting" => new.caller \in Members
    BY <2>5
  <2>. HIDE DEF new
  <2>. QED
    BY <2>1, <2>4, <2>5, <2>6, <2>7, <2>8, QueryMoves
<1>3. ASSUME ResolveGranted(q) PROVE Shape'
  <2>. DEFINE s == query[q].scope
              scope == [s EXCEPT !.collection_ids = @ \cup Granted(query[q].caller)]
              new == [query[q] EXCEPT !.pc = "resolved", !.scope = scope]
  <2>1. query[q].scope \in AccessScopes /\ query[q].caller \in Callers
    BY <1>3 DEF ResolveGranted, QueriesWellFormed, Shape
  <2>2. Granted(query[q].caller) \subseteq Colls
    BY DEF Granted
  <2>3. scope \in AccessScopes
    BY <2>1, <2>2 DEF AccessScopes, Colls
  <2>4. query' = [query EXCEPT ![q] = new]
    BY <1>0, <1>3 DEF ResolveGranted, QueryState
  <2>. HIDE DEF scope
  <2>5. new \in QueryState /\ new.caller = query[q].caller /\ new.pc = "resolved" /\ new.scope = scope
    BY <1>0, <2>3 DEF QueryState
  <2>. QED
    BY ZenonT(40), <1>3, <2>1, <2>3, <2>4, <2>5, QueryMoves DEF ResolveGranted
<1>4. ASSUME QueryEnds(q) PROVE Shape'
  <2>1. IdleQuery \in QueryState /\ IdleQuery.pc = "idle"
    BY DEF IdleQuery, QueryState
  <2>. QED
    BY <1>4, <2>1, QueryMoves DEF QueryEnds
<1>. QED
  BY <1>1, <1>2, <1>3, <1>4 DEF Query

LEMMA EditShape ==
    ASSUME Shape, NEW r \in Editors, Edit(r)
    PROVE  Shape'
<1>. USE DEF Shape, TypeOK
<1>0. edit[r] \in EditState
  OBVIOUS
<1>1. ASSUME NEW g \in Groups, DeleteGroup(r, g) PROVE Shape'
  <2>. DEFINE new == [edit[r] EXCEPT !.pc = "bump"]
  <2>1. edit' = [edit EXCEPT ![r] = new] /\ new \in EditState /\ new.pc = "bump"
    BY <1>0, <1>1 DEF DeleteGroup, EditState
  <2>2. edit' \in [Editors -> EditState] /\ EditsWellFormed'
    BY <2>1, EditMoves
  <2>3. /\ groups' \subseteq Groups /\ access' \subseteq Colls \X Groups
        /\ members' \subseteq Groups \X Members /\ lists' \in [Colls -> SUBSET Groups]
    BY <1>1 DEF DeleteGroup, AccessWithout
  <2>4. query' \in [Readers -> QueryState] /\ QueriesWellFormed'
    BY <1>1, ObserveType DEF DeleteGroup
  <2>. QED
    BY <1>1, <2>2, <2>3, <2>4 DEF DeleteGroup
<1>2. ASSUME NEW c \in Colls, NEW v \in Visibility, NEW l \in {None} \cup SUBSET Groups,
             UpdateLoad(r, c, v, l)
      PROVE  Shape'
  <2>. DEFINE new == [IdleEdit EXCEPT !.pc = "updating", !.coll = c, !.list = l,
                                      !.vis = IF v = coll[c] THEN None ELSE v]
  <2>1. /\ edit' = [edit EXCEPT ![r] = new] /\ new \in EditState
        /\ new.pc = "updating" /\ new.coll \in Colls /\ new.rows = {}
    BY <1>2 DEF UpdateLoad, IdleEdit, EditState, Lives, Colls
  <2>2. edit' \in [Editors -> EditState] /\ EditsWellFormed'
    BY <2>1, EditMoves
  <2>. QED
    BY <1>2, <2>2 DEF UpdateLoad, tables, QueriesWellFormed
<1>3. ASSUME NEW c \in Colls, DeleteCount(r, c) PROVE Shape'
  <2>. DEFINE new == [IdleEdit EXCEPT !.pc = "deleting", !.coll = c]
  <2>1. edit' = [edit EXCEPT ![r] = new] /\ new \in EditState /\ new.pc = "deleting" /\ new.coll \in Colls
    BY <1>3 DEF DeleteCount, IdleEdit, EditState, Colls
  <2>2. edit' \in [Editors -> EditState] /\ EditsWellFormed'
    BY <2>1, EditMoves
  <2>. QED
    BY <1>3, <2>2 DEF DeleteCount, tables, QueriesWellFormed
<1>4. ASSUME NEW c \in Collections, NEW d \in Docs, PlaceCheck(r, d, c) PROVE Shape'
  <2>. DEFINE new == [IdleEdit EXCEPT !.pc = "placing", !.coll = c, !.doc = d, !.seen = place[d]]
  <2>1. /\ edit' = [edit EXCEPT ![r] = new] /\ new \in EditState
        /\ new.pc = "placing" /\ new.doc \in Docs /\ new.coll \in Collections
    BY <1>4 DEF PlaceCheck, IdleEdit, EditState
  <2>2. edit' \in [Editors -> EditState] /\ EditsWellFormed'
    BY <2>1, EditMoves
  <2>. QED
    BY <1>4, <2>2 DEF PlaceCheck, tables, QueriesWellFormed
<1>5. ASSUME ReplaceList(r) PROVE Shape'
  <2>. DEFINE c == edit[r].coll
              new == [edit[r] EXCEPT !.pc = "replacing", !.rows = OldAccess(c)]
  <2>1. /\ OldAccess(c) \subseteq Colls \X Groups
        /\ \A a \in OldAccess(c) : a[1] = c
        /\ c \in Colls
    BY <1>5 DEF ReplaceList, OldAccess, EditsWellFormed
  <2>2. edit' = [edit EXCEPT ![r] = new]
    BY <1>5, <1>0 DEF ReplaceList, EditState
  <2>3. /\ new \in EditState /\ new.pc = "replacing" /\ new.coll = c
        /\ new.rows = OldAccess(c) /\ new.list \in SUBSET Groups
    BY <1>0, <1>5, <2>1 DEF ReplaceList, EditState
  <2>4. edit' \in [Editors -> EditState] /\ EditsWellFormed'
    BY <2>1, <2>2, <2>3, EditMoves
  <2>. QED
    BY <1>5, <2>1, <2>4 DEF ReplaceList, tables, QueriesWellFormed
<1>6. ASSUME UpdateCommit(r) PROVE Shape'
  <2>. DEFINE c == edit[r].coll
  <2>1. c \in Colls /\ (WritesRow(r) => edit[r].vis \in Visibility)
    BY <1>0, <1>6 DEF UpdateCommit, EditsWellFormed, WritesRow, EditState
  <2>2. edit[r].list # None => edit[r].list \in SUBSET Groups
    BY <1>0 DEF EditState
  <2>3. [IdleEdit EXCEPT !.pc = "bump"] \in EditState /\ [IdleEdit EXCEPT !.pc = "bump"].pc = "bump"
    BY DEF IdleEdit, EditState
  <2>4. edit' \in [Editors -> EditState] /\ EditsWellFormed'
    BY <1>6, <2>3, EditMoves DEF UpdateCommit
  <2>5. coll' \in [Colls -> Visibility \cup {"none", "gone"}]
    BY <1>6, <2>1 DEF UpdateCommit
  <2>6. access' \subseteq Colls \X Groups /\ lists' \in [Colls -> SUBSET Groups]
    BY <1>6, <2>1, <2>2 DEF UpdateCommit
  <2>. QED
    BY <1>6, <2>4, <2>5, <2>6, ObserveType DEF UpdateCommit
<1>7. ASSUME DeleteCommit(r) PROVE Shape'
  <2>. DEFINE c == edit[r].coll
  <2>1. c \in Colls
    BY <1>7 DEF DeleteCommit, EditsWellFormed
  <2>3. [IdleEdit EXCEPT !.pc = "bump"] \in EditState /\ [IdleEdit EXCEPT !.pc = "bump"].pc = "bump"
    BY DEF IdleEdit, EditState
  <2>4. edit' \in [Editors -> EditState] /\ EditsWellFormed'
    BY <1>7, <2>3, EditMoves DEF DeleteCommit
  <2>5. /\ coll' \in [Colls -> Visibility \cup {"none", "gone"}]
        /\ keys' \in [Keys -> KeyState]
        /\ place' \in [Docs -> Collections \cup {"none"}]
        /\ access' \subseteq Colls \X Groups /\ lists' \in [Colls -> SUBSET Groups]
    BY <1>7, <2>1, ScopeAssumption DEF DeleteCommit, KeyState
  <2>6. races' \subseteq ({"lists"} \X Colls) \cup ({"refill"} \X Docs) \cup ({"key"} \X Keys)
    BY <1>7 DEF DeleteCommit
  <2>. QED
    BY <1>7, <2>4, <2>5, <2>6, ObserveType DEF DeleteCommit
<1>8. ASSUME PlaceCommit(r) PROVE Shape'
  <2>1. edit[r].doc \in Docs /\ edit[r].coll \in Collections
    BY <1>8 DEF PlaceCommit, EditsWellFormed
  <2>2. edit' \in [Editors -> EditState] /\ EditsWellFormed'
    BY <1>8, IdleIsEdit, EditMoves DEF PlaceCommit, IdleEdit
  <2>. QED
    BY <1>8, <2>1, <2>2 DEF PlaceCommit, tables, QueriesWellFormed
<1>9. ASSUME Bump(r) \/ EditFails(r) PROVE Shape'
  <2>1. edit' \in [Editors -> EditState] /\ EditsWellFormed'
    BY <1>9, IdleIsEdit, EditMoves DEF Bump, EditFails, IdleEdit
  <2>. QED
    BY <1>9, <2>1 DEF Bump, EditFails, tables, QueriesWellFormed
<1>. QED
  BY <1>1, <1>2, <1>3, <1>4, <1>5, <1>6, <1>7, <1>8, <1>9 DEF Edit

LEMMA NextShape == Shape /\ [Next]_vars => Shape'
<1>1. Shape /\ UNCHANGED vars => Shape'
  BY DEF vars, tables, Shape, TypeOK, EditsWellFormed, QueriesWellFormed
<1>. QED
  BY <1>1, DirectoryShape, EditShape, QueryShape DEF Next

LEMMA AlwaysShape == Spec => []Shape
<1>. QED
  BY InitShape, NextShape, PTL DEF Spec

-----------------------------------------------------------------------------
(* Steps of a query change no table, and no request.                       *)

LEMMA QueryFrame ==
    ASSUME NEW q \in Readers, Query(q)
    PROVE  UNCHANGED <<coll, groups, access, members, keys, place, edit, wanted, lists, races>>
BY DEF Query, Authenticate, Resolve, ResolveGranted, QueryEnds, tables

\* A request changes its own record only.
LEMMA OthersKeep ==
    ASSUME Shape, NEW r \in Editors, Edit(r), NEW s \in Editors \ {r}
    PROVE  edit'[s] = edit[s]
<1>1. CASE \E g \in Groups : DeleteGroup(r, g)
  BY <1>1 DEF DeleteGroup, Shape, TypeOK
<1>2. CASE \E c \in Colls :
              \/ \E v \in Visibility, l \in {None} \cup SUBSET Groups : UpdateLoad(r, c, v, l)
              \/ DeleteCount(r, c)
  BY <1>2 DEF UpdateLoad, DeleteCount, Shape, TypeOK
<1>3. CASE \E c \in Collections, d \in Docs : PlaceCheck(r, d, c)
  BY <1>3 DEF PlaceCheck, Shape, TypeOK
<1>4. CASE ReplaceList(r)
  BY <1>4 DEF ReplaceList, Shape, TypeOK
<1>5. CASE UpdateCommit(r) \/ DeleteCommit(r)
  BY <1>5 DEF UpdateCommit, DeleteCommit, Shape, TypeOK
<1>6. CASE PlaceCommit(r) \/ Bump(r) \/ EditFails(r)
  BY <1>6 DEF PlaceCommit, Bump, EditFails, Shape, TypeOK
<1>. QED
  BY <1>1, <1>2, <1>3, <1>4, <1>5, <1>6 DEF Edit

LEMMA RacesGrow == [Next]_vars => races \subseteq races'
<1>. SUFFICES ASSUME [Next]_vars PROVE races \subseteq races'
  OBVIOUS
<1>1. CASE Directory
  BY <1>1 DEF Directory, CreateGroup, AddMember, RemoveMember, RevokeKey, CreateKey, CreateCollection
<1>2. ASSUME NEW r \in Editors, Edit(r) PROVE races \subseteq races'
  BY <1>2 DEF Edit, DeleteGroup, UpdateLoad, DeleteCount, PlaceCheck, ReplaceList, UpdateCommit,
              DeleteCommit, PlaceCommit, Bump, EditFails
<1>3. CASE UNCHANGED vars
  BY <1>3 DEF vars
<1>. QED
  BY <1>1, <1>2, <1>3, QueryFrame DEF Next

-----------------------------------------------------------------------------
(* Referential integrity.                                                  *)

LEMMA NextDangles == Shape /\ NothingDangles /\ [Next]_vars => NothingDangles'
<1>. SUFFICES ASSUME Shape, NothingDangles, [Next]_vars PROVE NothingDangles'
  OBVIOUS
<1>. USE DEF NothingDangles, Lives
<1>1. ASSUME NEW g \in Groups, CreateGroup(g) PROVE NothingDangles'
  BY <1>1 DEF CreateGroup
<1>2. ASSUME NEW g \in Groups, NEW u \in Members, AddMember(g, u) \/ RemoveMember(g, u)
      PROVE  NothingDangles'
  BY <1>2 DEF AddMember, RemoveMember
<1>3. ASSUME NEW k \in Keys, RevokeKey(k) PROVE NothingDangles'
  BY <1>3 DEF RevokeKey, Shape, TypeOK, KeyState
<1>4. ASSUME NEW k \in Keys, NEW c \in Colls \cup {None}, CreateKey(k, c) PROVE NothingDangles'
  BY <1>4 DEF CreateKey, Shape, TypeOK, KeyState
<1>5. ASSUME NEW c \in Colls, NEW v \in Visibility, CreateCollection(c, v) PROVE NothingDangles'
  BY <1>5 DEF CreateCollection, Shape, TypeOK, KeyState
<1>6. ASSUME NEW r \in Editors, NEW g \in Groups, DeleteGroup(r, g) PROVE NothingDangles'
  BY <1>6 DEF DeleteGroup, AccessWithout
<1>7. ASSUME NEW r \in Editors, UpdateCommit(r) PROVE NothingDangles'
  <2>. DEFINE c == edit[r].coll
  <2>1. c \in Colls /\ (WritesRow(r) => edit[r].vis \in Visibility)
    BY <1>7 DEF UpdateCommit, Shape, TypeOK, EditsWellFormed, WritesRow, EditState
  <2>2. \A k \in Colls : coll[k] \in Visibility => coll'[k] \in Visibility
    BY <1>7, <2>1 DEF UpdateCommit, Shape, TypeOK
  <2>3. \A a \in access' : a \in access \/ (a[1] = c /\ a[2] \in groups /\ coll[c] \in Visibility)
    BY <1>7 DEF UpdateCommit
  <2>4. \A a \in access : a[1] \in Colls
    BY DEF Shape, TypeOK
  <2>. QED
    BY <1>7, <2>1, <2>2, <2>3, <2>4 DEF UpdateCommit, Shape, TypeOK
<1>8. ASSUME NEW r \in Editors, DeleteCommit(r) PROVE NothingDangles'
  <2>. DEFINE c == edit[r].coll
  <2>1. c \in Colls
    BY <1>8 DEF DeleteCommit, Shape, EditsWellFormed
  <2>2. \A k \in Colls : k # c => coll'[k] = coll[k]
    BY <1>8, <2>1 DEF DeleteCommit, Shape, TypeOK
  <2>3. \A a \in access' : a \in access /\ a[1] # c /\ a[1] \in Colls
    BY <1>8 DEF DeleteCommit, OldAccess, Shape, TypeOK
  <2>4. \A k \in Keys : /\ keys'[k].status \in {"active", "revoked"} => keys[k].coll # c
                        /\ keys[k].coll # c => keys'[k] = keys[k]
    BY <1>8 DEF DeleteCommit, Shape, TypeOK, KeyState
  <2>5. \A d \in Docs : place'[d] \in Colls => place'[d] = place[d] /\ place[d] # c
    BY <1>8 DEF DeleteCommit, Shape, TypeOK, Colls
  <2>. QED
    BY <1>8, <2>1, <2>2, <2>3, <2>4, <2>5 DEF DeleteCommit
<1>9. ASSUME NEW r \in Editors, PlaceCommit(r) PROVE NothingDangles'
  <2>1. edit[r].doc \in Docs
    BY SMTT(30), <1>9 DEF PlaceCommit, Shape, EditsWellFormed
  <2>. QED
    BY <1>9, <2>1 DEF PlaceCommit, tables, Shape, TypeOK
<1>10. ASSUME NEW r \in Editors,
              \/ \E c \in Colls, v \in Visibility, l \in {None} \cup SUBSET Groups :
                    UpdateLoad(r, c, v, l)
              \/ \E c \in Colls : DeleteCount(r, c)
              \/ \E c \in Collections, d \in Docs : PlaceCheck(r, d, c)
              \/ ReplaceList(r) \/ Bump(r) \/ EditFails(r)
       PROVE  NothingDangles'
  BY <1>10 DEF UpdateLoad, DeleteCount, PlaceCheck, ReplaceList, Bump, EditFails, tables
<1>11. ASSUME NEW q \in Readers, Query(q) PROVE NothingDangles'
  BY <1>11, QueryFrame
<1>12. CASE UNCHANGED vars
  BY <1>12 DEF vars
<1>. QED
  BY <1>1, <1>2, <1>3, <1>4, <1>5, <1>6, <1>7, <1>8, <1>9, <1>10, <1>11, <1>12
     DEF Next, Directory, Edit

\* A document, key, member or access row never refers to what was deleted.
THEOREM ReferencesHold == Spec => []NothingDangles
<1>1. Init => NothingDangles
  BY CallersAssumption DEF Init, NothingDangles, NoKey, Colls
<1>. QED
  BY <1>1, AlwaysShape, NextDangles, PTL DEF Spec

-----------------------------------------------------------------------------
(* Documents stay where a request put them.                                *)

Placed == OnlyEmptyDeleted /\ DeletingEmpty

LEMMA NextPlaced == Shape /\ Placed /\ [Next]_vars => Placed'
<1>. SUFFICES ASSUME Shape, Placed, [Next]_vars PROVE Placed'
  OBVIOUS
<1>. USE DEF Placed, OnlyEmptyDeleted, DeletingEmpty
<1>0. races \subseteq races'
  BY RacesGrow
<1>1. ASSUME UNCHANGED <<place, wanted>>,
             \A r \in Editors : edit'[r].pc = "deleting" =>
                                   edit[r].pc = "deleting" /\ edit'[r].coll = edit[r].coll
      PROVE  Placed'
  BY <1>0, <1>1
<1>2. CASE Directory
  BY <1>1, <1>2 DEF Directory, CreateGroup, AddMember, RemoveMember, RevokeKey, CreateKey, CreateCollection
<1>3. ASSUME NEW r \in Editors,
             \/ \E g \in Groups : DeleteGroup(r, g)
             \/ \E c \in Colls, v \in Visibility, l \in {None} \cup SUBSET Groups :
                   UpdateLoad(r, c, v, l)
             \/ \E c \in Collections, d \in Docs : PlaceCheck(r, d, c)
             \/ ReplaceList(r) \/ UpdateCommit(r) \/ Bump(r) \/ EditFails(r)
      PROVE  Placed'
  <2>1. UNCHANGED <<place, wanted>>
    BY <1>3 DEF DeleteGroup, UpdateLoad, PlaceCheck, ReplaceList, UpdateCommit, Bump, EditFails
  <2>0. Edit(r)
    BY <1>3 DEF Edit
  <2>2. \A s \in Editors \ {r} : edit'[s] = edit[s]
    BY <2>0, OthersKeep
  <2>3. edit'[r].pc # "deleting"
    <3>. edit \in [Editors -> EditState]
      BY DEF Shape, TypeOK
    <3>1. CASE \E g \in Groups : DeleteGroup(r, g)
      BY <3>1 DEF DeleteGroup, EditState
    <3>2. CASE ReplaceList(r)
      BY <3>2 DEF ReplaceList, EditState
    <3>3. CASE \E c \in Colls, v \in Visibility, l \in {None} \cup SUBSET Groups : UpdateLoad(r, c, v, l)
      BY <3>3 DEF UpdateLoad, IdleEdit
    <3>4. CASE \E c \in Collections, d \in Docs : PlaceCheck(r, d, c)
      BY <3>4 DEF PlaceCheck, IdleEdit
    <3>5. CASE UpdateCommit(r) \/ Bump(r) \/ EditFails(r)
      BY <3>5 DEF UpdateCommit, Bump, EditFails, IdleEdit
    <3>. QED
      BY <1>3, <3>1, <3>2, <3>3, <3>4, <3>5
  <2>. QED
    BY <1>1, <2>1, <2>2, <2>3
<1>4. ASSUME NEW r \in Editors, NEW c \in Colls, DeleteCount(r, c) PROVE Placed'
  <2>1. \A s \in Editors \ {r} : edit'[s] = edit[s]
    BY <1>4 DEF DeleteCount, Shape, TypeOK
  <2>2. edit'[r].coll = c
    BY <1>4 DEF DeleteCount, Shape, TypeOK, IdleEdit
  <2>. QED
    BY <1>4, <2>1, <2>2 DEF DeleteCount, Empty
<1>5. ASSUME NEW r \in Editors, DeleteCommit(r) PROVE Placed'
  <2>. DEFINE c == edit[r].coll
  <2>1. c \in Colls
    BY <1>5 DEF DeleteCommit, Shape, EditsWellFormed
  <2>2. \A d \in Docs : /\ place[d] = c => <<"refill", d>> \in races
                        /\ place[d] # c => place'[d] = place[d]
                        /\ place'[d] \in {place[d], General}
    BY <1>5 DEF DeleteCommit, Shape, TypeOK
  <2>3. \A d \in Docs : place'[d] \in Collections => place[d] \in Collections
    BY <2>1, <2>2 DEF Colls
  <2>4. OnlyEmptyDeleted'
    BY <1>0, <1>5, <2>2, <2>3 DEF DeleteCommit
  <2>5. ASSUME NEW s \in Editors, NEW d \in Docs, edit'[s].pc = "deleting", place'[d] = edit'[s].coll
        PROVE  <<"refill", d>> \in races'
    <3>1. s # r /\ edit'[s] = edit[s]
      BY <1>5, <2>5 DEF DeleteCommit, Shape, TypeOK, IdleEdit
    <3>2. edit[s].coll \in Colls
      BY <2>5, <3>1 DEF Shape, EditsWellFormed
    <3>3. place'[d] = place[d]
      BY <2>2, <2>5, <3>1, <3>2 DEF Colls
    <3>. QED
      BY <1>0, <2>5, <3>1, <3>3
  <2>. QED
    BY <2>4, <2>5
<1>6. ASSUME NEW r \in Editors, PlaceCommit(r) PROVE Placed'
  <2>. DEFINE d == edit[r].doc
              c == edit[r].coll
  <2>1. d \in Docs /\ c \in Collections
    BY <1>6 DEF PlaceCommit, Shape, EditsWellFormed
  <2>2. \A s \in Editors : edit'[s].pc = "deleting" => s # r /\ edit'[s] = edit[s]
    BY <1>6 DEF PlaceCommit, Shape, TypeOK, IdleEdit
  <2>3. CASE c = edit[r].seen
    BY <1>0, <1>6, <2>2, <2>3 DEF PlaceCommit
  <2>4. CASE c # edit[r].seen
    <3>1. /\ place' = [place EXCEPT ![d] = c] /\ wanted' = [wanted EXCEPT ![d] = c]
          /\ (\E s \in Editors : edit[s].pc = "deleting" /\ edit[s].coll = c) => <<"refill", d>> \in races'
      BY <1>6, <2>4 DEF PlaceCommit
    <3>2. \A e \in Docs \ {d} : place'[e] = place[e] /\ wanted'[e] = wanted[e]
      BY <3>1 DEF Shape, TypeOK
    <3>3. place'[d] = c /\ wanted'[d] = c
      BY <2>1, <3>1 DEF Shape, TypeOK
    <3>. QED
      BY <1>0, <2>2, <3>1, <3>2, <3>3
  <2>. QED
    BY <2>3, <2>4
<1>7. ASSUME NEW q \in Readers, Query(q) PROVE Placed'
  BY <1>1, <1>7, QueryFrame
<1>8. CASE UNCHANGED vars
  BY <1>1, <1>8 DEF vars
<1>. QED
  BY <1>2, <1>3, <1>4, <1>5, <1>6, <1>7, <1>8 DEF Next, Edit

\* A document is where a request put it: only one put into a collection while that is
\* being deleted falls to General.
THEOREM DocumentsStay == Spec => []OnlyEmptyDeleted
<1>1. Init => Placed
  BY CallersAssumption DEF Init, Placed, OnlyEmptyDeleted, DeletingEmpty, IdleEdit
<1>2. Placed => OnlyEmptyDeleted
  BY DEF Placed
<1>. QED
  BY <1>1, <1>2, AlwaysShape, NextPlaced, PTL DEF Spec

-----------------------------------------------------------------------------
(* Access lists are those last given.                                      *)

Listed == LastListHolds /\ ReplacingAll

\* Access rows may go, but no request starts or stops replacing a list.
LEMMA ReplacingKept ==
    ASSUME ReplacingAll, races \subseteq races', access' \subseteq access,
           \A s \in Editors : \/ edit'[s] = edit[s]
                              \/ edit[s].pc # "replacing" /\ edit'[s].pc # "replacing"
    PROVE  ReplacingAll'
BY DEF ReplacingAll, Replacing, OldAccess

LEMMA NextListed == Shape /\ Listed /\ [Next]_vars => Listed'
<1>. SUFFICES ASSUME Shape, Listed, [Next]_vars PROVE Listed'
  OBVIOUS
<1>. USE DEF Listed
<1>0. races \subseteq races'
  BY RacesGrow
<1>1. ASSUME UNCHANGED <<access, lists>>,
             \A s \in Editors : \/ edit'[s] = edit[s]
                                \/ edit[s].pc # "replacing" /\ edit'[s].pc # "replacing"
      PROVE  Listed'
  BY <1>0, <1>1, ReplacingKept DEF LastListHolds, ListOf
<1>2. CASE Directory
  BY <1>1, <1>2 DEF Directory, CreateGroup, AddMember, RemoveMember, RevokeKey, CreateKey, CreateCollection
<1>3. ASSUME NEW r \in Editors, NEW g \in Groups, DeleteGroup(r, g) PROVE Listed'
  <2>1. \A s \in Editors : \/ edit'[s] = edit[s]
                           \/ edit[s].pc # "replacing" /\ edit'[s].pc # "replacing"
    BY <1>3 DEF DeleteGroup, Shape, TypeOK, EditState
  <2>2. access' \subseteq access
    BY <1>3 DEF DeleteGroup, AccessWithout
  <2>3. \A c \in Colls : ListOf(c)' = ListOf(c) \ {g} /\ lists'[c] = lists[c] \ {g}
    BY <1>3 DEF DeleteGroup, AccessWithout, ListOf
  <2>4. LastListHolds'
    BY <1>0, <2>3 DEF LastListHolds
  <2>. QED
    BY <1>0, <2>1, <2>2, <2>4, ReplacingKept
<1>4. ASSUME NEW r \in Editors,
             \/ \E c \in Colls :
                   \/ \E v \in Visibility, l \in {None} \cup SUBSET Groups : UpdateLoad(r, c, v, l)
                   \/ DeleteCount(r, c)
             \/ \E c \in Collections, d \in Docs : PlaceCheck(r, d, c)
      PROVE  Listed'
  <2>1. UNCHANGED <<access, lists>>
    BY <1>4 DEF UpdateLoad, DeleteCount, PlaceCheck, tables
  <2>2. edit[r].pc # "replacing" /\ edit'[r].pc # "replacing"
    BY ZenonT(40), <1>4 DEF UpdateLoad, DeleteCount, PlaceCheck, Shape, TypeOK, IdleEdit
  <2>3. Edit(r)
    BY <1>4 DEF Edit
  <2>. QED
    BY SMTT(30), <1>1, <2>1, <2>2, <2>3, OthersKeep
<1>5. ASSUME NEW r \in Editors, PlaceCommit(r) \/ Bump(r) PROVE Listed'
  <2>1. UNCHANGED <<access, lists>>
    BY <1>5 DEF PlaceCommit, Bump, tables
  <2>2. edit[r].pc # "replacing" /\ edit'[r].pc # "replacing"
    BY <1>5 DEF PlaceCommit, Bump, Shape, TypeOK, IdleEdit
  <2>3. Edit(r)
    BY <1>5 DEF Edit
  <2>. QED
    BY <1>1, <2>1, <2>2, <2>3, OthersKeep
<1>6. ASSUME NEW r \in Editors, EditFails(r) PROVE Listed'
  <2>1. UNCHANGED <<access, lists, races>>
    BY <1>6 DEF EditFails, tables
  <2>2. edit'[r].pc = "idle" /\ \A s \in Editors \ {r} : edit'[s] = edit[s]
    BY <1>6 DEF EditFails, IdleEdit, Shape, TypeOK
  <2>3. \A c : Replacing(c)' = Replacing(c) \ {r}
    BY <2>2 DEF Replacing
  <2>. QED
    BY <2>1, <2>2, <2>3 DEF LastListHolds, ListOf, ReplacingAll, OldAccess
<1>7. ASSUME NEW r \in Editors, ReplaceList(r) PROVE Listed'
  <2>. DEFINE c == edit[r].coll
  <2>1. /\ UNCHANGED <<access, lists>> /\ c \in Colls
        /\ Replacing(c) = {} \/ <<"lists", c>> \in races'
    BY <1>7 DEF ReplaceList, tables, Shape, EditsWellFormed
  <2>2. edit'[r].pc = "replacing" /\ edit'[r].coll = c /\ edit'[r].rows = OldAccess(c)
    BY <1>7 DEF ReplaceList, Shape, TypeOK, EditState
  <2>3. \A s \in Editors \ {r} : edit'[s] = edit[s]
    BY <1>7, OthersKeep DEF Edit
  <2>4. LastListHolds'
    BY <1>0, <2>1 DEF LastListHolds, ListOf
  <2>5. \A k : /\ k # c => Replacing(k)' = Replacing(k)
               /\ OldAccess(k)' = OldAccess(k)
    BY ZenonT(40), <1>7, <2>1, <2>2, <2>3 DEF Replacing, OldAccess, ReplaceList
  <2>6. Replacing(c) = {} => Replacing(c)' = {r}
    BY <2>2, <2>3 DEF Replacing
  <2>7. ASSUME NEW s \in Editors, NEW k, edit'[s].pc = "replacing", edit'[s].coll = k
        PROVE  \/ <<"lists", k>> \in races'
               \/ /\ OldAccess(k)' \subseteq edit'[s].rows
                  /\ Replacing(k)' = {s}
    <3>1. CASE s = r
      BY <2>1, <2>2, <2>5, <2>6, <2>7, <3>1
    <3>2. CASE s # r /\ k # c
      <4>1. \/ <<"lists", k>> \in races
            \/ OldAccess(k) \subseteq edit[s].rows /\ Replacing(k) = {s}
        BY <2>3, <2>7, <3>2 DEF ReplacingAll
      <4>. QED
        BY <1>0, <2>3, <2>5, <3>2, <4>1
    <3>3. CASE s # r /\ k = c
      <4>1. s \in Replacing(c)
        BY <2>3, <2>7, <3>3 DEF Replacing
      <4>. QED
        BY <2>1, <3>3, <4>1
    <3>. QED
      BY <3>1, <3>2, <3>3
  <2>. QED
    BY <2>4, <2>7 DEF ReplacingAll, OldAccess, Replacing
<1>8. ASSUME NEW r \in Editors, UpdateCommit(r) PROVE Listed'
  <2>0. PICK c \in Colls : c = edit[r].coll
    BY <1>8 DEF UpdateCommit, Shape, EditsWellFormed
  <2>1. edit'[r].pc = "bump" /\ \A s \in Editors \ {r} : edit'[s] = edit[s]
    BY <1>8 DEF UpdateCommit, IdleEdit, Shape, TypeOK
  <2>2. CASE edit[r].list = None
    <3>1. edit[r].pc = "updating" /\ UNCHANGED <<access, lists>>
      BY <1>8, <2>2 DEF UpdateCommit, Shape, EditsWellFormed
    <3>. QED
      BY <1>1, <2>1, <3>1
  <2>3. CASE edit[r].list # None
    <3>. DEFINE l == edit[r].list
                new == {<<c, g>> : g \in l}
    <3>1. /\ edit[r].pc = "replacing" /\ l \in SUBSET Groups
          /\ \A a \in edit[r].rows : a[1] = c
          /\ access' = (access \ edit[r].rows) \cup new
          /\ lists' = [lists EXCEPT ![c] = l]
      BY <1>8, <2>0, <2>3 DEF UpdateCommit, Shape, EditsWellFormed
    <3>2. \A a \in new : a[1] = c
      OBVIOUS
    <3>3. \A k \in Colls : k # c => /\ ListOf(k)' = ListOf(k) /\ lists'[k] = lists[k]
                                    /\ OldAccess(k)' = OldAccess(k)
      BY <3>1, <3>2 DEF ListOf, OldAccess, Shape, TypeOK
    <3>4. \/ <<"lists", c>> \in races
          \/ OldAccess(c) \subseteq edit[r].rows /\ Replacing(c) = {r}
      BY <2>0, <3>1 DEF ReplacingAll
    <3>5. ASSUME OldAccess(c) \subseteq edit[r].rows
          PROVE  ListOf(c)' = l /\ lists'[c] = l
      <4>1. \A g \in Groups : <<c, g>> \in access' <=> g \in l
        BY <3>1, <3>5 DEF OldAccess
      <4>2. ListOf(c)' = {g \in Groups : <<c, g>> \in access'}
        BY DEF ListOf
      <4>3. ListOf(c)' = l
        BY <3>1, <4>1, <4>2
      <4>4. lists'[c] = l
        BY <2>0, <3>1 DEF Shape, TypeOK
      <4>. QED
        BY <4>3, <4>4
    <3>6. LastListHolds'
      <4>. SUFFICES ASSUME NEW k \in Colls
                    PROVE  ListOf(k)' = lists'[k] \/ <<"lists", k>> \in races'
        BY DEF LastListHolds, ListOf
      <4>1. CASE k = c
        BY <1>0, <3>4, <3>5, <4>1 DEF ListOf
      <4>2. CASE k # c
        BY <1>0, <3>3, <4>2 DEF LastListHolds
      <4>. QED
        BY <4>1, <4>2
    <3>7. ASSUME NEW s \in Editors, NEW k, edit'[s].pc = "replacing", edit'[s].coll = k
          PROVE  \/ <<"lists", k>> \in races'
                 \/ /\ OldAccess(k)' \subseteq edit'[s].rows
                    /\ Replacing(k)' = {s}
      <4>1. s # r /\ edit'[s] = edit[s]
        BY <2>1, <3>7
      <4>2. k \in Colls /\ s \in Replacing(k)
        BY <3>7, <4>1 DEF Replacing, Shape, EditsWellFormed
      <4>3. CASE k = c
        BY <1>0, <3>4, <4>1, <4>2, <4>3
      <4>4. CASE k # c
        <5>1. Replacing(k)' = Replacing(k)
          BY <2>0, <2>1, <4>4 DEF Replacing
        <5>2. \/ <<"lists", k>> \in races
              \/ OldAccess(k) \subseteq edit[s].rows /\ Replacing(k) = {s}
          BY <3>7, <4>1 DEF ReplacingAll
        <5>. QED
          BY <1>0, <3>3, <4>1, <4>2, <4>4, <5>1, <5>2
      <4>. QED
        BY <4>3, <4>4
    <3>. QED
      BY <3>6, <3>7 DEF ReplacingAll, OldAccess, Replacing
  <2>. QED
    BY <2>2, <2>3
<1>9. ASSUME NEW r \in Editors, DeleteCommit(r) PROVE Listed'
  <2>. DEFINE c == edit[r].coll
  <2>0. c \in Colls
    BY <1>9 DEF DeleteCommit, Shape, EditsWellFormed
  <2>1. edit'[r].pc = "bump" /\ \A s \in Editors \ {r} : edit'[s] = edit[s]
    BY <1>9 DEF DeleteCommit, IdleEdit, Shape, TypeOK
  <2>2. edit[r].pc = "deleting" /\ access' = access \ OldAccess(c) /\ lists' = [lists EXCEPT ![c] = {}]
    BY <1>9 DEF DeleteCommit
  <2>3. \A k \in Colls : \/ k # c /\ ListOf(k)' = ListOf(k) /\ lists'[k] = lists[k]
                         \/ k = c /\ ListOf(k)' = {} /\ lists'[k] = {}
    BY <2>0, <2>2 DEF ListOf, OldAccess, Shape, TypeOK
  <2>4. LastListHolds'
    BY <1>0, <2>3 DEF LastListHolds
  <2>. QED
    BY <1>0, <2>1, <2>2, <2>4, ReplacingKept
<1>10. ASSUME NEW q \in Readers, Query(q) PROVE Listed'
  BY <1>1, <1>10, QueryFrame
<1>11. CASE UNCHANGED vars
  BY <1>1, <1>11 DEF vars
<1>. QED
  BY <1>2, <1>3, <1>4, <1>5, <1>6, <1>7, <1>8, <1>9, <1>10, <1>11 DEF Next, Edit

\* The groups that may see a collection are exactly those of the last edit of its list,
\* unless two edits overlapped.
THEOREM ListsHold == Spec => []LastListHolds
<1>1. Init => Listed
  BY DEF Init, Listed, LastListHolds, ReplacingAll, ListOf, IdleEdit
<1>2. Listed => LastListHolds
  BY DEF Listed
<1>. QED
  BY <1>1, <1>2, AlwaysShape, NextListed, PTL DEF Spec

-----------------------------------------------------------------------------
(* No query is given a scope its caller never had.                         *)

Sighted == ScopeWasVisible /\ GoneKeysMarked /\ SeesNow /\ OpenNow

\* What a step did not take away from a query stays within its sight.
LEMMA SightKept ==
    ASSUME Shape, Sighted, GoneKeysMarked', races \subseteq races',
           \A q \in Readers :
              /\ query'[q].pc = query[q].pc /\ query'[q].caller = query[q].caller
              /\ query'[q].scope = query[q].scope
              /\ query[q].pc # "idle" =>
                    /\ query[q].could \subseteq query'[q].could
                    /\ MaySee(query[q].caller)' \subseteq query'[q].could
                    /\ query[q].open \subseteq query'[q].open
                    /\ Open' \subseteq query'[q].open
    PROVE  Sighted'
<1>1. ScopeWasVisible'
  <2>. SUFFICES ASSUME NEW q \in Readers, query'[q].pc \in {"granting", "resolved"}
                PROVE  WithinSight(q)' \/ (<<"key", query'[q].caller>> \in races' /\ WithinOpen(q)')
    BY DEF ScopeWasVisible
  <2>1. /\ query[q].pc \in {"granting", "resolved"} /\ query'[q].caller = query[q].caller
        /\ query'[q].scope = query[q].scope
        /\ query[q].could \subseteq query'[q].could /\ query[q].open \subseteq query'[q].open
    OBVIOUS
  <2>2. WithinSight(q) \/ (<<"key", query[q].caller>> \in races /\ WithinOpen(q))
    BY <2>1 DEF Sighted, ScopeWasVisible
  <2>. QED
    BY <2>1, <2>2 DEF WithinSight, WithinOpen, Filter
<1>2. SeesNow' /\ OpenNow'
  BY DEF SeesNow, OpenNow, Open, MaySee, ListOf, TenantVisible
<1>. QED
  BY <1>1, <1>2 DEF Sighted

LEMMA ObserveSight ==
    ASSUME Shape, Sighted, Observe, GoneKeysMarked', races \subseteq races'
    PROVE  Sighted'
<1>. SUFFICES ASSUME NEW q \in Readers
              PROVE  /\ query'[q].pc = query[q].pc /\ query'[q].caller = query[q].caller
                     /\ query'[q].scope = query[q].scope
                     /\ query[q].pc # "idle" =>
                           /\ query[q].could \subseteq query'[q].could
                           /\ MaySee(query[q].caller)' \subseteq query'[q].could
                           /\ query[q].open \subseteq query'[q].open
                           /\ Open' \subseteq query'[q].open
  BY SightKept
<1>1. query[q] \in QueryState
  BY DEF Shape, TypeOK
<1>2. CASE query[q].pc = "idle"
  BY <1>1, <1>2 DEF Observe
<1>3. CASE query[q].pc # "idle"
  <2>1. PICK x \in Callers : x = query[q].caller
    BY <1>3 DEF Shape, QueriesWellFormed
  <2>2. query'[q] = [query[q] EXCEPT !.could = @ \cup Sees'[x], !.open = @ \cup Open']
    BY <1>3, <2>1 DEF Observe
  <2>3. Sees'[x] = MaySee(x)'
    BY DEF Sees
  <2>. QED
    BY <1>1, <2>1, <2>2, <2>3 DEF QueryState
<1>. QED
  BY <1>2, <1>3

LEMMA FrameSight ==
    ASSUME Shape, Sighted, UNCHANGED <<tables, query>>, races \subseteq races'
    PROVE  Sighted'
<1>1. GoneKeysMarked'
  BY DEF Sighted, GoneKeysMarked, tables
<1>2. (\A x : MaySee(x)' = MaySee(x)) /\ Open' = Open
  BY DEF MaySee, Open, ListOf, TenantVisible, tables
<1>. QED
  BY <1>1, <1>2, SightKept DEF Sighted, SeesNow, OpenNow, tables

\* The scope given to a key is what it may see, or what everybody may if the
\* key is gone.
LEMMA KeyScopeSees ==
    ASSUME Shape, GoneKeysMarked, NEW k \in Keys
    PROVE  \/ Filter(KeyScope(k)) \subseteq MaySee(k)
           \/ <<"key", k>> \in races /\ Filter(KeyScope(k)) \subseteq Open
<1>1. k \notin Owners /\ k \notin Members
  BY CallersAssumption
<1>2. CASE keys[k].status # "gone" /\ keys[k].coll \in Colls
  BY <1>1, <1>2 DEF KeyScope, Only, Filter, MaySee, Colls
<1>3. CASE keys[k].status # "gone" /\ keys[k].coll \notin Colls
  BY <1>1, <1>3 DEF KeyScope, GeneralAnd, Filter, MaySee, Colls
<1>4. CASE keys[k].status = "gone"
  BY <1>4 DEF KeyScope, GeneralAnd, Filter, Open, GoneKeysMarked
<1>. QED
  BY <1>2, <1>3, <1>4

LEMMA QuerySighted ==
    ASSUME Shape, Sighted, NEW q \in Readers, Query(q)
    PROVE  Sighted'
<1>0. /\ UNCHANGED <<tables, races>> /\ query[q] \in QueryState
      /\ \A p \in Readers \ {q} : query'[p] = query[p]
  BY DEF Query, Authenticate, Resolve, ResolveGranted, QueryEnds, Shape, TypeOK
<1>1. GoneKeysMarked'
  BY <1>0 DEF Sighted, GoneKeysMarked, tables
<1>2. (\A x : MaySee(x)' = MaySee(x)) /\ Open' = Open
  BY <1>0 DEF MaySee, Open, ListOf, TenantVisible, tables
<1>3. ASSUME query'[q].pc # "idle" => /\ MaySee(query'[q].caller) \subseteq query'[q].could
                                      /\ Open \subseteq query'[q].open,
             query'[q].pc \in {"granting", "resolved"} =>
                \/ Filter(query'[q].scope) \subseteq query'[q].could
                \/ <<"key", query'[q].caller>> \in races /\ Filter(query'[q].scope) \subseteq query'[q].open
      PROVE  Sighted'
  <2>1. \A p \in Readers : query'[p].pc # "idle" => /\ MaySee(query'[p].caller) \subseteq query'[p].could
                                                   /\ Open \subseteq query'[p].open
    BY <1>0, <1>3 DEF Sighted, SeesNow, OpenNow
  <2>2. SeesNow' /\ OpenNow'
    BY <1>0, <2>1 DEF SeesNow, OpenNow, Open, MaySee, ListOf, TenantVisible, tables
  <2>3. ScopeWasVisible'
    BY <1>0, <1>3 DEF Sighted, ScopeWasVisible, WithinSight, WithinOpen, Filter
  <2>. QED
    BY <1>1, <2>2, <2>3 DEF Sighted
<1>4. ASSUME NEW x \in Callers, Authenticate(q, x) PROVE Sighted'
  <2>1. query'[q].pc = "known" /\ query'[q].caller = x /\ query'[q].could = MaySee(x)
       /\ query'[q].open = Open
    BY <1>4 DEF Authenticate, IdleQuery, Shape, TypeOK
  <2>. QED
    BY <1>3, <2>1
<1>5. ASSUME Resolve(q) PROVE Sighted'
  <2>. DEFINE x == query[q].caller
  <2>1. /\ x \in Callers /\ query'[q].caller = x
        /\ query'[q].could = query[q].could /\ query'[q].open = query[q].open
        /\ query'[q].scope = IF x \in Owners THEN Everything
                             ELSE IF x \in Keys THEN KeyScope(x)
                             ELSE GeneralAnd(TenantVisible)
    BY <1>0, <1>5 DEF Resolve, QueryState, Shape, TypeOK, QueriesWellFormed
  <2>2. MaySee(x) \subseteq query[q].could /\ Open \subseteq query[q].open
    BY <1>5 DEF Resolve, Sighted, SeesNow, OpenNow
  <2>3. CASE x \in Owners
    BY <1>3, <2>1, <2>2, <2>3 DEF Everything, Filter, MaySee
  <2>4. CASE x \in Keys /\ x \notin Owners
    BY <1>3, <2>1, <2>2, <2>4, KeyScopeSees DEF Sighted
  <2>5. CASE x \notin Keys /\ x \notin Owners
    <3>1. x \in Members /\ Filter(GeneralAnd(TenantVisible)) \subseteq MaySee(x)
      BY <2>1, <2>5 DEF Callers, GeneralAnd, Filter, MaySee, TenantVisible, Colls
    <3>. QED
      BY <1>3, <2>1, <2>2, <2>5, <3>1
  <2>. QED
    BY <2>3, <2>4, <2>5
<1>6. ASSUME ResolveGranted(q) PROVE Sighted'
  <2>. DEFINE x == query[q].caller
              s == query[q].scope
  <2>1. /\ x \in Members /\ x \notin Owners /\ s \in AccessScopes
        /\ MaySee(x) \subseteq query[q].could /\ Open \subseteq query[q].open
        /\ Filter(s) \subseteq query[q].could
    <3>1. <<"key", x>> \notin races
      BY <1>6, CallersAssumption DEF ResolveGranted, Shape, TypeOK, QueriesWellFormed
    <3>. QED
      BY <1>6, <3>1, CallersAssumption
      DEF ResolveGranted, Shape, QueriesWellFormed, Sighted, SeesNow, OpenNow, ScopeWasVisible, WithinSight
  <2>2. /\ query'[q].caller = x /\ query'[q].could = query[q].could /\ query'[q].open = query[q].open
        /\ query'[q].scope = [s EXCEPT !.collection_ids = @ \cup Granted(x)]
    BY <1>0, <1>6, <2>1 DEF ResolveGranted, QueryState, Shape, TypeOK
  <2>3. Granted(x) \subseteq MaySee(x)
    BY <2>1 DEF Granted, MaySee, ListOf
  <2>4. Filter(query'[q].scope) \subseteq Filter(s) \cup Granted(x)
    BY <2>1, <2>2 DEF Filter, AccessScopes
  <2>. QED
    BY <1>3, <2>1, <2>2, <2>3, <2>4
<1>7. ASSUME QueryEnds(q) PROVE Sighted'
  <2>1. query'[q].pc = "idle"
    BY <1>7 DEF QueryEnds, IdleQuery, Shape, TypeOK
  <2>. QED
    BY <1>3, <2>1
<1>. QED
  BY <1>4, <1>5, <1>6, <1>7 DEF Query

LEMMA NextSighted == Shape /\ Sighted /\ [Next]_vars => Sighted'
<1>. SUFFICES ASSUME Shape, Sighted, [Next]_vars PROVE Sighted'
  OBVIOUS
<1>0. races \subseteq races'
  BY RacesGrow
<1>1. CASE Directory
  <2>1. Observe
    BY <1>1 DEF Directory, CreateGroup, AddMember, RemoveMember, RevokeKey, CreateKey, CreateCollection
  <2>2. \A k \in Keys : keys'[k].status = "gone" => keys[k].status = "gone"
    BY <1>1 DEF Directory, CreateGroup, AddMember, RemoveMember, RevokeKey, CreateKey,
                CreateCollection, Shape, TypeOK, KeyState
  <2>. QED
    BY <1>0, <2>1, <2>2, ObserveSight DEF Sighted, GoneKeysMarked
<1>2. ASSUME NEW r \in Editors, DeleteCommit(r) PROVE Sighted'
  <2>1. \A k \in Keys : keys'[k].status = "gone" => keys[k].status = "gone" \/ <<"key", k>> \in races'
    BY <1>2 DEF DeleteCommit, Shape, TypeOK, KeyState
  <2>2. GoneKeysMarked'
    BY <1>0, <2>1 DEF Sighted, GoneKeysMarked
  <2>. QED
    BY <1>0, <1>2, <2>2, ObserveSight DEF DeleteCommit
<1>3. ASSUME NEW r \in Editors, UpdateCommit(r) \/ \E g \in Groups : DeleteGroup(r, g)
      PROVE  Sighted'
  BY <1>0, <1>3, ObserveSight DEF UpdateCommit, DeleteGroup, Sighted, GoneKeysMarked
<1>4. ASSUME NEW r \in Editors,
             \/ \E c \in Colls :
                   \/ \E v \in Visibility, l \in {None} \cup SUBSET Groups : UpdateLoad(r, c, v, l)
                   \/ DeleteCount(r, c)
             \/ \E c \in Collections, d \in Docs : PlaceCheck(r, d, c)
             \/ ReplaceList(r) \/ PlaceCommit(r) \/ Bump(r) \/ EditFails(r)
      PROVE  Sighted'
  <2>1. UNCHANGED <<tables, query>>
    BY <1>4 DEF UpdateLoad, DeleteCount, PlaceCheck, ReplaceList, PlaceCommit, Bump, EditFails
  <2>. QED
    BY <1>0, <2>1, FrameSight
<1>5. ASSUME NEW q \in Readers, Query(q) PROVE Sighted'
  BY <1>5, QuerySighted
<1>6. CASE UNCHANGED vars
  BY <1>0, <1>6, FrameSight DEF vars, tables
<1>. QED
  BY <1>1, <1>2, <1>3, <1>4, <1>5, <1>6 DEF Next, Edit

\* A query's scope holds nothing its caller could not see at some time since it was
\* authenticated; a key that is deleted with its collection meanwhile is given at
\* most what was open to everybody since.
THEOREM ScopesInSight == Spec => []ScopeWasVisible
<1>1. Init => Sighted
  BY DEF Init, Sighted, ScopeWasVisible, GoneKeysMarked, SeesNow, OpenNow, IdleQuery, NoKey
<1>2. Sighted => ScopeWasVisible
  BY DEF Sighted
<1>. QED
  BY <1>1, <1>2, AlwaysShape, NextSighted, PTL DEF Spec

\* The invariant the run checks, with all its strengthenings, holds for any callers.
THEOREM Inductive == Spec => []IInv
<1>1. Init => Placed /\ Listed /\ Sighted
  BY CallersAssumption
  DEF Init, Placed, OnlyEmptyDeleted, DeletingEmpty, Listed, LastListHolds, ReplacingAll, ListOf, IdleEdit,
      Sighted, ScopeWasVisible, GoneKeysMarked, SeesNow, OpenNow, IdleQuery, NoKey
<1>2. Shape /\ NothingDangles /\ Placed /\ Listed /\ Sighted => IInv
  BY DEF Shape, Placed, Listed, Sighted, IInv
<1>. QED
  BY <1>1, <1>2, AlwaysShape, ReferencesHold, NextPlaced, NextListed, NextSighted, PTL DEF Spec
=============================================================================
