-------------------------- MODULE AnswerCacheProofs --------------------------
(***************************************************************************)
(* The answer cache is fresh and respects scopes, for any number of rows,  *)
(* scopes, queries and changes.                                            *)
(***************************************************************************)
EXTENDS AnswerCache, TLAPS

USE CacheAssumption, ScopeAssumption

-----------------------------------------------------------------------------
(* Lemmas on scopes.                                                       *)

\* The SQL filter of retrieval and listing lets through exactly what can_see,
\* the check of a single read, allows.
LEMMA FilterIsCanSee ==
    ASSUME NEW s \in AccessScopes, NEW c \in Collections
    PROVE  c \in Filter(s) <=> CanSee(s, c)
BY DEF AccessScopes, Filter, CanSee

\* Scopes with the same digest see the same rows, so a key need not hold more.
LEMMA DigestDecides ==
    ASSUME NEW s, NEW t, Digest(s) = Digest(t), NEW c
    PROVE  CanSee(s, c) <=> CanSee(t, c)
BY DEF Digest, CanSee

\* "It can only narrow": the collection_ids of a query never show a caller more
\* than it could see without them, and never anything not asked for.
THEOREM NarrowOnlyNarrows ==
    ASSUME NEW s \in AccessScopes, NEW requested \in SUBSET Collections,
           NEW c \in Collections, CanSee(Narrow(s, requested), c)
    PROVE  CanSee(s, c) /\ (requested # {} => c \in requested)
BY DEF AccessScopes, Narrow, CanSee

-----------------------------------------------------------------------------
(* IInv is inductive.                                                      *)

ChangeStep == \E c \in Changes : Commit(c) \/ Bump(c) \/ BumpLost(c)

\* A step of one query replaces its local state, and only storing an answer, the
\* passing of time and a restart touch the cache.
QueryStep(q) ==
    \/ \E s \in Scopes, n \in Questions : Ask(q, s, n)
    \/ CacheHit(q) \/ VectorSearch(q) \/ FulltextSearch(q)
    \/ CacheSet(q) \/ CacheSetFails(q) \/ QueryFails(q)

LEMMA QueryFrame ==
    ASSUME NEW q \in Queries, QueryStep(q)
    PROVE  UNCHANGED <<rows, version, change, retiredAt, restarted>>
BY DEF QueryStep, Ask, CacheHit, VectorSearch, FulltextSearch, CacheSet, CacheSetFails, QueryFails

LEMMA KeyType ==
    ASSUME TypeOK, NEW q \in Queries, query[q].pc # "idle"
    PROVE  Key(q) \in Keys
BY DEF TypeOK, QueryState, Key, Keys

\* What the state of a query is after a step of it: a new question, or the same
\* one with the hits it had, the hits of a stored answer or rows it can see.
Asked(q) ==
    /\ query'[q] \in QueryState /\ query'[q].hits = {} /\ query'[q].gone = Retired
    /\ query'[q].version \in {version, NoVersion}
Found(q, hits) ==
    \/ \E e \in cache : e.key = Key(q) /\ hits = e.answer
    \/ hits \subseteq query[q].hits \cup Visible(query[q].scope)
Continued(q) ==
    /\ query[q].pc # "idle"
    /\ \E pc \in {"searching", "generating", "answered"}, hits \in SUBSET Rows :
          query'[q] = [query[q] EXCEPT !.pc = pc, !.hits = hits] /\ Found(q, hits)

LEMMA QueryMoves ==
    ASSUME TypeOK, NEW q \in Queries, QueryStep(q)
    PROVE  /\ query' = [query EXCEPT ![q] = query'[q]]
           /\ query'[q] = IdleQuery \/ Asked(q) \/ Continued(q)
<1>. query[q] \in QueryState /\ query \in [Queries -> QueryState]
  BY DEF TypeOK
<1>0. ASSUME NEW x, query' = [query EXCEPT ![q] = x]
      PROVE  query' = [query EXCEPT ![q] = query'[q]] /\ query'[q] = x
  BY <1>0
<1>1. ASSUME NEW s \in Scopes, NEW n \in Questions, Ask(q, s, n)
      PROVE  query' = [query EXCEPT ![q] = query'[q]] /\ Asked(q)
  <2>1. PICK v \in {version, NoVersion} :
           query' = [query EXCEPT ![q] = [pc |-> "keyed", scope |-> s, question |-> n,
                                          version |-> v, hits |-> {}, gone |-> Retired]]
    BY <1>1 DEF Ask
  <2>2. [pc |-> "keyed", scope |-> s, question |-> n, version |-> v, hits |-> {},
         gone |-> Retired] \in QueryState
    BY <2>1 DEF QueryState, TypeOK, Retired
  <2>. QED
    BY <1>0, <2>1, <2>2 DEF Asked
<1>2. ASSUME query[q].pc # "idle",
             NEW pc \in {"searching", "generating", "answered"}, NEW hits \in SUBSET Rows,
             Found(q, hits), query' = [query EXCEPT ![q].pc = pc, ![q].hits = hits]
      PROVE  query' = [query EXCEPT ![q] = query'[q]] /\ Continued(q)
  <2>1. query' = [query EXCEPT ![q] = [query[q] EXCEPT !.pc = pc, !.hits = hits]]
    BY <1>2
  <2>2. /\ query' = [query EXCEPT ![q] = query'[q]]
        /\ query'[q] = [query[q] EXCEPT !.pc = pc, !.hits = hits]
    BY <1>0, <2>1
  <2>. QED
    BY <1>2, <2>2 DEF Continued
<1>3. CASE CacheHit(q)
  <2>1. PICK e \in cache : /\ e.key = Key(q)
                           /\ query' = [query EXCEPT ![q].pc = "answered", ![q].hits = e.answer]
    BY <1>3 DEF CacheHit
  <2>2. e.answer \in SUBSET Rows /\ query[q].pc # "idle" /\ Found(q, e.answer)
    BY <1>3, <2>1 DEF CacheHit, TypeOK, Entry, Found
  <2>. QED
    BY <1>2, <2>1, <2>2
<1>4. CASE VectorSearch(q)
  <2>1. PICK hits \in {{}, Visible(query[q].scope)} :
           query' = [query EXCEPT ![q].pc = "searching", ![q].hits = hits]
    BY <1>4 DEF VectorSearch, VectorHits
  <2>2. hits \in SUBSET Rows /\ query[q].pc # "idle" /\ Found(q, hits)
    BY <1>4 DEF VectorSearch, Visible, Found
  <2>. QED
    BY <1>2, <2>1, <2>2
<1>5. CASE FulltextSearch(q)
  <2>1. PICK hits \in SUBSET Visible(query[q].scope) :
           query' = [query EXCEPT ![q].pc = IF query[q].hits \cup hits = {}
                                            THEN "answered" ELSE "generating",
                                  ![q].hits = query[q].hits \cup hits]
    BY <1>5 DEF FulltextSearch, FulltextHits, Fused
  <2>2. /\ query[q].hits \cup hits \in SUBSET Rows /\ query[q].pc # "idle"
        /\ Found(q, query[q].hits \cup hits)
    BY <1>5 DEF FulltextSearch, Visible, QueryState, Found
  <2>. QED
    BY <1>2, <2>1, <2>2
<1>6. CASE CacheSet(q) \/ CacheSetFails(q)
  <2>1. query[q].pc # "idle" /\ query' = [query EXCEPT ![q].pc = "answered"]
    BY <1>6 DEF CacheSet, CacheSetFails
  <2>2. query[q].hits \in SUBSET Rows /\ Found(q, query[q].hits)
    BY DEF QueryState, Found
  <2>3. query' = [query EXCEPT ![q].pc = "answered", ![q].hits = query[q].hits]
    BY <2>1 DEF QueryState
  <2>. QED
    BY <1>2, <2>1, <2>2, <2>3
<1>7. CASE QueryFails(q)
  BY <1>0, <1>7 DEF QueryFails
<1>. QED
  BY <1>0, <1>1, <1>3, <1>4, <1>5, <1>6, <1>7 DEF QueryStep, QueryFails

LEMMA CacheMoves ==
    ASSUME NEW q \in Queries, QueryStep(q)
    PROVE  \/ cache' = cache
           \/ CacheSet(q)
BY DEF QueryStep, Ask, CacheHit, VectorSearch, FulltextSearch, CacheSetFails, QueryFails

\* A stored answer is an old one, or the hits of the query that stores it.
LEMMA NewEntries ==
    ASSUME NEW q \in Queries, CacheSet(q), NEW e \in cache'
    PROVE  /\ query[q].pc = "generating"
           /\ e \in cache \/ e = [key |-> Key(q), answer |-> query[q].hits]
BY DEF CacheSet

LEMMA NextType == TypeOK /\ [Next]_vars => TypeOK'
<1>. SUFFICES ASSUME TypeOK, [Next]_vars
              PROVE  TypeOK'
  OBVIOUS
<1>1. CASE UNCHANGED vars
  BY <1>1 DEF vars, TypeOK
<1>2. ASSUME NEW c \in Changes, Commit(c)
      PROVE  TypeOK'
  BY <1>2 DEF Commit, TypeOK
<1>3. ASSUME NEW c \in Changes, Bump(c)
      PROVE  TypeOK'
  <2>1. version' \in Versions
    BY <1>3 DEF Bump, TypeOK, Versions
  <2>2. retiredAt' \in [Rows -> Versions]
    BY <1>3, <2>1 DEF Bump, TypeOK
  <2>. QED
    BY <1>3, <2>1, <2>2 DEF Bump, TypeOK
<1>4. ASSUME NEW c \in Changes, BumpLost(c)
      PROVE  TypeOK'
  BY <1>4 DEF BumpLost, TypeOK
<1>5. ASSUME Expire \/ Restart
      PROVE  TypeOK'
  <2>1. CASE Expire
    BY <2>1 DEF Expire, TypeOK
  <2>2. CASE Restart
    <3>1. version' \in Versions /\ cache' \subseteq Entry /\ restarted' \in BOOLEAN
      BY <2>2 DEF Restart, Versions
    <3>. QED
      BY <2>2, <3>1 DEF Restart, TypeOK
  <2>. QED
    BY <1>5, <2>1, <2>2
<1>6. ASSUME NEW q \in Queries, QueryStep(q)
      PROVE  TypeOK'
  <2>1. query'[q] \in QueryState
    <3>1. IdleQuery \in QueryState
      BY DEF IdleQuery, QueryState
    <3>2. CASE Continued(q)
      <4>1. query[q] \in QueryState
        BY DEF TypeOK
      <4>. QED
        BY <3>2, <4>1 DEF Continued, QueryState
    <3>. QED
      BY <1>6, <3>1, <3>2, QueryMoves DEF Asked
  <2>2. query' \in [Queries -> QueryState]
    BY <1>6, <2>1, QueryMoves DEF TypeOK
  <2>3. cache' \subseteq Entry
    <3>1. CASE CacheSet(q)
      <4>1. [key |-> Key(q), answer |-> query[q].hits] \in Entry
        BY <3>1, KeyType DEF CacheSet, Entry, TypeOK, QueryState
      <4>. QED
        BY <3>1, <4>1 DEF CacheSet, TypeOK
    <3>. QED
      BY <1>6, <3>1, CacheMoves DEF TypeOK
  <2>. QED
    BY <1>6, <2>2, <2>3, QueryFrame DEF TypeOK
<1>. QED
  BY <1>1, <1>2, <1>3, <1>4, <1>5, <1>6 DEF Next, QueryStep

\* Entries hold what their key's scope may see; rows never change collection.
LEMMA NextScope ==
    TypeOK /\ EntriesWithinScope /\ AnswersWithinScope /\ [Next]_vars
       => EntriesWithinScope' /\ AnswersWithinScope'
<1>. SUFFICES ASSUME TypeOK, EntriesWithinScope, AnswersWithinScope, [Next]_vars
              PROVE  EntriesWithinScope' /\ AnswersWithinScope'
  OBVIOUS
<1>1. ASSUME NEW q \in Queries, QueryStep(q)
      PROVE  EntriesWithinScope' /\ AnswersWithinScope'
  <2>1. EntriesWithinScope'
    <3>1. CASE CacheSet(q)
      <4>1. ASSUME NEW e \in cache', NEW r \in e.answer, NEW s \in Scopes, e.key[2] = Digest(s)
            PROVE  CanSee(s, Coll[r])
        <5>1. CASE e \in cache
          BY <4>1, <5>1 DEF EntriesWithinScope
        <5>2. CASE e = [key |-> Key(q), answer |-> query[q].hits]
          <6>1. Digest(query[q].scope) = Digest(s) /\ CanSee(query[q].scope, Coll[r])
            BY <4>1, <5>2 DEF Key, AnswersWithinScope
          <6>. QED
            BY <6>1, DigestDecides
        <5>. QED
          BY <3>1, <5>1, <5>2, NewEntries
      <4>. QED
        BY <4>1 DEF EntriesWithinScope
    <3>. QED
      BY <1>1, <3>1, CacheMoves DEF EntriesWithinScope
  <2>2. \A r \in query'[q].hits : CanSee(query'[q].scope, Coll[r])
    <3>1. CASE Continued(q)
      <4>1. PICK pc \in {"searching", "generating", "answered"}, hits \in SUBSET Rows :
               query'[q] = [query[q] EXCEPT !.pc = pc, !.hits = hits] /\ Found(q, hits)
        BY <3>1 DEF Continued
      <4>2. query[q] \in QueryState /\ query[q].scope \in Scopes
        BY <3>1 DEF Continued, TypeOK, QueryState
      <4>3. query'[q].hits = hits /\ query'[q].scope = query[q].scope
        BY <4>1, <4>2 DEF QueryState
      <4>4. ASSUME NEW r \in hits
            PROVE  CanSee(query[q].scope, Coll[r])
        <5>1. ASSUME NEW e \in cache, e.key = Key(q), hits = e.answer
              PROVE  CanSee(query[q].scope, Coll[r])
          BY <4>2, <4>4, <5>1 DEF EntriesWithinScope, Key
        <5>2. CASE r \in query[q].hits
          BY <5>2 DEF AnswersWithinScope
        <5>3. CASE r \in Visible(query[q].scope)
          <6>1. Coll[r] \in Filter(query[q].scope) /\ Coll[r] \in Collections
            BY <4>4, <5>3 DEF Visible
          <6>. QED
            BY <4>2, <6>1, FilterIsCanSee
        <5>. QED
          BY <4>1, <5>1, <5>2, <5>3 DEF Found
      <4>. QED
        BY <4>3, <4>4
    <3>. QED
      BY <1>1, <3>1, QueryMoves DEF Asked, IdleQuery
  <2>. QED
    BY <1>1, <2>1, <2>2, QueryMoves DEF AnswersWithinScope, TypeOK
<1>2. CASE query' = query /\ cache' \subseteq cache
  BY <1>2 DEF EntriesWithinScope, AnswersWithinScope
<1>. QED
  BY <1>1, <1>2 DEF Next, vars, Commit, Bump, BumpLost, Expire, Restart, QueryStep

\* A bump retires only rows that are gone, at a version above every key in use.
LEMMA NextFresh ==
    IInv /\ [Next]_vars
       => (RetiredAreDead /\ RetiredBeforeNow /\ (restarted \/ (EntriesFresh /\ QueriesFresh)))'
<1>. SUFFICES ASSUME IInv, [Next]_vars
              PROVE  (RetiredAreDead /\ RetiredBeforeNow
                        /\ (restarted \/ (EntriesFresh /\ QueriesFresh)))'
  OBVIOUS
<1>. USE DEF IInv
<1>1. ASSUME NEW c \in Changes, Bump(c)
      PROVE  (RetiredAreDead /\ RetiredBeforeNow /\ (restarted \/ (EntriesFresh /\ QueriesFresh)))'
  <2>1. /\ version' = version + 1 /\ version \in Nat
        /\ UNCHANGED <<rows, cache, query, restarted>>
    BY <1>1 DEF Bump, TypeOK, Versions
  <2>2. \A r \in Rows : \/ retiredAt'[r] = retiredAt[r]
                        \/ rows[r] = "dead" /\ retiredAt[r] = 0 /\ retiredAt'[r] = version + 1
    BY <1>1 DEF Bump
  <2>3. retiredAt \in [Rows -> Nat]
    BY DEF TypeOK, Versions
  <2>4. RetiredAreDead' /\ RetiredBeforeNow'
    BY <2>1, <2>2, <2>3 DEF RetiredAreDead, RetiredBeforeNow
  <2>5. ASSUME NEW answer \in SUBSET Rows, NEW v \in Int, v <= version, NotYetRetired(answer, v)
        PROVE  NotYetRetired(answer, v)' /\ v <= version'
    BY <2>1, <2>2, <2>3, <2>5 DEF NotYetRetired
  <2>6. EntriesFresh => EntriesFresh'
    <3>1. \A e \in cache : e.answer \in SUBSET Rows /\ e.key[1] \in Int
      BY DEF TypeOK, Entry, Keys, Versions, NoVersion
    <3>. QED
      BY <2>1, <2>5, <3>1 DEF EntriesFresh
  <2>7. QueriesFresh => QueriesFresh'
    <3>1. ASSUME QueriesFresh, NEW q \in Queries, query[q].pc # "idle",
                 query[q].version # NoVersion
          PROVE  /\ query[q].version <= version' /\ NotYetRetired(query[q].hits, query[q].version)'
                 /\ \A r \in query[q].gone : retiredAt'[r] \in 1 .. query[q].version
      <4>1. /\ query[q].hits \in SUBSET Rows /\ query[q].gone \in SUBSET Rows
            /\ query[q].version \in Int
        BY DEF TypeOK, QueryState, Versions, NoVersion
      <4>2. /\ query[q].version <= version /\ NotYetRetired(query[q].hits, query[q].version)
            /\ \A r \in query[q].gone : retiredAt[r] \in 1 .. query[q].version
        BY <3>1 DEF QueriesFresh
      <4>3. \A r \in query[q].gone : retiredAt'[r] = retiredAt[r]
        BY <2>2, <4>1, <4>2
      <4>4. /\ query[q].version <= version'
            /\ NotYetRetired(query[q].hits, query[q].version)'
        BY <2>1, <2>5, <4>1, <4>2
      <4>. QED
        BY <4>2, <4>3, <4>4
    <3>. QED
      BY <2>1, <3>1 DEF QueriesFresh
  <2>. QED
    BY <2>1, <2>4, <2>6, <2>7
<1>2. ASSUME NEW c \in Changes, Commit(c)
      PROVE  (RetiredAreDead /\ RetiredBeforeNow /\ (restarted \/ (EntriesFresh /\ QueriesFresh)))'
  <2>1. RetiredAreDead'
    BY <1>2 DEF Commit, RetiredAreDead
  <2>. QED
    BY <1>2, <2>1 DEF Commit, RetiredBeforeNow, EntriesFresh, QueriesFresh, NotYetRetired
<1>3. CASE Restart
  BY <1>3 DEF Restart, RetiredAreDead, RetiredBeforeNow
<1>4. ASSUME NEW q \in Queries, QueryStep(q)
      PROVE  (RetiredAreDead /\ RetiredBeforeNow /\ (restarted \/ (EntriesFresh /\ QueriesFresh)))'
  <2>. USE QueryFrame, <1>4
  <2>1. RetiredAreDead' /\ RetiredBeforeNow'
    BY DEF RetiredAreDead, RetiredBeforeNow
  <2>2. EntriesFresh /\ QueriesFresh => EntriesFresh'
    <3>1. CASE CacheSet(q)
      <4>1. ASSUME EntriesFresh, QueriesFresh, NEW e \in cache', e.key[1] # NoVersion
            PROVE  e.key[1] <= version /\ NotYetRetired(e.answer, e.key[1])
        <5>1. CASE e \in cache
          BY <4>1, <5>1 DEF EntriesFresh
        <5>2. CASE e = [key |-> Key(q), answer |-> query[q].hits]
          BY <3>1, <4>1, <5>2, NewEntries DEF QueriesFresh, Key
        <5>. QED
          BY <3>1, <5>1, <5>2, NewEntries
      <4>. QED
        BY <4>1 DEF EntriesFresh, NotYetRetired
    <3>. QED
      BY <3>1, CacheMoves DEF EntriesFresh, NotYetRetired
  <2>3. ASSUME EntriesFresh, QueriesFresh, restarted = FALSE, query'[q].pc # "idle",
               query'[q].version # NoVersion
        PROVE  /\ query'[q].version <= version
               /\ NotYetRetired(query'[q].hits, query'[q].version)
               /\ \A r \in query'[q].gone : retiredAt[r] \in 1 .. query'[q].version
    <3>0. version \in Nat /\ retiredAt \in [Rows -> Nat]
      BY DEF TypeOK, Versions
    <3>1. CASE Asked(q)
      <4>1. query'[q].version = version
        BY <2>3, <3>1 DEF Asked
      <4>2. \A r \in Retired : retiredAt[r] \in 1 .. version
        BY <2>3, <3>0 DEF Retired, RetiredBeforeNow
      <4>. QED
        BY <3>0, <3>1, <4>1, <4>2 DEF Asked, NotYetRetired
    <3>2. CASE Continued(q)
      <4>1. PICK pc \in {"searching", "generating", "answered"}, hits \in SUBSET Rows :
               query'[q] = [query[q] EXCEPT !.pc = pc, !.hits = hits] /\ Found(q, hits)
        BY <3>2 DEF Continued
      <4>2. query[q] \in QueryState
        BY DEF TypeOK
      <4>3. /\ query'[q].hits = hits /\ query'[q].version = query[q].version
            /\ query'[q].gone = query[q].gone
        BY <4>1, <4>2 DEF QueryState
      <4>4. /\ query[q].version <= version /\ NotYetRetired(query[q].hits, query[q].version)
            /\ \A r \in query[q].gone : retiredAt[r] \in 1 .. query[q].version
        BY <2>3, <3>2, <4>3 DEF QueriesFresh, Continued
      <4>5. ASSUME NEW e \in cache, e.key = Key(q), hits = e.answer
            PROVE  NotYetRetired(hits, query[q].version)
        BY <2>3, <4>3, <4>5 DEF EntriesFresh, Key
      <4>6. \A r \in Visible(query[q].scope) : retiredAt[r] = 0
        BY <3>0 DEF Visible, RetiredAreDead
      <4>7. NotYetRetired(hits, query[q].version)
        BY <4>1, <4>4, <4>5, <4>6 DEF Found, NotYetRetired
      <4>. QED
        BY <4>3, <4>4, <4>7
    <3>. QED
      BY <2>3, <3>1, <3>2, QueryMoves DEF IdleQuery
  <2>4. EntriesFresh /\ QueriesFresh /\ restarted = FALSE => QueriesFresh'
    BY ZenonT(40), <2>3, QueryMoves DEF QueriesFresh, NotYetRetired, TypeOK
  <2>5. restarted \in BOOLEAN
    BY DEF TypeOK
  <2>. QED
    BY <2>1, <2>2, <2>4, <2>5
<1>5. CASE UNCHANGED <<rows, version, query, retiredAt, restarted>> /\ cache' \subseteq cache
  BY <1>5 DEF RetiredAreDead, RetiredBeforeNow, EntriesFresh, QueriesFresh, NotYetRetired
<1>. QED
  BY <1>1, <1>2, <1>3, <1>4, <1>5 DEF Next, vars, BumpLost, Expire, QueryStep

\* The strengthening behind freshness and scoping holds for any rows and readers.
THEOREM Inductive == Spec => []IInv
<1>1. Init => IInv
  <2>1. Init => TypeOK
    <3>1. IdleQuery \in QueryState /\ 0 \in Versions
      BY DEF QueryState, IdleQuery, Versions
    <3>. QED
      BY ZenonT(40), <3>1 DEF Init, TypeOK
  <2>. QED
    BY <2>1 DEF Init, IInv, RetiredAreDead, RetiredBeforeNow, EntriesFresh, QueriesFresh, Versions,
                EntriesWithinScope, AnswersWithinScope, IdleQuery
<1>2. IInv /\ [Next]_vars => IInv'
  BY NextType, NextScope, NextFresh DEF IInv
<1>. QED
  BY <1>1, <1>2, PTL DEF Spec

\* A question is never answered from what a finished change removed before it was
\* asked, unless its version read failed or Redis lost its data.
THEOREM CacheFreshness == Spec => []FreshAnswers
<1>1. IInv => FreshAnswers
  <2>. SUFFICES ASSUME IInv, NEW q \in Queries, query[q].version # NoVersion, ~restarted,
                       query[q].pc = "answered"
                PROVE  query[q].hits \cap query[q].gone = {}
    BY DEF FreshAnswers, CitesOnlyCurrent
  <2>1. /\ NotYetRetired(query[q].hits, query[q].version)
        /\ \A r \in query[q].gone : retiredAt[r] \in 1 .. query[q].version
    BY DEF IInv, QueriesFresh
  <2>2. query[q].version \in Int /\ query[q].hits \in SUBSET Rows
    BY DEF IInv, TypeOK, QueryState, Versions, NoVersion
  <2>. QED
    BY <2>1, <2>2 DEF NotYetRetired
<1>. QED
  BY <1>1, Inductive, PTL

\* No caller is answered from a row its own scope hides, cached or not.
THEOREM CacheScoping == Spec => []AnswersWithinScope
BY Inductive, PTL DEF IInv
=============================================================================
