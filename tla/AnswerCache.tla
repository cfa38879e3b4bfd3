----------------------------- MODULE AnswerCache -----------------------------
(***************************************************************************)
(* Questions answered from a cache in Redis, while documents change.       *)
(*                                                                         *)
(* The key of an answer holds the tenant's corpus version.  A query reads  *)
(* the version first and searches Postgres afterwards; a change commits to *)
(* Postgres first and increments the version afterwards.  Nothing else     *)
(* orders the two, and each side can fail between its steps.               *)
(***************************************************************************)
EXTENDS AccessScope, Integers

CONSTANTS
    Rows,        \* versions of chunk rows: a re-index or a move makes new ones
    Coll,        \* the collection_id of each row
    Scopes,      \* the scopes callers have
    Questions,   \* a normalised question with its conversation history
    Queries,     \* questions being answered at a time
    Changes,     \* changes of documents or collections under way at a time
    MaxVersion,  \* bound: INCRs of the version
    MaxEntries,  \* bound: answers stored at a time
    Faults,      \* which of Redis's failures happen, a subset of FaultKinds
    None

FaultKinds == {"version", "bump", "restart"}

ASSUME CacheAssumption ==
    /\ Coll \in [Rows -> Collections]
    /\ Scopes \subseteq AccessScopes
    /\ MaxVersion \in Nat /\ MaxEntries \in Nat
    /\ Faults \subseteq FaultKinds
    /\ None \notin Nat

VARIABLES
    rows,      \* each row: not yet inserted, in the table, or gone from it
    version,   \* rag:corpus_version:<tenant>, 0 when the key is missing
    cache,     \* the stored answers
    change,    \* local state of each change
    query,     \* local state of each query
    retiredAt, \* history: the first version after a row's removal, 0 before it
    restarted  \* history: Redis has lost its data

vars == <<rows, version, cache, change, query, retiredAt, restarted>>

NoVersion == -1
Versions == 0 .. MaxVersion

IdleQuery == [pc |-> "idle", scope |-> None, question |-> None, version |-> NoVersion,
              hits |-> {}, gone |-> {}]

Retired == {r \in Rows : retiredAt[r] > 0}

Init ==
    /\ rows = [r \in Rows |-> "new"]
    /\ version = 0 /\ cache = {} /\ restarted = FALSE
    /\ change = [c \in Changes |-> "idle"]
    /\ query = [q \in Queries |-> IdleQuery]
    /\ retiredAt = [r \in Rows |-> 0]

-----------------------------------------------------------------------------
(* Changes: re-index, delete, move; collection and group changes bump the  *)
(* version without touching a row.                                         *)

\* One transaction.
Commit(c) ==
    /\ change[c] = "idle"
    /\ \E added \in SUBSET {r \in Rows : rows[r] = "new"},
          removed \in SUBSET {r \in Rows : rows[r] = "live"} :
          rows' = [r \in Rows |-> IF r \in added THEN "live"
                                  ELSE IF r \in removed THEN "dead" ELSE rows[r]]
    /\ change' = [change EXCEPT ![c] = "bump"]
    /\ UNCHANGED <<version, cache, query, retiredAt, restarted>>

\* INCR, after the commit.
Bump(c) ==
    /\ change[c] = "bump" /\ version < MaxVersion
    /\ version' = version + 1
    /\ retiredAt' = [r \in Rows |-> IF rows[r] = "dead" /\ retiredAt[r] = 0
                                    THEN version + 1 ELSE retiredAt[r]]
    /\ change' = [change EXCEPT ![c] = "idle"]
    /\ UNCHANGED <<rows, cache, query, restarted>>

\* Redis is down, or the process dies, between the commit and the INCR.
BumpLost(c) ==
    /\ "bump" \in Faults
    /\ change[c] = "bump"
    /\ change' = [change EXCEPT ![c] = "idle"]
    /\ UNCHANGED <<rows, version, cache, query, retiredAt, restarted>>

-----------------------------------------------------------------------------
(* Queries: run_rag_query, complete_rag_query and stream_rag_query.        *)

\* build_cache_key: the first thing a query does.  Any failure reads as -1.
Ask(q, s, n) ==
    /\ query[q].pc \in {"idle", "answered"}
    /\ \E v \in {version} \cup (IF "version" \in Faults THEN {NoVersion} ELSE {}) :
          query' = [query EXCEPT ![q] = [pc |-> "keyed", scope |-> s, question |-> n,
                                         version |-> v, hits |-> {}, gone |-> Retired]]
    /\ UNCHANGED <<rows, version, cache, change, retiredAt, restarted>>

Bug_KeyWithoutScope(q) == <<query[q].version, <<"all">>, query[q].question>>
Bug_KeyAtTheEnd(q) == <<version, Digest(query[q].scope), query[q].question>>
Key(q) == <<query[q].version, Digest(query[q].scope), query[q].question>>

\* _cache_get finds an answer: it is served as it is.
CacheHit(q) ==
    /\ query[q].pc = "keyed"
    /\ \E e \in cache :
          /\ e.key = Key(q)
          /\ query' = [query EXCEPT ![q].pc = "answered", ![q].hits = e.answer]
    /\ UNCHANGED <<rows, version, cache, change, retiredAt, restarted>>

Bug_SearchesAll(s) == {r \in Rows : rows[r] = "live"}
Visible(s) == {r \in Rows : rows[r] = "live" /\ Coll[r] \in Filter(s)}

\* embed_query fails, and there are no hits, or vector_search ranks rows without
\* refusing any.
VectorHits(s) == {{}, Visible(s)}

\* fulltext_search finds the rows that share a word with the question.
FulltextHits(s) == SUBSET Visible(s)

\* reciprocal_rank_fusion: a row of either list, once.
Fused(vectorHits, textHits) == vectorHits \cup textHits

\* _cache_get finds nothing or fails; vector_search is a statement of its own.
VectorSearch(q) ==
    /\ query[q].pc = "keyed"
    /\ \E hits \in VectorHits(query[q].scope) :
          query' = [query EXCEPT ![q].pc = "searching", ![q].hits = hits]
    /\ UNCHANGED <<rows, version, cache, change, retiredAt, restarted>>

\* fulltext_search is the next statement: it sees what was committed since.
\* Without any hit the answer is NO_DOCUMENTS_ANSWER, and it is not cached.
FulltextSearch(q) ==
    /\ query[q].pc = "searching"
    /\ \E hits \in FulltextHits(query[q].scope) :
          LET all == Fused(query[q].hits, hits) IN
          query' = [query EXCEPT ![q].pc = IF all = {} THEN "answered" ELSE "generating",
                                 ![q].hits = all]
    /\ UNCHANGED <<rows, version, cache, change, retiredAt, restarted>>

\* The provider has answered, log and usage are committed: SETEX under the key
\* built at the start.
CacheSet(q) ==
    /\ query[q].pc = "generating"
    /\ Cardinality({e \in cache : e.key # Key(q)}) < MaxEntries
    /\ cache' = {e \in cache : e.key # Key(q)} \cup {[key |-> Key(q), answer |-> query[q].hits]}
    /\ query' = [query EXCEPT ![q].pc = "answered"]
    /\ UNCHANGED <<rows, version, change, retiredAt, restarted>>

\* The SETEX fails and is only logged.
CacheSetFails(q) ==
    /\ query[q].pc = "generating"
    /\ query' = [query EXCEPT ![q].pc = "answered"]
    /\ UNCHANGED <<rows, version, cache, change, retiredAt, restarted>>

\* The search, the provider or the commit fails, or the process dies.
QueryFails(q) ==
    /\ query[q].pc \in {"keyed", "searching", "generating"}
    /\ query' = [query EXCEPT ![q] = IdleQuery]
    /\ UNCHANGED <<rows, version, cache, change, retiredAt, restarted>>

-----------------------------------------------------------------------------
(* Redis.                                                                  *)

\* CACHE_TTL_SECONDS have passed.
Expire ==
    /\ \E e \in cache : cache' = cache \ {e}
    /\ UNCHANGED <<rows, version, change, query, retiredAt, restarted>>

\* A restart without its data: the version counts from 0 again.
Restart ==
    /\ "restart" \in Faults /\ ~restarted
    /\ version' = 0 /\ cache' = {} /\ restarted' = TRUE
    /\ UNCHANGED <<rows, change, query, retiredAt>>

Next ==
    \/ \E c \in Changes : Commit(c) \/ Bump(c) \/ BumpLost(c)
    \/ \E q \in Queries :
          \/ \E s \in Scopes, n \in Questions : Ask(q, s, n)
          \/ CacheHit(q) \/ VectorSearch(q) \/ FulltextSearch(q)
          \/ CacheSet(q) \/ CacheSetFails(q) \/ QueryFails(q)
    \/ Expire \/ Restart

Spec == Init /\ [][Next]_vars

-----------------------------------------------------------------------------
Keys == {<<v, Digest(s), n>> : v \in Versions \cup {NoVersion}, s \in Scopes, n \in Questions}
Entry == [key : Keys, answer : SUBSET Rows]

QueryState ==
    {x \in [pc : {"idle", "keyed", "searching", "generating", "answered"},
            scope : Scopes \cup {None}, question : Questions \cup {None},
            version : Versions \cup {NoVersion}, hits : SUBSET Rows, gone : SUBSET Rows] :
       x.pc # "idle" => x.scope \in Scopes /\ x.question \in Questions}

TypeOK ==
    /\ rows \in [Rows -> {"new", "live", "dead"}]
    /\ version \in Versions
    /\ cache \subseteq Entry
    /\ change \in [Changes -> {"idle", "bump"}]
    /\ query \in [Queries -> QueryState]
    /\ retiredAt \in [Rows -> Versions]
    /\ restarted \in BOOLEAN

\* "Cached answers never outlive the documents they cite": once a change has
\* bumped the version, no question asked from then on is answered from what the
\* change removed, however queries and changes interleave and whatever fails.
\* Two failures defeat the version and are exempted: a version read that failed
\* (its key, -1, outlives every change) and a Redis restarted empty.
CitesOnlyCurrent(q) == query[q].pc = "answered" => query[q].hits \cap query[q].gone = {}
AnswersNeverOutliveDocuments == \A q \in Queries : CitesOnlyCurrent(q)
FreshAnswers ==
    \A q \in Queries : query[q].version = NoVersion \/ restarted \/ CitesOnlyCurrent(q)

\* "One user's cached answer never reaches someone who cannot see its sources."
AnswersWithinScope ==
    \A q \in Queries : \A r \in query[q].hits : CanSee(query[q].scope, Coll[r])

\* The inductive invariant behind both: what an entry, or a query that may still
\* store one, cites was not retired when its version was current.
NotYetRetired(answer, v) == \A r \in answer : retiredAt[r] = 0 \/ retiredAt[r] > v
EntriesFresh ==
    \A e \in cache :
       e.key[1] # NoVersion =>
          e.key[1] <= version /\ NotYetRetired(e.answer, e.key[1])
QueriesFresh ==
    \A q \in Queries :
       query[q].pc # "idle" /\ query[q].version # NoVersion =>
          /\ query[q].version <= version
          /\ NotYetRetired(query[q].hits, query[q].version)
          /\ \A r \in query[q].gone : retiredAt[r] \in 1 .. query[q].version
RetiredAreDead == \A r \in Rows : retiredAt[r] > 0 => rows[r] = "dead"
EntriesWithinScope ==
    \A e \in cache : \A r \in e.answer, s \in Scopes :
       e.key[2] = Digest(s) => CanSee(s, Coll[r])
RetiredBeforeNow == restarted \/ \A r \in Rows : retiredAt[r] <= version
IInv ==
    /\ TypeOK /\ RetiredAreDead /\ RetiredBeforeNow
    /\ restarted \/ (EntriesFresh /\ QueriesFresh)
    /\ EntriesWithinScope /\ AnswersWithinScope
=============================================================================
