------------------------------ MODULE Ingestion ------------------------------
(***************************************************************************)
(* Documents, their chunk rows and the workers that index them.            *)
(*                                                                         *)
(* HTTP requests (routers/documents.py) and Celery tasks                   *)
(* (workers/ingest_task.py) share Postgres, the S3 bucket and the Redis    *)
(* broker, and take no lock across transactions.  One step here is one     *)
(* transaction, one SQL statement whose snapshot matters, or one external  *)
(* call, so every interleaving the deployment allows is a behaviour.       *)
(* An operator named Bug_X is a faulty variant of the definition that      *)
(* follows it; no specification uses it.                                   *)
(***************************************************************************)
EXTENDS Integers, FiniteSets

CONSTANTS
    Docs,         \* document ids; each names at most one document, ever
    FileDocs,     \* the uploads, stored in S3; the other documents are URLs
    Collections,  \* values of documents.collection_id, General included
    General,      \* NULL: the document is in no collection
    Workers,      \* Celery worker processes
    Requests,     \* HTTP requests served at a time
    Tasks,        \* identities of the Celery messages outstanding at a time
    Batches,      \* identities of chunk batches: the rows one indexing run inserts
    MaxRetries,   \* max_retries of the Celery task
    None

ASSUME IngestionAssumption ==
    /\ FileDocs \subseteq Docs
    /\ General \in Collections
    /\ MaxRetries \in Nat

VARIABLES
    docs,    \* table documents: status, whether error_message is set, collection_id
    chunks,  \* table chunks, one record per batch of rows
    blobs,   \* documents whose file is in S3
    ledger,  \* usage_events: the sum of storage_delta_bytes per document, in files
    queue,   \* messages in the broker
    work,    \* local state of each worker
    req,     \* local state of each HTTP request
    stale,   \* documents whose searchable rows changed after the last version bump
    races    \* history: which documents met which race (see the properties)

vars == <<docs, chunks, blobs, ledger, queue, work, req, stale, races>>

Live == {"pending", "processing", "ready", "failed"}
Row == [status: {"none", "deleted"} \cup Live, error: BOOLEAN, coll: Collections]
Chunk == [id: Batches, doc: Docs, coll: Collections]
Message == [id: Tasks, doc: Docs, tries: 0 .. MaxRetries]

IdleWorker == [pc |-> "idle", msg |-> None, seen |-> None, rows |-> {}]
IdleRequest == [pc |-> "idle", doc |-> None, task |-> None, coll |-> None, seen |-> None]

NoRow(why) == [status |-> why, error |-> FALSE, coll |-> General]

Exists(d) == docs[d].status \in Live
RowsOf(d) == {c \in chunks : c.doc = d}
Ids(rows) == {c.id : c \in rows}
WorkersOn(d, pcs) == {w \in Workers : work[w].pc \in pcs /\ work[w].msg.doc = d}
RequestsOn(d, pcs) == {r \in Requests : req[r].pc \in pcs /\ req[r].doc = d}
Race(kind, d) == <<kind, d>> \in races

\* Indexing runs that hold a copy of the document row read before the embedding.
Snapshots(d) == WorkersOn(d, {"embedding", "swapping"})

Enqueuing == {"put", "record", "enqueue"}
TasksInUse ==
    {m.id : m \in queue}
    \cup {work[w].msg.id : w \in {v \in Workers : work[v].pc # "idle"}}
    \cup {req[r].task : r \in {s \in Requests : req[s].pc \in Enqueuing}}

FreshBatch(b) == b \notin Ids(chunks) /\ \A w \in Workers : b \notin work[w].rows

Init ==
    /\ docs = [d \in Docs |-> NoRow("none")]
    /\ chunks = {} /\ blobs = {} /\ queue = {} /\ stale = {} /\ races = {}
    /\ ledger = [d \in Docs |-> 0]
    /\ work = [w \in Workers |-> IdleWorker]
    /\ req = [r \in Requests |-> IdleRequest]

-----------------------------------------------------------------------------
(* HTTP requests.  Local state of a request: what it does next.            *)

\* POST /documents: the file goes to S3 before the row exists.
UploadPut(r, d, c, t) ==
    /\ req[r].pc = "idle" /\ t \notin TasksInUse
    /\ d \in FileDocs \ blobs /\ docs[d].status = "none"
    /\ blobs' = blobs \cup {d}
    /\ req' = [req EXCEPT ![r] = [pc |-> "put", doc |-> d, task |-> t, coll |-> c, seen |-> None]]
    /\ UNCHANGED <<docs, chunks, ledger, queue, work, stale, races>>

UploadInsert(r) ==
    LET d == req[r].doc IN
    /\ req[r].pc = "put"
    /\ docs' = [docs EXCEPT ![d] = [status |-> "pending", error |-> FALSE, coll |-> req[r].coll]]
    /\ req' = [req EXCEPT ![r].pc = "record"]
    /\ UNCHANGED <<chunks, blobs, ledger, queue, work, stale, races>>

UploadRecord(r) ==
    /\ req[r].pc = "record"
    /\ ledger' = [ledger EXCEPT ![req[r].doc] = @ + 1]
    /\ req' = [req EXCEPT ![r].pc = "enqueue"]
    /\ UNCHANGED <<docs, chunks, blobs, queue, work, stale, races>>

\* POST /documents/url
IngestUrl(r, d, c, t) ==
    /\ req[r].pc = "idle" /\ t \notin TasksInUse
    /\ d \in Docs \ FileDocs /\ docs[d].status = "none"
    /\ docs' = [docs EXCEPT ![d] = [status |-> "pending", error |-> FALSE, coll |-> c]]
    /\ req' = [req EXCEPT ![r] = [pc |-> "enqueue", doc |-> d, task |-> t, coll |-> c, seen |-> None]]
    /\ UNCHANGED <<chunks, blobs, ledger, queue, work, stale, races>>

\* POST /documents/{id}/reingest
Reingest(r, d, t) ==
    /\ req[r].pc = "idle" /\ t \notin TasksInUse
    /\ Exists(d)
    /\ docs' = [docs EXCEPT ![d].status = "pending", ![d].error = FALSE]
    /\ req' = [req EXCEPT ![r] = [IdleRequest EXCEPT !.pc = "enqueue", !.doc = d, !.task = t]]
    /\ UNCHANGED <<chunks, blobs, ledger, queue, work, stale, races>>

\* The ingest_document.delay that ends an upload, a URL ingest and a reingest.
Enqueue(r) ==
    /\ req[r].pc = "enqueue"
    /\ queue' = queue \cup {[id |-> req[r].task, doc |-> req[r].doc, tries |-> 0]}
    /\ req' = [req EXCEPT ![r] = IdleRequest]
    /\ UNCHANGED <<docs, chunks, blobs, ledger, work, stale, races>>

\* DELETE /documents/{id}: the chunk rows go in a transaction of their own ...
DeleteVectors(r, d) ==
    /\ req[r].pc = "idle"
    /\ Exists(d)
    /\ chunks' = chunks \ RowsOf(d)
    /\ stale' = IF RowsOf(d) = {} THEN stale ELSE stale \cup {d}
    /\ req' = [req EXCEPT ![r] = [IdleRequest EXCEPT !.pc = "unindexed", !.doc = d]]
    /\ UNCHANGED <<docs, blobs, ledger, queue, work, races>>

Bug_KeepsBlob(r) ==
    /\ req[r].pc = "unindexed"
    /\ req' = [req EXCEPT ![r].pc = "unstored"]
    /\ UNCHANGED <<docs, chunks, blobs, ledger, queue, work, stale, races>>

\* ... then the S3 object ...
DeleteBlob(r) ==
    /\ req[r].pc = "unindexed"
    /\ blobs' = blobs \ {req[r].doc}
    /\ req' = [req EXCEPT ![r].pc = "unstored"]
    /\ UNCHANGED <<docs, chunks, ledger, queue, work, stale, races>>

Bug_NoCascade(d) == {}
Cascade(d) == RowsOf(d)

\* ... then the row, with ON DELETE CASCADE for chunks a worker inserted in
\* between.  If the row is gone by now the ORM only warns.
DeleteRow(r) ==
    LET d == req[r].doc IN
    /\ req[r].pc = "unstored"
    /\ docs' = [docs EXCEPT ![d] = NoRow("deleted")]
    /\ chunks' = chunks \ Cascade(d)
    /\ stale' = IF RowsOf(d) = {} THEN stale ELSE stale \cup {d}
    /\ races' = IF Exists(d) THEN races ELSE races \cup {<<"delete", d>>}
    /\ req' = [req EXCEPT ![r].pc = "refund"]
    /\ UNCHANGED <<blobs, ledger, queue, work>>

Bug_NoRefund(d) == 0
Refund(d) == IF d \in FileDocs THEN 1 ELSE 0

DeleteRecord(r) ==
    LET d == req[r].doc IN
    /\ req[r].pc = "refund"
    /\ ledger' = [ledger EXCEPT ![d] = @ - Refund(d)]
    /\ req' = [req EXCEPT ![r].pc = "bump"]
    /\ UNCHANGED <<docs, chunks, blobs, queue, work, stale, races>>

\* bump_corpus_version, the last step of a delete and of a move.
RequestBump(r) ==
    /\ req[r].pc = "bump"
    /\ stale' = {}
    /\ req' = [req EXCEPT ![r] = IdleRequest]
    /\ UNCHANGED <<docs, chunks, blobs, ledger, queue, work, races>>

\* PATCH /documents/{id}: the row is loaded, the target collection looked up ...
MoveLoad(r, d, c) ==
    /\ req[r].pc = "idle"
    /\ Exists(d)
    /\ req' = [req EXCEPT ![r] = [pc |-> "moving", doc |-> d, task |-> None,
                                  coll |-> c, seen |-> docs[d].coll]]
    /\ UNCHANGED <<docs, chunks, blobs, ledger, queue, work, stale, races>>

\* The ORM writes collection_id only if it differs from the value loaded.
MoveWrites(r) == req[r].coll # req[r].seen

\* A swapping worker has locked the rows it deletes; the move locks the document
\* row and waits for those rows, the worker's commit waits for the document row.
SwapsUnder(r) == {w \in WorkersOn(req[r].doc, {"swapping"}) : work[w].rows \cap Ids(RowsOf(req[r].doc)) # {}}
MoveDeadlocks(r) == req[r].pc = "moving" /\ MoveWrites(r) /\ SwapsUnder(r) # {}

\* ... unless the worker writes nothing to the document row: its copy says ready
\* already, and chunk_count and metadata may be the same.  Such a move never sees
\* the worker's rows: it ends as if it had come before the worker's commit.
MustDeadlock(r) ==
    /\ MoveDeadlocks(r)
    /\ \E w \in SwapsUnder(r) : work[w].seen.status # "ready" \/ work[w].seen.error

Bug_MovesNoRows(d) == {}
MovedRows(d) == RowsOf(d)

\* ... then one transaction updates the row and the chunk rows there are.
MoveCommit(r) ==
    LET d == req[r].doc
        c == req[r].coll
    IN
    /\ req[r].pc = "moving" /\ ~MustDeadlock(r)
    /\ Exists(d) \/ ~MoveWrites(r)
    /\ docs' = IF MoveWrites(r) THEN [docs EXCEPT ![d].coll = c] ELSE docs
    /\ chunks' = (chunks \ MovedRows(d)) \cup {[k EXCEPT !.coll = c] : k \in MovedRows(d)}
    /\ stale' = IF RowsOf(d) = {} THEN stale ELSE stale \cup {d}
    /\ races' = IF \/ MoveWrites(r) /\ Snapshots(d) # {}
                   \/ Exists(d) /\ docs[d].coll # req[r].seen
                THEN races \cup {<<"move", d>>}
                ELSE races
    /\ req' = [req EXCEPT ![r].pc = "bump"]
    /\ UNCHANGED <<blobs, ledger, queue, work>>

\* The move fails: the row is gone (StaleDataError) or Postgres breaks the deadlock.
MoveFails(r) ==
    /\ req[r].pc = "moving"
    /\ MoveDeadlocks(r) \/ (MoveWrites(r) /\ ~Exists(req[r].doc))
    /\ req' = [req EXCEPT ![r] = IdleRequest]
    /\ UNCHANGED <<docs, chunks, blobs, ledger, queue, work, stale, races>>

\* The process dies, or S3, Postgres or Redis raises: the rest is never done.
RequestDies(r) ==
    /\ req[r].pc # "idle"
    /\ req' = [req EXCEPT ![r] = IdleRequest]
    /\ races' = IF req[r].pc = "moving" THEN races ELSE races \cup {<<"lost", req[r].doc>>}
    /\ UNCHANGED <<docs, chunks, blobs, ledger, queue, work, stale>>

-----------------------------------------------------------------------------
(* Celery workers.  A message is acknowledged, hence gone, when taken.     *)

\* ingest_document up to its first commit.
StartIngest(w, m) ==
    /\ work[w].pc = "idle" /\ m \in queue
    /\ Exists(m.doc)
    /\ queue' = queue \ {m}
    /\ docs' = [docs EXCEPT ![m.doc].status = "processing"]
    /\ work' = [work EXCEPT ![w] = [IdleWorker EXCEPT !.pc = "started", !.msg = m]]
    /\ UNCHANGED <<chunks, blobs, ledger, req, stale, races>>

\* The document was deleted while the message waited: return.
DropTask(w, m) ==
    /\ work[w].pc = "idle" /\ m \in queue
    /\ ~Exists(m.doc)
    /\ queue' = queue \ {m}
    /\ UNCHANGED <<docs, chunks, blobs, ledger, work, req, stale, races>>

\* The commit expired the row: reading file_type loads every column again, and
\* that copy is what the rest of the run uses; then the file is downloaded.
LoadSource(w) ==
    LET d == work[w].msg.doc IN
    /\ work[w].pc = "started"
    /\ Exists(d) /\ (d \in FileDocs => d \in blobs)
    /\ work' = [work EXCEPT ![w].pc = "embedding", ![w].seen = docs[d]]
    /\ UNCHANGED <<docs, chunks, blobs, ledger, queue, req, stale, races>>

Bug_DeleteCommits(w) ==
    LET d == work[w].msg.doc IN
    /\ work[w].pc = "embedding"
    /\ chunks' = chunks \ RowsOf(d)
    /\ work' = [work EXCEPT ![w].pc = "swapping"]
    /\ UNCHANGED <<docs, blobs, ledger, queue, req, stale, races>>

Bug_AppendsRows(d) == {}
ReplacedRows(d) == Ids(RowsOf(d))

\* replace_doc_chunks_sync: DELETE removes the rows committed when it starts.
\* Nothing is visible to others before CommitIndex.
DeleteOldChunks(w) ==
    LET d == work[w].msg.doc IN
    /\ work[w].pc = "embedding"
    /\ work' = [work EXCEPT ![w].pc = "swapping", ![w].rows = ReplacedRows(d)]
    /\ races' = IF WorkersOn(d, {"swapping"}) = {} THEN races ELSE races \cup {<<"swap", d>>}
    /\ UNCHANGED <<docs, chunks, blobs, ledger, queue, req, stale>>

\* _index_sections refuses a document without text, so there is a row to insert.
Bug_EmptyText(w, b) == {}
InsertedRows(w, b) == {[id |-> b, doc |-> work[w].msg.doc, coll |-> work[w].seen.coll]}

\* The new rows get the collection of the copy; the ORM writes the columns that
\* differ from the copy; the foreign key and the UPDATE need the document row.
CommitIndex(w) ==
    LET d == work[w].msg.doc
        seen == work[w].seen
    IN
    /\ work[w].pc = "swapping"
    /\ Exists(d)
    /\ \E b \in Batches :
          /\ FreshBatch(b)
          /\ chunks' = {c \in chunks : c.id \notin work[w].rows}
                       \cup InsertedRows(w, b)
    /\ docs' = [docs EXCEPT ![d].status = IF seen.status = "ready" THEN @ ELSE "ready",
                            ![d].error = IF seen.error THEN FALSE ELSE @]
    /\ stale' = stale \cup {d}
    /\ work' = [work EXCEPT ![w].pc = "bumping", ![w].seen = None, ![w].rows = {}]
    /\ UNCHANGED <<blobs, ledger, queue, req, races>>

Bug_SkipsBump(w) ==
    /\ work[w].pc = "bumping"
    /\ work' = [work EXCEPT ![w] = IdleWorker]
    /\ UNCHANGED <<docs, chunks, blobs, ledger, queue, req, stale, races>>

WorkerBump(w) ==
    /\ work[w].pc = "bumping"
    /\ stale' = {}
    /\ work' = [work EXCEPT ![w] = IdleWorker]
    /\ UNCHANGED <<docs, chunks, blobs, ledger, queue, req, races>>

Fails(w, how) == work' = [work EXCEPT ![w] = [IdleWorker EXCEPT !.pc = how, !.msg = work[w].msg]]

\* A ValueError from the parsers: bad input, not retried.
BadInput(w) ==
    /\ work[w].pc = "embedding"
    /\ Fails(w, "rejected")
    /\ UNCHANGED <<docs, chunks, blobs, ledger, queue, req, stale, races>>

\* Any other exception, before the commit: S3, the embedding provider or
\* Postgres (a deadlock, the row gone).  The transaction rolls back.
IndexError(w) ==
    /\ work[w].pc \in {"started", "embedding", "swapping"}
    /\ Fails(w, "erring")
    /\ UNCHANGED <<docs, chunks, blobs, ledger, queue, req, stale, races>>

\* Redis is down after the commit: the same handler runs, the bump is lost.
BumpError(w) ==
    /\ work[w].pc = "bumping"
    /\ Fails(w, "erring")
    /\ races' = races \cup {<<"lost", work[w].msg.doc>>}
    /\ UNCHANGED <<docs, chunks, blobs, ledger, queue, req, stale>>

Bug_RolledBack(d) == docs
DocsWithFailed(d) ==
    IF Exists(d) THEN [docs EXCEPT ![d].status = "failed", ![d].error = TRUE] ELSE docs

Bug_RetriesForEver(m) == TRUE
MayRetry(m) == m.tries < MaxRetries

\* _mark_document_failed in a new session, then self.retry if any try is left.
MarkFailed(w) ==
    LET m == work[w].msg IN
    /\ work[w].pc \in {"rejected", "erring"}
    /\ docs' = DocsWithFailed(m.doc)
    /\ queue' = IF work[w].pc = "erring" /\ MayRetry(m)
                THEN queue \cup {[m EXCEPT !.tries = @ + 1]}
                ELSE queue
    /\ work' = [work EXCEPT ![w] = IdleWorker]
    /\ UNCHANGED <<chunks, blobs, ledger, req, stale, races>>

WorkerDies(w) ==
    /\ work[w].pc # "idle"
    /\ work' = [work EXCEPT ![w] = IdleWorker]
    /\ races' = races \cup {<<"lost", work[w].msg.doc>>}
    /\ UNCHANGED <<docs, chunks, blobs, ledger, queue, req, stale>>

-----------------------------------------------------------------------------
RequestStep(r) ==
    \/ UploadInsert(r) \/ UploadRecord(r) \/ Enqueue(r)
    \/ DeleteBlob(r) \/ DeleteRow(r) \/ DeleteRecord(r) \/ RequestBump(r)
    \/ MoveCommit(r) \/ MoveFails(r)

RequestStart(r) ==
    \E d \in Docs :
       \/ \E c \in Collections, t \in Tasks : UploadPut(r, d, c, t) \/ IngestUrl(r, d, c, t)
       \/ \E t \in Tasks : Reingest(r, d, t)
       \/ DeleteVectors(r, d)
       \/ \E c \in Collections : MoveLoad(r, d, c)

WorkerStep(w) ==
    \/ LoadSource(w) \/ DeleteOldChunks(w) \/ CommitIndex(w) \/ WorkerBump(w)
    \/ BadInput(w) \/ IndexError(w) \/ BumpError(w) \/ MarkFailed(w)

Take(m) == \E w \in Workers : StartIngest(w, m) \/ DropTask(w, m)

Next ==
    \/ \E r \in Requests : RequestStart(r) \/ RequestStep(r) \/ RequestDies(r)
    \/ \E w \in Workers : WorkerStep(w) \/ WorkerDies(w)
    \/ \E m \in Message : Take(m)

Spec == Init /\ [][Next]_vars

\* A request and a task in progress go on; the broker, a FIFO list, hands every
\* message to some worker in the end.
Fairness ==
    /\ \A r \in Requests : WF_vars(RequestStep(r))
    /\ \A w \in Workers : WF_vars(WorkerStep(w))
    /\ \A m \in Message : SF_vars(Take(m))

FairSpec == Spec /\ Fairness

-----------------------------------------------------------------------------
(* Properties.  `races` names the documents on which the code's promise is *)
(* known to break, each kind marked by the one step that opens the race;   *)
(* a property exempts only the kind that concerns it.                      *)

WorkerState ==
    {s \in [pc : {"idle", "started", "embedding", "swapping", "bumping", "rejected", "erring"},
            msg : Message \cup {None}, seen : Row \cup {None}, rows : SUBSET Batches] :
       /\ s.pc # "idle" => s.msg \in Message
       /\ s.pc \in {"embedding", "swapping"} => s.seen \in Row}

RequestState ==
    {s \in [pc : {"idle", "put", "record", "enqueue", "unindexed", "unstored", "refund",
                  "bump", "moving"},
            doc : Docs \cup {None}, task : Tasks \cup {None},
            coll : Collections \cup {None}, seen : Collections \cup {None}] :
       /\ s.pc # "idle" => s.doc \in Docs
       /\ s.pc \in Enqueuing => s.task \in Tasks
       /\ s.pc \in {"put", "moving"} => s.coll \in Collections}

TypeOK ==
    /\ docs \in [Docs -> Row]
    /\ chunks \subseteq Chunk
    /\ blobs \subseteq FileDocs
    /\ ledger \in [Docs -> Int]
    /\ queue \subseteq Message
    /\ work \in [Workers -> WorkerState]
    /\ req \in [Requests -> RequestState]
    /\ stale \subseteq Docs
    /\ races \subseteq {"lost", "move", "swap", "delete"} \X Docs

\* No chunk outlives its document, whatever a worker does while it is deleted:
\* a deleted document is never found by a search.
NoOrphanChunks == \A c \in chunks : Exists(c.doc)

\* "Swap the document's chunks in one transaction": a document is indexed once,
\* unless two runs overlapped between their DELETE and their commit.
IndexedOnce(d) == Cardinality(RowsOf(d)) <= 1
NeverIndexedTwice == \A d \in Docs : IndexedOnce(d)
SingleGeneration == \A d \in Docs : Race("swap", d) \/ IndexedOnce(d)

\* Chunk.collection_id, which retrieval filters on, agrees with the document's,
\* unless a move committed while a run held an older copy of the row.
FollowsDocument(d) == \A c \in RowsOf(d) : c.coll = docs[d].coll
ChunksAlwaysFollow == \A d \in Docs : FollowsDocument(d)
ChunksFollowDocument == \A d \in Docs : Race("move", d) \/ FollowsDocument(d)

\* A document that claims to be ready has chunks to answer from, unless its
\* deletion is under way or was cut short.
ReadyIsIndexed ==
    \A d \in Docs :
       docs[d].status = "ready" =>
          RowsOf(d) # {} \/ RequestsOn(d, {"unindexed", "unstored"}) # {} \/ Race("lost", d)

\* The file of a listed upload is in S3 until its deletion is under way, and a
\* deleted document leaves none behind.
StoredWhileListed ==
    \A d \in FileDocs :
       /\ Exists(d) => d \in blobs \/ RequestsOn(d, {"unstored"}) # {} \/ Race("lost", d)
       /\ docs[d].status = "deleted" => d \notin blobs

\* The tenant is charged for exactly the files it keeps, counting the two events
\* not yet written, unless a request was lost or two deleted the same document.
LedgerExact ==
    \A d \in FileDocs :
       \/ Race("lost", d) \/ Race("delete", d)
       \/ ledger[d] = (IF Exists(d) THEN 1 ELSE 0) - Cardinality(RequestsOn(d, {"record"}))
                       + Cardinality(RequestsOn(d, {"refund"}))

\* Every change of searchable rows is followed by a version bump: while answers
\* cached before the change can still be served, someone is about to bump.
ChangesGetBumped ==
    \A d \in stale :
       \/ Race("lost", d)
       \/ WorkersOn(d, {"bumping"}) # {}
       \/ RequestsOn(d, {"unindexed", "unstored", "refund", "bump"}) # {}

\* What a user is promised about a document, see DocumentLibrary.
Library == INSTANCE DocumentLibrary WITH
    listed <- {d \in Docs : Exists(d)},
    searchable <- {c.doc : c \in chunks},
    gone <- {d \in Docs : docs[d].status = "deleted"},
    removing <- [r \in Requests |-> IF req[r].pc \in {"unindexed", "unstored"}
                                    THEN req[r].doc ELSE None]
LibrarySpec == Library!Spec

\* The inductive invariant behind the proofs of IngestionProofs.
UniqueIds == \A c, k \in chunks : c.id = k.id => c = k
SwapsOwnRows ==
    \A w \in Workers, c \in chunks :
       work[w].pc = "swapping" /\ c.id \in work[w].rows => c.doc = work[w].msg.doc
NewUploads ==
    \A r \in Requests :
       /\ req[r].pc = "put" => docs[req[r].doc].status = "none" /\ req[r].doc \in blobs
       /\ req[r].pc \in {"unindexed", "unstored"} => docs[req[r].doc].status # "none"
       /\ \A s \in Requests \ {r} :
             req[r].pc = "put" /\ req[s].pc = "put" => req[r].doc # req[s].doc
SnapshotsCurrent ==
    \A d \in Docs, w \in Workers :
       w \in Snapshots(d) =>
          /\ docs[d].status # "none"
          /\ Race("move", d) \/ ~Exists(d) \/ work[w].seen.coll = docs[d].coll
IInv ==
    /\ TypeOK /\ NoOrphanChunks /\ ChunksFollowDocument
    /\ UniqueIds /\ SwapsOwnRows /\ NewUploads /\ SnapshotsCurrent

\* An upload, URL ingest or reingest ends: the status page does not show
\* "pending" or "processing" for ever, unless a process died on the way.
Settles ==
    \A d \in Docs :
       docs[d].status \in {"pending", "processing"} ~>
          docs[d].status \in {"ready", "failed", "deleted"} \/ Race("lost", d)
=============================================================================
