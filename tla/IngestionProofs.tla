-------------------------- MODULE IngestionProofs --------------------------
(***************************************************************************)
(* Safety of Ingestion for every number of documents, workers, requests,   *)
(* collections, messages and chunk batches.  First types, no orphan        *)
(* chunks, no drift of the chunks' collection outside a marked race, and   *)
(* the refinement of DocumentLibrary.  Then what a document's owner relies *)
(* on: a ready document has rows, rows come from one indexing run, changed *)
(* rows are followed by a version bump, a listed file is stored, and the   *)
(* tenant pays for the files it keeps, each outside the races its          *)
(* definition names.                                                       *)
(***************************************************************************)
EXTENDS Ingestion, FiniteSetTheorems, TLAPS

-----------------------------------------------------------------------------
(* Type correctness: a lemma per process.                                  *)

LEMMA InitType == Init => TypeOK
<1>. SUFFICES ASSUME Init PROVE TypeOK
  OBVIOUS
<1>1. docs \in [Docs -> Row]
  BY IngestionAssumption DEF Init, NoRow, Row, Live
<1>2. work \in [Workers -> WorkerState]
  BY DEF Init, IdleWorker, WorkerState
<1>3. req \in [Requests -> RequestState]
  BY DEF Init, IdleRequest, RequestState, Enqueuing
<1>. QED
  BY <1>1, <1>2, <1>3 DEF Init, TypeOK

LEMMA RequestStartType ==
    ASSUME TypeOK, NEW r \in Requests, RequestStart(r)
    PROVE  TypeOK'
<1>1. ASSUME NEW d \in Docs, NEW c \in Collections, NEW t \in Tasks, UploadPut(r, d, c, t)
      PROVE  TypeOK'
  <2>1. [pc |-> "put", doc |-> d, task |-> t, coll |-> c, seen |-> None] \in RequestState
    BY DEF RequestState, Enqueuing
  <2>2. req' \in [Requests -> RequestState]
    BY <1>1, <2>1 DEF TypeOK, UploadPut
  <2>. QED
    BY <1>1, <2>2 DEF TypeOK, UploadPut
<1>2. ASSUME NEW d \in Docs, NEW c \in Collections, NEW t \in Tasks, IngestUrl(r, d, c, t)
      PROVE  TypeOK'
  <2>1. [pc |-> "enqueue", doc |-> d, task |-> t, coll |-> c, seen |-> None] \in RequestState
    BY DEF RequestState, Enqueuing
  <2>2. req' \in [Requests -> RequestState]
    BY <1>2, <2>1 DEF TypeOK, IngestUrl
  <2>3. docs' \in [Docs -> Row]
    BY <1>2 DEF TypeOK, IngestUrl, Row, Live
  <2>. QED
    BY <1>2, <2>2, <2>3 DEF TypeOK, IngestUrl
<1>3. ASSUME NEW d \in Docs, NEW t \in Tasks, Reingest(r, d, t)
      PROVE  TypeOK'
  <2>1. [IdleRequest EXCEPT !.pc = "enqueue", !.doc = d, !.task = t] \in RequestState
    BY DEF RequestState, Enqueuing, IdleRequest
  <2>2. req' \in [Requests -> RequestState]
    BY <1>3, <2>1 DEF TypeOK, Reingest
  <2>3. docs' \in [Docs -> Row]
    BY <1>3 DEF TypeOK, Reingest, Row, Live
  <2>. QED
    BY <1>3, <2>2, <2>3 DEF TypeOK, Reingest
<1>4. ASSUME NEW d \in Docs, DeleteVectors(r, d)
      PROVE  TypeOK'
  <2>1. [IdleRequest EXCEPT !.pc = "unindexed", !.doc = d] \in RequestState
    BY DEF RequestState, Enqueuing, IdleRequest
  <2>2. req' \in [Requests -> RequestState]
    BY <1>4, <2>1 DEF TypeOK, DeleteVectors
  <2>. QED
    BY <1>4, <2>2 DEF TypeOK, DeleteVectors
<1>5. ASSUME NEW d \in Docs, NEW c \in Collections, MoveLoad(r, d, c)
      PROVE  TypeOK'
  <2>1. [pc |-> "moving", doc |-> d, task |-> None, coll |-> c, seen |-> docs[d].coll]
           \in RequestState
    BY DEF RequestState, Enqueuing, TypeOK, Row
  <2>2. req' \in [Requests -> RequestState]
    BY <1>5, <2>1 DEF TypeOK, MoveLoad
  <2>. QED
    BY <1>5, <2>2 DEF TypeOK, MoveLoad
<1>. QED
  BY <1>1, <1>2, <1>3, <1>4, <1>5 DEF RequestStart

\* A request that only moves on to its next step keeps its state well typed.
LEMMA RequestMovesOn ==
    ASSUME TypeOK, NEW r \in Requests, req[r].pc # "idle",
           NEW pc \in {"refund", "unstored", "bump"}
    PROVE  [req EXCEPT ![r].pc = pc] \in [Requests -> RequestState]
<1>1. [req[r] EXCEPT !.pc = pc] \in RequestState
  BY DEF TypeOK, RequestState, Enqueuing
<1>. QED
  BY <1>1 DEF TypeOK

LEMMA RequestEnds ==
    ASSUME TypeOK, NEW r \in Requests
    PROVE  [req EXCEPT ![r] = IdleRequest] \in [Requests -> RequestState]
BY DEF TypeOK, RequestState, Enqueuing, IdleRequest

LEMMA RequestStepType ==
    ASSUME TypeOK, NEW r \in Requests, RequestStep(r) \/ RequestDies(r)
    PROVE  TypeOK'
<1>1. CASE UploadInsert(r)
  <2>1. [req[r] EXCEPT !.pc = "record"] \in RequestState
    BY <1>1 DEF UploadInsert, TypeOK, RequestState, Enqueuing
  <2>2. req' \in [Requests -> RequestState]
    BY <1>1, <2>1 DEF UploadInsert, TypeOK
  <2>3. docs' \in [Docs -> Row]
    BY <1>1 DEF UploadInsert, TypeOK, RequestState, Row, Live
  <2>. QED
    BY <1>1, <2>2, <2>3 DEF UploadInsert, TypeOK
<1>2. CASE UploadRecord(r)
  <2>1. [req[r] EXCEPT !.pc = "enqueue"] \in RequestState
    BY <1>2 DEF UploadRecord, TypeOK, RequestState, Enqueuing
  <2>2. req' \in [Requests -> RequestState]
    BY <1>2, <2>1 DEF UploadRecord, TypeOK
  <2>3. ledger' \in [Docs -> Int]
    BY <1>2 DEF UploadRecord, TypeOK, RequestState
  <2>. QED
    BY <1>2, <2>2, <2>3 DEF UploadRecord, TypeOK
<1>3. CASE Enqueue(r)
  <2>1. [id |-> req[r].task, doc |-> req[r].doc, tries |-> 0] \in Message
    BY <1>3, IngestionAssumption DEF Enqueue, TypeOK, RequestState, Enqueuing, Message
  <2>. QED
    BY <1>3, <2>1, RequestEnds DEF Enqueue, TypeOK
<1>4. CASE DeleteBlob(r)
  BY <1>4, RequestMovesOn DEF DeleteBlob, TypeOK
<1>5. CASE DeleteRow(r)
  <2>1. req[r].doc \in Docs
    BY <1>5 DEF DeleteRow, TypeOK, RequestState
  <2>2. docs' \in [Docs -> Row]
    BY <1>5, <2>1, IngestionAssumption DEF DeleteRow, TypeOK, NoRow, Row, Live
  <2>3. races' \subseteq {"lost", "move", "swap", "delete"} \X Docs
    BY <1>5, <2>1 DEF DeleteRow, TypeOK
  <2>. QED
    BY <1>5, <2>1, <2>2, <2>3, RequestMovesOn DEF DeleteRow, TypeOK
<1>6. CASE DeleteRecord(r)
  <2>1. ledger' \in [Docs -> Int]
    BY <1>6 DEF DeleteRecord, Refund, TypeOK, RequestState
  <2>. QED
    BY <1>6, <2>1, RequestMovesOn DEF DeleteRecord, TypeOK
<1>7. CASE RequestBump(r)
  BY <1>7, RequestEnds DEF RequestBump, TypeOK
<1>8. CASE MoveCommit(r)
  <2>1. req[r].doc \in Docs /\ req[r].coll \in Collections
    BY <1>8 DEF MoveCommit, TypeOK, RequestState
  <2>2. docs' \in [Docs -> Row]
    BY <1>8, <2>1 DEF MoveCommit, TypeOK, Row
  <2>3. chunks' \subseteq Chunk
    BY <1>8, <2>1 DEF MoveCommit, MovedRows, RowsOf, TypeOK, Chunk
  <2>4. races' \subseteq {"lost", "move", "swap", "delete"} \X Docs
    BY <1>8, <2>1 DEF MoveCommit, TypeOK
  <2>. QED
    BY <1>8, <2>1, <2>2, <2>3, <2>4, RequestMovesOn DEF MoveCommit, TypeOK
<1>9. CASE MoveFails(r)
  BY <1>9, RequestEnds DEF MoveFails, TypeOK
<1>10. CASE RequestDies(r)
  <2>1. req[r].doc \in Docs
    BY <1>10 DEF RequestDies, TypeOK, RequestState
  <2>. QED
    BY <1>10, <2>1, RequestEnds DEF RequestDies, TypeOK
<1>. QED
  BY <1>1, <1>2, <1>3, <1>4, <1>5, <1>6, <1>7, <1>8, <1>9, <1>10 DEF RequestStep

LEMMA WorkerEnds ==
    ASSUME TypeOK, NEW w \in Workers
    PROVE  [work EXCEPT ![w] = IdleWorker] \in [Workers -> WorkerState]
BY DEF TypeOK, WorkerState, IdleWorker

LEMMA WorkerFails ==
    ASSUME TypeOK, NEW w \in Workers, work[w].pc # "idle",
           NEW how \in {"rejected", "erring"}, Fails(w, how)
    PROVE  work' \in [Workers -> WorkerState]
<1>1. [IdleWorker EXCEPT !.pc = how, !.msg = work[w].msg] \in WorkerState
  BY DEF TypeOK, WorkerState, IdleWorker
<1>. QED
  BY <1>1 DEF TypeOK, Fails

LEMMA TakeType ==
    ASSUME TypeOK, NEW m \in Message, Take(m)
    PROVE  TypeOK'
<1>1. ASSUME NEW w \in Workers, StartIngest(w, m)
      PROVE  TypeOK'
  <2>1. [IdleWorker EXCEPT !.pc = "started", !.msg = m] \in WorkerState
    BY DEF WorkerState, IdleWorker
  <2>2. work' \in [Workers -> WorkerState]
    BY <1>1, <2>1 DEF StartIngest, TypeOK
  <2>3. docs' \in [Docs -> Row]
    BY <1>1 DEF StartIngest, TypeOK, Message, Row, Live
  <2>. QED
    BY <1>1, <2>2, <2>3 DEF StartIngest, TypeOK
<1>2. ASSUME NEW w \in Workers, DropTask(w, m)
      PROVE  TypeOK'
  BY <1>2 DEF DropTask, TypeOK
<1>. QED
  BY <1>1, <1>2 DEF Take

LEMMA WorkerStepType ==
    ASSUME TypeOK, NEW w \in Workers, WorkerStep(w) \/ WorkerDies(w)
    PROVE  TypeOK'
<1>0. work[w].pc # "idle" => work[w].msg \in Message /\ work[w].msg.doc \in Docs
  BY DEF TypeOK, WorkerState, Message
<1>1. CASE LoadSource(w)
  <2>1. [work[w] EXCEPT !.pc = "embedding", !.seen = docs[work[w].msg.doc]] \in WorkerState
    BY <1>1 DEF WorkerState, LoadSource, TypeOK, Message
  <2>2. work' \in [Workers -> WorkerState]
    BY <1>1, <2>1 DEF TypeOK, LoadSource
  <2>. QED
    BY <1>1, <2>2 DEF LoadSource, TypeOK
<1>2. CASE DeleteOldChunks(w)
  <2>1. Ids(RowsOf(work[w].msg.doc)) \subseteq Batches
    BY DEF Ids, RowsOf, TypeOK, Chunk
  <2>2. [work[w] EXCEPT !.pc = "swapping", !.rows = Ids(RowsOf(work[w].msg.doc))] \in WorkerState
    BY <1>2, <2>1 DEF DeleteOldChunks, WorkerState, TypeOK
  <2>3. work' \in [Workers -> WorkerState]
    BY <1>2, <2>2 DEF DeleteOldChunks, ReplacedRows, TypeOK
  <2>4. races' \subseteq {"lost", "move", "swap", "delete"} \X Docs
    BY <1>0, <1>2 DEF DeleteOldChunks, TypeOK
  <2>. QED
    BY <1>2, <2>3, <2>4 DEF DeleteOldChunks, TypeOK
<1>3. CASE CommitIndex(w)
  <2>0. work[w].msg.doc \in Docs /\ work[w].seen \in Row
    BY <1>0, <1>3 DEF CommitIndex, TypeOK, WorkerState
  <2>1. [work[w] EXCEPT !.pc = "bumping", !.seen = None, !.rows = {}] \in WorkerState
    BY <1>3 DEF CommitIndex, WorkerState, TypeOK
  <2>2. work' \in [Workers -> WorkerState]
    BY <1>3, <2>1 DEF CommitIndex, TypeOK
  <2>3. docs' \in [Docs -> Row]
    BY <1>3, <2>0 DEF CommitIndex, TypeOK, Row, Live
  <2>4. chunks' \subseteq Chunk
    BY <1>3, <2>0 DEF CommitIndex, InsertedRows, TypeOK, Row, Chunk
  <2>. QED
    BY <1>3, <2>0, <2>2, <2>3, <2>4 DEF CommitIndex, TypeOK
<1>4. CASE WorkerBump(w)
  BY <1>4, WorkerEnds DEF WorkerBump, TypeOK
<1>5. CASE BadInput(w)
  BY <1>5, WorkerFails DEF BadInput, TypeOK
<1>6. CASE IndexError(w)
  BY <1>6, WorkerFails DEF IndexError, TypeOK
<1>7. CASE BumpError(w)
  BY <1>0, <1>7, WorkerFails DEF BumpError, TypeOK
<1>8. CASE MarkFailed(w)
  <2>1. docs' \in [Docs -> Row]
    BY ZenonT(40), <1>8 DEF MarkFailed, DocsWithFailed, TypeOK, Row, Live
  <2>2. queue' \subseteq Message
    BY <1>0, <1>8, IngestionAssumption DEF MarkFailed, MayRetry, TypeOK, Message
  <2>. QED
    BY <1>8, <2>1, <2>2, WorkerEnds DEF MarkFailed, TypeOK
<1>9. CASE WorkerDies(w)
  BY <1>0, <1>9, WorkerEnds DEF WorkerDies, TypeOK
<1>. QED
  BY <1>1, <1>2, <1>3, <1>4, <1>5, <1>6, <1>7, <1>8, <1>9 DEF WorkerStep

LEMMA NextType == TypeOK /\ [Next]_vars => TypeOK'
<1>1. CASE UNCHANGED vars
  BY <1>1 DEF vars, TypeOK
<1>2. CASE Next
  BY <1>2, RequestStartType, RequestStepType, TakeType, WorkerStepType DEF Next
<1>. QED
  BY <1>1, <1>2

\* Every variable keeps its type: a task never exceeds its retries, a worker
\* that is embedding or swapping holds a copy of a row.
THEOREM TypeCorrect == Spec => []TypeOK
BY InitType, NextType, PTL DEF Spec

-----------------------------------------------------------------------------
(* No orphan chunks.  What each step does to the two tables, seen from one *)
(* document: rows appear only for a live document, and the step that ends  *)
(* a document removes its rows.                                            *)

LEMMA NextOrphan == TypeOK /\ NoOrphanChunks /\ [Next]_vars => NoOrphanChunks'
<1>. SUFFICES ASSUME TypeOK, NoOrphanChunks, [Next]_vars
              PROVE  NoOrphanChunks'
  OBVIOUS
<1>1. CASE UNCHANGED vars
  BY <1>1 DEF vars, NoOrphanChunks, Exists
<1>2. ASSUME NEW r \in Requests, RequestStart(r)
      PROVE  NoOrphanChunks'
  <2>1. ASSUME NEW d \in Docs, NEW c \in Collections, NEW t \in Tasks, IngestUrl(r, d, c, t)
        PROVE  NoOrphanChunks'
    BY <2>1 DEF IngestUrl, NoOrphanChunks, Exists, Live, TypeOK, Chunk, Row
  <2>2. ASSUME NEW d \in Docs, NEW t \in Tasks, Reingest(r, d, t)
        PROVE  NoOrphanChunks'
    BY <2>2 DEF Reingest, NoOrphanChunks, Exists, Live, TypeOK, Chunk, Row
  <2>3. ASSUME NEW d \in Docs, DeleteVectors(r, d)
        PROVE  NoOrphanChunks'
    BY <2>3 DEF DeleteVectors, NoOrphanChunks, Exists, TypeOK
  <2>4. CASE UNCHANGED <<docs, chunks>>
    BY <2>4 DEF NoOrphanChunks, Exists
  <2>. QED
    BY <1>2, <2>1, <2>2, <2>3, <2>4 DEF RequestStart, UploadPut, MoveLoad
<1>3. ASSUME NEW r \in Requests, RequestStep(r) \/ RequestDies(r)
      PROVE  NoOrphanChunks'
  <2>1. CASE UploadInsert(r)
    BY <2>1 DEF UploadInsert, NoOrphanChunks, Exists, Live, TypeOK, Chunk, Row
  <2>2. CASE DeleteRow(r)
    BY <2>2 DEF DeleteRow, Cascade, NoOrphanChunks, Exists, RowsOf, TypeOK, Chunk, Row
  <2>3. CASE MoveCommit(r)
    <3>1. \A e \in Docs : docs'[e].status = docs[e].status
      BY <2>3 DEF MoveCommit, TypeOK, Row
    <3>2. \A k \in chunks' : \E j \in chunks : k.doc = j.doc
      BY <2>3 DEF MoveCommit, MovedRows, RowsOf, TypeOK, Chunk
    <3>. QED
      BY <3>1, <3>2 DEF NoOrphanChunks, Exists, TypeOK, Chunk
  <2>4. CASE UNCHANGED <<docs, chunks>>
    BY <2>4 DEF NoOrphanChunks, Exists
  <2>. QED
    BY <1>3, <2>1, <2>2, <2>3, <2>4
    DEF RequestStep, RequestDies, UploadRecord, Enqueue, DeleteBlob, DeleteRecord,
        RequestBump, MoveFails
<1>4. ASSUME NEW m \in Message, Take(m)
      PROVE  NoOrphanChunks'
  BY <1>4 DEF Take, StartIngest, DropTask, NoOrphanChunks, Exists, Live, TypeOK, Chunk, Row, Message
<1>5. ASSUME NEW w \in Workers, WorkerStep(w) \/ WorkerDies(w)
      PROVE  NoOrphanChunks'
  <2>1. CASE CommitIndex(w)
    <3>0. work[w].msg.doc \in Docs
      BY <2>1 DEF CommitIndex, TypeOK, WorkerState, Message
    <3>1. \A k \in chunks' : k \in chunks \/ k.doc = work[w].msg.doc
      BY <2>1 DEF CommitIndex, InsertedRows
    <3>2. \A e \in Docs : Exists(e) => Exists(e)'
      BY <2>1, <3>0 DEF CommitIndex, Exists, Live, TypeOK, Row
    <3>. QED
      BY <2>1, <3>0, <3>1, <3>2 DEF CommitIndex, NoOrphanChunks, TypeOK, Chunk
  <2>2. CASE MarkFailed(w)
    BY <2>2 DEF MarkFailed, DocsWithFailed, NoOrphanChunks, Exists, Live, TypeOK, Chunk, Row
  <2>3. CASE UNCHANGED <<docs, chunks>>
    BY <2>3 DEF NoOrphanChunks, Exists
  <2>. QED
    BY <1>5, <2>1, <2>2, <2>3
    DEF WorkerStep, WorkerDies, LoadSource, DeleteOldChunks, WorkerBump, BadInput,
        IndexError, BumpError
<1>. QED
  BY <1>1, <1>2, <1>3, <1>4, <1>5 DEF Next

\* Whatever workers do while a document is deleted, no chunk of it survives.
THEOREM NoOrphans == Spec => []NoOrphanChunks
<1>1. Init => NoOrphanChunks
  BY DEF Init, NoOrphanChunks
<1>. QED
  BY <1>1, NextOrphan, TypeCorrect, PTL DEF Spec

-----------------------------------------------------------------------------
(* The inductive invariant IInv, one lemma for each conjunct.              *)

\* Who changes what.
LEMMA RequestFrame ==
    ASSUME NEW r \in Requests, RequestStart(r) \/ RequestStep(r) \/ RequestDies(r)
    PROVE  work' = work /\ (chunks' \subseteq chunks \/ MoveCommit(r))
<1>1. CASE RequestStart(r)
  BY <1>1 DEF RequestStart, UploadPut, IngestUrl, Reingest, DeleteVectors, MoveLoad
<1>2. CASE RequestStep(r)
  BY <1>2 DEF RequestStep, UploadInsert, UploadRecord, Enqueue, DeleteBlob, DeleteRow,
              DeleteRecord, RequestBump, MoveFails, MoveCommit
<1>3. CASE RequestDies(r)
  BY <1>3 DEF RequestDies
<1>. QED
  BY <1>1, <1>2, <1>3

LEMMA WorkerFrame ==
    ASSUME NEW w \in Workers,
           WorkerStep(w) \/ WorkerDies(w) \/ \E m \in Message : StartIngest(w, m) \/ DropTask(w, m)
    PROVE  req' = req /\ (chunks' = chunks \/ CommitIndex(w))
<1>1. CASE WorkerStep(w)
  BY <1>1 DEF WorkerStep, LoadSource, DeleteOldChunks, CommitIndex, WorkerBump, BadInput,
              IndexError, BumpError, MarkFailed
<1>2. CASE ~WorkerStep(w)
  BY <1>2 DEF WorkerDies, StartIngest, DropTask
<1>. QED
  BY <1>1, <1>2

\* Chunk ids only disappear, except for the fresh one of a commit.
LEMMA NextUniqueIds == TypeOK /\ UniqueIds /\ [Next]_vars => UniqueIds'
<1>. SUFFICES ASSUME TypeOK, UniqueIds, [Next]_vars
              PROVE  UniqueIds'
  OBVIOUS
<1>1. CASE chunks' \subseteq chunks
  BY <1>1 DEF UniqueIds
<1>2. ASSUME NEW r \in Requests, MoveCommit(r)
      PROVE  UniqueIds'
  BY <1>2 DEF MoveCommit, MovedRows, RowsOf, UniqueIds, TypeOK, Chunk
<1>3. ASSUME NEW w \in Workers, CommitIndex(w)
      PROVE  UniqueIds'
  BY <1>3 DEF CommitIndex, InsertedRows, FreshBatch, Ids, UniqueIds
<1>. QED
  BY <1>1, <1>2, <1>3, RequestFrame, WorkerFrame DEF Next, vars, Take

LEMMA NextSwapsOwnRows ==
    TypeOK /\ UniqueIds /\ SwapsOwnRows /\ [Next]_vars => SwapsOwnRows'
<1>. SUFFICES ASSUME TypeOK, UniqueIds, SwapsOwnRows, [Next]_vars
              PROVE  SwapsOwnRows'
  OBVIOUS
<1>1. CASE chunks' \subseteq chunks /\ work' = work
  BY <1>1 DEF SwapsOwnRows
<1>2. ASSUME NEW r \in Requests, MoveCommit(r)
      PROVE  SwapsOwnRows'
  <2>1. \A k \in chunks' : \E j \in chunks : k.doc = j.doc /\ k.id = j.id
    BY <1>2 DEF MoveCommit, MovedRows, RowsOf, TypeOK, Chunk
  <2>. QED
    BY <1>2, <2>1 DEF MoveCommit, SwapsOwnRows
<1>3. ASSUME NEW w \in Workers, CommitIndex(w)
      PROVE  SwapsOwnRows'
  <2>1. ASSUME NEW v \in Workers, NEW c \in chunks', work'[v].pc = "swapping",
               c.id \in work'[v].rows
        PROVE  c.doc = work'[v].msg.doc
    <3>1. v # w /\ work'[v] = work[v]
      BY <1>3, <2>1 DEF CommitIndex, TypeOK, WorkerState
    <3>2. c \in chunks
      BY <1>3, <2>1, <3>1 DEF CommitIndex, InsertedRows, FreshBatch
    <3>. QED
      BY <2>1, <3>1, <3>2 DEF SwapsOwnRows
  <2>. QED
    BY <2>1 DEF SwapsOwnRows
<1>4. ASSUME NEW w \in Workers, DeleteOldChunks(w)
      PROVE  SwapsOwnRows'
  <2>1. ASSUME NEW v \in Workers, NEW c \in chunks, work'[v].pc = "swapping",
               c.id \in work'[v].rows
        PROVE  c.doc = work'[v].msg.doc
    <3>1. CASE v = w
      <4>1. work'[w].rows = Ids(RowsOf(work[w].msg.doc)) /\ work'[w].msg = work[w].msg
        BY <1>4 DEF DeleteOldChunks, ReplacedRows, TypeOK, WorkerState
      <4>. QED
        BY <2>1, <3>1, <4>1 DEF Ids, RowsOf, UniqueIds
    <3>2. CASE v # w
      BY <1>4, <2>1, <3>2 DEF DeleteOldChunks, SwapsOwnRows, TypeOK
    <3>. QED
      BY <3>1, <3>2
  <2>. QED
    BY <1>4, <2>1 DEF DeleteOldChunks, SwapsOwnRows
<1>5. ASSUME NEW w \in Workers, NEW s, s.pc # "swapping", chunks' = chunks,
             work' = [work EXCEPT ![w] = s]
      PROVE  SwapsOwnRows'
  BY <1>5 DEF SwapsOwnRows, TypeOK
<1>6. ASSUME NEW w \in Workers,
             WorkerStep(w) \/ WorkerDies(w) \/ \E m \in Message : StartIngest(w, m) \/ DropTask(w, m)
      PROVE  SwapsOwnRows'
  <2>1. CASE LoadSource(w)
    <3>1. [work[w] EXCEPT !.pc = "embedding", !.seen = docs[work[w].msg.doc]].pc # "swapping"
      BY DEF TypeOK, WorkerState
    <3>. QED
      BY <1>5, <2>1, <3>1 DEF LoadSource
  <2>2. ASSUME WorkerBump(w) \/ MarkFailed(w) \/ WorkerDies(w)
        PROVE  SwapsOwnRows'
    BY <1>5, <2>2 DEF WorkerBump, MarkFailed, WorkerDies, IdleWorker
  <2>3. ASSUME NEW how \in {"rejected", "erring"}, Fails(w, how), chunks' = chunks
        PROVE  SwapsOwnRows'
    BY <1>5, <2>3 DEF Fails, IdleWorker
  <2>4. ASSUME NEW m \in Message, StartIngest(w, m)
        PROVE  SwapsOwnRows'
    BY <1>5, <2>4 DEF StartIngest, IdleWorker
  <2>5. ASSUME NEW m \in Message, DropTask(w, m)
        PROVE  SwapsOwnRows'
    BY <1>1, <2>5 DEF DropTask
  <2>. QED
    BY <1>3, <1>4, <1>6, <2>1, <2>2, <2>3, <2>4, <2>5
    DEF WorkerStep, BadInput, IndexError, BumpError
<1>. QED
  BY <1>1, <1>2, <1>6, RequestFrame DEF Next, vars, Take

\* What a step can do to the row of a document: it is created from nothing, or
\* it stays, or it ends; the blob of a document not yet created stays.
LEMMA WorkerRow ==
    ASSUME TypeOK, NEW w \in Workers, NEW d \in Docs,
           WorkerStep(w) \/ WorkerDies(w) \/ \E m \in Message : StartIngest(w, m) \/ DropTask(w, m)
    PROVE  /\ docs'[d].coll = docs[d].coll
           /\ Exists(d) <=> Exists(d)'
           /\ ~Exists(d) => docs'[d] = docs[d]
           /\ blobs' = blobs
           /\ Race("move", d) <=> Race("move", d)'
<1>1. CASE CommitIndex(w)
  <2>1. work[w].msg.doc \in Docs
    BY <1>1 DEF CommitIndex, TypeOK, WorkerState, Message
  <2>2. CASE work[w].msg.doc = d
    <3>1. docs \in [Docs -> Row] /\ docs[d] \in Row
      BY DEF TypeOK
    <3>2. docs[d].status \in Live
      BY <1>1, <2>2 DEF CommitIndex, Exists
    <3>3. docs'[d].coll = docs[d].coll /\ docs'[d].status \in {docs[d].status, "ready"}
      BY SMTT(30), <1>1, <2>2, <3>1 DEF CommitIndex, Row
    <3>. QED
      BY <1>1, <3>2, <3>3 DEF CommitIndex, Exists, Live, Race
  <2>3. CASE work[w].msg.doc # d
    <3>1. docs'[d] = docs[d]
      BY <1>1, <2>3 DEF CommitIndex, TypeOK
    <3>. QED
      BY <1>1, <3>1 DEF CommitIndex, Exists, Race
  <2>. QED
    BY <2>2, <2>3
<1>2. CASE MarkFailed(w)
  BY <1>2 DEF MarkFailed, DocsWithFailed, Exists, Live, TypeOK, Row, Race
<1>3. ASSUME NEW m \in Message, StartIngest(w, m)
      PROVE  /\ docs'[d].coll = docs[d].coll
             /\ Exists(d) <=> Exists(d)'
             /\ ~Exists(d) => docs'[d] = docs[d]
             /\ blobs' = blobs
             /\ Race("move", d) <=> Race("move", d)'
  BY <1>3 DEF StartIngest, Exists, Live, TypeOK, Row, Race
<1>4. ASSUME docs' = docs, blobs' = blobs,
             races' = races \/ \E k \in {"lost", "swap"}, e \in Docs : races' = races \cup {<<k, e>>}
      PROVE  /\ docs'[d].coll = docs[d].coll
             /\ Exists(d) <=> Exists(d)'
             /\ ~Exists(d) => docs'[d] = docs[d]
             /\ blobs' = blobs
             /\ Race("move", d) <=> Race("move", d)'
  BY <1>4 DEF Exists, Race
<1>5. CASE LoadSource(w) \/ WorkerBump(w) \/ BadInput(w) \/ IndexError(w)
  BY <1>4, <1>5 DEF LoadSource, WorkerBump, BadInput, IndexError
<1>6. CASE DeleteOldChunks(w) \/ BumpError(w) \/ WorkerDies(w)
  <2>1. work[w].msg.doc \in Docs
    BY <1>6 DEF DeleteOldChunks, BumpError, WorkerDies, TypeOK, WorkerState, Message
  <2>. QED
    BY <1>4, <1>6, <2>1 DEF DeleteOldChunks, BumpError, WorkerDies
<1>7. ASSUME NEW m \in Message, DropTask(w, m)
      PROVE  /\ docs'[d].coll = docs[d].coll
             /\ Exists(d) <=> Exists(d)'
             /\ ~Exists(d) => docs'[d] = docs[d]
             /\ blobs' = blobs
             /\ Race("move", d) <=> Race("move", d)'
  BY <1>4, <1>7 DEF DropTask
<1>. QED
  BY <1>1, <1>2, <1>3, <1>5, <1>6, <1>7 DEF WorkerStep

LEMMA NextNewUploads == TypeOK /\ NewUploads /\ [Next]_vars => NewUploads'
<1>. SUFFICES ASSUME TypeOK, NewUploads, [Next]_vars
              PROVE  NewUploads'
  OBVIOUS
<1>1. CASE UNCHANGED vars
  BY <1>1 DEF vars, NewUploads
<1>2. ASSUME NEW w \in Workers,
             WorkerStep(w) \/ WorkerDies(w) \/ \E m \in Message : StartIngest(w, m) \/ DropTask(w, m)
      PROVE  NewUploads'
  <2>1. \A d \in Docs : (docs[d].status = "none") <=> (docs'[d].status = "none")
    BY <1>2, WorkerRow DEF Exists, Live
  <2>2. blobs' = blobs /\ req' = req
    <3>1. work[w].pc # "idle" => work[w].msg.doc \in Docs
      BY DEF TypeOK, WorkerState, Message
    <3>. QED
      BY <1>2, WorkerFrame
      DEF WorkerStep, WorkerDies, StartIngest, DropTask, LoadSource, DeleteOldChunks, CommitIndex,
          WorkerBump, BadInput, IndexError, BumpError, MarkFailed
  <2>. QED
    BY <2>1, <2>2 DEF NewUploads, TypeOK, RequestState
<1>3. ASSUME NEW r \in Requests, RequestStart(r)
      PROVE  NewUploads'
  <2>1. ASSUME NEW d \in Docs, NEW c \in Collections, NEW t \in Tasks, UploadPut(r, d, c, t)
        PROVE  NewUploads'
    BY <2>1 DEF UploadPut, NewUploads, TypeOK, RequestState
  <2>2. ASSUME NEW d \in Docs, NEW c \in Collections, NEW t \in Tasks, IngestUrl(r, d, c, t)
        PROVE  NewUploads'
    BY <2>2 DEF IngestUrl, NewUploads, TypeOK, RequestState, Row
  <2>3. ASSUME NEW d \in Docs, NEW t \in Tasks, Reingest(r, d, t)
        PROVE  NewUploads'
    BY <2>3 DEF Reingest, IdleRequest, NewUploads, Exists, Live, TypeOK, RequestState, Row
  <2>4. ASSUME NEW d \in Docs, DeleteVectors(r, d)
        PROVE  NewUploads'
    BY <2>4 DEF DeleteVectors, IdleRequest, NewUploads, Exists, Live, TypeOK, RequestState
  <2>5. ASSUME NEW d \in Docs, NEW c \in Collections, MoveLoad(r, d, c)
        PROVE  NewUploads'
    BY <2>5 DEF MoveLoad, NewUploads, TypeOK, RequestState
  <2>. QED
    BY <1>3, <2>1, <2>2, <2>3, <2>4, <2>5 DEF RequestStart
<1>4. ASSUME NEW r \in Requests, RequestStep(r) \/ RequestDies(r)
      PROVE  NewUploads'
  <2>1. CASE UploadInsert(r)
    BY <2>1 DEF UploadInsert, NewUploads, TypeOK, RequestState, Row
  <2>2. CASE DeleteBlob(r)
    BY <2>2 DEF DeleteBlob, NewUploads, TypeOK, RequestState
  <2>3. CASE DeleteRow(r)
    BY <2>3 DEF DeleteRow, NoRow, NewUploads, TypeOK, RequestState, Row
  <2>4. CASE MoveCommit(r)
    BY <2>4 DEF MoveCommit, NewUploads, TypeOK, RequestState, Row
  <2>5. CASE UploadRecord(r) \/ DeleteRecord(r)
    BY <2>5 DEF UploadRecord, DeleteRecord, NewUploads, TypeOK, RequestState
  <2>6. CASE Enqueue(r) \/ RequestBump(r) \/ MoveFails(r) \/ RequestDies(r)
    BY <2>6 DEF Enqueue, RequestBump, MoveFails, RequestDies, IdleRequest, NewUploads,
                TypeOK, RequestState
  <2>. QED
    BY <1>4, <2>1, <2>2, <2>3, <2>4, <2>5, <2>6 DEF RequestStep
<1>. QED
  BY <1>1, <1>2, <1>3, <1>4 DEF Next, Take

LEMMA HistoryGrows == [Next]_vars => races \subseteq races'
<1>. SUFFICES ASSUME [Next]_vars PROVE races \subseteq races'
  OBVIOUS
<1>1. ASSUME NEW r \in Requests, RequestStart(r)
      PROVE  races' = races
  BY ZenonT(40), <1>1 DEF RequestStart, UploadPut, IngestUrl, Reingest, DeleteVectors, MoveLoad
<1>2. ASSUME NEW r \in Requests, RequestStep(r) \/ RequestDies(r)
      PROVE  races \subseteq races'
  BY <1>2 DEF RequestStep, UploadInsert, UploadRecord, Enqueue, DeleteBlob, DeleteRow,
              DeleteRecord, RequestBump, MoveFails, MoveCommit, RequestDies
<1>3. ASSUME NEW w \in Workers, WorkerStep(w) \/ WorkerDies(w)
      PROVE  races \subseteq races'
  BY <1>3 DEF WorkerStep, LoadSource, DeleteOldChunks, CommitIndex, WorkerBump, BadInput,
              IndexError, BumpError, MarkFailed, WorkerDies
<1>4. ASSUME NEW m \in Message, Take(m)
      PROVE  races' = races
  BY <1>4 DEF Take, StartIngest, DropTask
<1>. QED
  BY <1>1, <1>2, <1>3, <1>4 DEF Next, vars

LEMMA RacesGrow ==
    ASSUME [Next]_vars, NEW d \in Docs, Race("move", d)
    PROVE  Race("move", d)'
BY HistoryGrows DEF Race

\* The move that marks no race sees the collection it leaves, and no run holds a
\* copy of the row; any other step keeps rows, document and copies together.
LEMMA NextFollows == IInv /\ [Next]_vars => ChunksFollowDocument'
<1>. SUFFICES ASSUME IInv, [Next]_vars, NEW d \in Docs, ~Race("move", d)'
              PROVE  FollowsDocument(d)'
  BY DEF ChunksFollowDocument
<1>. USE DEF IInv
<1>0. FollowsDocument(d)
  BY RacesGrow DEF ChunksFollowDocument
<1>1. CASE UNCHANGED vars
  BY <1>0, <1>1 DEF vars, FollowsDocument, RowsOf
<1>2. CASE docs'[d].coll = docs[d].coll /\ chunks' \subseteq chunks
  BY <1>0, <1>2 DEF FollowsDocument, RowsOf
<1>3. CASE docs[d].status = "none" /\ chunks' = chunks
  <2>1. RowsOf(d) = {}
    BY <1>3 DEF NoOrphanChunks, RowsOf, Exists, Live
  <2>. QED
    BY <1>3, <2>1 DEF FollowsDocument, RowsOf
<1>4. ASSUME NEW w \in Workers,
             WorkerStep(w) \/ WorkerDies(w) \/ \E m \in Message : StartIngest(w, m) \/ DropTask(w, m)
      PROVE  FollowsDocument(d)'
  <2>1. docs'[d].coll = docs[d].coll
    BY <1>4, WorkerRow
  <2>2. CASE CommitIndex(w)
    <3>1. work[w].msg.doc = d => work[w].seen.coll = docs[d].coll
      BY <2>2, RacesGrow DEF CommitIndex, SnapshotsCurrent, Snapshots, WorkersOn
    <3>2. \A k \in chunks' :
             k \in chunks \/ (k.doc = work[w].msg.doc /\ k.coll = work[w].seen.coll)
      <4>1. PICK b \in Batches :
               chunks' = {c \in chunks : c.id \notin work[w].rows} \cup InsertedRows(w, b)
        BY <2>2 DEF CommitIndex
      <4>. QED
        BY <4>1 DEF InsertedRows
    <3>. QED
      BY <1>0, <2>1, <3>1, <3>2 DEF FollowsDocument, RowsOf
  <2>3. CASE chunks' = chunks
    BY <1>2, <2>1, <2>3
  <2>. QED
    BY <1>4, <2>2, <2>3, WorkerFrame
<1>5. ASSUME NEW r \in Requests, RequestStart(r)
      PROVE  FollowsDocument(d)'
  <2>1. ASSUME NEW e \in Docs, NEW c \in Collections, NEW t \in Tasks, IngestUrl(r, e, c, t)
        PROVE  FollowsDocument(d)'
    BY <1>2, <1>3, <2>1 DEF IngestUrl, TypeOK
  <2>2. ASSUME NEW e \in Docs, NEW t \in Tasks, Reingest(r, e, t)
        PROVE  FollowsDocument(d)'
    BY <1>2, <2>2 DEF Reingest, TypeOK, Row
  <2>3. CASE docs' = docs /\ chunks' \subseteq chunks
    BY <1>2, <2>3
  <2>. QED
    BY <1>5, <2>1, <2>2, <2>3 DEF RequestStart, UploadPut, DeleteVectors, MoveLoad
<1>6. ASSUME NEW r \in Requests, RequestStep(r) \/ RequestDies(r)
      PROVE  FollowsDocument(d)'
  <2>1. CASE UploadInsert(r)
    BY <1>2, <1>3, <2>1 DEF UploadInsert, NewUploads, TypeOK
  <2>2. CASE DeleteRow(r)
    <3>1. CASE req[r].doc = d
      BY <2>2, <3>1 DEF DeleteRow, Cascade, FollowsDocument, RowsOf
    <3>2. CASE req[r].doc # d
      BY <1>2, <2>2, <3>2 DEF DeleteRow, Cascade, TypeOK
    <3>. QED
      BY <3>1, <3>2
  <2>3. CASE MoveCommit(r)
    <3>1. CASE req[r].doc # d
      <4>1. docs'[d] = docs[d]
        BY <2>3, <3>1 DEF MoveCommit, TypeOK
      <4>2. RowsOf(d)' \subseteq RowsOf(d)
        BY <2>3, <3>1 DEF MoveCommit, MovedRows, RowsOf, TypeOK, Chunk
      <4>. QED
        BY <1>0, <4>1, <4>2 DEF FollowsDocument
    <3>2. CASE req[r].doc = d
      <4>1. \A k \in RowsOf(d)' : k.coll = req[r].coll /\ RowsOf(d) # {}
        BY <2>3, <3>2 DEF MoveCommit, MovedRows, RowsOf, TypeOK, Chunk
      <4>2. Exists(d) => docs[d].coll = req[r].seen
        BY <2>3, <3>2 DEF MoveCommit, Race
      <4>3. Exists(d) => docs'[d].coll = req[r].coll
        BY <2>3, <3>2, <4>2 DEF MoveCommit, MoveWrites, TypeOK, Row
      <4>4. RowsOf(d) # {} => Exists(d)
        BY DEF NoOrphanChunks, RowsOf
      <4>. QED
        BY <4>1, <4>3, <4>4 DEF FollowsDocument
    <3>. QED
      BY <3>1, <3>2
  <2>4. CASE docs' = docs /\ chunks' = chunks
    BY <1>2, <2>4
  <2>. QED
    BY <1>6, <2>1, <2>2, <2>3, <2>4
    DEF RequestStep, UploadRecord, Enqueue, DeleteBlob, DeleteRecord, RequestBump, MoveFails,
        RequestDies
<1>. QED
  BY <1>1, <1>4, <1>5, <1>6 DEF Next, Take

LEMMA NextSnapshots == IInv /\ [Next]_vars => SnapshotsCurrent'
<1>. SUFFICES ASSUME IInv, [Next]_vars, NEW d \in Docs, NEW w \in Workers, (w \in Snapshots(d))'
              PROVE  /\ docs'[d].status # "none"
                     /\ Race("move", d)' \/ ~Exists(d)' \/ work'[w].seen.coll = docs'[d].coll
  BY DEF SnapshotsCurrent
<1>. USE DEF IInv
<1>1. CASE UNCHANGED vars
  BY <1>1 DEF vars, SnapshotsCurrent, Snapshots, WorkersOn, Race, Exists
<1>2. ASSUME NEW v \in Workers,
             WorkerStep(v) \/ WorkerDies(v) \/ \E m \in Message : StartIngest(v, m) \/ DropTask(v, m)
      PROVE  /\ docs'[d].status # "none"
             /\ Race("move", d)' \/ ~Exists(d)' \/ work'[w].seen.coll = docs'[d].coll
  <2>1. CASE LoadSource(v) /\ v = w
    BY <2>1 DEF LoadSource, TypeOK, Snapshots, WorkersOn, Exists, Live
  <2>2. CASE ~(LoadSource(v) /\ v = w)
    <3>1. w \in Snapshots(d) /\ work'[w].seen = work[w].seen
      <4>1. CASE v # w
        <5>1. work'[w] = work[w]
          BY <1>2, <4>1
          DEF WorkerStep, WorkerDies, LoadSource, DeleteOldChunks, CommitIndex, WorkerBump,
              BadInput, IndexError, BumpError, MarkFailed, StartIngest, DropTask, Fails, TypeOK
        <5>. QED
          BY SMTT(30), <5>1 DEF Snapshots, WorkersOn
      <4>2. CASE v = w
        <5>1. CASE DeleteOldChunks(w)
          BY <5>1 DEF DeleteOldChunks, TypeOK, Snapshots, WorkersOn, WorkerState
        <5>2. CASE CommitIndex(w)
          BY <5>2 DEF CommitIndex, TypeOK, Snapshots, WorkersOn, WorkerState
        <5>3. CASE WorkerBump(w) \/ MarkFailed(w) \/ WorkerDies(w)
          BY <5>3 DEF WorkerBump, MarkFailed, WorkerDies, IdleWorker, TypeOK, Snapshots, WorkersOn
        <5>4. CASE BadInput(w) \/ IndexError(w) \/ BumpError(w)
          BY <5>4 DEF BadInput, IndexError, BumpError, Fails, IdleWorker, TypeOK, Snapshots,
                      WorkersOn
        <5>5. ASSUME NEW m \in Message, StartIngest(w, m)
              PROVE  FALSE
          BY <5>5 DEF StartIngest, IdleWorker, TypeOK, Snapshots, WorkersOn
        <5>6. ASSUME NEW m \in Message, DropTask(w, m)
              PROVE  w \in Snapshots(d) /\ work'[w].seen = work[w].seen
          BY <5>6 DEF DropTask, Snapshots, WorkersOn
        <5>. QED
          BY <1>2, <2>2, <4>2, <5>1, <5>2, <5>3, <5>4, <5>5, <5>6 DEF WorkerStep
      <4>. QED
        BY <4>1, <4>2
    <3>. QED
      BY <1>2, <3>1, WorkerRow DEF SnapshotsCurrent, Exists, Live
  <2>. QED
    BY <2>1, <2>2
<1>3. ASSUME NEW r \in Requests, RequestStart(r) \/ RequestStep(r) \/ RequestDies(r)
      PROVE  /\ docs'[d].status # "none"
             /\ Race("move", d)' \/ ~Exists(d)' \/ work'[w].seen.coll = docs'[d].coll
  <2>1. work' = work /\ w \in Snapshots(d)
    BY <1>3, RequestFrame DEF Snapshots, WorkersOn
  <2>2. docs[d].status # "none"
    BY <2>1 DEF SnapshotsCurrent
  <2>3. CASE RequestStart(r)
    <3>1. docs'[d].coll = docs[d].coll /\ docs'[d].status # "none" /\ (Exists(d)' => Exists(d))
      <4>1. ASSUME NEW e \in Docs, NEW c \in Collections, NEW t \in Tasks, IngestUrl(r, e, c, t)
            PROVE  docs'[d] = docs[d]
        BY <2>2, <4>1 DEF IngestUrl, TypeOK
      <4>2. ASSUME NEW e \in Docs, NEW t \in Tasks, Reingest(r, e, t)
            PROVE  /\ docs'[d].coll = docs[d].coll /\ docs'[d].status # "none"
                   /\ Exists(d)' => Exists(d)
        BY <2>2, <4>2 DEF Reingest, TypeOK, Row, Exists
      <4>. QED
        BY <2>2, <2>3, <4>1, <4>2
        DEF RequestStart, UploadPut, DeleteVectors, MoveLoad, Exists
    <3>. QED
      BY <2>1, <3>1, RacesGrow DEF SnapshotsCurrent
  <2>4. CASE MoveCommit(r)
    <3>1. docs'[d].status = docs[d].status
      BY <2>4 DEF MoveCommit, TypeOK, Row
    <3>2. CASE req[r].doc = d /\ MoveWrites(r)
      <4>1. Race("move", d)'
        BY <2>1, <2>4, <3>2 DEF MoveCommit, Race
      <4>. QED
        BY <2>2, <3>1, <4>1
    <3>3. CASE ~(req[r].doc = d /\ MoveWrites(r))
      <4>1. docs'[d] = docs[d]
        BY <2>4, <3>3 DEF MoveCommit, TypeOK
      <4>. QED
        BY <2>1, <4>1, RacesGrow DEF SnapshotsCurrent, Exists
    <3>. QED
      BY <3>2, <3>3
  <2>5. CASE UploadInsert(r)
    <3>1. docs'[d] = docs[d]
      BY <2>2, <2>5 DEF UploadInsert, NewUploads, TypeOK
    <3>. QED
      BY <2>1, <3>1, RacesGrow DEF SnapshotsCurrent, Exists
  <2>6. CASE DeleteRow(r)
    <3>1. docs'[d] = docs[d] \/ docs'[d].status = "deleted"
      BY <2>6 DEF DeleteRow, NoRow, TypeOK
    <3>. QED
      BY <2>1, <3>1, RacesGrow DEF SnapshotsCurrent, Exists, Live
  <2>7. CASE docs' = docs
    BY <2>1, <2>7, RacesGrow DEF SnapshotsCurrent, Exists
  <2>. QED
    BY <1>3, <2>3, <2>4, <2>5, <2>6, <2>7
    DEF RequestStep, UploadRecord, Enqueue, DeleteBlob, DeleteRecord, RequestBump, MoveFails,
        RequestDies
<1>. QED
  BY <1>1, <1>2, <1>3 DEF Next, Take

\* The strengthening that makes the agreement of chunks and documents inductive holds
\* for any number of requests and workers.
THEOREM Inductive == Spec => []IInv
<1>1. Init => IInv
  BY InitType DEF Init, IInv, NoOrphanChunks, ChunksFollowDocument, FollowsDocument, RowsOf,
      UniqueIds, SwapsOwnRows, NewUploads, SnapshotsCurrent, Snapshots, WorkersOn, IdleWorker,
      IdleRequest
<1>2. IInv /\ [Next]_vars => IInv'
  BY NextType, NextOrphan, NextFollows, NextUniqueIds, NextSwapsOwnRows, NextNewUploads,
     NextSnapshots DEF IInv
<1>. QED
  BY <1>1, <1>2, PTL DEF Spec

\* Outside a marked race, retrieval filters chunks by their document's collection.
THEOREM CollectionAgreement == Spec => []ChunksFollowDocument
BY Inductive, PTL DEF IInv
-----------------------------------------------------------------------------
(* Ingestion implements DocumentLibrary.                                   *)

Listed == {d \in Docs : Exists(d)}
Searchable == {c.doc : c \in chunks}
Gone == {d \in Docs : docs[d].status = "deleted"}
Removing == [r \in Requests |-> IF req[r].pc \in {"unindexed", "unstored"}
                                THEN req[r].doc ELSE None]
libraryVars == <<Listed, Searchable, Gone, Removing>>

\* A worker changes what is searchable by its commit and nothing else of it.
LEMMA WorkerImplements ==
    ASSUME IInv, NEW w \in Workers,
           WorkerStep(w) \/ WorkerDies(w) \/ \E m \in Message : StartIngest(w, m) \/ DropTask(w, m)
    PROVE  (\E d \in Docs : Library!Index(d)) \/ UNCHANGED libraryVars
<1>. USE DEF IInv
<1>1. Listed' = Listed /\ Gone' = Gone
  BY WorkerRow DEF Listed, Gone, Exists, Live
<1>2. Removing' = Removing
  BY WorkerFrame DEF Removing
<1>3. CASE CommitIndex(w)
  <2>. DEFINE d == work[w].msg.doc
  <2>1. d \in Docs /\ Exists(d)
    BY <1>3 DEF CommitIndex, TypeOK, WorkerState, Message
  <2>2. PICK b \in Batches :
           chunks' = {c \in chunks : c.id \notin work[w].rows} \cup InsertedRows(w, b)
    BY <1>3 DEF CommitIndex
  <2>3. \A c \in chunks : c \in chunks' \/ c.doc = d
    BY <1>3, <2>2 DEF CommitIndex, SwapsOwnRows
  <2>4. \A c \in chunks' : c \in chunks \/ c.doc = d
    BY <2>2 DEF InsertedRows
  <2>5. \E c \in chunks' : c.doc = d
    <3>1. [id |-> b, doc |-> d, coll |-> work[w].seen.coll] \in chunks'
      BY <2>2 DEF InsertedRows
    <3>. QED
      BY <3>1
  <2>6. Searchable' = Searchable \cup {d}
    BY <2>3, <2>4, <2>5 DEF Searchable
  <2>. QED
    BY <1>1, <1>2, <2>1, <2>6 DEF Library!Index, Listed, Searchable, Gone, Removing
<1>4. CASE chunks' = chunks
  BY <1>1, <1>2, <1>4 DEF libraryVars, Searchable
<1>. QED
  BY <1>3, <1>4, WorkerFrame

\* The steps of a request: an upload or URL lists its document; a deletion begins,
\* finishes or is abandoned; a move and a reingest change nothing a user sees.
LEMMA RequestImplements ==
    ASSUME IInv, NEW r \in Requests, RequestStart(r) \/ RequestStep(r) \/ RequestDies(r)
    PROVE  Library!Next \/ UNCHANGED libraryVars
<1>. USE DEF IInv
<1>1. ASSUME NEW d \in Docs, NEW c \in Collections, NEW t \in Tasks, UploadPut(r, d, c, t)
      PROVE  UNCHANGED libraryVars
  BY <1>1 DEF UploadPut, libraryVars, Listed, Searchable, Gone, Removing, Exists, TypeOK
<1>2. ASSUME NEW d \in Docs, docs[d].status = "none", chunks' = chunks, Removing' = Removing,
             NEW c \in Collections,
             docs' = [docs EXCEPT ![d] = [status |-> "pending", error |-> FALSE, coll |-> c]]
      PROVE  Library!Next
  <2>1. \A e \in Docs \ {d} : docs'[e] = docs[e]
    BY <1>2 DEF TypeOK
  <2>2. docs'[d].status = "pending"
    BY <1>2 DEF TypeOK
  <2>3. Listed' = Listed \cup {d} /\ Gone' = Gone /\ d \notin Listed \cup Gone
    BY <1>2, <2>1, <2>2 DEF Listed, Gone, Exists, Live
  <2>. QED
    BY <1>2, <2>3 DEF Library!Next, Library!List, Listed, Searchable, Gone, Removing
<1>3. ASSUME NEW d \in Docs, NEW c \in Collections, NEW t \in Tasks, IngestUrl(r, d, c, t)
      PROVE  Library!Next
  <2>1. Removing' = Removing
    BY <1>3 DEF IngestUrl, Removing, TypeOK
  <2>. QED
    BY <1>2, <1>3, <2>1 DEF IngestUrl
<1>4. CASE UploadInsert(r)
  <2>1. Removing' = Removing
    BY <1>4 DEF UploadInsert, Removing, TypeOK, RequestState
  <2>2. req[r].doc \in Docs /\ req[r].coll \in Collections /\ docs[req[r].doc].status = "none"
    BY <1>4 DEF UploadInsert, TypeOK, RequestState, NewUploads
  <2>. QED
    BY <1>2, <1>4, <2>1, <2>2 DEF UploadInsert
<1>5. ASSUME NEW d \in Docs, NEW t \in Tasks, Reingest(r, d, t)
      PROVE  UNCHANGED libraryVars
  <2>1. \A e \in Docs : (Exists(e) <=> Exists(e)') /\ (docs[e].status = "deleted" <=> docs'[e].status = "deleted")
    BY <1>5 DEF Reingest, Exists, Live, TypeOK, Row
  <2>2. Removing' = Removing
    BY <1>5 DEF Reingest, IdleRequest, Removing, TypeOK
  <2>. QED
    BY <1>5, <2>1, <2>2 DEF Reingest, libraryVars, Listed, Searchable, Gone
<1>6. ASSUME NEW d \in Docs, DeleteVectors(r, d)
      PROVE  Library!Next
  <2>1. Removing' = [Removing EXCEPT ![r] = d] /\ Removing[r] = None
    BY <1>6 DEF DeleteVectors, IdleRequest, Removing, TypeOK
  <2>2. Searchable' = Searchable \ {d}
    BY <1>6 DEF DeleteVectors, Searchable, RowsOf
  <2>3. Listed' = Listed /\ Gone' = Gone /\ d \in Listed
    BY <1>6 DEF DeleteVectors, Listed, Gone, Exists
  <2>. QED
    BY <2>1, <2>2, <2>3
    DEF Library!Next, Library!BeginRemoval, Listed, Searchable, Gone, Removing
<1>7. ASSUME NEW d \in Docs, NEW c \in Collections, MoveLoad(r, d, c)
      PROVE  UNCHANGED libraryVars
  BY <1>7 DEF MoveLoad, libraryVars, Listed, Searchable, Gone, Removing, Exists, TypeOK
<1>8. CASE DeleteRow(r)
  <2>. DEFINE d == req[r].doc
  <2>1. d \in Docs /\ Removing[r] = d
    BY <1>8 DEF DeleteRow, Removing, TypeOK, RequestState
  <2>2. Removing' = [Removing EXCEPT ![r] = None]
    BY <1>8 DEF DeleteRow, Removing, TypeOK, RequestState
  <2>3. Searchable' = Searchable \ {d}
    BY <1>8 DEF DeleteRow, Cascade, Searchable, RowsOf
  <2>4. docs'[d].status = "deleted" /\ \A e \in Docs \ {d} : docs'[e] = docs[e]
    BY <1>8, <2>1 DEF DeleteRow, NoRow, TypeOK
  <2>5. Listed' = Listed \ {d} /\ Gone' = Gone \cup {d}
    BY <2>1, <2>4 DEF Listed, Gone, Exists, Live
  <2>. QED
    BY <2>1, <2>2, <2>3, <2>5
    DEF Library!Next, Library!FinishRemoval, Listed, Searchable, Gone, Removing
<1>9. CASE MoveCommit(r)
  <2>1. \A e \in Docs : docs'[e].status = docs[e].status
    BY <1>9 DEF MoveCommit, TypeOK, Row
  <2>2. Searchable' = Searchable
    <3>1. \A k \in chunks' : \E j \in chunks : k.doc = j.doc
      BY <1>9 DEF MoveCommit, MovedRows, RowsOf, TypeOK, Chunk
    <3>2. ASSUME NEW j \in chunks
          PROVE  \E k \in chunks' : k.doc = j.doc
      <4>1. CASE j.doc = req[r].doc
        <5>1. [j EXCEPT !.coll = req[r].coll] \in chunks'
          BY <1>9, <4>1 DEF MoveCommit, MovedRows, RowsOf
        <5>2. [j EXCEPT !.coll = req[r].coll].doc = j.doc
          BY DEF TypeOK, Chunk
        <5>. QED
          BY <5>1, <5>2
      <4>2. CASE j.doc # req[r].doc
        BY <1>9, <4>2 DEF MoveCommit, MovedRows, RowsOf
      <4>. QED
        BY <4>1, <4>2
    <3>. QED
      BY <3>1, <3>2 DEF Searchable
  <2>3. Removing' = Removing
    BY <1>9 DEF MoveCommit, Removing, TypeOK, RequestState
  <2>. QED
    BY <2>1, <2>2, <2>3 DEF libraryVars, Listed, Gone, Exists
<1>10. CASE RequestDies(r)
  <2>1. Listed' = Listed /\ Searchable' = Searchable /\ Gone' = Gone
    BY <1>10 DEF RequestDies, Listed, Searchable, Gone, Exists
  <2>2. CASE req[r].pc \in {"unindexed", "unstored"}
    <3>1. Removing[r] \in Docs /\ Removing' = [Removing EXCEPT ![r] = None]
      BY <1>10, <2>2 DEF RequestDies, IdleRequest, Removing, TypeOK, RequestState
    <3>. QED
      BY <2>1, <3>1 DEF Library!Next, Library!AbandonRemoval, Listed, Searchable, Gone, Removing
  <2>3. CASE req[r].pc \notin {"unindexed", "unstored"}
    <3>1. Removing' = Removing
      BY <1>10, <2>3 DEF RequestDies, IdleRequest, Removing, TypeOK
    <3>. QED
      BY <2>1, <3>1 DEF libraryVars
  <2>. QED
    BY <2>2, <2>3
<1>11. ASSUME UploadRecord(r) \/ Enqueue(r) \/ DeleteBlob(r) \/ DeleteRecord(r) \/ RequestBump(r)
              \/ MoveFails(r)
       PROVE  UNCHANGED libraryVars
  <2>1. docs' = docs /\ chunks' = chunks
    BY <1>11 DEF UploadRecord, Enqueue, DeleteBlob, DeleteRecord, RequestBump, MoveFails
  <2>2. Removing' = Removing
    BY <1>11 DEF UploadRecord, Enqueue, DeleteBlob, DeleteRecord, RequestBump, MoveFails,
                 IdleRequest, Removing, TypeOK, RequestState
  <2>. QED
    BY <2>1, <2>2 DEF libraryVars, Listed, Searchable, Gone, Exists
<1>. QED
  BY <1>1, <1>3, <1>4, <1>5, <1>6, <1>7, <1>8, <1>9, <1>10, <1>11 DEF RequestStart, RequestStep

\* A document is found by searches from its first indexing to its deletion, through
\* re-indexing, moves, failures and crashes, and never after its deletion.
THEOREM LibraryRefinement == Spec => LibrarySpec
<1>1. Init => Library!Init
  BY DEF Init, Library!Init, NoRow, IdleRequest, Exists, Live
<1>2. IInv /\ [Next]_vars => [Library!Next]_(Library!vars)
  <2>. SUFFICES ASSUME IInv, [Next]_vars
                PROVE  Library!Next \/ UNCHANGED libraryVars
    BY DEF Library!vars, libraryVars, Listed, Searchable, Gone, Removing
  <2>1. CASE UNCHANGED vars
    BY <2>1 DEF vars, libraryVars, Listed, Searchable, Gone, Removing, Exists
  <2>2. CASE Next
    BY <2>2, WorkerImplements, RequestImplements DEF Next, Take, Library!Next
  <2>. QED
    BY <2>1, <2>2
<1>. QED
  BY <1>1, <1>2, Inductive, PTL DEF Spec, LibrarySpec, Library!Spec


-----------------------------------------------------------------------------
(* A step of one process leaves the local state of the others alone.       *)

LEMMA WorkerAlone ==
    ASSUME TypeOK, NEW w \in Workers, NEW v \in Workers \ {w},
           WorkerStep(w) \/ WorkerDies(w) \/ \E m \in Message : StartIngest(w, m) \/ DropTask(w, m)
    PROVE  work'[v] = work[v]
BY DEF WorkerStep, WorkerDies, LoadSource, DeleteOldChunks, CommitIndex, WorkerBump,
       BadInput, IndexError, BumpError, MarkFailed, StartIngest, DropTask, Fails, TypeOK

LEMMA RequestAlone ==
    ASSUME TypeOK, NEW r \in Requests, NEW s \in Requests \ {r},
           RequestStart(r) \/ RequestStep(r) \/ RequestDies(r)
    PROVE  req'[s] = req[s]
<1>1. CASE RequestStart(r)
  BY <1>1 DEF RequestStart, UploadPut, IngestUrl, Reingest, DeleteVectors, MoveLoad, TypeOK
<1>2. CASE RequestStep(r) \/ RequestDies(r)
  BY <1>2 DEF RequestStep, RequestDies, UploadInsert, UploadRecord, Enqueue, DeleteBlob, DeleteRow,
              DeleteRecord, RequestBump, MoveCommit, MoveFails, TypeOK
<1>. QED
  BY <1>1, <1>2

-----------------------------------------------------------------------------
(* Whoever changes searchable rows is on the way to a version bump.        *)

BumpAhead == {"unindexed", "unstored", "refund", "bump"}

\* A deletion or a move that is to bump stays on its way, bumps, or is lost.
LEMMA RequestBumps ==
    ASSUME TypeOK, NEW r \in Requests, NEW d \in Docs,
           RequestStart(r) \/ RequestStep(r) \/ RequestDies(r)
    PROVE  /\ d \in stale' => d \in stale \/ (req'[r].pc \in BumpAhead /\ req'[r].doc = d)
           /\ req[r].pc \in BumpAhead /\ req[r].doc = d =>
                 \/ req'[r].pc \in BumpAhead /\ req'[r].doc = d
                 \/ Race("lost", d)' \/ stale' = {}
<1>. USE DEF BumpAhead
<1>1. CASE RequestStart(r)
  <2>1. req[r].pc = "idle"
    BY <1>1 DEF RequestStart, UploadPut, IngestUrl, Reingest, DeleteVectors, MoveLoad
  <2>2. ASSUME NEW e \in Docs, DeleteVectors(r, e), d \in stale'
        PROVE  d \in stale \/ (req'[r].pc \in BumpAhead /\ req'[r].doc = d)
    BY <2>2 DEF DeleteVectors, IdleRequest, TypeOK
  <2>. QED
    BY <1>1, <2>1, <2>2 DEF RequestStart, UploadPut, IngestUrl, Reingest, MoveLoad
<1>2. CASE DeleteBlob(r) \/ DeleteRow(r) \/ DeleteRecord(r) \/ MoveCommit(r)
  BY <1>2 DEF DeleteBlob, DeleteRow, DeleteRecord, MoveCommit, TypeOK, RequestState
<1>3. CASE RequestBump(r)
  BY <1>3 DEF RequestBump
<1>4. CASE RequestDies(r)
  BY <1>4 DEF RequestDies, Race
<1>5. CASE UploadInsert(r) \/ UploadRecord(r) \/ Enqueue(r) \/ MoveFails(r)
  BY <1>5 DEF UploadInsert, UploadRecord, Enqueue, MoveFails
<1>. QED
  BY <1>1, <1>2, <1>3, <1>4, <1>5 DEF RequestStep

LEMMA NextBumped == TypeOK /\ ChangesGetBumped /\ [Next]_vars => ChangesGetBumped'
<1>. SUFFICES ASSUME TypeOK, ChangesGetBumped, [Next]_vars,
                     NEW d \in Docs, d \in stale', ~Race("lost", d)'
              PROVE  \/ WorkersOn(d, {"bumping"})' # {}
                     \/ RequestsOn(d, BumpAhead)' # {}
  BY NextType DEF ChangesGetBumped, TypeOK, BumpAhead
<1>1. d \in stale => WorkersOn(d, {"bumping"}) # {} \/ RequestsOn(d, BumpAhead) # {}
  BY HistoryGrows DEF ChangesGetBumped, Race, BumpAhead
<1>2. CASE UNCHANGED vars
  BY <1>1, <1>2 DEF vars, WorkersOn, RequestsOn
<1>3. ASSUME NEW w \in Workers,
             WorkerStep(w) \/ WorkerDies(w) \/ \E m \in Message : StartIngest(w, m) \/ DropTask(w, m)
      PROVE  WorkersOn(d, {"bumping"})' # {} \/ RequestsOn(d, BumpAhead)' # {}
  <2>1. CASE CommitIndex(w) /\ work[w].msg.doc = d
    BY <2>1 DEF CommitIndex, WorkersOn, TypeOK, WorkerState
  <2>2. CASE ~(CommitIndex(w) /\ work[w].msg.doc = d)
    <3>1. stale' # {} => stale' \subseteq stale \cup {work[w].msg.doc}
      BY ZenonT(40), <1>3 DEF WorkerStep, WorkerDies, LoadSource, DeleteOldChunks, CommitIndex, WorkerBump,
                  BadInput, IndexError, BumpError, MarkFailed, StartIngest, DropTask
    <3>2. d \in stale
      BY <1>3, <2>2
      DEF WorkerStep, WorkerDies, LoadSource, DeleteOldChunks, CommitIndex, WorkerBump,
          BadInput, IndexError, BumpError, MarkFailed, StartIngest, DropTask
    <3>3. RequestsOn(d, BumpAhead)' = RequestsOn(d, BumpAhead)
      BY <1>3, WorkerFrame DEF RequestsOn
    <3>4. ASSUME NEW v \in WorkersOn(d, {"bumping"})
          PROVE  v \in WorkersOn(d, {"bumping"})'
      <4>1. CASE v # w
        BY <1>3, <4>1, WorkerAlone DEF WorkersOn
      <4>2. CASE v = w
        BY <1>3, <4>2
        DEF WorkerStep, WorkerDies, LoadSource, DeleteOldChunks, CommitIndex, WorkerBump,
            BadInput, IndexError, BumpError, MarkFailed, StartIngest, DropTask, WorkersOn, Race
      <4>. QED
        BY <4>1, <4>2
    <3>. QED
      BY <1>1, <3>2, <3>3, <3>4
  <2>. QED
    BY <2>1, <2>2
<1>4. ASSUME NEW r \in Requests, RequestStart(r) \/ RequestStep(r) \/ RequestDies(r)
      PROVE  WorkersOn(d, {"bumping"})' # {} \/ RequestsOn(d, BumpAhead)' # {}
  <2>1. WorkersOn(d, {"bumping"})' = WorkersOn(d, {"bumping"})
    BY <1>4, RequestFrame DEF WorkersOn
  <2>2. ASSUME NEW s \in RequestsOn(d, BumpAhead)
        PROVE  s \in RequestsOn(d, BumpAhead)'
    BY <1>4, RequestAlone, RequestBumps DEF RequestsOn
  <2>. QED
    BY <1>1, <1>4, <2>1, <2>2, RequestBumps DEF RequestsOn
<1>. QED
  BY <1>2, <1>3, <1>4 DEF Next, Take

\* While answers cached before a change of searchable rows can still be served, a
\* worker, a deletion or a move is about to bump the corpus version.
THEOREM BumpsFollow == Spec => []ChangesGetBumped
<1>1. Init => ChangesGetBumped
  BY DEF Init, ChangesGetBumped
<1>. QED
  BY <1>1, NextBumped, TypeCorrect, PTL DEF Spec

-----------------------------------------------------------------------------
(* A ready document has rows.                                              *)

Unindexing == {"unindexed", "unstored"}

\* A request neither makes a document ready nor takes the rows of one that stays
\* ready, unless it is the deletion that is on its way from now on.
LEMMA RequestKeepsRows ==
    ASSUME IInv, NEW r \in Requests, NEW d \in Docs, docs'[d].status = "ready",
           RequestStart(r) \/ RequestStep(r) \/ RequestDies(r)
    PROVE  /\ docs[d].status = "ready"
           /\ RowsOf(d) # {} => RowsOf(d)' # {} \/ (req'[r].pc \in Unindexing /\ req'[r].doc = d)
           /\ req[r].pc \in Unindexing /\ req[r].doc = d =>
                 (req'[r].pc \in Unindexing /\ req'[r].doc = d) \/ Race("lost", d)'
<1>. USE DEF Unindexing, IInv
<1>1. CASE RequestStart(r)
  <2>1. req[r].pc = "idle"
    BY <1>1 DEF RequestStart, UploadPut, IngestUrl, Reingest, DeleteVectors, MoveLoad
  <2>2. docs[d].status = "ready"
    <3>1. ASSUME NEW e \in Docs, NEW c \in Collections, NEW t \in Tasks, IngestUrl(r, e, c, t)
          PROVE  docs[d].status = "ready"
      BY <3>1 DEF IngestUrl, TypeOK, Row
    <3>2. ASSUME NEW e \in Docs, NEW t \in Tasks, Reingest(r, e, t)
          PROVE  docs[d].status = "ready"
      BY <3>2 DEF Reingest, TypeOK, Row
    <3>. QED
      BY <1>1, <3>1, <3>2 DEF RequestStart, UploadPut, DeleteVectors, MoveLoad
  <2>3. ASSUME NEW e \in Docs, DeleteVectors(r, e), RowsOf(d) # {}
        PROVE  RowsOf(d)' # {} \/ (req'[r].pc \in Unindexing /\ req'[r].doc = d)
    <3>1. CASE e = d
      BY <2>3, <3>1 DEF DeleteVectors, IdleRequest, TypeOK
    <3>2. CASE e # d
      BY <2>3, <3>2 DEF DeleteVectors, RowsOf
    <3>. QED
      BY <3>1, <3>2
  <2>4. CASE chunks' = chunks
    BY <2>1, <2>2, <2>4 DEF RowsOf
  <2>. QED
    BY <1>1, <2>1, <2>2, <2>3, <2>4
    DEF RequestStart, UploadPut, IngestUrl, Reingest, MoveLoad
<1>2. CASE UploadInsert(r)
  BY <1>2 DEF UploadInsert, TypeOK, RequestState, RowsOf
<1>3. CASE DeleteRow(r)
  <2>1. req[r].doc # d /\ docs'[d] = docs[d]
    BY <1>3 DEF DeleteRow, NoRow, TypeOK
  <2>. QED
    BY <1>3, <2>1 DEF DeleteRow, Cascade, RowsOf
<1>4. CASE MoveCommit(r)
  <2>1. docs[d].status = "ready"
    BY <1>4 DEF MoveCommit, TypeOK, Row
  <2>2. ASSUME NEW k \in RowsOf(d)
        PROVE  RowsOf(d)' # {}
    <3>1. CASE d = req[r].doc
      <4>1. [k EXCEPT !.coll = req[r].coll] \in chunks'
        BY <1>4, <3>1 DEF MoveCommit, MovedRows
      <4>2. [k EXCEPT !.coll = req[r].coll].doc = d
        BY DEF RowsOf, TypeOK, Chunk
      <4>. QED
        BY <4>1, <4>2 DEF RowsOf
    <3>2. CASE d # req[r].doc
      BY <1>4, <3>2 DEF MoveCommit, MovedRows, RowsOf
    <3>. QED
      BY <3>1, <3>2
  <2>. QED
    BY <1>4, <2>1, <2>2 DEF MoveCommit
<1>5. CASE DeleteBlob(r)
  BY <1>5 DEF DeleteBlob, TypeOK, RequestState, RowsOf
<1>6. CASE RequestDies(r)
  BY <1>6 DEF RequestDies, Race, RowsOf
<1>7. CASE UploadRecord(r) \/ Enqueue(r) \/ DeleteRecord(r) \/ RequestBump(r) \/ MoveFails(r)
  BY <1>7 DEF UploadRecord, Enqueue, DeleteRecord, RequestBump, MoveFails, RowsOf
<1>. QED
  BY <1>1, <1>2, <1>3, <1>4, <1>5, <1>6, <1>7 DEF RequestStep

\* A worker that makes a document ready inserts its rows in the same commit, and
\* the rows it deletes are of that document.
LEMMA WorkerKeepsRows ==
    ASSUME IInv, NEW w \in Workers, NEW d \in Docs, docs'[d].status = "ready",
           WorkerStep(w) \/ WorkerDies(w) \/ \E m \in Message : StartIngest(w, m) \/ DropTask(w, m)
    PROVE  RowsOf(d)' # {} \/ (docs[d].status = "ready" /\ RowsOf(d)' = RowsOf(d))
<1>. USE DEF IInv
<1>1. CASE CommitIndex(w)
  <2>. PICK b \in Batches : chunks' = {c \in chunks : c.id \notin work[w].rows} \cup InsertedRows(w, b)
    BY <1>1 DEF CommitIndex
  <2>1. CASE work[w].msg.doc = d
    <3>1. [id |-> b, doc |-> d, coll |-> work[w].seen.coll] \in chunks'
      BY <2>1 DEF InsertedRows
    <3>. QED
      BY <3>1 DEF RowsOf
  <2>2. CASE work[w].msg.doc # d
    <3>1. docs'[d] = docs[d]
      BY <1>1, <2>2 DEF CommitIndex, TypeOK
    <3>2. \A c \in chunks : c.doc = d => c \in chunks'
      BY <1>1, <2>2 DEF CommitIndex, SwapsOwnRows
    <3>3. \A c \in chunks' : c.doc = d => c \in chunks
      BY <2>2 DEF InsertedRows
    <3>. QED
      BY <3>1, <3>2, <3>3 DEF RowsOf
  <2>. QED
    BY <2>1, <2>2
<1>2. CASE MarkFailed(w)
  BY <1>2 DEF MarkFailed, DocsWithFailed, TypeOK, Row, RowsOf
<1>3. ASSUME NEW m \in Message, StartIngest(w, m)
      PROVE  docs[d].status = "ready" /\ RowsOf(d)' = RowsOf(d)
  BY <1>3 DEF StartIngest, TypeOK, Row, RowsOf
<1>4. CASE docs' = docs /\ chunks' = chunks
  BY <1>4 DEF RowsOf
<1>. QED
  BY <1>1, <1>2, <1>3, <1>4
  DEF WorkerStep, WorkerDies, LoadSource, DeleteOldChunks, WorkerBump, BadInput, IndexError,
      BumpError, DropTask

LEMMA NextReady == IInv /\ ReadyIsIndexed /\ [Next]_vars => ReadyIsIndexed'
<1>. SUFFICES ASSUME IInv, ReadyIsIndexed, [Next]_vars,
                     NEW d \in Docs, docs'[d].status = "ready", ~Race("lost", d)'
              PROVE  RowsOf(d)' # {} \/ RequestsOn(d, Unindexing)' # {}
  BY DEF ReadyIsIndexed, Unindexing
<1>. USE DEF IInv
<1>1. docs[d].status = "ready" => RowsOf(d) # {} \/ RequestsOn(d, Unindexing) # {}
  BY HistoryGrows DEF ReadyIsIndexed, Race, Unindexing
<1>2. CASE UNCHANGED vars
  BY <1>1, <1>2 DEF vars, RowsOf, RequestsOn
<1>3. ASSUME NEW w \in Workers,
             WorkerStep(w) \/ WorkerDies(w) \/ \E m \in Message : StartIngest(w, m) \/ DropTask(w, m)
      PROVE  RowsOf(d)' # {} \/ RequestsOn(d, Unindexing)' # {}
  <2>1. RequestsOn(d, Unindexing)' = RequestsOn(d, Unindexing)
    BY <1>3, WorkerFrame DEF RequestsOn
  <2>. QED
    BY <1>1, <1>3, <2>1, WorkerKeepsRows
<1>4. ASSUME NEW r \in Requests, RequestStart(r) \/ RequestStep(r) \/ RequestDies(r)
      PROVE  RowsOf(d)' # {} \/ RequestsOn(d, Unindexing)' # {}
  <2>1. ASSUME NEW s \in RequestsOn(d, Unindexing)
        PROVE  s \in RequestsOn(d, Unindexing)'
    BY <1>4, RequestAlone, RequestKeepsRows DEF RequestsOn
  <2>. QED
    BY <1>1, <1>4, <2>1, RequestKeepsRows DEF RequestsOn
<1>. QED
  BY <1>2, <1>3, <1>4 DEF Next, Take

\* A document shown as ready has rows to answer from until its deletion begins,
\* unless a deletion of it was cut short.
THEOREM ReadyMeansIndexed == Spec => []ReadyIsIndexed
<1>1. Init => ReadyIsIndexed
  BY DEF Init, ReadyIsIndexed, NoRow
<1>. QED
  BY <1>1, NextReady, Inductive, PTL DEF Spec

-----------------------------------------------------------------------------
(* The file of a listed upload is stored.  A deletion past the S3 call has *)
(* removed the file, and no upload of the same document can bring it back. *)

BlobGone == \A r \in Requests : req[r].pc = "unstored" => req[r].doc \notin blobs

LEMMA WorkerKeepsFiles ==
    ASSUME TypeOK, NEW w \in Workers, NEW d \in Docs,
           WorkerStep(w) \/ WorkerDies(w) \/ \E m \in Message : StartIngest(w, m) \/ DropTask(w, m)
    PROVE  /\ req' = req /\ blobs' = blobs /\ ledger' = ledger
           /\ Exists(d)' <=> Exists(d)
           /\ docs'[d].status = "deleted" => docs[d].status = "deleted"
<1>1. req' = req /\ blobs' = blobs /\ ledger' = ledger
  BY DEF WorkerStep, WorkerDies, LoadSource, DeleteOldChunks, CommitIndex, WorkerBump, BadInput,
         IndexError, BumpError, MarkFailed, StartIngest, DropTask
<1>2. (Exists(d)' <=> Exists(d)) /\ (~Exists(d) => docs'[d] = docs[d])
  BY WorkerRow
<1>. QED
  BY <1>1, <1>2 DEF Exists, Live

LEMMA StartsElsewhere ==
    ASSUME TypeOK, NEW r \in Requests, RequestStart(r)
    PROVE  req'[r].pc # "unstored"
<1>1. ASSUME NEW d \in Docs, NEW t \in Tasks, Reingest(r, d, t)
      PROVE  req'[r].pc # "unstored"
  BY <1>1 DEF Reingest, IdleRequest, TypeOK
<1>2. ASSUME NEW d \in Docs, DeleteVectors(r, d)
      PROVE  req'[r].pc # "unstored"
  BY <1>2 DEF DeleteVectors, IdleRequest, TypeOK
<1>. QED
  BY <1>1, <1>2 DEF RequestStart, UploadPut, IngestUrl, MoveLoad, TypeOK

LEMMA NextBlobGone == IInv /\ BlobGone /\ [Next]_vars => BlobGone'
<1>. SUFFICES ASSUME IInv, BlobGone, [Next]_vars PROVE BlobGone'
  OBVIOUS
<1>. USE DEF IInv
<1>1. CASE UNCHANGED vars
  BY <1>1 DEF vars, BlobGone
<1>2. ASSUME NEW w \in Workers,
             WorkerStep(w) \/ WorkerDies(w) \/ \E m \in Message : StartIngest(w, m) \/ DropTask(w, m)
      PROVE  BlobGone'
  <2>1. req' = req /\ blobs' = blobs
    BY <1>2
    DEF WorkerStep, WorkerDies, LoadSource, DeleteOldChunks, CommitIndex, WorkerBump, BadInput,
        IndexError, BumpError, MarkFailed, StartIngest, DropTask
  <2>. QED
    BY <2>1 DEF BlobGone
<1>3. ASSUME NEW r \in Requests, RequestStart(r) \/ RequestStep(r) \/ RequestDies(r),
             NEW s \in Requests, req'[s].pc = "unstored"
      PROVE  req'[s].doc \notin blobs'
  <2>1. CASE DeleteBlob(r) /\ s = r
    BY <1>3, <2>1 DEF DeleteBlob, TypeOK, RequestState
  <2>2. CASE ~(DeleteBlob(r) /\ s = r)
    <3>1. req[s].pc = "unstored" /\ req'[s].doc = req[s].doc
      <4>1. CASE s # r
        BY <1>3, <4>1, RequestAlone
      <4>2. CASE s = r /\ RequestStart(r)
        BY <1>3, <4>2, StartsElsewhere
      <4>3. CASE s = r /\ (RequestStep(r) \/ RequestDies(r))
        BY <1>3, <2>2, <4>3
        DEF RequestStep, RequestDies, UploadInsert, UploadRecord, Enqueue, DeleteBlob, DeleteRow,
            DeleteRecord, RequestBump, MoveCommit, MoveFails, IdleRequest, TypeOK, RequestState
      <4>. QED
        BY <1>3, <4>1, <4>2, <4>3
    <3>2. req[s].doc \notin blobs /\ docs[req[s].doc].status # "none"
      BY <3>1 DEF BlobGone, NewUploads
    <3>3. req[s].doc \notin blobs'
      <4>1. CASE RequestStart(r)
        BY <3>2, <4>1 DEF RequestStart, UploadPut, IngestUrl, Reingest, DeleteVectors, MoveLoad
      <4>2. CASE RequestStep(r) \/ RequestDies(r)
        BY <3>2, <4>2
        DEF RequestStep, RequestDies, UploadInsert, UploadRecord, Enqueue, DeleteBlob, DeleteRow,
            DeleteRecord, RequestBump, MoveCommit, MoveFails
      <4>. QED
        BY <1>3, <4>1, <4>2
    <3>. QED
      BY <3>1, <3>3
  <2>. QED
    BY <2>1, <2>2
<1>. QED
  BY <1>1, <1>2, <1>3 DEF Next, Take, BlobGone

\* What a request does to the file and the row of an upload.
LEMMA RequestKeepsFiles ==
    ASSUME IInv, BlobGone, NEW r \in Requests, NEW d \in FileDocs,
           RequestStart(r) \/ RequestStep(r) \/ RequestDies(r)
    PROVE  /\ Exists(d)' => Exists(d) \/ d \in blobs'
           /\ d \in blobs => d \in blobs' \/ (req'[r].pc = "unstored" /\ req'[r].doc = d)
           /\ docs'[d].status = "deleted" =>
                 d \notin blobs' \/ (docs[d].status = "deleted" /\ d \in blobs)
           /\ req[r].pc = "unstored" /\ req[r].doc = d =>
                 ~Exists(d)' \/ Race("lost", d)'
<1>. USE DEF IInv
<1>0. d \in Docs
  BY IngestionAssumption
<1>1. CASE RequestStart(r)
  <2>1. req[r].pc = "idle" /\ blobs \subseteq blobs'
    BY <1>1 DEF RequestStart, UploadPut, IngestUrl, Reingest, DeleteVectors, MoveLoad
  <2>2. ASSUME NEW e \in Docs, NEW c \in Collections, NEW t \in Tasks, UploadPut(r, e, c, t)
        PROVE  /\ Exists(d)' => Exists(d)
               /\ docs'[d].status = "deleted" =>
                     d \notin blobs' \/ (docs[d].status = "deleted" /\ d \in blobs)
    BY <1>0, <2>2 DEF UploadPut, Exists
  <2>3. ASSUME NEW e \in Docs, NEW c \in Collections, NEW t \in Tasks, IngestUrl(r, e, c, t)
        PROVE  /\ Exists(d)' => Exists(d)
               /\ docs'[d].status = "deleted" =>
                     d \notin blobs' \/ (docs[d].status = "deleted" /\ d \in blobs)
    <3>1. d # e /\ docs'[d] = docs[d] /\ blobs' = blobs
      BY <1>0, <2>3 DEF IngestUrl, TypeOK
    <3>. QED
      BY <3>1 DEF Exists
  <2>4. ASSUME NEW e \in Docs, NEW t \in Tasks, Reingest(r, e, t)
        PROVE  /\ Exists(d)' => Exists(d)
               /\ docs'[d].status = "deleted" =>
                     d \notin blobs' \/ (docs[d].status = "deleted" /\ d \in blobs)
    BY <1>0, <2>4 DEF Reingest, Exists, TypeOK, Row
  <2>5. CASE docs' = docs /\ blobs' = blobs
    BY <2>1, <2>5 DEF Exists
  <2>6. /\ Exists(d)' => Exists(d) \/ d \in blobs'
        /\ docs'[d].status = "deleted" =>
              d \notin blobs' \/ (docs[d].status = "deleted" /\ d \in blobs)
    BY <1>1, <2>2, <2>3, <2>4, <2>5 DEF RequestStart, DeleteVectors, MoveLoad
  <2>. QED
    BY <2>1, <2>6
<1>2. CASE UploadInsert(r)
  <2>1. req[r].doc \in blobs /\ blobs' = blobs
    BY <1>2 DEF UploadInsert, NewUploads
  <2>2. d # req[r].doc => docs'[d] = docs[d]
    BY <1>0, <1>2 DEF UploadInsert, TypeOK
  <2>3. d = req[r].doc => docs'[d].status = "pending"
    BY <1>0, <1>2 DEF UploadInsert, TypeOK
  <2>. QED
    BY <1>2, <2>1, <2>2, <2>3 DEF UploadInsert, Exists
<1>3. CASE DeleteBlob(r)
  BY <1>3 DEF DeleteBlob, Exists, TypeOK, RequestState
<1>4. CASE DeleteRow(r)
  <2>1. req[r].doc \notin blobs /\ blobs' = blobs
    BY <1>4 DEF DeleteRow, BlobGone
  <2>2. d # req[r].doc => docs'[d] = docs[d]
    BY <1>0, <1>4 DEF DeleteRow, TypeOK
  <2>3. d = req[r].doc => docs'[d].status = "deleted"
    BY <1>0, <1>4 DEF DeleteRow, NoRow, TypeOK
  <2>. QED
    BY <2>1, <2>2, <2>3 DEF Exists, Live
<1>5. CASE MoveCommit(r)
  <2>1. docs'[d].status = docs[d].status
    BY <1>0, <1>5 DEF MoveCommit, TypeOK, Row
  <2>. QED
    BY <1>5, <2>1 DEF MoveCommit, Exists
<1>6. CASE RequestDies(r)
  BY <1>6 DEF RequestDies, Race, Exists
<1>7. CASE UploadRecord(r) \/ Enqueue(r) \/ DeleteRecord(r) \/ RequestBump(r) \/ MoveFails(r)
  BY <1>7 DEF UploadRecord, Enqueue, DeleteRecord, RequestBump, MoveFails, Exists
<1>. QED
  BY <1>1, <1>2, <1>3, <1>4, <1>5, <1>6, <1>7 DEF RequestStep

LEMMA NextStored ==
    IInv /\ BlobGone /\ StoredWhileListed /\ [Next]_vars => StoredWhileListed'
<1>. SUFFICES ASSUME IInv, BlobGone, StoredWhileListed, [Next]_vars, NEW d \in FileDocs
              PROVE  /\ Exists(d)' => \/ d \in blobs' \/ RequestsOn(d, {"unstored"})' # {}
                                      \/ Race("lost", d)'
                     /\ docs'[d].status = "deleted" => d \notin blobs'
  BY DEF StoredWhileListed
<1>. USE DEF IInv
<1>0. d \in Docs
  BY IngestionAssumption
<1>1. /\ Exists(d) => d \in blobs \/ RequestsOn(d, {"unstored"}) # {} \/ Race("lost", d)'
      /\ docs[d].status = "deleted" => d \notin blobs
  BY HistoryGrows DEF StoredWhileListed, Race
<1>2. CASE UNCHANGED vars
  BY <1>1, <1>2 DEF vars, Exists, RequestsOn
<1>3. ASSUME NEW w \in Workers,
             WorkerStep(w) \/ WorkerDies(w) \/ \E m \in Message : StartIngest(w, m) \/ DropTask(w, m)
      PROVE  /\ Exists(d)' => \/ d \in blobs' \/ RequestsOn(d, {"unstored"})' # {}
                              \/ Race("lost", d)'
             /\ docs'[d].status = "deleted" => d \notin blobs'
  BY <1>0, <1>1, <1>3, WorkerKeepsFiles DEF RequestsOn
<1>4. ASSUME NEW r \in Requests, RequestStart(r) \/ RequestStep(r) \/ RequestDies(r)
      PROVE  /\ Exists(d)' => \/ d \in blobs' \/ RequestsOn(d, {"unstored"})' # {}
                              \/ Race("lost", d)'
             /\ docs'[d].status = "deleted" => d \notin blobs'
  <2>1. docs'[d].status = "deleted" => d \notin blobs'
    BY <1>1, <1>4, RequestKeepsFiles
  <2>2. ASSUME Exists(d)', d \notin blobs', ~Race("lost", d)'
        PROVE  RequestsOn(d, {"unstored"})' # {}
    <3>1. CASE d \in blobs
      BY <1>4, <2>2, <3>1, RequestKeepsFiles DEF RequestsOn
    <3>2. CASE d \notin blobs
      <4>1. PICK s \in Requests : req[s].pc = "unstored" /\ req[s].doc = d
        BY <1>1, <1>4, <2>2, <3>2, RequestKeepsFiles DEF RequestsOn
      <4>2. s # r
        BY <1>4, <2>2, <4>1, RequestKeepsFiles
      <4>. QED
        BY <1>4, <4>1, <4>2, RequestAlone DEF RequestsOn
    <3>. QED
      BY <3>1, <3>2
  <2>. QED
    BY <2>1, <2>2
<1>. QED
  BY <1>2, <1>3, <1>4 DEF Next, Take

\* A listed upload has its file until the last step of its deletion, and a deleted
\* document leaves no file behind, however uploads and deletions interleave.
THEOREM FilesKept == Spec => []StoredWhileListed
<1>1. Init => BlobGone /\ StoredWhileListed
  BY IngestionAssumption DEF Init, BlobGone, StoredWhileListed, NoRow, IdleRequest, Exists, Live
<1>. QED
  BY <1>1, NextBlobGone, NextStored, Inductive, PTL DEF Spec

-----------------------------------------------------------------------------
(* Rows come from one indexing run.  While no two runs of a document have  *)
(* overlapped, the run between its DELETE and its commit is the only one,  *)
(* and the rows it will remove are all there are.                          *)

OneRow(d) == \A c, k \in RowsOf(d) : c = k
SwapCovers(d) ==
    \A w \in WorkersOn(d, {"swapping"}) :
       /\ Ids(RowsOf(d)) \subseteq work[w].rows
       /\ \A v \in WorkersOn(d, {"swapping"}) : v = w
OneRun == \A d \in Docs : Race("swap", d) \/ (OneRow(d) /\ SwapCovers(d))

\* A request adds no row to a document, a move keeps the ids of the rows it moves.
LEMMA RequestKeepsIds ==
    ASSUME IInv, NEW r \in Requests, RequestStart(r) \/ RequestStep(r) \/ RequestDies(r),
           NEW d \in Docs, OneRow(d)
    PROVE  OneRow(d)' /\ Ids(RowsOf(d))' \subseteq Ids(RowsOf(d))
<1>. USE DEF IInv
<1>1. CASE chunks' \subseteq chunks
  BY <1>1 DEF OneRow, Ids, RowsOf
<1>2. CASE MoveCommit(r)
  <2>1. CASE req[r].doc = d
    <3>1. \A k \in RowsOf(d)' : \E c \in RowsOf(d) : k = [c EXCEPT !.coll = req[r].coll]
      BY <1>2, <2>1 DEF MoveCommit, MovedRows, RowsOf, TypeOK, Chunk
    <3>2. \A c \in RowsOf(d) : [c EXCEPT !.coll = req[r].coll].id = c.id
      BY DEF RowsOf, TypeOK, Chunk
    <3>. QED
      BY ZenonT(40), <3>1, <3>2 DEF OneRow, Ids
  <2>2. CASE req[r].doc # d
    <3>1. RowsOf(d)' = RowsOf(d)
      BY <1>2, <2>2 DEF MoveCommit, MovedRows, RowsOf, TypeOK, Chunk
    <3>. QED
      BY <3>1 DEF OneRow, Ids
  <2>. QED
    BY <2>1, <2>2
<1>. QED
  BY <1>1, <1>2, RequestFrame

LEMMA NextOneRun == IInv /\ OneRun /\ [Next]_vars => OneRun'
<1>. SUFFICES ASSUME IInv, OneRun, [Next]_vars, NEW d \in Docs, ~Race("swap", d)'
              PROVE  OneRow(d)' /\ SwapCovers(d)'
  BY DEF OneRun
<1>. USE DEF IInv
<1>1. OneRow(d) /\ SwapCovers(d)
  BY HistoryGrows DEF OneRun, Race
<1>2. CASE UNCHANGED vars
  BY <1>1, <1>2 DEF vars, OneRow, SwapCovers, WorkersOn, RowsOf, Ids
<1>3. ASSUME NEW w \in Workers,
             WorkerStep(w) \/ WorkerDies(w) \/ \E m \in Message : StartIngest(w, m) \/ DropTask(w, m)
      PROVE  OneRow(d)' /\ SwapCovers(d)'
  <2>0. ASSUME NEW v \in WorkersOn(d, {"swapping"})', v # w
        PROVE  v \in WorkersOn(d, {"swapping"}) /\ work'[v] = work[v]
    BY <1>3, <2>0, WorkerAlone DEF WorkersOn
  <2>1. CASE DeleteOldChunks(w) /\ work[w].msg.doc = d
    <3>1. WorkersOn(d, {"swapping"}) = {}
      BY <2>1 DEF DeleteOldChunks, Race
    <3>2. \A v \in WorkersOn(d, {"swapping"})' : v = w
      BY <2>0, <3>1
    <3>3. chunks' = chunks /\ work'[w].rows = Ids(RowsOf(d))
      BY <2>1 DEF DeleteOldChunks, ReplacedRows, TypeOK, WorkerState
    <3>. QED
      BY <1>1, <3>2, <3>3 DEF OneRow, SwapCovers, RowsOf, Ids
  <2>2. CASE CommitIndex(w)
    <3>. PICK b \in Batches :
            chunks' = {c \in chunks : c.id \notin work[w].rows} \cup InsertedRows(w, b)
      BY <2>2 DEF CommitIndex
    <3>1. w \notin WorkersOn(d, {"swapping"})'
      BY <2>2 DEF CommitIndex, TypeOK, WorkersOn
    <3>2. CASE work[w].msg.doc = d
      <4>1. w \in WorkersOn(d, {"swapping"})
        BY <2>2, <3>2 DEF CommitIndex, WorkersOn
      <4>2. WorkersOn(d, {"swapping"})' = {}
        BY <1>1, <2>0, <3>1, <4>1 DEF SwapCovers
      <4>3. \A c \in RowsOf(d)' : c \in InsertedRows(w, b)
        BY <1>1, <4>1 DEF SwapCovers, RowsOf, Ids
      <4>. QED
        BY <4>2, <4>3 DEF OneRow, SwapCovers, InsertedRows
    <3>3. CASE work[w].msg.doc # d
      <4>1. \A c \in RowsOf(d)' : c \in RowsOf(d)
        BY <3>3 DEF InsertedRows, RowsOf
      <4>. QED
        BY <1>1, <2>0, <3>1, <4>1 DEF OneRow, SwapCovers, Ids
    <3>. QED
      BY <3>2, <3>3
  <2>3. CASE ~(DeleteOldChunks(w) /\ work[w].msg.doc = d) /\ ~CommitIndex(w)
    <3>1. chunks' = chunks
      BY <1>3, <2>3, WorkerFrame
    <3>2. w \in WorkersOn(d, {"swapping"})' =>
             w \in WorkersOn(d, {"swapping"}) /\ work'[w] = work[w]
      <4>1. CASE DeleteOldChunks(w)
        BY <2>3, <4>1 DEF DeleteOldChunks, WorkersOn, TypeOK, WorkerState
      <4>2. ASSUME NEW m \in Message, StartIngest(w, m)
            PROVE  w \notin WorkersOn(d, {"swapping"})'
        BY <4>2 DEF StartIngest, IdleWorker, WorkersOn, TypeOK
      <4>3. CASE LoadSource(w)
        BY <4>3 DEF LoadSource, WorkersOn, TypeOK, WorkerState
      <4>4. CASE BadInput(w) \/ IndexError(w) \/ BumpError(w)
        BY <4>4 DEF BadInput, IndexError, BumpError, Fails, IdleWorker, WorkersOn, TypeOK
      <4>5. CASE WorkerBump(w) \/ MarkFailed(w) \/ WorkerDies(w)
        BY <4>5 DEF WorkerBump, MarkFailed, WorkerDies, IdleWorker, WorkersOn, TypeOK
      <4>. QED
        BY <1>3, <2>3, <4>1, <4>2, <4>3, <4>4, <4>5 DEF WorkerStep, DropTask, WorkersOn
    <3>. QED
      BY <1>1, <2>0, <3>1, <3>2 DEF OneRow, SwapCovers, RowsOf, Ids
  <2>. QED
    BY <2>1, <2>2, <2>3
<1>4. ASSUME NEW r \in Requests, RequestStart(r) \/ RequestStep(r) \/ RequestDies(r)
      PROVE  OneRow(d)' /\ SwapCovers(d)'
  <2>1. work' = work
    BY <1>4, RequestFrame
  <2>. QED
    BY <1>1, <1>4, <2>1, RequestKeepsIds DEF SwapCovers, WorkersOn
<1>. QED
  BY <1>2, <1>3, <1>4 DEF Next, Take

\* The chunks of a document come from one indexing run, unless two runs of it
\* overlapped between their DELETE and their commit.
THEOREM RowsOfOneRun == Spec => []SingleGeneration
<1>1. Init => OneRun
  BY DEF Init, OneRun, OneRow, SwapCovers, RowsOf, WorkersOn, IdleWorker
<1>2. OneRun => SingleGeneration
  <2>. SUFFICES ASSUME NEW d \in Docs, OneRow(d) PROVE IndexedOnce(d)
    BY DEF OneRun, SingleGeneration
  <2>1. CASE RowsOf(d) = {}
    BY <2>1, FS_EmptySet DEF IndexedOnce
  <2>2. ASSUME NEW c \in RowsOf(d)
        PROVE  IndexedOnce(d)
    <3>1. RowsOf(d) = {c}
      BY DEF OneRow
    <3>. QED
      BY <3>1, FS_Singleton DEF IndexedOnce
  <2>. QED
    BY <2>1, <2>2
<1>. QED
  BY <1>1, <1>2, NextOneRun, Inductive, PTL DEF Spec

-----------------------------------------------------------------------------
(* The ledger.  The two counts of LedgerExact are of finite sets, and each *)
(* step of a request moves the three numbers together.                     *)

Counted == {"record", "refund"}
FiniteEvents == \A d \in Docs, p \in Counted : IsFiniteSet(RequestsOn(d, {p}))
At(r, d, p) == IF req[r].pc = p /\ req[r].doc = d THEN 1 ELSE 0
Files(d) == IF Exists(d) THEN 1 ELSE 0
Pending(d, p) == Cardinality(RequestsOn(d, {p}))

LEMMA CountStep ==
    ASSUME TypeOK, NEW r \in Requests, RequestStart(r) \/ RequestStep(r) \/ RequestDies(r),
           NEW d \in Docs, NEW p \in Counted, IsFiniteSet(RequestsOn(d, {p}))
    PROVE  /\ IsFiniteSet(RequestsOn(d, {p})')
           /\ Pending(d, p) \in Nat
           /\ Pending(d, p)' = Pending(d, p) + At(r, d, p)' - At(r, d, p)
<1>. DEFINE S == RequestsOn(d, {p})
<1>1. S' \ {r} = S \ {r}
  BY RequestAlone DEF RequestsOn
<1>2. (r \in S <=> At(r, d, p) = 1) /\ (r \in S' <=> At(r, d, p)' = 1)
  BY DEF RequestsOn, At
<1>3. At(r, d, p) \in {0, 1} /\ At(r, d, p)' \in {0, 1}
  BY DEF At
<1>4. Cardinality(S) \in Nat
  BY FS_CardinalityType
<1>5. CASE r \in S /\ r \notin S'
  <2>1. S' = S \ {r}
    BY <1>1, <1>5
  <2>2. IsFiniteSet(S') /\ Cardinality(S') = Cardinality(S) - 1
    BY <1>5, <2>1, FS_RemoveElement
  <2>. QED
    BY <1>2, <1>3, <1>4, <1>5, <2>2 DEF Pending
<1>6. CASE r \notin S /\ r \in S'
  <2>1. S' = S \cup {r}
    BY <1>1, <1>6
  <2>2. IsFiniteSet(S') /\ Cardinality(S') = Cardinality(S) + 1
    BY <1>6, <2>1, FS_AddElement
  <2>. QED
    BY <1>2, <1>3, <1>4, <1>6, <2>2 DEF Pending
<1>7. CASE r \in S <=> r \in S'
  <2>1. S' = S
    BY <1>1, <1>7
  <2>. QED
    BY <1>2, <1>3, <1>4, <1>7, <2>1 DEF Pending
<1>. QED
  BY <1>5, <1>6, <1>7

\* Files, events still to be written and the ledger change together.
LEMMA LedgerStep ==
    ASSUME IInv, NEW r \in Requests, RequestStart(r) \/ RequestStep(r) \/ RequestDies(r),
           NEW d \in FileDocs, ~Race("lost", d)', ~Race("delete", d)'
    PROVE  ledger'[d] - ledger[d] =
              (Files(d)' - Files(d)) - (At(r, d, "record")' - At(r, d, "record"))
              + (At(r, d, "refund")' - At(r, d, "refund"))
<1>. USE DEF IInv
<1>0. d \in Docs /\ ledger[d] \in Int
  BY IngestionAssumption DEF TypeOK
<1>1. CASE RequestStart(r)
  <2>1. req[r].pc = "idle" /\ ledger' = ledger
    BY <1>1 DEF RequestStart, UploadPut, IngestUrl, Reingest, DeleteVectors, MoveLoad
  <2>2. ASSUME NEW e \in Docs, NEW c \in Collections, NEW t \in Tasks, UploadPut(r, e, c, t)
        PROVE  req'[r].pc \notin Counted /\ Files(d)' = Files(d)
    BY <2>2 DEF UploadPut, TypeOK, Counted, Files, Exists
  <2>3. ASSUME NEW e \in Docs, NEW c \in Collections, NEW t \in Tasks, IngestUrl(r, e, c, t)
        PROVE  req'[r].pc \notin Counted /\ Files(d)' = Files(d)
    <3>1. docs'[d] = docs[d]
      BY <1>0, <2>3 DEF IngestUrl, TypeOK
    <3>. QED
      BY <2>3, <3>1 DEF IngestUrl, TypeOK, Counted, Files, Exists
  <2>4. ASSUME NEW e \in Docs, NEW t \in Tasks, Reingest(r, e, t)
        PROVE  req'[r].pc \notin Counted /\ Files(d)' = Files(d)
    <3>1. Exists(d)' <=> Exists(d)
      BY <1>0, <2>4 DEF Reingest, Exists, Live, TypeOK, Row
    <3>2. req'[r].pc = "enqueue"
      BY <2>4 DEF Reingest, IdleRequest, TypeOK
    <3>. QED
      BY <3>1, <3>2 DEF Counted, Files
  <2>5. ASSUME NEW e \in Docs, DeleteVectors(r, e)
        PROVE  req'[r].pc \notin Counted /\ Files(d)' = Files(d)
    BY <2>5 DEF DeleteVectors, IdleRequest, TypeOK, Counted, Files, Exists
  <2>6. ASSUME NEW e \in Docs, NEW c \in Collections, MoveLoad(r, e, c)
        PROVE  req'[r].pc \notin Counted /\ Files(d)' = Files(d)
    BY <2>6 DEF MoveLoad, TypeOK, Counted, Files, Exists
  <2>7. req'[r].pc \notin Counted /\ Files(d)' = Files(d)
    BY <1>1, <2>2, <2>3, <2>4, <2>5, <2>6 DEF RequestStart
  <2>. QED
    BY <1>0, <2>1, <2>7 DEF At, Counted, Files
<1>2. CASE UploadInsert(r)
  <2>1. req'[r].pc = "record" /\ req'[r].doc = req[r].doc /\ ledger' = ledger
    BY <1>2 DEF UploadInsert, TypeOK, RequestState
  <2>2. CASE req[r].doc = d
    <3>1. ~Exists(d) /\ Exists(d)'
      BY <1>0, <1>2, <2>2 DEF UploadInsert, NewUploads, Exists, Live, TypeOK
    <3>. QED
      BY <1>0, <1>2, <2>1, <2>2, <3>1 DEF UploadInsert, At, Files
  <2>3. CASE req[r].doc # d
    <3>1. docs'[d] = docs[d]
      BY <1>0, <1>2, <2>3 DEF UploadInsert, TypeOK
    <3>. QED
      BY <1>0, <2>1, <2>3, <3>1 DEF At, Files, Exists
  <2>. QED
    BY <2>2, <2>3
<1>3. CASE UploadRecord(r)
  <2>1. req[r].pc = "record" /\ req'[r].pc = "enqueue" /\ docs' = docs
    BY <1>3 DEF UploadRecord, TypeOK, RequestState
  <2>2. ledger'[d] = IF req[r].doc = d THEN ledger[d] + 1 ELSE ledger[d]
    BY <1>0, <1>3 DEF UploadRecord, TypeOK
  <2>. QED
    BY <1>0, <2>1, <2>2 DEF At, Files, Exists
<1>4. CASE DeleteRow(r)
  <2>1. /\ req[r].pc = "unstored" /\ req'[r].pc = "refund" /\ req'[r].doc = req[r].doc
        /\ ledger' = ledger
    BY <1>4 DEF DeleteRow, TypeOK, RequestState
  <2>2. CASE req[r].doc = d
    <3>1. Exists(d)
      BY <1>4, <2>2 DEF DeleteRow, Race
    <3>2. ~Exists(d)'
      BY <1>0, <1>4, <2>2 DEF DeleteRow, NoRow, Exists, Live, TypeOK
    <3>. QED
      BY <1>0, <2>1, <2>2, <3>1, <3>2 DEF At, Files
  <2>3. CASE req[r].doc # d
    <3>1. docs'[d] = docs[d]
      BY <1>0, <1>4, <2>3 DEF DeleteRow, TypeOK
    <3>. QED
      BY <1>0, <2>1, <2>3, <3>1 DEF At, Files, Exists
  <2>. QED
    BY <2>2, <2>3
<1>5. CASE DeleteRecord(r)
  <2>1. req[r].pc = "refund" /\ req'[r].pc = "bump" /\ docs' = docs
    BY <1>5 DEF DeleteRecord, TypeOK, RequestState
  <2>2. ledger'[d] = IF req[r].doc = d THEN ledger[d] - 1 ELSE ledger[d]
    BY <1>0, <1>5 DEF DeleteRecord, Refund, TypeOK
  <2>. QED
    BY <1>0, <2>1, <2>2 DEF At, Files, Exists
<1>6. CASE MoveCommit(r)
  <2>1. docs'[d].status = docs[d].status
    BY <1>0, <1>6 DEF MoveCommit, TypeOK, Row
  <2>2. req[r].pc = "moving" /\ req'[r].pc = "bump" /\ ledger' = ledger
    BY <1>6 DEF MoveCommit, TypeOK, RequestState
  <2>. QED
    BY <1>0, <2>1, <2>2 DEF At, Files, Exists
<1>7. CASE RequestDies(r)
  <2>1. req'[r].pc = "idle" /\ docs' = docs /\ ledger' = ledger
    BY <1>7 DEF RequestDies, IdleRequest, TypeOK
  <2>2. req[r].doc = d => req[r].pc \notin Counted
    BY <1>7 DEF RequestDies, Race, Counted
  <2>. QED
    BY <1>0, <2>1, <2>2 DEF At, Counted, Files, Exists
<1>8. CASE DeleteBlob(r) \/ Enqueue(r) \/ RequestBump(r) \/ MoveFails(r)
  <2>1. docs' = docs /\ ledger' = ledger /\ req[r].pc \notin Counted
    BY <1>8 DEF DeleteBlob, Enqueue, RequestBump, MoveFails, Counted
  <2>2. req'[r].pc \notin Counted
    BY <1>8 DEF DeleteBlob, Enqueue, RequestBump, MoveFails, IdleRequest, TypeOK, RequestState,
                Counted
  <2>. QED
    BY <1>0, <2>1, <2>2 DEF At, Counted, Files, Exists
<1>. QED
  BY <1>1, <1>2, <1>3, <1>4, <1>5, <1>6, <1>7, <1>8 DEF RequestStep

LEMMA NextLedger ==
    IInv /\ FiniteEvents /\ LedgerExact /\ [Next]_vars => FiniteEvents' /\ LedgerExact'
<1>. SUFFICES ASSUME IInv, FiniteEvents, LedgerExact, [Next]_vars
              PROVE  FiniteEvents' /\ LedgerExact'
  OBVIOUS
<1>. USE DEF IInv
<1>1. CASE UNCHANGED vars
  BY <1>1 DEF vars, FiniteEvents, LedgerExact, RequestsOn, Race, Exists
<1>2. ASSUME NEW w \in Workers,
             WorkerStep(w) \/ WorkerDies(w) \/ \E m \in Message : StartIngest(w, m) \/ DropTask(w, m)
      PROVE  FiniteEvents' /\ LedgerExact'
  <2>1. req' = req /\ ledger' = ledger
    BY <1>2, WorkerFrame
    DEF WorkerStep, WorkerDies, LoadSource, DeleteOldChunks, CommitIndex, WorkerBump, BadInput,
        IndexError, BumpError, MarkFailed, StartIngest, DropTask
  <2>2. \A d \in Docs : Exists(d)' <=> Exists(d)
    BY <1>2, WorkerKeepsFiles
  <2>3. \A d \in Docs, p \in Counted : RequestsOn(d, {p})' = RequestsOn(d, {p})
    BY <2>1 DEF RequestsOn
  <2>4. FiniteEvents'
    BY <2>3 DEF FiniteEvents
  <2>5. LedgerExact'
    BY <2>1, <2>2, <2>3, HistoryGrows, IngestionAssumption DEF LedgerExact, Race, Counted
  <2>. QED
    BY <2>4, <2>5
<1>3. ASSUME NEW r \in Requests, RequestStart(r) \/ RequestStep(r) \/ RequestDies(r)
      PROVE  FiniteEvents' /\ LedgerExact'
  <2>1. FiniteEvents'
    BY <1>3, CountStep DEF FiniteEvents
  <2>2. ASSUME NEW d \in FileDocs, ~Race("lost", d)', ~Race("delete", d)'
        PROVE  ledger'[d] = Files(d)' - Pending(d, "record")' + Pending(d, "refund")'
    <3>1. d \in Docs
      BY IngestionAssumption
    <3>2. ledger[d] = Files(d) - Pending(d, "record") + Pending(d, "refund")
      BY <2>2, HistoryGrows DEF LedgerExact, Race, Files, Pending
    <3>3. /\ Pending(d, "record") \in Nat
          /\ Pending(d, "record")' = Pending(d, "record") + At(r, d, "record")' - At(r, d, "record")
      BY <1>3, <3>1, CountStep DEF FiniteEvents, Counted
    <3>4. /\ Pending(d, "refund") \in Nat
          /\ Pending(d, "refund")' = Pending(d, "refund") + At(r, d, "refund")' - At(r, d, "refund")
      BY <1>3, <3>1, CountStep DEF FiniteEvents, Counted
    <3>5. ledger'[d] - ledger[d] =
             (Files(d)' - Files(d)) - (At(r, d, "record")' - At(r, d, "record"))
             + (At(r, d, "refund")' - At(r, d, "refund"))
      BY <1>3, <2>2, LedgerStep
    <3>6. /\ ledger[d] \in Int /\ ledger'[d] \in Int
          /\ Files(d) \in Int /\ Files(d)' \in Int
          /\ At(r, d, "record") \in Int /\ At(r, d, "record")' \in Int
          /\ At(r, d, "refund") \in Int /\ At(r, d, "refund")' \in Int
      BY <3>1, NextType DEF TypeOK, Files, At
    <3>. QED
      BY <3>2, <3>3, <3>4, <3>5, <3>6
  <2>3. LedgerExact'
    BY <2>2 DEF LedgerExact, Files, Pending
  <2>. QED
    BY <2>1, <2>3
<1>. QED
  BY <1>1, <1>2, <1>3 DEF Next, Take

\* The tenant is charged for exactly the files it keeps, counting the events not yet
\* written, outside a lost request and two deletions of one document.
THEOREM LedgerFollowsFiles == Spec => []LedgerExact
<1>1. Init => FiniteEvents /\ LedgerExact
  <2>. SUFFICES ASSUME Init PROVE FiniteEvents /\ LedgerExact
    OBVIOUS
  <2>1. \A d \in Docs, p \in Counted : RequestsOn(d, {p}) = {}
    BY DEF Init, RequestsOn, IdleRequest, Counted
  <2>2. \A d \in Docs : ledger[d] = 0 /\ ~Exists(d)
    BY DEF Init, NoRow, Exists, Live
  <2>. QED
    BY <2>1, <2>2, FS_EmptySet, IngestionAssumption DEF FiniteEvents, LedgerExact, Counted
<1>. QED
  BY <1>1, NextLedger, Inductive, PTL DEF Spec
=============================================================================
