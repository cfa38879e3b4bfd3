----------------------------- MODULE NotionSync -----------------------------
(***************************************************************************)
(* The import of one Notion page: the sync tasks of workers/sync_task.py,   *)
(* started every night and when the integration is connected                *)
(* (routers/integrations.py), the ingest_notion_page tasks they send to     *)
(* other workers (workers/ingest_task.py), and the requests that delete a   *)
(* document (routers/documents.py).  Notion is external: the page has a     *)
(* version, which last_edited_time tells, and changes at any time; so are   *)
(* the other pages, on any of which a sync may end before this one.         *)
(*                                                                          *)
(* A session loads a document again after each commit and writes the        *)
(* columns that differ from what it loaded.                                 *)
(***************************************************************************)
EXTENDS Naturals, FiniteSets, Bags

CONSTANTS
    Workers,
    Docs,        \* document ids
    MaxVersion,  \* bound: versions of the page
    MaxRetries,  \* of a Celery task
    MaxQueued,   \* bound: tasks waiting when a sync is sent
    MaxMishaps,  \* bound: deaths, failures and requests to delete
    None

ASSUME NotionAssumption ==
    /\ None \notin Docs
    /\ {MaxVersion, MaxRetries, MaxQueued, MaxMishaps} \subseteq Nat
    /\ MaxVersion > 0

VARIABLES
    page,       \* the version of the page at Notion
    token,      \* the integration's token exists
    docs,       \* rows of `documents` for the page, or None
    rows,       \* the versions their searchable chunks are of
    queue,      \* tasks waiting for a worker
    work,       \* what each worker does
    deleting,   \* documents a request has taken the chunks of, and not yet the row
    mishaps,
    overlapped, \* history: two runs of one document were between load and commit at a time
    torn        \* history: documents a deletion left ready and without chunks, not indexed since

vars == <<page, token, docs, rows, queue, work, deleting, mishaps, overlapped, torn>>

Versions == 1..MaxVersion

SyncTask == [kind |-> "sync"]
PageTask == [kind: {"page"}, doc: Docs, text: Versions, label: Versions, try: 0..MaxRetries]

Free == [pc |-> "free"]

Exists(d) == docs[d] # None

Imported == {d \in Docs : Exists(d)}

At(w, pc) == work[w].pc = pc

Sets(w, pc) == work' = [work EXCEPT ![w].pc = pc]

Running(w) == work[w].pc \in {"embedding", "swapping", "bumping"}

Ends(w) == work' = [work EXCEPT ![w] = Free]

WaitingPages == BagToSet(queue) \cap PageTask

Send(m) == queue' = queue (+) SetToBag({m})

Without(m) == queue (-) SetToBag({m})

MayQueue == BagCardinality(queue) < MaxQueued

-----------------------------------------------------------------------------
(* Starting a sync.                                                         *)

\* notion_callback: the one row of the token is written, a sync is sent.
Connect ==
    /\ MayQueue
    /\ token' = TRUE
    /\ Send(SyncTask)
    /\ UNCHANGED <<page, docs, rows, work, deleting, mishaps, overlapped, torn>>

\* sync_all_notion, every night.
SyncAll ==
    /\ token
    /\ MayQueue
    /\ Send(SyncTask)
    /\ UNCHANGED <<page, token, docs, rows, work, deleting, mishaps, overlapped, torn>>

\* Somebody edits the page.
EditPage ==
    /\ page < MaxVersion
    /\ page' = page + 1
    /\ UNCHANGED <<token, docs, rows, queue, work, deleting, mishaps, overlapped, torn>>

-----------------------------------------------------------------------------
(* sync_notion                                                              *)

\* The search lists the page with its last_edited_time.
Search(w) ==
    /\ At(w, "free")
    /\ BagIn(SyncTask, queue)
    /\ queue' = Without(SyncTask)
    /\ work' = [work EXCEPT ![w] = [pc |-> "listed", label |-> page]]
    /\ UNCHANGED <<page, token, docs, rows, deleting, mishaps, overlapped, torn>>

Bug_SkipsByLabel(d, label) == docs[d].label = label

\* A copy of this version is there, and complete.
UpToDate(d, label) == docs[d].label = label /\ docs[d].status = "ready"

\* fetch_block_tree reads the page piece by piece.  A text that mixes versions
\* goes by its oldest, the one the first piece was read at.
FetchBlockTree == page

\* The loop over the search results ends before this page: another page is in
\* two documents, cannot be fetched, or MAX_PAGES_PER_SYNC come first.
EndsEarly(w) ==
    /\ At(w, "listed")
    /\ Ends(w)
    /\ UNCHANGED <<page, token, docs, rows, queue, deleting, mishaps, overlapped, torn>>

\* The one document of the page, if it needs a copy (two documents raise), and
\* the text of the page by now.
SelectAndFetch(w) ==
    /\ At(w, "listed")
    /\ work' = [work EXCEPT ![w] =
          IF Imported = {}
          THEN [pc |-> "fetched", label |-> @.label, text |-> FetchBlockTree, doc |-> None, writes |-> TRUE]
          ELSE IF \E d \in Docs : Imported = {d} /\ ~UpToDate(d, @.label)
          THEN LET d == CHOOSE x \in Docs : Imported = {x}
               IN  [pc |-> "fetched", label |-> @.label, text |-> FetchBlockTree, doc |-> d,
                    writes |-> docs[d].status # "pending"]
          ELSE Free]
    /\ UNCHANGED <<page, token, docs, rows, queue, deleting, mishaps, overlapped, torn>>

Bug_LabelsEarly(w) ==
    LET d == work[w].doc
    IN  /\ d # None
        /\ Exists(d)
        /\ docs' = [docs EXCEPT ![d].status = "pending", ![d].label = work[w].label]
        /\ Sets(w, "marked")

\* An existing row is set to pending; its chunks keep serving.  A row deleted
\* since fails the UPDATE, if there is one.
MarkExisting(w) ==
    LET d == work[w].doc
    IN  /\ d # None
        /\ IF ~work[w].writes THEN UNCHANGED docs /\ Sets(w, "marked")
           ELSE IF Exists(d) THEN docs' = [docs EXCEPT ![d].status = "pending"] /\ Sets(w, "marked")
           ELSE UNCHANGED docs /\ Ends(w)

\* Ids are never used twice.
Unused(d) ==
    /\ \A m \in BagToSet(queue) \ {SyncTask} : m.doc # d
    /\ \A w \in Workers : /\ work[w].pc \in {"fetched", "marked"} => work[w].doc # d
                         /\ Running(w) => work[w].task.doc # d

\* A new row is inserted, with a new id, it does not matter which: nothing forbids
\* a second one for the page.
InsertDocument(w) ==
    LET free == {d \in Docs : ~Exists(d) /\ Unused(d)}
        d == CHOOSE x \in free : TRUE
    IN  /\ work[w].doc = None
        /\ free # {}
        /\ docs' = [docs EXCEPT ![d] = [status |-> "pending", label |-> work[w].label]]
        /\ work' = [work EXCEPT ![w].pc = "marked", ![w].doc = d]

CommitPending(w) ==
    /\ At(w, "fetched")
    /\ MarkExisting(w) \/ InsertDocument(w)
    /\ UNCHANGED <<page, token, rows, queue, deleting, mishaps, overlapped, torn>>

\* ingest_notion_page.delay
Delay(w) ==
    /\ At(w, "marked")
    /\ Send([kind |-> "page", doc |-> work[w].doc, text |-> work[w].text, label |-> work[w].label, try |-> 0])
    /\ Ends(w)
    /\ UNCHANGED <<page, token, docs, rows, deleting, mishaps, overlapped, torn>>

-----------------------------------------------------------------------------
(* ingest_notion_page                                                       *)

StartPage(w, m) ==
    /\ At(w, "free")
    /\ BagIn(m, queue)
    /\ queue' = Without(m)
    /\ IF Exists(m.doc)
       THEN /\ docs' = [docs EXCEPT ![m.doc].status = "processing"]
            /\ work' = [work EXCEPT ![w] = [pc |-> "embedding", task |-> m]]
       ELSE UNCHANGED <<docs, work>>
    /\ UNCHANGED <<page, token, rows, deleting, mishaps, overlapped, torn>>

\* After the embedding the row is loaded again and the DELETE sees the chunks
\* there are ...
LoadRow(w) ==
    LET d == work[w].task.doc
    IN  /\ At(w, "embedding")
        /\ Exists(d)
        /\ work' = [work EXCEPT ![w] = [pc |-> "swapping", task |-> @.task, seen |-> docs[d], old |-> rows[d]]]
        /\ overlapped' = (overlapped \/ \E v \in Workers : At(v, "swapping") /\ work[v].task.doc = d)
        /\ UNCHANGED <<page, token, docs, rows, queue, deleting, mishaps, torn>>

\* ... and the commit replaces them and writes what differs from the copy.
CommitIndex(w) ==
    LET m == work[w].task
        d == m.doc
        seen == work[w].seen
    IN  /\ At(w, "swapping")
        /\ Exists(d)
        /\ rows' = [rows EXCEPT ![d] = (@ \ work[w].old) \cup {m.text}]
        /\ docs' = [docs EXCEPT ![d].status = IF seen.status = "ready" THEN @ ELSE "ready",
                                ![d].label = IF seen.label = m.label THEN @ ELSE m.label]
        /\ work' = [work EXCEPT ![w] = [pc |-> "bumping", task |-> m]]
        /\ torn' = torn \ {d}
        /\ UNCHANGED <<page, token, queue, deleting, mishaps, overlapped>>

BumpVersion(w) ==
    /\ At(w, "bumping")
    /\ Ends(w)
    /\ UNCHANGED <<page, token, docs, rows, queue, deleting, mishaps, overlapped, torn>>

\* An exception: the document is marked in a session of its own and the task
\* sent again, or not if retries are used up or it was a ValueError.  A
\* document deleted since is one of the reasons.
Fails(w) ==
    LET m == work[w].task
    IN  /\ Running(w)
        /\ \/ Exists(m.doc) /\ mishaps < MaxMishaps /\ mishaps' = mishaps + 1
           \/ ~Exists(m.doc) /\ UNCHANGED mishaps
        /\ docs' = IF Exists(m.doc) THEN [docs EXCEPT ![m.doc].status = "failed"] ELSE docs
        /\ \/ m.try < MaxRetries /\ Send([m EXCEPT !.try = @ + 1])
           \/ UNCHANGED queue
        /\ Ends(w)
        /\ UNCHANGED <<page, token, rows, deleting, overlapped, torn>>

\* A worker dies, or Notion fails a sync: neither is tried again (a sync that
\* only has its list has EndsEarly).
Dies(w) ==
    /\ work[w].pc \notin {"free", "listed"}
    /\ mishaps < MaxMishaps
    /\ mishaps' = mishaps + 1
    /\ Ends(w)
    /\ UNCHANGED <<page, token, docs, rows, queue, deleting, overlapped, torn>>

-----------------------------------------------------------------------------
(* delete_document.  The page has no file in S3; a second request for the   *)
(* same document does nothing the first does not do.                        *)

\* A user deletes the document: its chunks go, and are gone for good ...
DeleteVectors(d) ==
    /\ Exists(d)
    /\ mishaps < MaxMishaps
    /\ mishaps' = mishaps + 1
    /\ rows' = [rows EXCEPT ![d] = {}]
    /\ deleting' = deleting \cup {d}
    /\ UNCHANGED <<page, token, docs, queue, work, overlapped, torn>>

\* ... then the row, with the chunks a worker inserted in between.
DeleteRow(d) ==
    /\ d \in deleting
    /\ docs' = [docs EXCEPT ![d] = None]
    /\ rows' = [rows EXCEPT ![d] = {}]
    /\ deleting' = deleting \ {d}
    /\ torn' = torn \ {d}
    /\ UNCHANGED <<page, token, queue, work, mishaps, overlapped>>

\* The process or the database fails it before the second commit.
DeletionBreaks(d) ==
    /\ d \in deleting
    /\ deleting' = deleting \ {d}
    /\ torn' = IF docs[d].status = "ready" /\ rows[d] = {} THEN torn \cup {d} ELSE torn
    /\ UNCHANGED <<page, token, docs, rows, queue, work, mishaps, overlapped>>

-----------------------------------------------------------------------------

Init ==
    /\ page = 1
    /\ token = FALSE
    /\ docs = [d \in Docs |-> None]
    /\ rows = [d \in Docs |-> {}]
    /\ queue = EmptyBag
    /\ work = [w \in Workers |-> Free]
    /\ deleting = {}
    /\ mishaps = 0
    /\ overlapped = FALSE
    /\ torn = {}

WorkerStep(w) ==
    \/ EndsEarly(w)
    \/ SelectAndFetch(w)
    \/ CommitPending(w)
    \/ Delay(w)
    \/ LoadRow(w)
    \/ CommitIndex(w)
    \/ BumpVersion(w)
    \/ Fails(w)

TakeSync == \E w \in Workers : Search(w)
TakePage(m) == \E w \in Workers : StartPage(w, m)
ReachPage == \E w \in Workers : SelectAndFetch(w)

Next ==
    \/ Connect
    \/ SyncAll
    \/ EditPage
    \/ TakeSync
    \/ \E m \in WaitingPages : TakePage(m)
    \/ \E w \in Workers : WorkerStep(w) \/ Dies(w)
    \/ \E d \in Docs : DeleteVectors(d) \/ DeleteRow(d) \/ DeletionBreaks(d)

\* The beat and the broker go on, and so does a task or a request in progress;
\* a sync in progress may end before this page every time.
Fairness ==
    /\ WF_vars(SyncAll)
    /\ SF_vars(TakeSync)
    /\ \A d \in Docs : SF_vars(\E m \in WaitingPages : m.doc = d /\ TakePage(m))
    /\ \A w \in Workers : WF_vars(WorkerStep(w))
    /\ \A d \in Docs : WF_vars(DeleteRow(d))

Spec == Init /\ [][Next]_vars /\ Fairness

-----------------------------------------------------------------------------

Duplicated == Cardinality(Imported) > 1

\* A ready document is searchable in one version of the page, and its label
\* never names a newer one than that: what the next sync skips is up to date.
\* Only a deletion leaves it without chunks, until its second commit, or for
\* good if that never comes.  (Two runs that overlap between load and commit
\* break this.)
LabelCovered ==
    \A d \in Imported : (docs[d].status = "ready" /\ ~overlapped) =>
        \/ \E v \in Versions : rows[d] = {v} /\ docs[d].label <= v
        \/ d \in deleting \cup torn /\ rows[d] = {}

Current == \E d \in Docs : /\ Imported = {d}
                           /\ docs[d].status = "ready"
                           /\ rows[d] = {page}

\* A deletion broke off and left a document every sync takes for up to date.
Hollow == \E d \in torn : UpToDate(d, page)

\* Once connected, the page is searchable as Notion has it, whatever failed,
\* died or was deleted before: the nightly sync repairs it.  This takes syncs
\* that do not always end before the page, which the code does not see to;
\* two rows for the page, overlapping runs and a deletion that broke off on a
\* ready document are beyond repair.
CatchesUp ==
    SF_vars(ReachPage) =>
        ((token /\ page = MaxVersion) ~> (Current \/ Duplicated \/ overlapped \/ Hollow))
=============================================================================
