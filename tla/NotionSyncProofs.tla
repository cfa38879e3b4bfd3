-------------------------- MODULE NotionSyncProofs --------------------------
(***************************************************************************)
(* NotionSync for every number of workers, document ids, versions, retries  *)
(* and mishaps: what is marked ready is the version its label names, or a   *)
(* newer one, unless a deletion has taken its chunks.                       *)
(***************************************************************************)
EXTENDS NotionSync, TLAPS

-----------------------------------------------------------------------------
(* The invariant.                                                           *)

Row == [status: {"pending", "processing", "ready", "failed"}, label: Versions]

\* A page's text is at least as new as the label it is sent with.
Sent == {m \in PageTask : m.label <= m.text}

Listed == [pc: {"listed"}, label: Versions]

Fetched == {f \in [pc: {"fetched", "marked"}, label: Versions, text: Versions, doc: Docs \cup {None}, writes: BOOLEAN] :
               f.label <= f.text /\ (f.pc = "marked" => f.doc \in Docs)}

Holding == [pc: {"embedding", "bumping"}, task: Sent]

Swapping == [pc: {"swapping"}, task: Sent, seen: Row, old: SUBSET Versions]

Step == {Free} \cup Listed \cup Fetched \cup Holding \cup Swapping

Types ==
    /\ page \in Versions
    /\ docs \in [Docs -> Row \cup {None}]
    /\ rows \in [Docs -> SUBSET Versions]
    /\ BagToSet(queue) \subseteq {SyncTask} \cup Sent
    /\ work \in [Workers -> Step]
    /\ overlapped \in BOOLEAN
    /\ deleting \subseteq Docs /\ torn \subseteq Docs

\* A listing is not of the future.
ListedBefore == \A w \in Workers : At(w, "listed") => work[w].label <= page

\* Until two runs of a document overlap, the one that replaces its rows finds
\* them as it loaded them, or gone, and the label as it loaded it.
Undisturbed ==
    ~overlapped =>
        \A w \in Workers : At(w, "swapping") =>
            LET d == work[w].task.doc
            IN  /\ Exists(d) => rows[d] \subseteq work[w].old /\ docs[d].label = work[w].seen.label
                /\ \A v \in Workers \ {w} : At(v, "swapping") => work[v].task.doc # d

Covered ==
    ~overlapped =>
        \A d \in Docs : (docs[d] # None /\ docs[d].status = "ready") =>
            \/ \E v \in Versions : rows[d] = {v} /\ docs[d].label <= v
            \/ d \in deleting \cup torn /\ rows[d] = {}

Inv == Types /\ ListedBefore /\ Undisturbed /\ Covered

-----------------------------------------------------------------------------
(* Workers and tasks.                                                       *)

LEMMA RowNotNone == None \notin Docs
BY NotionAssumption

LEMMA StepIs ==
    ASSUME Types, NEW w \in Workers
    PROVE  /\ work[w].pc = "listed" => work[w] \in Listed
           /\ work[w].pc \in {"fetched", "marked"} => work[w] \in Fetched
           /\ work[w].pc \in {"embedding", "bumping"} => work[w] \in Holding
           /\ work[w].pc = "swapping" => work[w] \in Swapping
BY DEF Types, Step, Free, Listed, Fetched, Holding, Swapping

LEMMA SetsIs ==
    ASSUME Types, NEW w \in Workers, NEW s \in Step, work' = [work EXCEPT ![w] = s]
    PROVE  work' \in [Workers -> Step] /\ work'[w] = s /\ \A v \in Workers \ {w} : work'[v] = work[v]
BY DEF Types

LEMMA SendIs ==
    ASSUME Types, NEW m \in {SyncTask} \cup Sent, Send(m)
    PROVE  BagToSet(queue') \subseteq {SyncTask} \cup Sent
BY DEF Types, Send, BagToSet, SetToBag, (+)

LEMMA WithoutIs ==
    ASSUME Types, NEW m, queue' = Without(m)
    PROVE  BagToSet(queue') \subseteq {SyncTask} \cup Sent
BY DEF Types, Without, BagToSet, SetToBag, (-)

-----------------------------------------------------------------------------
(* Every step but loading and replacing.                                    *)

\* Document d is gone, stays, loses its chunks to a deletion, or the deletion
\* breaks off where a worker has replaced them or is to; it is no longer ready,
\* or is new.
Quiet(d) ==
    \/ docs'[d] = None
    \/ /\ docs'[d] = docs[d] /\ rows'[d] = rows[d]
       /\ d \in deleting \cup torn => d \in deleting' \cup torn'
    \/ docs'[d] = docs[d] /\ rows'[d] = {} /\ d \in deleting'
    \/ docs'[d] = docs[d] /\ rows'[d] = rows[d] /\ (rows[d] # {} \/ docs[d].status # "ready")
    \/ /\ Exists(d) /\ rows'[d] = rows[d]
       /\ docs'[d].label = docs[d].label /\ docs'[d].status # "ready"
    \/ /\ \A w \in Workers : At(w, "swapping") => work[w].task.doc # d
       /\ docs'[d].status # "ready"

LEMMA QuietStep ==
    ASSUME Inv, Types', ListedBefore', overlapped' = overlapped,
           \A d \in Docs : Quiet(d),
           \A w \in Workers : work'[w].pc = "swapping" => work'[w] = work[w]
    PROVE  Inv'
<1>1. ASSUME ~overlapped, NEW w \in Workers, work'[w].pc = "swapping", NEW d, d = work'[w].task.doc
      PROVE  /\ docs'[d] # None => rows'[d] \subseteq work'[w].old /\ docs'[d].label = work'[w].seen.label
             /\ \A v \in Workers \ {w} : work'[v].pc = "swapping" => work'[v].task.doc # d
  <2>1. work'[w] = work[w] /\ At(w, "swapping") /\ d = work[w].task.doc
    BY <1>1 DEF At
  <2>2. d \in Docs
    BY <2>1, StepIs DEF Inv, At, Swapping, Sent, PageTask
  <2>3. /\ Exists(d) => rows[d] \subseteq work[w].old /\ docs[d].label = work[w].seen.label
        /\ \A v \in Workers \ {w} : At(v, "swapping") => work[v].task.doc # d
    BY <1>1, <2>1 DEF Inv, Undisturbed
  <2>4. Quiet(d)
    BY SMTT(30), <2>2
  <2>5. docs'[d] # None => rows'[d] \subseteq work[w].old /\ docs'[d].label = work[w].seen.label
    BY <2>1, <2>3, <2>4 DEF Quiet, Exists
  <2>6. ASSUME NEW v \in Workers \ {w}, work'[v].pc = "swapping" PROVE work'[v].task.doc # d
    BY <2>3, <2>6 DEF At
  <2>. QED
    BY <2>1, <2>5, <2>6
<1>2. Undisturbed'
  BY <1>1 DEF Undisturbed, At, Exists
<1>3. Covered'
  <2>1. ASSUME ~overlapped, NEW d \in Docs, docs'[d] # None, docs'[d].status = "ready"
        PROVE  \/ \E v \in Versions : rows'[d] = {v} /\ docs'[d].label <= v
               \/ d \in deleting' \cup torn' /\ rows'[d] = {}
    <3>1. CASE rows'[d] = {} /\ d \in deleting'
      BY <3>1
    <3>2. CASE ~(rows'[d] = {} /\ d \in deleting')
      <4>1. /\ docs'[d] = docs[d] /\ rows'[d] = rows[d]
            /\ \/ d \in deleting \cup torn => d \in deleting' \cup torn'
               \/ rows[d] # {} \/ docs[d].status # "ready"
        BY <2>1, <3>2 DEF Quiet
      <4>2. \/ \E v \in Versions : rows[d] = {v} /\ docs[d].label <= v
            \/ d \in deleting \cup torn /\ rows[d] = {}
        BY <2>1, <4>1 DEF Inv, Covered
      <4>. QED
        BY <2>1, <4>1, <4>2
    <3>. QED
      BY <3>1, <3>2
  <2>. QED
    BY <2>1 DEF Covered, Versions
<1>. QED
  BY <1>2, <1>3 DEF Inv

\* A step of one worker, or of none, that is about no listing.
LEMMA ListedStep ==
    ASSUME Inv, Types', page <= page',
           \A w \in Workers : work'[w].pc = "listed" => work'[w] = work[w] \/ work'[w].label <= page'
    PROVE  ListedBefore'
<1>1. ASSUME NEW w \in Workers, work'[w].pc = "listed" PROVE work'[w].label <= page'
  <2>1. CASE work'[w] = work[w]
    <3>1. work[w].pc = "listed"
      BY <1>1, <2>1
    <3>2. PICK l \in Nat : l = work[w].label /\ l <= page
      BY <3>1, StepIs DEF Inv, ListedBefore, At, Listed, Versions
    <3>3. page \in Nat /\ page' \in Nat
      BY DEF Inv, Types, Versions
    <3>4. l <= page'
      BY <3>2, <3>3
    <3>. QED
      BY <2>1, <3>2, <3>4
  <2>. QED
    BY <1>1, <2>1
<1>. QED
  BY <1>1 DEF ListedBefore, At

\* A step that leaves the documents alone.
LEMMA Aside ==
    ASSUME Inv, UNCHANGED <<docs, rows, overlapped, deleting, torn>>, page' \in Versions, page <= page',
           BagToSet(queue') \subseteq {SyncTask} \cup Sent,
           work' = work
    PROVE  Inv'
<1>1. Types'
  BY DEF Inv, Types
<1>2. ListedBefore'
  BY <1>1, ListedStep
<1>3. \A d \in Docs : Quiet(d)
  BY DEF Quiet
<1>. QED
  BY <1>1, <1>2, <1>3, QuietStep

\* A step of worker w, with documents that keep their types.
LEMMA WorkerQuiet ==
    ASSUME Inv, NEW w \in Workers, NEW s \in Step, work' = [work EXCEPT ![w] = s],
           s.pc # "swapping", s.pc = "listed" => s.label <= page,
           UNCHANGED <<page, rows, overlapped, deleting, torn>>,
           BagToSet(queue') \subseteq {SyncTask} \cup Sent,
           docs' \in [Docs -> Row \cup {None}],
           \A d \in Docs : Quiet(d)
    PROVE  Inv'
<1>1. work' \in [Workers -> Step] /\ work'[w] = s /\ \A v \in Workers \ {w} : work'[v] = work[v]
  BY SetsIs DEF Inv
<1>2. Types'
  BY <1>1 DEF Inv, Types
<1>3. page <= page' /\ page' = page
  BY DEF Inv, Types, Versions
<1>4. ListedBefore'
  BY <1>1, <1>2, <1>3, ListedStep
<1>5. \A v \in Workers : work'[v].pc = "swapping" => work'[v] = work[v]
  BY <1>1
<1>. QED
  BY <1>2, <1>4, <1>5, QuietStep

LEMMA QueueSame ==
    ASSUME Types, queue' = queue
    PROVE  BagToSet(queue') \subseteq {SyncTask} \cup Sent
BY DEF Types

LEMMA DocsSame ==
    ASSUME Types, docs' = docs, rows' = rows, deleting' = deleting, torn' = torn
    PROVE  docs' \in [Docs -> Row \cup {None}] /\ \A d \in Docs : Quiet(d)
BY DEF Types, Quiet

\* An existing document gets another status than ready.
LEMMA StatusSet ==
    ASSUME Types, NEW d \in Docs, Exists(d), NEW s \in {"pending", "processing", "failed"},
           docs' = [docs EXCEPT ![d].status = s], rows' = rows, deleting' = deleting, torn' = torn
    PROVE  docs' \in [Docs -> Row \cup {None}] /\ \A e \in Docs : Quiet(e)
<1>1. docs[d] \in Row
  BY DEF Types, Exists
<1>. DEFINE x == [docs[d] EXCEPT !.status = s]
<1>2. x \in Row /\ x.label = docs[d].label /\ x.status = s
  BY <1>1 DEF Row
<1>3. docs' = [docs EXCEPT ![d] = x]
  OBVIOUS
<1>. HIDE DEF x
<1>4. docs' \in [Docs -> Row \cup {None}] /\ docs'[d] = x /\ \A e \in Docs \ {d} : docs'[e] = docs[e]
  BY <1>2, <1>3 DEF Types
<1>. QED
  BY <1>2, <1>4 DEF Quiet

LEMMA FreeStep == Free \in Step /\ Free.pc = "free"
BY DEF Step, Free

-----------------------------------------------------------------------------
(* A step for each action.                                                  *)

LEMMA SelectStep ==
    ASSUME Inv, NEW w \in Workers, SelectAndFetch(w)
    PROVE  Inv'
<1>1. Types /\ work[w].pc = "listed"
  BY DEF Inv, SelectAndFetch, At
<1>2. work[w] \in Listed /\ work[w].label \in Versions /\ work[w].label <= page /\ page \in Versions
  BY <1>1, StepIs DEF Inv, Types, Listed, ListedBefore, At
<1>3. UNCHANGED <<page, docs, rows, queue, overlapped, deleting, torn>>
  BY DEF SelectAndFetch
<1>4. ASSUME NEW d \in Docs \cup {None}, NEW b \in BOOLEAN
      PROVE  /\ [pc |-> "fetched", label |-> work[w].label, text |-> page, doc |-> d, writes |-> b] \in Fetched
             /\ [pc |-> "fetched", label |-> work[w].label, text |-> page, doc |-> d, writes |-> b].pc = "fetched"
  BY <1>2 DEF Fetched
<1>5. \E s \in Fetched \cup {Free} : work' = [work EXCEPT ![w] = s] /\ s.pc # "swapping" /\ s.pc # "listed"
  <2>1. CASE Imported = {}
    <3>1. work' = [work EXCEPT ![w] = [pc |-> "fetched", label |-> work[w].label, text |-> page, doc |-> None, writes |-> TRUE]]
      BY <2>1 DEF SelectAndFetch, FetchBlockTree
    <3>. QED
      BY <1>4, <3>1
  <2>2. CASE Imported # {} /\ \E d \in Docs : Imported = {d} /\ ~UpToDate(d, work[w].label)
    <3>1. PICK d \in Docs : Imported = {d}
      BY <2>2
    <3>2. (CHOOSE x \in Docs : Imported = {x}) = d
      BY <3>1
    <3>3. work' = [work EXCEPT ![w] = [pc |-> "fetched", label |-> work[w].label, text |-> page, doc |-> d,
                                       writes |-> docs[d].status # "pending"]]
      BY <1>1, <2>2, <3>2 DEF SelectAndFetch, FetchBlockTree
    <3>4. (docs[d].status # "pending") \in BOOLEAN
      OBVIOUS
    <3>. QED
      BY <1>4, <3>3, <3>4
  <2>3. CASE Imported # {} /\ ~(\E d \in Docs : Imported = {d} /\ ~UpToDate(d, work[w].label))
    <3>1. work' = [work EXCEPT ![w] = Free]
      BY <2>3 DEF SelectAndFetch
    <3>. QED
      BY <3>1, FreeStep
  <2>. QED
    BY <2>1, <2>2, <2>3
<1>6. Fetched \cup {Free} \subseteq Step
  BY DEF Step
<1>7. PICK s \in Step : work' = [work EXCEPT ![w] = s] /\ s.pc # "swapping" /\ s.pc # "listed"
  BY <1>5, <1>6
<1>. QED
  BY <1>1, <1>3, <1>7, QueueSame, DocsSame, WorkerQuiet

LEMMA CommitPendingStep ==
    ASSUME Inv, NEW w \in Workers, CommitPending(w)
    PROVE  Inv'
<1>1. Types /\ work[w].pc = "fetched" /\ work[w] \in Fetched
  BY StepIs DEF Inv, CommitPending, At
<1>2. UNCHANGED <<page, rows, queue, overlapped, deleting, torn>>
  BY DEF CommitPending
<1>3. CASE MarkExisting(w)
  <2>1. PICK d \in Docs : d = work[w].doc
    BY <1>1, <1>3 DEF MarkExisting, Fetched
  <2>2. /\ \/ work' = [work EXCEPT ![w] = [work[w] EXCEPT !.pc = "marked"]]
           \/ work' = [work EXCEPT ![w] = Free]
        /\ docs' = docs \/ (Exists(d) /\ docs' = [docs EXCEPT ![d].status = "pending"])
    BY <1>3, <2>1 DEF MarkExisting, Sets, Ends
  <2>3. docs' \in [Docs -> Row \cup {None}] /\ \A e \in Docs : Quiet(e)
    BY <1>1, <1>2, <2>2, DocsSame, StatusSet
  <2>4. PICK s \in Step : work' = [work EXCEPT ![w] = s] /\ s.pc # "swapping" /\ s.pc # "listed"
    <3>1. CASE work' = [work EXCEPT ![w] = [work[w] EXCEPT !.pc = "marked"]]
      <4>. DEFINE s == [work[w] EXCEPT !.pc = "marked"]
      <4>1. s \in Step /\ s.pc = "marked"
        BY <1>1, <2>1 DEF Fetched, Step
      <4>2. work' = [work EXCEPT ![w] = s]
        BY <3>1
      <4>. HIDE DEF s
      <4>. QED
        BY <4>1, <4>2
    <3>2. CASE work' = [work EXCEPT ![w] = Free]
      BY <3>2, FreeStep
    <3>. QED
      BY <2>2, <3>1, <3>2
  <2>. QED
    BY <1>1, <1>2, <2>3, <2>4, QueueSame, WorkerQuiet
<1>4. CASE InsertDocument(w)
  <2>1. PICK d \in Docs :
           /\ Unused(d)
           /\ docs' = [docs EXCEPT ![d] = [status |-> "pending", label |-> work[w].label]]
           /\ work' = [work EXCEPT ![w].pc = "marked", ![w].doc = d]
    BY <1>4 DEF InsertDocument
  <2>2. work' = [work EXCEPT ![w] = [work[w] EXCEPT !.pc = "marked", !.doc = d]]
    BY <1>1, <2>1 DEF Types, Fetched
  <2>3. [status |-> "pending", label |-> work[w].label] \in Row
    BY <1>1 DEF Row, Fetched
  <2>4. docs' \in [Docs -> Row \cup {None}] /\ docs'[d].status = "pending" /\ \A e \in Docs \ {d} : docs'[e] = docs[e]
    BY <1>1, <2>1, <2>3 DEF Types
  <2>5. \A v \in Workers : At(v, "swapping") => work[v].task.doc # d
    BY <2>1 DEF Unused, Running, At
  <2>6. \A e \in Docs : Quiet(e)
    BY <1>2, <2>4, <2>5 DEF Quiet
  <2>7. PICK s \in Step : work' = [work EXCEPT ![w] = s] /\ s.pc # "swapping" /\ s.pc # "listed"
    <3>. DEFINE s == [work[w] EXCEPT !.pc = "marked", !.doc = d]
    <3>1. s \in Step /\ s.pc = "marked"
      BY <1>1 DEF Fetched, Step
    <3>2. work' = [work EXCEPT ![w] = s]
      BY <2>2
    <3>. HIDE DEF s
    <3>. QED
      BY <3>1, <3>2
  <2>. QED
    BY <1>1, <1>2, <2>4, <2>6, <2>7, QueueSame, WorkerQuiet
<1>. QED
  BY <1>3, <1>4 DEF CommitPending

LEMMA SentTask ==
    ASSUME NEW d \in Docs, NEW t \in Versions, NEW l \in Versions, l <= t, NEW n \in 0..MaxRetries
    PROVE  [kind |-> "page", doc |-> d, text |-> t, label |-> l, try |-> n] \in Sent
BY DEF Sent, PageTask

LEMMA DelayStep ==
    ASSUME Inv, NEW w \in Workers, Delay(w)
    PROVE  Inv'
<1>1. Types /\ work[w].pc = "marked" /\ work[w] \in Fetched
  BY StepIs DEF Inv, Delay, At
<1>2. /\ work[w].doc \in Docs /\ work[w].text \in Versions /\ work[w].label \in Versions
      /\ work[w].label <= work[w].text
  BY <1>1 DEF Fetched
<1>3. 0 \in 0..MaxRetries
  BY NotionAssumption
<1>4. [kind |-> "page", doc |-> work[w].doc, text |-> work[w].text, label |-> work[w].label, try |-> 0] \in Sent
  BY <1>2, <1>3, SentTask
<1>5. BagToSet(queue') \subseteq {SyncTask} \cup Sent
  BY <1>1, <1>4, SendIs DEF Delay
<1>6. UNCHANGED <<page, docs, rows, overlapped, deleting, torn>> /\ work' = [work EXCEPT ![w] = Free]
  BY DEF Delay, Ends
<1>. QED
  BY <1>1, <1>5, <1>6, FreeStep, DocsSame, WorkerQuiet

LEMMA StartPageStep ==
    ASSUME Inv, NEW w \in Workers, NEW m \in PageTask, StartPage(w, m)
    PROVE  Inv'
<1>1. Types /\ queue' = Without(m) /\ UNCHANGED <<page, rows, overlapped, deleting, torn>>
  BY DEF Inv, StartPage
<1>2. BagToSet(queue') \subseteq {SyncTask} \cup Sent
  BY <1>1, WithoutIs
<1>3. m \in Sent
  <2>1. m \in {SyncTask} \cup Sent
    BY <1>1 DEF StartPage, BagIn, Types
  <2>2. m.kind = "page" /\ SyncTask.kind = "sync"
    BY DEF PageTask, SyncTask
  <2>. QED
    BY <2>1, <2>2
<1>4. CASE Exists(m.doc)
  <2>1. /\ docs' = [docs EXCEPT ![m.doc].status = "processing"]
        /\ work' = [work EXCEPT ![w] = [pc |-> "embedding", task |-> m]]
    BY <1>4 DEF StartPage
  <2>2. m.doc \in Docs
    BY DEF PageTask
  <2>3. docs' \in [Docs -> Row \cup {None}] /\ \A e \in Docs : Quiet(e)
    BY <1>1, <1>4, <2>1, <2>2, StatusSet
  <2>4. [pc |-> "embedding", task |-> m] \in Step /\ [pc |-> "embedding", task |-> m].pc = "embedding"
    BY <1>3 DEF Step, Holding
  <2>. QED
    BY <1>1, <1>2, <2>1, <2>3, <2>4, WorkerQuiet
<1>5. CASE ~Exists(m.doc)
  <2>1. UNCHANGED <<docs, work>>
    BY <1>5 DEF StartPage
  <2>2. page' \in Versions /\ page <= page'
    BY <1>1 DEF Types, Versions
  <2>. QED
    BY <1>1, <1>2, <2>1, <2>2, Aside
<1>. QED
  BY <1>4, <1>5

LEMMA TaskIs ==
    ASSUME Types, NEW w \in Workers, Running(w)
    PROVE  work[w].task \in Sent /\ work[w].task.doc \in Docs
<1>1. work[w].task \in Sent
  BY StepIs DEF Running, Holding, Swapping
<1>. QED
  BY <1>1 DEF Sent, PageTask

LEMMA FailsStep ==
    ASSUME Inv, NEW w \in Workers, Fails(w)
    PROVE  Inv'
<1>1. Types /\ Running(w) /\ UNCHANGED <<page, rows, overlapped, deleting, torn>> /\ work' = [work EXCEPT ![w] = Free]
  BY DEF Inv, Fails, Ends
<1>2. PICK m \in Sent : m = work[w].task /\ m.doc \in Docs
  BY <1>1, TaskIs
<1>3. docs' = (IF Exists(m.doc) THEN [docs EXCEPT ![m.doc].status = "failed"] ELSE docs)
  BY <1>2 DEF Fails
<1>4. docs' \in [Docs -> Row \cup {None}] /\ \A e \in Docs : Quiet(e)
  BY <1>1, <1>2, <1>3, DocsSame, StatusSet
<1>5. BagToSet(queue') \subseteq {SyncTask} \cup Sent
  <2>1. CASE m.try < MaxRetries /\ Send([m EXCEPT !.try = @ + 1])
    <3>1. [m EXCEPT !.try = @ + 1] \in Sent
      BY <2>1, NotionAssumption DEF Sent, PageTask
    <3>. QED
      BY <1>1, <2>1, <3>1, SendIs
  <2>2. CASE queue' = queue
    BY <1>1, <2>2, QueueSame
  <2>. QED
    BY <1>2, <2>1, <2>2 DEF Fails
<1>. QED
  BY <1>1, <1>4, <1>5, FreeStep, WorkerQuiet

LEMMA LoadRowStep ==
    ASSUME Inv, NEW w \in Workers, LoadRow(w)
    PROVE  Inv'
<1>1. Types /\ work[w].pc = "embedding" /\ UNCHANGED <<page, docs, rows, queue, deleting, torn>>
  BY DEF Inv, LoadRow, At
<1>2. PICK d \in Docs : d = work[w].task.doc /\ work[w].task \in Sent
  BY <1>1, TaskIs DEF Running
<1>3. Exists(d)
  BY <1>2 DEF LoadRow
<1>. DEFINE s == [pc |-> "swapping", task |-> work[w].task, seen |-> docs[d], old |-> rows[d]]
<1>4. work' = [work EXCEPT ![w] = s]
  BY <1>2 DEF LoadRow
<1>5. s \in Swapping /\ s.pc = "swapping" /\ s.task.doc = d /\ s.seen = docs[d] /\ s.old = rows[d]
  BY <1>1, <1>2, <1>3 DEF Swapping, Types, Exists
<1>. HIDE DEF s
<1>6. work' \in [Workers -> Step] /\ work'[w] = s /\ \A v \in Workers \ {w} : work'[v] = work[v]
  BY <1>1, <1>4, <1>5, SetsIs DEF Step
<1>7. overlapped' = (overlapped \/ \E v \in Workers : At(v, "swapping") /\ work[v].task.doc = d)
  BY <1>2 DEF LoadRow
<1>8. Types'
  BY <1>1, <1>6, <1>7 DEF Types
<1>9. ListedBefore'
  BY <1>1, <1>5, <1>6 DEF Inv, ListedBefore, At
<1>10. Covered'
  BY <1>1, <1>7 DEF Inv, Covered
<1>11. Undisturbed'
  <2>1. ASSUME ~overlapped', NEW v \in Workers, work'[v].pc = "swapping"
        PROVE  /\ docs'[work'[v].task.doc] # None =>
                    /\ rows'[work'[v].task.doc] \subseteq work'[v].old
                    /\ docs'[work'[v].task.doc].label = work'[v].seen.label
               /\ \A u \in Workers \ {v} : work'[u].pc = "swapping" => work'[u].task.doc # work'[v].task.doc
    <3>1. ~overlapped /\ \A u \in Workers : At(u, "swapping") => work[u].task.doc # d
      BY <1>7, <2>1
    <3>2. CASE v = w
      BY <1>1, <1>5, <1>6, <3>1, <3>2 DEF At
    <3>3. CASE v # w
      <4>1. work'[v] = work[v] /\ At(v, "swapping") /\ work[v].task.doc # d
        BY <1>6, <2>1, <3>1, <3>3 DEF At
      <4>2. /\ Exists(work[v].task.doc) => /\ rows[work[v].task.doc] \subseteq work[v].old
                                           /\ docs[work[v].task.doc].label = work[v].seen.label
            /\ \A u \in Workers \ {v} : At(u, "swapping") => work[u].task.doc # work[v].task.doc
        BY <3>1, <4>1 DEF Inv, Undisturbed
      <4>3. ASSUME NEW u \in Workers \ {v}, work'[u].pc = "swapping" PROVE work'[u].task.doc # work[v].task.doc
        BY <1>5, <1>6, <4>1, <4>2, <4>3 DEF At
      <4>. QED
        BY <1>1, <4>1, <4>2, <4>3 DEF Exists
    <3>. QED
      BY <3>2, <3>3
  <2>. QED
    BY <2>1 DEF Undisturbed, At, Exists
<1>. QED
  BY <1>8, <1>9, <1>10, <1>11 DEF Inv

\* The commit replaces the rows it loaded by its own text, and labels it.
LEMMA CommitIndexStep ==
    ASSUME Inv, NEW w \in Workers, CommitIndex(w)
    PROVE  Inv'
<1>1. Types /\ work[w].pc = "swapping" /\ work[w] \in Swapping /\ UNCHANGED <<page, queue, overlapped, deleting>>
  BY StepIs DEF Inv, CommitIndex, At
<1>2. PICK m \in Sent, d \in Docs : m = work[w].task /\ d = m.doc
  BY <1>1, TaskIs DEF Running
<1>3. m.text \in Versions /\ m.label \in Versions /\ m.label <= m.text
  BY DEF Sent, PageTask
<1>4. PICK seen \in Row, old \in SUBSET Versions : seen = work[w].seen /\ old = work[w].old
  BY <1>1 DEF Swapping
<1>5. Exists(d) /\ docs[d] \in Row
  BY <1>1, <1>2 DEF CommitIndex, Types, Exists
<1>16. torn' = torn \ {d}
  BY <1>2 DEF CommitIndex
<1>6. /\ rows' = [rows EXCEPT ![d] = (rows[d] \ old) \cup {m.text}]
      /\ docs' = [docs EXCEPT ![d].status = IF seen.status = "ready" THEN @ ELSE "ready",
                              ![d].label = IF seen.label = m.label THEN @ ELSE m.label]
      /\ work' = [work EXCEPT ![w] = [pc |-> "bumping", task |-> m]]
  BY <1>2, <1>4 DEF CommitIndex
<1>7. PICK x \in Row : /\ docs' = [docs EXCEPT ![d] = x]
                       /\ x.label = (IF seen.label = m.label THEN docs[d].label ELSE m.label)
  <2>. DEFINE st == IF seen.status = "ready" THEN docs[d].status ELSE "ready"
              la == IF seen.label = m.label THEN docs[d].label ELSE m.label
              x == [docs[d] EXCEPT !.status = st, !.label = la]
  <2>1. st \in {"pending", "processing", "ready", "failed"} /\ la \in Versions
    BY <1>3, <1>5 DEF Row
  <2>2. docs' = [docs EXCEPT ![d] = x]
    BY <1>1, <1>5, <1>6 DEF Types, Row
  <2>3. x \in Row /\ x.label = la
    <3>. HIDE DEF st, la
    <3>. QED
      BY <1>5, <2>1 DEF Row
  <2>. HIDE DEF x
  <2>. QED
    BY <2>2, <2>3
<1>8. docs' \in [Docs -> Row \cup {None}] /\ docs'[d] = x /\ \A e \in Docs \ {d} : docs'[e] = docs[e]
  BY <1>1, <1>7 DEF Types
<1>9. /\ rows' \in [Docs -> SUBSET Versions] /\ rows'[d] = (rows[d] \ old) \cup {m.text}
      /\ \A e \in Docs \ {d} : rows'[e] = rows[e]
  BY <1>1, <1>3, <1>6 DEF Types
<1>10. /\ work' \in [Workers -> Step] /\ work'[w].pc = "bumping"
       /\ \A v \in Workers \ {w} : work'[v] = work[v]
  <2>1. [pc |-> "bumping", task |-> m] \in Step
    BY DEF Step, Holding
  <2>. QED
    BY <1>1, <1>6, <2>1, SetsIs
<1>11. Types'
  BY <1>1, <1>8, <1>9, <1>10, <1>16 DEF Types
<1>12. ListedBefore'
  BY <1>1, <1>10 DEF Inv, ListedBefore, At
<1>13. ASSUME ~overlapped
       PROVE  /\ rows[d] \subseteq old /\ docs[d].label = seen.label
              /\ \A v \in Workers \ {w} : At(v, "swapping") => work[v].task.doc # d
  BY <1>1, <1>2, <1>4, <1>5, <1>13 DEF Inv, Undisturbed, At
<1>14. Covered'
  <2>1. ASSUME ~overlapped, NEW e \in Docs, docs'[e] # None, docs'[e].status = "ready"
        PROVE  \/ \E v \in Versions : rows'[e] = {v} /\ docs'[e].label <= v
               \/ e \in deleting' \cup torn' /\ rows'[e] = {}
    <3>1. CASE e = d
      <4>1. x.label = m.label
        BY <1>7, <1>13, <2>1
      <4>2. rows'[d] = {m.text}
        BY <1>9, <1>13, <2>1
      <4>. QED
        BY <1>3, <1>8, <3>1, <4>1, <4>2
    <3>2. CASE e # d
      BY <1>1, <1>8, <1>9, <1>16, <2>1, <3>2 DEF Inv, Covered
    <3>. QED
      BY <3>1, <3>2
  <2>. QED
    BY <1>1, <2>1 DEF Covered, Versions
<1>15. Undisturbed'
  <2>1. ASSUME ~overlapped, NEW v \in Workers, work'[v].pc = "swapping"
        PROVE  /\ docs'[work'[v].task.doc] # None =>
                    /\ rows'[work'[v].task.doc] \subseteq work'[v].old
                    /\ docs'[work'[v].task.doc].label = work'[v].seen.label
               /\ \A u \in Workers \ {v} : work'[u].pc = "swapping" => work'[u].task.doc # work'[v].task.doc
    <3>1. v # w /\ work'[v] = work[v] /\ At(v, "swapping")
      BY <1>10, <2>1 DEF At
    <3>2. PICK e \in Docs : e = work[v].task.doc
      BY <1>1, <3>1, TaskIs DEF Running, At
    <3>3. e # d
      BY <1>13, <2>1, <3>1, <3>2
    <3>4. /\ Exists(e) => rows[e] \subseteq work[v].old /\ docs[e].label = work[v].seen.label
          /\ \A u \in Workers \ {v} : At(u, "swapping") => work[u].task.doc # e
      BY <2>1, <3>1, <3>2 DEF Inv, Undisturbed
    <3>5. ASSUME NEW u \in Workers \ {v}, work'[u].pc = "swapping" PROVE work'[u].task.doc # e
      BY <1>10, <3>4, <3>5 DEF At
    <3>. QED
      BY <1>8, <1>9, <3>1, <3>2, <3>3, <3>4, <3>5 DEF Exists
  <2>. QED
    BY <1>1, <2>1 DEF Undisturbed, At, Exists
<1>. QED
  BY <1>11, <1>12, <1>14, <1>15 DEF Inv

LEMMA DeleteStep ==
    ASSUME Inv, NEW d \in Docs, DeleteVectors(d) \/ DeleteRow(d) \/ DeletionBreaks(d)
    PROVE  Inv'
<1>1. Types /\ UNCHANGED <<page, queue, work, overlapped>>
  BY DEF Inv, DeleteVectors, DeleteRow, DeletionBreaks
<1>2. /\ docs' \in [Docs -> Row \cup {None}] /\ rows' \in [Docs -> SUBSET Versions]
      /\ deleting' \subseteq Docs /\ torn' \subseteq Docs
  BY <1>1 DEF DeleteVectors, DeleteRow, DeletionBreaks, Types
<1>3. Types'
  BY <1>1, <1>2 DEF Types
<1>4. ListedBefore'
  BY <1>1 DEF Inv, ListedBefore, At
<1>5. ASSUME NEW e \in Docs PROVE Quiet(e)
  <2>1. CASE DeleteVectors(d)
    BY <1>1, <2>1 DEF DeleteVectors, Quiet, Types
  <2>2. CASE DeleteRow(d)
    BY <1>1, <2>2 DEF DeleteRow, Quiet, Types
  <2>3. CASE DeletionBreaks(d)
    BY <1>1, <2>3 DEF DeletionBreaks, Quiet, Types
  <2>. QED
    BY <2>1, <2>2, <2>3
<1>. QED
  BY <1>1, <1>3, <1>4, <1>5, QuietStep

LEMMA WorkerInv ==
    ASSUME Inv, NEW w \in Workers, WorkerStep(w) \/ Dies(w) \/ Search(w)
    PROVE  Inv'
<1>1. CASE EndsEarly(w) \/ BumpVersion(w) \/ Dies(w)
  <2>1. UNCHANGED <<page, docs, rows, queue, overlapped, deleting, torn>> /\ work' = [work EXCEPT ![w] = Free] /\ Types
    BY <1>1 DEF EndsEarly, BumpVersion, Dies, Ends, Inv
  <2>. QED
    BY <2>1, FreeStep, QueueSame, DocsSame, WorkerQuiet
<1>2. CASE Search(w)
  <2>1. /\ UNCHANGED <<page, docs, rows, overlapped, deleting, torn>> /\ Types /\ page \in Versions /\ queue' = Without(SyncTask)
        /\ work' = [work EXCEPT ![w] = [pc |-> "listed", label |-> page]]
    BY <1>2 DEF Search, Inv, Types
  <2>2. /\ [pc |-> "listed", label |-> page] \in Step /\ [pc |-> "listed", label |-> page].pc = "listed"
        /\ [pc |-> "listed", label |-> page].label <= page
    BY <2>1 DEF Step, Listed, Versions
  <2>3. BagToSet(queue') \subseteq {SyncTask} \cup Sent
    BY <2>1, WithoutIs
  <2>. QED
    BY <2>1, <2>2, <2>3, DocsSame, WorkerQuiet
<1>. QED
  BY <1>1, <1>2, SelectStep, CommitPendingStep, DelayStep, LoadRowStep, CommitIndexStep, FailsStep DEF WorkerStep

LEMMA InvInit == Init => Inv
<1>. SUFFICES ASSUME Init PROVE Inv
  OBVIOUS
<1>1. 1 \in Versions
  BY NotionAssumption DEF Versions
<1>2. BagToSet(EmptyBag) = {}
  BY DEF BagToSet, EmptyBag, SetToBag
<1>3. Types
  BY <1>1, <1>2, FreeStep DEF Init, Types
<1>. QED
  BY <1>3 DEF Init, Inv, ListedBefore, Undisturbed, Covered, At, Free

LEMMA InvStep == Inv /\ [Next]_vars => Inv'
<1>. SUFFICES ASSUME Inv, [Next]_vars PROVE Inv'
  OBVIOUS
<1>1. Types /\ page \in Versions /\ page <= page
  BY DEF Inv, Types, Versions
<1>2. CASE Connect \/ SyncAll
  <2>1. UNCHANGED <<page, docs, rows, work, overlapped, deleting, torn>> /\ Send(SyncTask)
    BY <1>2 DEF Connect, SyncAll
  <2>2. BagToSet(queue') \subseteq {SyncTask} \cup Sent
    BY <1>1, <2>1, SendIs
  <2>. QED
    BY <1>1, <2>1, <2>2, Aside
<1>3. CASE EditPage
  <2>1. UNCHANGED <<docs, rows, queue, work, overlapped, deleting, torn>> /\ page' \in Versions /\ page <= page'
    BY <1>1, <1>3, NotionAssumption DEF EditPage, Versions
  <2>. QED
    BY <1>1, <2>1, QueueSame, Aside
<1>4. CASE UNCHANGED vars
  BY <1>1, <1>4, QueueSame, Aside DEF vars
<1>. QED
  BY <1>2, <1>3, <1>4, WorkerInv, StartPageStep, DeleteStep DEF Next, TakeSync, TakePage, WaitingPages

\* A ready document is searchable in one version of the page, and its label
\* never names a newer one, so what a later sync skips is up to date: with any
\* number of syncs, ingests and deletions at a time, unless two runs replaced
\* the chunks of one document at once.  Only a deletion under way, or one that
\* broke off, leaves a ready document without chunks.
THEOREM LabelsCovered == Spec => []LabelCovered
<1>1. Inv => LabelCovered
  BY DEF Inv, Covered, LabelCovered, Imported, Exists
<1>. QED
  BY <1>1, InvInit, InvStep, PTL DEF Spec
=============================================================================
