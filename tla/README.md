# Doc-Hub in TLA+

A verification project for Doc-Hub (`src/`), a multi-tenant service that ingests
documents and answers questions about them: FastAPI requests and Celery tasks share
Postgres (with pgvector), Redis and an S3 bucket. There is no lock in the code and
few constraints beyond keys, so what makes the system correct is the order in which
its processes commit. That is what the models are about.

All models but `DirectorySync` are of **one tenant**: every statement in the code carries
`tenant_id`, and row-level security (`database.py`, `migrations/`) cuts tenants off from each
other. Accounts, e-mail addresses and domains are looked up across tenants, so that module has several.

## 1. The system

| Component (backend/app/...) | State it keeps | Operations | What makes it correct |
|---|---|---|---|
| Document ingestion: `routers/documents.py`, `workers/ingest_task.py`, `services/storage_service.py` | `documents` rows, S3 objects, the Celery queue | upload, URL ingest, reingest, move, delete; the task `ingest_document` with retries | a document stays searchable from its first indexing to its deletion and not after; its status ends in ready or failed; files and rows agree |
| Chunk store: `services/vector_service.py` | `chunks` rows | replace (DELETE + INSERTs), delete, vector and full-text search | one generation of rows per document; rows carry the document's collection |
| Storage ledger: `services/usage_service.py` | `usage_events` | record a delta, check limits | the sum is the bytes kept |
| Answer cache: `services/cache_service.py`, `services/query_service.py` | Redis: corpus version, cached answers | bump, key, hit, store, expire | an answer is never served after the documents it cites are gone, nor to a caller who may not see them |
| Retrieval: `services/retrieval.py`, `reranker.py` | none | two searches, rank fusion, rerank | only rows of the caller's scope |
| Access scopes: `services/access.py` | none (a value) | resolve, narrow, filter, digest | the SQL filter is `can_see`; narrowing never widens |
| Collections, groups, API keys: `routers/access.py`, `routers/api_keys.py` | `collections`, `collection_access`, `groups`, `group_members`, `api_keys` | create, update, delete; membership; key issue and revocation | a collection is deleted only when empty; the access list is the last one given |
| Sessions and accounts: `routers/auth.py`, `services/auth_service.py`, `dependencies.py` | `users`, `refresh_tokens`, `password_reset_tokens`, `invite_tokens` | login, refresh, reset, change, invite, team changes, registration | a revoked session stays revoked; rotation is linear; a workspace keeps an owner |
| SSO and directory sync: `routers/sso.py`, `services/polis.py`, `utils/oauth_state.py` | `sso_*` columns and domains, Redis login states, users | SSO login, connection set-up, SCIM webhook events | SSO is not required without a domain, nor without a connection but in the ways named; accounts and the group end up as the directory has them |
| Billing: `routers/billing.py`, `services/billing_service.py` | tenant plan, `stripe_webhook_events` | checkout, portal, webhook | every event is applied once; the plan follows Stripe |
| Notion sync: `workers/sync_task.py`, `routers/integrations.py` | `documents` rows with an integration | per-page find, insert or refresh, enqueue | one document per page, with its latest text |
| Conversations: `routers/conversations.py`, `routers/query.py` | `conversations`, `messages` | ask within a conversation, rename, delete | a kept turn is in the conversation of its caller and in no other |
| Citations: `services/citations.py` | a stream buffer | rewrite, streaming rewrite | streaming equals rewriting the whole text |
| Providers: `providers/`, `services/provider_health.py` | one shared object | chat, stream, embed with fallback | the provider recorded is the one that answered |
| Rate limiter: `middleware/rate_limiter.py` | Redis sorted sets | count and refuse | at most `limit` accepted per window |
| Retention: `workers/retention_task.py` | logs and conversations | nightly purge | only old rows go |
| Row-level security, parsers, admin and reporting endpoints, input validation, frontend | | | not modelled, section 8 |

**How they interact.** A request writes Postgres and S3 and ends with a Celery message
(`.delay`) or with an increment of the corpus version in Redis. A worker takes a
message, reads the row, embeds for seconds to minutes without any lock, swaps the
chunk rows in one transaction and increments the version. A query reads the version
first, then searches Postgres in two statements, generates for seconds, and stores its
answer under the version it read. So every interaction is "commit here, tell someone
else afterwards", and each arrow of it can be late, repeated, reordered or lost.

**What is hard.**

* A worker uses a copy of the document row for the whole embedding, while requests
  move, reingest or delete the document (`workers/ingest_task.py:76-87`).
* Postgres runs READ COMMITTED: a DELETE removes the rows committed when the statement
  starts (`services/vector_service.py:38`), two overlapping swaps do not see each other.
* A delete is four transactions and an S3 call (`routers/documents.py:262-268`); a
  process can die, or a service raise, between any two.
* Celery acknowledges a message when it is received: a worker that dies loses the task.
* Redis holds the version without persistence (`docker-compose.prod.yml` mounts no
  volume for it) and at `maxmemory` with `noeviction` refuses writes while it serves reads.
* The corpus version and the search snapshot of a query are seconds apart.
* An account is read to authenticate and written later, by requests, by sign-ins and by the
  webhook at once; only (tenant, e-mail) is unique (`routers/auth.py`, `routers/sso.py`).
* Stripe and Polis repeat, delay and reorder their posts; a batch of directory events is
  committed event by event and repeated as a whole.
* Usage is checked before the work and recorded after it, from the tenant row read at the start.
* One provider object is shared by all requests of a process (`providers/fallback_provider.py:45`),
  and an answer is rewritten while it streams.
* A document's chunks and its row go in two commits (`routers/documents.py:262-266`); what stops in between leaves
  a row that says "ready" and finds nothing.
* A sync and the tasks it sends run on several workers, carry the text in the message, and
  nothing makes a page's document unique (`workers/sync_task.py:127`).

`PROJECT.json` lists every hazard at its line with the properties that cover it.

## 2. Modules

| Module | Models | Uses |
|---|---|---|
| `Ingestion` | documents, chunks, S3, ledger, queue, workers, requests | |
| `DocumentLibrary` | the abstract specification: what a tenant is promised about its documents | |
| `MCIngestion` | TLC instances of `Ingestion` | `Ingestion` |
| `IngestionProofs` | theorems about `Ingestion`: that it implements `DocumentLibrary`, and what a document's owner relies on (rows, files, ledger, version bumps) | `Ingestion` |
| `AccessScope` | the scope value of `services/access.py` | |
| `AnswerCache` | the corpus version, the cache and the queries and changes around it | `AccessScope` |
| `MCAnswerCache` | TLC instances of `AnswerCache` | `AnswerCache` |
| `AnswerCacheProofs` | theorems about `AnswerCache` and `AccessScope` | `AnswerCache` |
| `Collections` | collections, access lists, groups, keys, placing of documents, the scope of a query | `AccessScope` |
| `MCCollections` | the TLC instance of `Collections` | `Collections` |
| `CollectionsProofs` | theorems about `Collections` | `Collections` |
| `Accounts` | users, refresh tokens, reset links, invitations, and the requests on them | |
| `DirectorySync` | domains, SSO sign-in and the directory's webhook, on top of the accounts | `Accounts` |
| `MCDirectorySync` | the TLC instance of both | `DirectorySync` |
| `DirectorySyncProofs` | theorems about both: types, and that workspaces keep their owners | `DirectorySync` |
| `DirectorySafetyProofs` | theorems about both: required SSO, revocation, rotation, and that the workspace follows the directory | `DirectorySyncProofs` |
| `Billing` | the plan of a workspace, checkouts and Stripe's events | |
| `Metering` | the rate limiter and the usage limits under a plan that `Billing` changes | `Billing` |
| `MCMetering` | the TLC instance of both | `Metering` |
| `MeteringProofs` | theorems about `Metering` and `Billing` | `Metering` |
| `Answering` | providers, streamed citations, conversations | |
| `MCAnswering` | its TLC instance | `Answering` |
| `AnsweringProofs` | theorems about `Answering` | `Answering` |
| `NotionSync` | the import of one Notion page | |
| `MCNotionSync` | its TLC instance | `NotionSync` |
| `NotionSyncProofs` | the theorem about `NotionSync` | `NotionSync` |

### Ingestion

One step is one transaction, one SQL statement whose snapshot matters, or one external
call. `docs` is the table `documents` (status, whether `error_message` is set,
collection), `chunks` the table `chunks` with one record per *batch*: the rows one indexing run
inserts, which are always inserted and deleted together. `queue` is the Redis list of Celery,
`blobs` the bucket, `ledger` the sum of `storage_delta_bytes` per document counted in
files. `work[w]` and `req[r]` are the program counters and locals of a worker and of a
request. Document ids are UUIDs and never reused, so a member of `Docs` lives once.

| Code | Actions |
|---|---|
| `upload_document` | `UploadPut` (S3), `UploadInsert` (row), `UploadRecord` (ledger), `Enqueue` (`.delay`) |
| `ingest_url`, `reingest_document` | `IngestUrl`, `Reingest`, then `Enqueue` |
| `delete_document` | `DeleteVectors`, `DeleteBlob`, `DeleteRow` (with the cascade), `DeleteRecord`, `RequestBump` |
| `move_document` | `MoveLoad`, `MoveCommit` or `MoveFails`, `RequestBump` |
| `ingest_document` | `StartIngest` or `DropTask`, `LoadSource`, `DeleteOldChunks`, `CommitIndex`, `WorkerBump` |
| its handlers | `BadInput` (a `ValueError`, not retried), `IndexError`, `BumpError`, then `MarkFailed` (mark, and retry while `MayRetry`) |
| crashes | `RequestDies`, `WorkerDies`, at every point |

Details of the code that the model keeps, because a property depends on them:

* After its first commit the worker's session has expired the row, so the copy used for
  the rest of the run is the one loaded in `_extract_sections` (`LoadSource`), and the
  ORM writes at the end only the columns that differ from that copy (`CommitIndex`).
* `move_document` writes `collection_id` only if it differs from the value loaded
  (`MoveWrites`), an UPDATE of a row that is gone raises, a DELETE only warns.
* A move locks the document and then its chunks, a swap the chunks and then the
  document: Postgres aborts one of them (`MoveDeadlocks`, `IndexError`). A swap that leaves the
  document's columns as they are writes no document row (the ORM issues no UPDATE), and the move goes
  through (`MustDeadlock` tells these apart).
* The insertion needs the document row (the foreign key), the deletion cascades.

Other waits for row locks are left out: a statement that waits is the statement taken
later. Audit rows and titles are data no property reads.

`stale` and `races` are history variables. `stale` holds the documents whose searchable
rows changed since the last version bump. `races` records, per document, which known
race occurred, set by the one step that opens it: `lost` (a process died or a bump
failed), `move` (a move committed while a run held a copy of the row, or two moves
crossed), `swap` (a second run started its DELETE while a first had not committed),
`delete` (two requests deleted the same row). A property exempts only the race it
concerns, so it says exactly when the promise breaks.

### DocumentLibrary

Three sets: `listed`, `searchable`, `gone`, and which document a request is removing. A
document is listed once, may become searchable, and leaves `searchable` only when a
request begins to remove it. `Ingestion` implements it under the mapping in
`Ingestion!Library` (listed = rows that exist, searchable = documents with a chunk,
removing = the requests between `DeleteVectors` and `DeleteRow`). Everything else a
worker or a request does (re-index, move, failure, retry, crash) is a stutter: that is
the comment "Old chunks keep serving until ingestion swaps them atomically" in `workers/sync_task.py`.

### AccessScope and AnswerCache

`AccessScope` is the dataclass: `CanSee`, the WHERE clauses as the set of collections
they let through (`Filter`), `Narrow`, `Digest`. The digest hashes a canonical text; the
hash is taken to be injective.

In `AnswerCache` a *row* is a version of chunk rows: a re-index or a move makes new ones
and retires the old, so `rows` go new, live, dead. A change is `Commit` (any rows in, any
rows out: every operation of `Ingestion`, and the collection edits that touch none) then
`Bump`, or `BumpLost`. A query is `Ask` (it reads the version, or -1 if that fails), `CacheHit`
or `VectorSearch` then `FulltextSearch` (each with its own snapshot), then `CacheSet`,
`CacheSetFails` or `QueryFails`. `Expire` may happen at any time (TTL, any value); `Restart` empties
Redis once. `retiredAt`, `query[q].gone` and `restarted` are history: the first version
after a row's removal, and the rows already retired when a question was asked.

### Collections

`coll`, `groups`, `access`, `members`, `keys` are the tables of `models/access.py` and
`models/api_key.py`; `place` is `documents.collection_id` (`General` is NULL, `"none"` a
document that does not exist yet). `edit[r]` is a write request between its statements,
`query[q]` a query between its authentication and its search.

| Code | Actions |
|---|---|
| `create_group`, `add_member`, `remove_member`, `create_api_key`, `revoke_api_key`, `create_collection` | one action each: what they check first, the keys and foreign keys of their one commit check again |
| `delete_group` | `DeleteGroup` (with the cascades), `Bump` |
| `update_collection` | `UpdateLoad`, `ReplaceList` (only if the body has `group_ids`: the UPDATE is flushed, the DELETE runs), `UpdateCommit`, `Bump` |
| `delete_collection` | `DeleteCount`, `DeleteCommit` (CASCADE for lists and keys, SET NULL for documents), `Bump` |
| `upload_document`, `ingest_url`, `move_document` | `PlaceCheck` (`_collection_or_404`), `PlaceCommit` |
| 404, 409, `StaleDataError`, a crash | `EditFails` |
| `resolve_principal`, `resolve_scope` | `Authenticate`, `Resolve`, and for members `ResolveGranted` (a second statement with its own snapshot) |

A collection that is gone stays gone (`coll[c] = "gone"`); so does a key. A group id that
no row and no request holds any more stands for a new one (`FreshGroup`). An UPDATE locks the row of
the collection until the commit (`Locked`), so two edits that both write it do not overlap;
two that only replace the list do. A change of name or description writes the row
like a change of visibility and adds nothing else. Groups owned by an identity
provider, and edits of their members by hand, are left to `DirectorySync`, deletion of documents to `Ingestion`.

History: `wanted` is where a request last put each document, `lists` the list last given to
each collection, `query[q].could` everything the caller could see at some time since
authentication (by the table of the repository's README, written out in `MaySee`), `query[q].open` what
was open to the whole tenant since then.
`races` marks the three overlaps that break a promise: `refill` (a document was put into a collection
between the count and the deletion), `lists` (two edits of one list overlapped), `key`
(a key's collection was deleted).

### Accounts and DirectorySync

`users`, `sessions`, `links`, `invites`, `tenants`, `enforced`, `claims` are tables and columns;
`req[r]` is what request `r` has read and has yet to commit. Every request is used once, so the
row it inserts has its name. A request is a *begin* step (its reads and guards) and a *commit* step
(its writes, with what the database checks again); a request that stops at a guard changes nothing
and is left out.

| Code | Actions |
|---|---|
| `login`, `issue_auth_response` | `Login`, `IssueAuthResponse` |
| `refresh`, `rotate_refresh_token` | `Refresh`, `Rotate` (the row that was read is revoked, whatever became of it) |
| `reset_password`, `change_password`, `remove_team_member` | `ResetPassword`, `ChangePassword` or `RemoveTeamMember`, then `Sweep` (the SELECT of `revoke_user_refresh_tokens`), then `CommitPassword` or `CommitRemove` |
| `register`, `accept_invite` | `Register` or `AcceptInvite`, then `CommitCreate`, or `CommitSignup` and `IssueAuthResponse` when `ensure_stripe_customer` commits in between |
| `update_profile` | `UpdateProfile`, `CommitProfile` |
| `forgot_password`, `invite_member`, `update_team_role`, `admin.create_tenant`, `admin.patch_tenant` | one action each |
| `sso.start`, `sso.callback` | `SsoStart`, `SsoCallback`, which goes on as a sign-in or as the creation of a member |
| `access.add_member`, `access.remove_member`, on the directory's group | `AddMember`, `RemoveMember`: neither looks at who manages the group |
| `create_connection`, `delete_connection` | `CreateConnection`; `DeleteConnection`, `PolisDelete`, `CommitDisconnect` |
| `set_domains` | `SetDomains`, `FinishDelete` (the DELETE waits for locked rows), `LoadTenant`, `CommitDomains` |
| the webhook | `PostBatch`, `PostAgain`; per event `ReadUser` and `WriteUser`, or `ApplyGroupEvent`; `Answer` or `PostFails` |
| an exception | `Abort` |

`feed` is the history of the directory, `posted` how much of it Polis has put in batches, `owed` the
batches to post again, `courier` the post being handled. One directory, with one group, stands for all, and
one post is handled at a time: events of different posts interleave through `owed`. Merged steps:
the two reads of `refresh` (a change between them leads where one before or after leads), and the
rotation of the session of `change_password`, which is a sign-in of its own. A session
row records its sign-in (`root`) and the revocation it was issued under (`epoch`); `late` and `forked` mark
tokens issued by a request that overlapped a revocation, or by a second rotation of one token. `byHand` holds the members an
administrator put in the group, until the directory next speaks of them; `halfway` the workspaces whose connection went at Polis while
the request that deleted it got no further; `blind` those that came to require SSO without a connection, or while
one was being deleted by a request that had seen the switch off.

### Billing and Metering

`Billing` has the columns `tenants.plan` and `subscriptions` and Stripe beside them: `customers`,
open `offers`, what is `paid`, the `events` it emitted. `hook[h]` is a webhook delivery between the rows it loaded and its
commit; any two can be handled together, in any order, again and again. A status of "trialing" is
treated as "active" in the code and is that here. `Metering` adds requests at the limiter:

| Code | Actions |
|---|---|
| `ensure_stripe_customer`, `create_checkout_session` | `CreateCustomer`, `SaveCustomer`; `Checkout` |
| `handle_webhook_event` | `HandleWebhook`, `CommitWebhook` (event row and effect together) or `WebhookFails` |
| `admin.patch_tenant` | `PatchPlan` |
| Stripe (external) | `Pay`, `Change`, `MissPayment`, `Cancel` |
| `resolve_principal`, `rate_limit` | `Arrive` (the plan is the one read to authenticate), `Stamp` (`time.time()`), `Pipeline` (MULTI on Redis) or `AnswerLost`, once per bucket |
| `check_query_limit`, `check_storage_limit` | `CheckLimit` |
| the work, `record_query_usage`, `record_storage_usage` | `CommitLog`, `RecordUsage`, `Leave` (cached, failed or killed) |
| `delete_document`, `start_of_month` | `GiveBack`, `NewMonth` |
| the clock and key expiry | `Tick` |

`GiveBack` refunds a document once. Two concurrent deletions of it refund twice, which is in `Ingestion`
(the race `delete` of `LedgerExact`); it only lowers the sum here.

### Answering

A request `ask[r]` goes from the question through the condensed search query (`Prepare`), the providers of
`Chain` (`Complete`, or `Delta`s and `StreamEnds`; `ProviderFails`), `Record`, to the conversation (`PersistRead`,
`PersistCommit`). Text is a sequence of tokens (brackets, commas, numbers, words):
`Rewrite` is `rewrite_citations`, `HeldBack` what `StreamingCitationRewriter` keeps for the next delta.
`Prepare` covers both settings of `ENABLE_QUERY_REWRITE`: the search query may be condensed without a history too.
`last` is `last_chat_provider` of the shared object. `crossed` is history: another request's provider was
recorded between this one's first delta and its record. What is retrieved and what the cache returns are
`AnswerCache`'s subject; here both are `Shortcut`, or any text.
`UpdateConversation`, `DeleteConversation` and `Purge` (the retention task: its clock is not modelled, so it
may take any conversation) interleave with the answer.

### NotionSync

One page with a `page` version, its rows in `documents` with their label (`last_edited_time` as
stored), the versions of its chunks, a bag of Celery tasks and workers.

| Code | Actions |
|---|---|
| `notion_callback`, `sync_all_notion` | `Connect`, `SyncAll` |
| `sync_notion` | `Search`, `SelectAndFetch`, `CommitPending`, `Delay` |
| its loop over the other pages | `EndsEarly`: another page raises or cannot be fetched, or `MAX_PAGES_PER_SYNC` come before this one |
| `ingest_notion_page` | `StartPage`, `LoadRow`, `CommitIndex`, `BumpVersion`, with `Fails` (and retry) |
| `delete_document` | `DeleteVectors`, `DeleteRow`, its two commits (`deleting` in between), or `DeletionBreaks` |
| Notion, a crash | `EditPage`; `Dies` |

Text read in pieces while the page changes goes by its oldest piece. `overlapped` is history: two
runs of one document were between their load and their commit at a time, which is the double
indexing that `Ingestion` shows. `torn` is history too: the documents a broken deletion left ready
and without chunks, and which were not indexed since.

## 3. Runs

| Run | Instance | Question |
|---|---|---|
| `ingestion_workers` | 1 upload, 2 workers, 1 request, 2 collections, 2 messages, 3 batches, no retry | Do concurrent runs swap rows atomically and keep the collection, and is `DocumentLibrary` implemented? |
| `ingestion_requests` | 1 upload, 1 worker, 2 requests, 1 retry | Do uploads, moves and deletes leave rows, files, ledger and version in agreement? |
| `ingestion_settles` | 1 URL, 2 workers, 1 request, fairness | Does every ingest end? |
| `ingestion_double_swap` | 2 workers | violated: a document is indexed at most once |
| `ingestion_stale_move` | 1 worker, 1 request | violated: chunks always carry the document's collection |
| `answer_cache` | 2 rows (General, hr), 2 scopes, 2 queries, 1 change at a time, version up to 2, 1 entry, all faults | Is an answer never served after its rows went, or outside its scope? |
| `collections` | 1 collection and General, 1 group, 1 member, 1 owner, 1 key, 1 document, 2 write requests, 1 query | Does anything refer to what is gone, fall to General, keep an old list, or see too much? |
| `answer_cache_unversioned` | the same with failing version reads only | violated: cached answers never outlive documents |
| `directory_sync` | 3 requests and directory events together; a workspace with owner and member, one to be created, 3 addresses, 2 domains | Do sessions end, do owners stay, which ways are there to require SSO with nothing to sign in through, do accounts and members converge to the directory? |
| `metering` | 2 requests at a time, 2 checkouts, 2 deliveries at a time, 3 Stripe events, a window of 2 ticks, 4 things that happen | What do the limiter and the meters let through, and is the plan the one paid for? |
| `answering` | 3 requests of 2 callers and a visitor, 2 of 3 providers set up, 2 tokens held back, deltas of up to 2 tokens | Is a streamed answer the rewritten whole, of one provider, in its caller's conversation? |
| `notion_sync` | 2 workers, 2 document ids, 2 versions of the page, 1 waiting task when a sync is sent, 1 retry, 1 mishap, fairness | Is a ready page searchable and its label true, through deletions in two commits; does a sync that reaches the page repair it? |

What each property says is in the comment above it in the module.

**Bounds, and why they are enough.** Documents do not interact except through `stale`, so one
document shows every race of `Ingestion`; two actors of a kind are the least that race, and
production runs two worker processes (`--concurrency=2` in the compose files). A message id or
batch id is reused once it is free, so `Tasks` and `Batches` bound what is outstanding at a time,
not the length of a run: two workers and three batches allow two swaps over an
existing generation. With retries, the second attempt differs from the third only in the
count (`MaxRetries` is 3 in the code). In `AnswerCache` a query reads at most one
entry, so one entry at a time (`MaxEntries`) shows every
hit; two versions (`MaxVersion`) are needed for "before and after", and after a restart
the count begins again at 0. Rows in both collections and one scope that sees each
are the least that can tell a leak. Workers, requests, messages and batches are interchangeable
(`SYMMETRY`), as are queries and changes; the liveness run uses no symmetry.

In `Collections` the races are between two requests about the same collection, list or document,
so one of each is enough: with one group there are two access lists already ({} and
the group), and the union of two edits is one of them where the other was asked for. One key can be
scoped or not. A query only observes, so one shows every case.

In `DirectorySync` three requests or events in any mix (`Work`) are what the exempted overlaps take
(a sign-in, a rotation and a revocation; two settings and a disconnection; an account renamed or removed
around two events), and a workspace that does not exist yet can be registered. In `Metering` a window of two ticks in
a clock of four instants lets requests fall out of it; plans that allow one and two queries make the limit and
the first excess reachable; two tasks at a time are the least that pass one check together; three events
allow a payment, a change and a cancellation. In `Answering` a held-back text of two tokens makes markers of
two lengths (one that fits and one that is too long) with deltas that cut them everywhere; `Work`
bounds requests and tokens together, so that two whole answers or three requests without a text of their own
interleave. The constraint `ShortTexts` leaves one request alone five tokens, enough for a marker that is too long, and requests side by side two
in all: what is held back is each request's own, they meet in `last` and in the conversations, where one token or two of two providers
tell everything. In `NotionSync` one mishap (a death, a failure or a request to delete; that request may break off for free) at any point, with
one edit of the page: after a second one the same repair begins again. Tasks are resent without a bound (`MaxQueued` limits
only new syncs while tasks wait). Its constraint `Repairable` does not follow behaviours where runs overlapped, or where the page
has two rows and nobody is left to delete one; `CatchesUp` holds there by its own exemption, and `LabelCovered` speaks of no
overlapped state. A duplicated state is checked when it is reached; what one row does after that it does in the states with one.

`CHECK_DEADLOCK FALSE` is set in the runs of `Ingestion`, `DirectorySync`, `Metering` and `Answering`: their ids, requests
or bounds run out, so a behaviour may end with every process idle. `AnswerCache`, `Collections` and `NotionSync` never stop.

**Fairness** of `NotionSync` (for `CatchesUp`): the beat sends the nightly sync (weak), a sync waiting in the
queue and the page tasks of a document are taken in the end (strong: the queue is FIFO, and workers are busy now and
then), a task in progress goes on (weak per worker), and so does a deletion between its commits (weak). Going on includes failing, and for
a sync ending before it comes to this page: one task visits all pages, and nothing in the code makes it reach each one in the end. That some
syncs do (`SF_vars(ReachPage)`) is therefore not fairness of the specification but the premise of `CatchesUp`. Deaths, edits and
new deletions have none.

**Fairness** of `Ingestion` (`FairSpec`, only for `Settles`). A request or a task in progress takes its next
step (weak fairness per process: the event loop and the worker loop run on). The broker is a
FIFO list polled by every worker, so a message is taken in the end even if it is
overtaken now and then (strong fairness per message). Crashes and new requests have no
fairness. A failure may be chosen by `WorkerStep`, so fairness assumes no success.

## 4. What the checks show

Hold: rows of a document are never missing once indexed, and never found after deletion; a
status never stays pending or processing unless a process died; files and ledger agree with the
list unless a request was cut short or two deleted the same document; every change of
searchable rows has its bump still to come; answers respect scope always, and freshness
whenever the version could be read and Redis kept its data.

Do not hold (each is a finding in `PROJECT.json`, with the trace in its run):

1. *Double indexing.* Two overlapping ingests of one document leave both generations of
   rows: `_index_sections` promises to "swap the document's chunks in one transaction", but each
   DELETE sees only committed rows. `SingleGeneration` shows that this overlap is the only way.
2. *A move undone for the chunks.* `move_document` says "Its chunks move with it
   immediately"; a worker that read the row before writes the old collection to its new
   rows, so the document answers in the collection it left until the next re-index.
   `ChunksFollowDocument` shows that a marked move is the only way.
3. *Answers under version -1.* `cache_service.py` says "cached answers never outlive the
   documents they cite". With Redis refusing the version read but accepting the store, answers are kept under
   -1, and served to later queries in the same condition whatever has changed.

`Collections` holds its promises outside three overlaps, which `races` marks and nothing else can
replace (the properties are invariants in every other case):

* A document moved or uploaded into a collection after `delete_collection` counted it
  empty falls to General when the row goes, "visible to everyone", which the docstring of
  `delete_collection` says its rule avoids.
* Two edits of one access list, neither of which changes the row, each delete the rows
  they see: with different groups both lists are granted, where `group_ids` "replaces the access list".
* A key scoped to a collection is deleted with it. A query authenticated just before finds no
  key row in `resolve_scope` and is given what an unscoped key sees: General and every collection
  open to the tenant, where README.md says "Only that collection". The next request is refused. Even then the key is given
  nothing that was not open to the whole tenant since it was authenticated (`WithinOpen`).

The repository says two things of a scoped widget key. The comment at `models/api_key.py:19` has it "answer from this collection
(+ General)"; `services/access.py:6`, README.md:337 and the tests say only its collection, and that is what
`resolve_scope` does. `MaySee` and `ScopeWasVisible` follow the code: General is outside the scope of such a key.

The later modules hold theirs outside the cases their properties name:

* `SessionsEndTogether`: a refresh token alive at a reset, change or removal is dead after it, through every chain of
  rotations, unless the request that issued it had read its user before the sweep and committed after it. Such a
  token outlives the password it was obtained with.
* `OneSessionPerLogin`: two requests that rotate one token together (a double-clicked refresh) each get an heir;
  `refresh` reads the token without a lock. Nothing else forks a session.
* `OwnersStay`: no exemption.
* `NoOtherLockOut`: a workspace that requires SSO always has a domain. It may have no connection, where `delete_connection` says "never leave users
  locked out of a tenant with no IdP" (`sso.py:251`), in three ways, each reachable, and in no other:
  `set_domains` never looks at the connection and may require SSO where there is none; it may require SSO while a
  `delete_connection` that has read the switch as off is under way, and that request then writes nothing; and
  `delete_connection` may stop between Polis and its commit, with the connection gone and the switch still on. `delete_connection`
  on its own, and in any other overlap, keeps its word.
* `DirectoryMirrored`, `NothingBeyondDirectory`: once everything is answered, provided no later batch was posted before
  an earlier one was answered; events carry no order, so a late batch would be applied last. Accounts that people
  created, renamed or removed themselves are theirs. Repeated and half-applied batches do no harm.
  An administrator can put a person into the directory's group by hand: `add_member` does not look at its source, although `delete_group` refuses
  because the "group is managed by your identity provider" (`access.py:115-116`). Such a member stays, unknown to the directory,
  until it next says something of that person or deletes the group; for members not put in by hand the promise holds.
* `WindowBound`: a request whose pipeline runs late is counted at its stamp; among those that run when stamped no window holds more than
  the limit. Rejected requests count too, and the workspace's bucket is charged before the visitor's: a visitor over its own
  cap still uses up the workspace's window, which the comment at `rate_limiter.py:23-25` means to prevent.
* `UsageBounded`: limits are exceeded by what runs at a time and not more, plan changes included.
* `PlanIsPaid`: every event handled in order, one customer, one subscription. A late event is applied when it is handled;
  two checkouts can pay twice.
* `StreamedAsWhole`: for markers up to the held-back length. `AnswerOfOneProvider`: the text is always of one
  provider; the *reported* one is, unless another request was answered in between.
* `LabelCovered`: unless two runs of the document overlapped. Between the two commits of a deletion a ready page has no chunks. A deletion that
  dies or fails there leaves it so for good: the row is ready and its label current, so every sync skips it
  (`sync_task.py:134`) until somebody edits the page at Notion, or deletes the document again or asks to reingest it.
* `CatchesUp`: as long as syncs reach the page now and then, unless two runs overlapped, two syncs inserted the page twice, or a
  deletion broke off as above (`Hollow`).

Behaviour noticed on the way that no property states: an invitation can be used again until it expires
(`accept_invite` sets `accepted_at` on a row of a session that is closed, and it is not saved); the comment
at `sso.py:109` takes e-mail addresses for globally unique logins, the database makes (tenant, e-mail) unique, so after
two concurrent registrations of an address its look-up at sign-in finds two rows and fails.

Apart from these, the models document behaviour the code seems to accept: a process that dies
between a commit and `.delay`, or after taking a message, leaves a document pending or processing
until someone reingests it; two concurrent deletions both record the refund.

The ways to be locked out, the member added by hand, the comment on scoped keys and the page left without chunks are
disagreements too. They are stated as the exemptions of the properties that hold beside them, and proved to be the only
ones, rather than as runs of their own that end at the first violation.

## 5. Proofs

`IngestionProofs`, for every number of documents, collections, workers, requests,
messages, batches and retries, from `IngestionAssumption` only (uploads are documents,
General is a collection, the retry limit is a natural number):

* `TypeCorrect`: `Spec => []TypeOK`.
* `NoOrphans`: `Spec => []NoOrphanChunks`, with `TypeOK` alone: the foreign key at
  `CommitIndex`, the cascade at `DeleteRow`.
* `CollectionAgreement`: `Spec => []ChunksFollowDocument`. Not inductive: a worker's
  copy must agree with the row it will stamp on its chunks (`SnapshotsCurrent`), which
  needs that a row cannot appear under a copy (`NewUploads`: one request per new upload),
  that batches have unique ids (`UniqueIds`) and that a swap deletes only rows of its own
  document (`SwapsOwnRows`). `IInv` is their conjunction, checked by TLC in
  `ingestion_requests`.
* `LibraryRefinement`: `Spec => LibrarySpec`, by cases over the actions with `IInv`.

On top of `IInv`, from the same assumption, what a document's owner relies on. Each theorem says that the
property holds outside the races its definition names:

* `BumpsFollow`: `ChangesGetBumped`, inductive with `TypeOK`: who changes rows bumps next, or is lost.
* `ReadyMeansIndexed`: `ReadyIsIndexed`, inductive with `IInv`.
* `FilesKept`: `StoredWhileListed`. It needs that a deletion about to remove the row has removed the file
  (`BlobGone`): the object goes first, and only the upload of a document that has no row yet writes one.
* `RowsOfOneRun`: `SingleGeneration`. The strengthening (`OneRun`): until two runs of a document overlapped,
  the run between its DELETE and its commit is the only one there, and will remove all the rows there are (`SwapCovers`).
* `LedgerFollowsFiles`: `LedgerExact`, an equation between counts: the step that inserts or deletes a
  row leaves one request that will record it, and recording it removes that request from the count (`CountStep`, `LedgerStep`).

`AnswerCacheProofs`, for every number of rows, scopes, queries, changes, versions and entries and any set of
faults, from `CacheAssumption` and `ScopeAssumption`:

* `NarrowOnlyNarrows`: the collections a question names never widen what its caller sees.
* `CacheFreshness` and `CacheScoping`: the invariants `FreshAnswers` and
  `AnswersWithinScope`. The strengthening (`IInv`): what an entry, or a query still
  to store one, cites was not retired at the version in its key (`EntriesFresh`,
  `QueriesFresh`), retired rows never come back (`RetiredAreDead`), and an entry whose key
  has a scope's digest holds only rows that scope sees (`EntriesWithinScope`); that the
  digest decides the scope is the lemma `DigestDecides`, that the WHERE clause is `can_see` is
  `FilterIsCanSee`.

`CollectionsProofs`, for every number of collections, groups, users, keys, documents,
write requests and queries, from `CallersAssumption` (members, owners and keys are different callers)
and `ScopeAssumption`. All rest on `Shape` (types, and what a request holds at each point):

* `ReferencesHold`: `NothingDangles`, inductive with `Shape`: the cascades and the foreign keys
  at `UpdateCommit` and `PlaceCommit`.
* `DocumentsStay`: `OnlyEmptyDeleted`, with `DeletingEmpty`: a document found in a collection
  about to be deleted was put there after the count.
* `ListsHold`: `LastListHolds`, with `ReplacingAll`: an edit between its DELETE and its commit
  has the list to itself and saw every row of it, unless it is marked.
* `ScopesInSight`: `ScopeWasVisible`, with `SeesNow` (what a caller may see now is
  in `could`), `OpenNow` (what is open to the tenant now is in `open`) and `GoneKeysMarked`.
* `Inductive`: all of `IInv`, as the run checks it.

`MeteringProofs`, for every number of requests, slots, deliveries, plans and events and every limit, from
`BillingAssumption` (the free plan is not on sale) and `MeteringAssumption` (finitely many slots, at least one;
limits are natural numbers and a plan has some tokens; visitors' addresses are not names of buckets):

* `MeteringTypes`: `TypeOK`, with `KnownEvents` (a delivery handles an event that was emitted) and `Waiting` (a
  request at the limiter has a bucket left).
* `EventsOnce`: `EventsApplyOnce`, because what was applied is what is recorded (`AppliedIsProcessed`): both are of one
  transaction, and the insert of a recorded event fails.
* `UsageWithinPlans`: `UsageBounded`. The invariant (`Usage`) charges each request under way its cost in advance: the
  recorded sum and these stay below one plan the workspace had and the cost of all slots (`TokensCovered`,
  `StorageCovered`). A check that passes re-establishes it whatever was in flight.
* `RateHolds`: `WindowBound`. What a bucket let through and that is younger than the window is still in the sorted set,
  and the key lives as long as its members (`Kept`); hence any window ending now holds no more than was counted
  (`Admitted`), and windows that end earlier do not change. The limit a request carries is one
  of a plan the workspace had (`Rated`).

* `PlanFollowsPayments`: `PlanIsPaid`. The invariant (`Trail`) follows the word of Stripe from one end to the other: what is
  paid is what the last event that asks for a plan says (`PaidTold`), and the plan here is what the last recorded event
  says (`PlanTold`), where the recorded events are a prefix of all and a delivery under way is of the next (`InOrder`),
  as long as deliveries are in order; a customer is on record before anything is on offer (`CustomersKnown`).

`DirectorySyncProofs` and `DirectorySafetyProofs`, for every number of workspaces, addresses, seed accounts and
directory events, from `AccountsAssumption` (finitely many requests; rows are named by the request that inserts
them or are seeds; `None` is no row; every seed workspace has an active owner, as `create_tenant` and the seed
script leave it) and `DirectoryAssumption` (`None` is no domain row). All rest on `Good`: `TypeOK`, what a
request refers to exists and what it will insert does not (`Ready`), links belong to users (`LinksOwned`), and a batch lies within the
events the directory emitted (`PostsWithin`).

* `TypesCorrect`: `TypeOK`, which includes that the group here has only people of the workspace.
* `OwnersAlwaysStay`: `OwnersStay`. No handler turns a member into an owner or back, or deactivates an owner, not
  even one that looked at the role long before it commits (`KeepsUsers`, a fact about every step).
* `NoOtherWayOut`: `NoOtherLockOut`, in two halves. Of the domain (`DomainsGood`): a request that replaces the domains holds, from its DELETE on, the rows it
  removes, and nobody else does (`RowsHeld`, `RowsApart`); so one that saw the switch off, and will not
  write it, cannot take the last domain of a workspace that has switched it on since (`Secured`). Of the connection (`WayGood`): what
  has none and requires SSO is marked (`WayIn`), and a `delete_connection` that saw the switch off, where it is on now, will leave
  it on, so the workspace must have been marked when it was switched on (`Watched`).
* `RevocationEndsSessions`: `SessionsEndTogether`. A live token is of the user's current epoch or was issued by a request
  that overlapped the revocation (`CurrentOrLate`), because a request about to issue one has read in that epoch or
  is marked, and a revocation about to commit has selected all but the marked ones (`Fresh`).
* `RotationIsLinear`: `OneSessionPerLogin`, with `Roots`: no token descends from a request that has issued none.
* `DirectoryFollowed`: `DirectoryMirrored`, and `MembershipFollowed`: `NothingBeyondDirectory`. The properties speak of the
  moment when nothing is under way; the invariant (`Mirror`) speaks of every other. An event posted so far is ahead if the post
  under way or one still owed has yet to handle it (`Ahead`). When none of the user events of an address is ahead, the account follows the last of
  them (`Mirroring`); when none of the member events is, the last one added the person, later than every deletion of the
  group that is not ahead (`Membership`), for the members nobody put in by hand (`Followers`). A post that fails puts its events ahead again, the handled ones included, so a repeated
  batch may undo in between what its end restores. Posts in order are of one batch, the last (`InOrder`). Between
  the read and the write of a user event every request may change the row, and the webhook writes only a difference
  from what it read: for an account nobody has created, removed or renamed, what it read is still so (`ReadFresh`).

`AnsweringProofs`, for every number of requests and owners, every chain of providers and texts of any length, from
`AnsweringAssumption` (finitely many requests; brackets and the comma are no numbers; the configured chain
is a sequence of names; a visitor owns nothing):

* `TypeCorrect`: `TypeOK`, with `Keepers`. It includes that the chain of providers is never empty and never run off its end.
* `StreamIsTheAnswer`: `StreamedAsWhole`. At every delta the text so far has a cut before which no marker is still open, what
  was sent is the rewriting of the part before the cut, and what is held back is the rest (`Streamed`). Rewriting a text whose
  markers do not cross a cut is rewriting both parts. When the held part grows beyond `MaxPending` tokens it is let go, and only a marker
  longer than that is lost by it (`Short`).
* `OneProviderAnswers`: `AnswerOfOneProvider`. A provider that has produced a token is not replaced, so the text is of the one
  at hand (`AnswerGrows`).
* `ConversationsPrivate`: `TurnsKeptPrivate`. A conversation is named by the request that started it, which is over by then
  (`StartedOnce`), so it is not started twice with another owner, and what was loaded at the question still has that
  owner when the turn is kept.

`Rewrite` joins a sequence of pieces of any length, so facts about it need an induction over the text. The library's
induction theorems cannot be used, but its `WFMin` (a set with a well-founded order has a minimal element) can: what fails for
some length fails for a least one (`LeastNat`), and `FlattenDefined` shows that way that the recursive function inside
`FlattenSeq` exists.

`NotionSyncProofs`, for every number of workers, document ids, versions, retries and mishaps, from `NotionAssumption`:

* `LabelsCovered`: `LabelCovered`. A listing is not of the future (`ListedBefore`), so a text fetched after it is at least as new as its
  label, which the types of tasks and workers say (`Sent`, `Fetched`); and until two runs of a document
  overlapped, the one that replaces its rows finds rows and label as it loaded them, or gone by a deletion (`Undisturbed`). A document
  whose chunks a deletion took is between its commits or marked `torn` until an index run gives it rows again.

`Inductive` of `IngestionProofs`, of `AnswerCacheProofs` and of `CollectionsProofs` state the invariants named `IInv` there. The other inductive
invariants are defined in the proof modules; TLC found no violation of them on the instances of the runs before they were proved.

Every safety property a passing run checks is proved. Model-checked only: `Settles` and `CatchesUp`, because
liveness under fairness is beyond the prover; the three refuted properties are not theorems, of course.

## 6. Definitions named `Bug_`

A definition `Bug_X` stands before the definition it is a faulty variant of (a dropped
cascade, a commit too early, a key without the scope). No specification uses it; replacing
the real definition by it makes TLC refute the property named in `PROJECT.json`, which
shows that the property depends on that line of the code.

## 7. Plan

Proofs to add: that what a refuted property says does hold outside the race that refutes it, where no theorem says so yet;
which action properties the invariants already imply (an applied event stays applied, an ended session stays ended).

Models to add: a specification of the directory's own list of users that `DirectorySync` implements once batches are in order;
e-mail verification and the expiry of tokens, if something comes to depend on them.

## 8. Not modelled

* Parsers and chunking, URL and file checks: functions of their input, without state. Rank fusion and reranking: they order
  what is found and find nothing else (`Fused` has their union).
* A reingest of a Notion document by hand (`reingest_document`): there is no stored file, so it marks the document failed, which has
  the next sync that reaches the page fetch it again.
* HTTP clients of providers, Stripe, Polis and Notion: steps that succeed or fail.
* Row-level security: a policy enforced by Postgres.
* Endpoints that only read (lists, status, usage, compliance exports), feedback and widget settings: single transactions with no
  protocol; audit rows, names and titles beyond what a property reads.
* E-mail verification (`email_verified` is shown and gates nothing), the expiry of tokens, links and invitations, the 15 minutes for which
  an access token outlives its session, signatures of webhooks, the creation of a directory at Polis (nothing is stored here).
* The order of messages with equal `created_at`; the clock of the retention task; query logs and audit rows it deletes.
* The frontend.

## 9. Running

    tlc -workers 2 -config IngestionWorkers.cfg MCIngestion.tla
    tlapm IngestionProofs.tla

The other runs pair the configurations and modules named in `PROJECT.json`. Each takes at most
about three minutes.
